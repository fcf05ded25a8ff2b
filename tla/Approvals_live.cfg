SPECIFICATION FairSpec
CONSTANTS
  Handlers = {h1}
  Loop = loop
  Cli = {cli}
  MaxIds = 2
  MaxNow = 1
  TTL = 2
  Cap = 1
  MaxCrashes = 0
  MaxTorn = 1
  MaxUnaudited = 1
  NoWork = NoWork
PROPERTY ExpiryHappens
PROPERTY DecisionNotified
