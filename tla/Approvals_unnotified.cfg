SPECIFICATION Spec
CONSTANTS
  Handlers = {h1}
  Loop = loop
  Cli = {}
  MaxIds = 1
  MaxNow = 1
  TTL = 2
  Cap = 1
  MaxCrashes = 0
  MaxTorn = 0
  MaxUnaudited = 0
  NoWork = NoWork
INVARIANT ExpiredNotified
