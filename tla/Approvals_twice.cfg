SPECIFICATION Spec
CONSTANTS
  Handlers = {h1}
  Loop = loop
  Cli = {cli}
  MaxIds = 2
  MaxNow = 2
  TTL = 2
  Cap = 1
  MaxCrashes = 0
  MaxTorn = 0
  MaxUnaudited = 0
  NoWork = NoWork
PROPERTY OutcomeFinal
