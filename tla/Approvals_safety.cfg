SPECIFICATION Spec
CONSTANTS
  Handlers = {h1, h2}
  Loop = loop
  Cli = {}
  MaxIds = 2
  MaxNow = 2
  TTL = 1
  Cap = 1
  MaxCrashes = 1
  MaxTorn = 0
  MaxUnaudited = 1
  NoWork = NoWork
SYMMETRY Symmetry
INVARIANT NothingLost
INVARIANT NotifiedOnce
INVARIANT LateNeverDecided
PROPERTY OutcomeFinal
PROPERTY LedgerSpec
