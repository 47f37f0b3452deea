\* The server of chapter05, without SO_REUSEADDR: it can be stopped at any time
\* and is started three times at most, which is enough for a start that is
\* refused between two that are not.  Two clients whose users may take for ever
\* to type: the request of one divides by zero, the other may vanish or reset,
\* or be served by any process.  Header and request can arrive in parts.
CONSTANTS
  Clients = {c1, c2}
  HeadSz = 2
  ReqSz = 2
  ResSz = 1
  Backlog = 1
  Trapping = {c1}
  MayVanish = {c2}
  MayReset = {c2}
  DropAborted = TRUE
  None = None
  ReuseAddr = FALSE
  MaxStarts = 3
SPECIFICATION FairSpec
INVARIANTS
  TypeOK
  DeathExplained
  ClosedInFull
PROPERTIES
  ImplementsService
  ServedUnlessHeld
\* When every client has been served the server waits in accept().
CHECK_DEADLOCK FALSE
