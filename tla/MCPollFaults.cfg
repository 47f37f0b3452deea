\* Two descriptors for three clients, one of which divides by zero and one of
\* which may reset; the array grows once, and memory that nobody wrote may
\* read as POLLIN.
CONSTANTS
  Clients = {c1, c2, c3}
  HeadSz = 1
  ReqSz = 1
  ResSz = 1
  Backlog = 2
  Trapping = {c1}
  MayVanish = {}
  MayReset = {c3}
  DropAborted = FALSE
  ListenFd = 3
  MaxFd = 5
  NoConn = NoConn
  FirstCap = 2
  DirtyHeap = TRUE
SPECIFICATION Spec
INVARIANTS
  TypeOK
  ArrayInBounds
PROPERTIES
  ImplementsService
\* The server may end; the clients end then.
CHECK_DEADLOCK FALSE
