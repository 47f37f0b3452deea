\* Two well-behaved clients.
CONSTANTS
  Clients = {c1, c2}
  HeadSz = 1
  ReqSz = 1
  ResSz = 1
  Backlog = 1
  Trapping = {}
  MayVanish = {}
  MayReset = {}
  DropAborted = FALSE
  MaxChildren = 2
  None = None
SYMMETRY ClientSymmetry
SPECIFICATION Spec
INVARIANTS
  NoZombies
\* When every client has ended the parent waits in accept().
CHECK_DEADLOCK FALSE
