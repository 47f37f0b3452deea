\* Three well-behaved clients.
CONSTANTS
  Clients = {c1, c2, c3}
  HeadSz = 1
  ReqSz = 1
  ResSz = 1
  Backlog = 2
  Trapping = {}
  MayVanish = {}
  MayReset = {}
  DropAborted = FALSE
  ListenFd = 3
  MaxFd = 6
  NoConn = NoConn
  FirstCap = 2
  DirtyHeap = FALSE
SYMMETRY ClientSymmetry
SPECIFICATION Spec
INVARIANTS
  PollsOpen
