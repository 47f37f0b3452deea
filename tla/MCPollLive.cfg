\* Two clients that may be killed, reset their connection or divide by zero, in
\* an array that grows once; memory that nobody wrote may read as POLLIN.  A
\* connection aborted in the accept queue stays there (Linux).
CONSTANTS
  Clients = {c1, c2}
  HeadSz = 1
  ReqSz = 1
  ResSz = 1
  Backlog = 1
  Trapping = {c2}
  MayVanish = {c1, c2}
  MayReset = {c1, c2}
  DropAborted = FALSE
  ListenFd = 3
  MaxFd = 5
  NoConn = NoConn
  FirstCap = 2
  DirtyHeap = TRUE
SPECIFICATION FairSpec
PROPERTIES
  ServedUnlessLost
  GoneClosed
\* The server may end, or wait for ever; the clients end then.
CHECK_DEADLOCK FALSE
