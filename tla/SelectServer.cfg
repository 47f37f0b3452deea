\* Two descriptors for three clients, one of which divides by zero and one of
\* which may vanish or reset its connection, also in the accept queue, where the
\* connection stays (Linux).  Users may take for ever to type.
CONSTANTS
  Clients = {c1, c2, c3}
  HeadSz = 1
  ReqSz = 1
  ResSz = 1
  Backlog = 1
  Trapping = {c1}
  MayVanish = {c2}
  MayReset = {c2}
  DropAborted = FALSE
  ListenFd = 3
  MaxFd = 5
  NoConn = NoConn
SPECIFICATION FairSpec
INVARIANTS
  TypeOK
  WatchesOpen
  ScanReady
  NeverHoldsIdle
  LostOnlyByCrash
  DeathExplained
PROPERTIES
  ImplementsService
  SenderServed
  GoneClosed
\* The server may end; the clients end then.
CHECK_DEADLOCK FALSE
