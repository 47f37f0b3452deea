\* Processes for two of three clients, whose users may take for ever to type;
\* one divides by zero and one may be killed.
CONSTANTS
  Clients = {c1, c2, c3}
  HeadSz = 1
  ReqSz = 1
  ResSz = 1
  Backlog = 1
  Trapping = {c1}
  MayVanish = {c2}
  MayReset = {}
  DropAborted = FALSE
  MaxChildren = 2
  None = None
SPECIFICATION FairSpec
INVARIANTS
  TypeOK
  OpenWhileHandled
  DropExplained
  SignalsCounted
PROPERTIES
  ImplementsService
  SenderServed
\* When every client has ended the parent waits in accept().
CHECK_DEADLOCK FALSE
