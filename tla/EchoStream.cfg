\* Three clients, one of which may be killed; a message that can arrive in
\* three parts, at either end.
CONSTANTS
  Clients = {c1, c2, c3}
  MsgLen = 3
  BufSz = 4
  Backlog = 1
  MayVanish = {c1}
  Demos = {"hello", "once", "loop", "call"}
  None = None
SPECIFICATION FairSpec
INVARIANTS
  TypeOK
  InBuffer
  EchoWhole
  DeathExplained
PROPERTIES
  AllServed
\* When every client has been served the server waits in accept().
CHECK_DEADLOCK FALSE
