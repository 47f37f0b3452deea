\* Two clients, one of which may be killed in its call or divides by zero; the
\* network does two things, of any kind; the address may not be stored.
CONSTANTS
  c1 = c1
  Clients = {c1, c2}
  ReqSz <- MCReqSz
  ResSz <- MCResSz
  JunkSzs = {4}
  Trapping = {c2}
  MayVanish = {c2}
  Faults = {"lose", "duplicate", "reorder"}
  MaxFaults = 2
  AddrLens = {TRUE, FALSE}
  Junk = Junk
  None = None
SPECIFICATION FairSpec
INVARIANTS
  TypeOK
  MixExplained
PROPERTIES
  SenderServed
\* The server waits in recvfrom() when everyone is served, or out of step.
CHECK_DEADLOCK FALSE
