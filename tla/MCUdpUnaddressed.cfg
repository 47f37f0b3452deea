\* Two clients, a network that does nothing to their datagrams, and a length of
\* the address that may hold anything.
CONSTANTS
  c1 = c1
  Clients = {c1, c2}
  ReqSz <- MCReqSz
  ResSz <- MCResSz
  JunkSzs = {4}
  Trapping = {}
  MayVanish = {}
  Faults = {}
  MaxFaults = 0
  AddrLens = {TRUE, FALSE}
  Junk = Junk
  None = None
SPECIFICATION FairSpec
PROPERTIES
  AnsweredUnlessMixed
\* The server waits in recvfrom() when everyone is served, or out of step.
CHECK_DEADLOCK FALSE
