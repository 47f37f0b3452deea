\* Three connections, of which two can be open at a time, so that a descriptor
\* is used again and accept() can fail; and two threads, so that the limit
\* of threads can be met.
CONSTANTS
  Browsers = {c1, c2, c3}
  ListenBacklog = 1
  MaxFd = 2
  MaxThreads = 2
  NoConn = NoConn
SPECIFICATION WebFairSpec
INVARIANTS
  WebTypeOK
  ClosesNoEarlier
PROPERTIES
  ClosedUnlessOverlapped
\* When every connection has been accepted the server waits in accept().
CHECK_DEADLOCK FALSE
