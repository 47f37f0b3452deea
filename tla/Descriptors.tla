------------------------------ MODULE Descriptors ------------------------------
(***************************************************************************)
(* The descriptor table of a server process that holds several connections *)
(* at once: which connection each descriptor stands for, and how accept()  *)
(* and close() change it.                                                  *)
(***************************************************************************)
EXTENDS CalConn

CONSTANTS
  ListenFd, \* listen_sfd_, the first descriptor the process opens
  MaxFd,    \* the largest descriptor the process may have (RLIMIT_NOFILE)
  NoConn    \* a descriptor that is not open

ASSUME FdAssumption ==
  /\ ListenFd \in Nat
  /\ MaxFd \in Nat
  /\ ListenFd < MaxFd
  /\ NoConn \notin Clients

VARIABLE conn \* the connection of each descriptor

ClientFds == ListenFd + 1 .. MaxFd

FdTypeOK == conn \in [ClientFds -> Clients \cup {NoConn}]

FdInit == conn = [fd \in ClientFds |-> NoConn]

IsOpen(fd) == fd \in ClientFds /\ conn[fd] # NoConn

FreeFds == {fd \in ClientFds : conn[fd] = NoConn}

\* accept() takes the first connection off the queue and gives it fd, the
\* lowest free descriptor.  With an empty queue it blocks: the listening
\* socket is a blocking one.
AcceptAs(fd) ==
  /\ pending # <<>>
  /\ fd \in FreeFds
  /\ \A g \in FreeFds : fd <= g
  /\ conn' = [conn EXCEPT ![fd] = Head(pending)]
  /\ pending' = Tail(pending)
  /\ srvEnd' = [srvEnd EXCEPT ![Head(pending)] = "open"]
  /\ UNCHANGED <<serverVars, clientVars, netVars, handlerVars>>

\* HandleIoEvent(fd) is called.
CallHandler(fd) ==
  /\ IsOpen(fd)
  /\ hpc' = [hpc EXCEPT ![conn[fd]] = "recvHead"]
  /\ UNCHANGED <<serverVars, pending, clientVars, netVars, srvEnd, taken, req, reply, put, conn>>

\* HandleIoEvent(fd) has returned, and the loop calls close(fd).
CloseFd(fd) ==
  /\ IsOpen(fd)
  /\ hpc[conn[fd]] = "close"
  /\ hpc' = [hpc EXCEPT ![conn[fd]] = "closed"]
  /\ srvEnd' = [srvEnd EXCEPT ![conn[fd]] = "closed"]
  /\ conn' = [conn EXCEPT ![fd] = NoConn]
  /\ UNCHANGED <<serverVars, pending, clientVars, netVars, taken, req, reply, put>>

\* The kernel reports input: accept() or read() has something to return.
FdReadable(fd) ==
  IF fd = ListenFd
  THEN pending # <<>>
  ELSE IsOpen(fd) /\ Readable(conn[fd])
=============================================================================
