----------------------------- MODULE SelectServer -----------------------------
(***************************************************************************)
(* The calculator server of chapter12/demo-01: one process, one thread,    *)
(* select() over the listening socket and every accepted connection, and a *)
(* scan of the descriptors select() reported that accepts, or handles one  *)
(* whole call with blocking reads and writes.                              *)
(*                                                                         *)
(* CalConn has the clients, the kernel and HandleIoEvent.                  *)
(***************************************************************************)
EXTENDS Descriptors

VARIABLES
  reads,   \* the descriptors to watch
  ready,   \* cpy_reads: the descriptors the last select() reported
  max_sfd, \* the largest descriptor select() looks at
  sfd,     \* the descriptor the scan has come to
  pc       \* where EventLoop is

loopVars == <<reads, ready, max_sfd, sfd, pc>>
vars == <<connVars, conn, loopVars>>

TypeOK ==
  /\ ConnTypeOK
  /\ FdTypeOK
  /\ reads \subseteq ListenFd .. MaxFd
  /\ ready \subseteq ListenFd .. MaxFd
  /\ max_sfd \in ListenFd .. MaxFd
  /\ sfd \in 0 .. MaxFd + 1
  /\ pc \in {"select", "scan", "handle", "dead"}

Init ==
  /\ ConnInit
  /\ FdInit
  /\ reads = {ListenFd}
  /\ ready = {}
  /\ max_sfd = ListenFd
  /\ sfd = 0
  /\ pc = "select"

\* Faulty variant of Selected: the watched set is scanned, not the reported one.
SelectedAll == {fd \in reads : fd <= max_sfd}

\* What select() finds: it looks at the descriptors up to max_sfd only.
Selected == {fd \in reads : fd <= max_sfd /\ FdReadable(fd)}

\* Faulty variant of Select: cpy_reads is not copied afresh from reads.
SelectStale ==
  /\ pc = "select"
  /\ Selected # {}
  /\ ready' = ready \cup Selected
  /\ sfd' = 0
  /\ pc' = "scan"
  /\ UNCHANGED <<connVars, conn, reads, max_sfd>>

Select ==
  /\ pc = "select"
  /\ Selected # {}
  /\ ready' = Selected
  /\ sfd' = 0
  /\ pc' = "scan"
  /\ UNCHANGED <<connVars, conn, reads, max_sfd>>

\* After five seconds select() returns 0, and the loop goes round.
SelectTimeout ==
  /\ pc = "select"
  /\ Selected = {}
  /\ UNCHANGED vars

\* The scan comes to fd: the descriptors it skips were not reported.
ComesTo(fd) ==
  /\ pc = "scan"
  /\ fd \in ready
  /\ sfd <= fd
  /\ fd <= max_sfd
  /\ \A g \in ready : sfd <= g => fd <= g

ScanEnds ==
  /\ pc = "scan"
  /\ \A fd \in ready : sfd <= fd => max_sfd < fd
  /\ pc' = "select"
  /\ UNCHANGED <<connVars, conn, reads, ready, max_sfd, sfd>>

\* Faulty variant of Accept: max_sfd follows the newest descriptor.
AcceptLowers ==
  /\ ComesTo(ListenFd)
  /\ \E fd \in FreeFds :
       /\ AcceptAs(fd)
       /\ reads' = reads \cup {fd}
       /\ max_sfd' = fd
  /\ sfd' = ListenFd + 1
  /\ UNCHANGED <<ready, pc>>

\* The new descriptor is watched from the next select() on.
Accept ==
  /\ ComesTo(ListenFd)
  /\ \E fd \in FreeFds :
       /\ AcceptAs(fd)
       /\ reads' = reads \cup {fd}
       /\ max_sfd' = IF fd > max_sfd THEN fd ELSE max_sfd
  /\ sfd' = ListenFd + 1
  /\ UNCHANGED <<ready, pc>>

\* EMFILE: accept() returns -1 and perr_handling exits.
AcceptFails ==
  /\ ComesTo(ListenFd)
  /\ FreeFds = {}
  /\ pc' = "dead"
  /\ ProcessEnds
  /\ UNCHANGED <<conn, reads, ready, max_sfd, sfd>>

HandleIo ==
  /\ \E fd \in ClientFds :
       /\ ComesTo(fd)
       /\ CallHandler(fd)
       /\ sfd' = fd
  /\ pc' = "handle"
  /\ UNCHANGED <<reads, ready, max_sfd>>

\* One step of HandleIoEvent, in the only thread there is.
HandlerMoves ==
  /\ pc = "handle"
  /\ HandlerStep(conn[sfd])
  /\ UNCHANGED <<conn, loopVars>>

\* Faulty variant of FinishIo: max_sfd is lowered whatever was closed.
FinishIoLowers ==
  /\ pc = "handle"
  /\ CloseFd(sfd)
  /\ reads' = reads \ {sfd}
  /\ max_sfd' = max_sfd - 1
  /\ sfd' = sfd + 1
  /\ pc' = "scan"
  /\ UNCHANGED ready

\* HandleIoEvent has returned: close, FD_CLR, and max_sfd one lower when the
\* largest descriptor was closed.
FinishIo ==
  /\ pc = "handle"
  /\ CloseFd(sfd)
  /\ reads' = reads \ {sfd}
  /\ max_sfd' = IF max_sfd = sfd THEN max_sfd - 1 ELSE max_sfd
  /\ sfd' = sfd + 1
  /\ pc' = "scan"
  /\ UNCHANGED ready

\* An exception, SIGFPE or SIGPIPE in the handler ends the whole server.
Die ==
  /\ pc = "handle"
  /\ Dies(conn[sfd])
  /\ pc' = "dead"
  /\ ProcessEnds
  /\ UNCHANGED <<conn, reads, ready, max_sfd, sfd>>

ServerStep ==
  \/ Select
  \/ ScanEnds
  \/ Accept
  \/ AcceptFails
  \/ HandleIo
  \/ HandlerMoves
  \/ FinishIo
  \/ Die

Environment(c) == (ClientStep(c) \/ NetStep(c)) /\ UNCHANGED <<conn, loopVars>>

Next ==
  \/ ServerStep
  \/ SelectTimeout
  \/ \E c \in Clients : Environment(c)

Spec == Init /\ [][Next]_vars

\* The scheduler runs the server while it can run, the network delivers, and
\* a client process goes on by itself except where it waits for its user
\* (Connect, SendHead) or is made to fail.
ClientRuns(c) ==
  /\ \/ SendBody(c)
     \/ RecvHead(c)
     \/ RecvBody(c)
     \/ RecvShort(c)
  /\ UNCHANGED <<conn, loopVars>>

Delivers(c) == Deliver(c) /\ UNCHANGED <<conn, loopVars>>

FairSpec ==
  /\ Spec
  /\ WF_vars(ServerStep)
  /\ \A c \in Clients : WF_vars(ClientRuns(c)) /\ WF_vars(Delivers(c))

-----------------------------------------------------------------------------
(* Properties *)

\* While the server runs, select() watches the listening socket and exactly
\* the open connections, each through one descriptor not above max_sfd.
\* FD_SET, FD_CLR and the update of max_sfd after an accept and after a close
\* keep it so, whatever the order of the descriptors they are given.
WatchesOpen ==
  up =>
    LET watched == {fd \in reads : fd <= max_sfd} \ {ListenFd}
    IN /\ ListenFd \in reads
       /\ \A fd \in watched : conn[fd] \in Clients /\ srvEnd[conn[fd]] = "open"
       /\ \A c \in Clients :
            srvEnd[c] = "open" => \E fd \in watched : conn[fd] = c
       /\ \A fd, g \in watched : conn[fd] = conn[g] => fd = g

\* What select() reported is still so when the scan comes to it, although
\* other calls were handled, other connections accepted and closed and
\* max_sfd lowered in between.  (A connection aborted in the accept queue
\* breaks this for the listening socket, but never for a
\* connection: ScanConnReady.)
ScanReady ==
  pc = "scan" =>
    \A fd \in ready : sfd <= fd => fd <= max_sfd /\ FdReadable(fd)

\* The part of ScanReady that is about accepted connections.
ScanConnReady ==
  pc = "scan" =>
    \A fd \in ready \ {ListenFd} : sfd <= fd => fd <= max_sfd /\ FdReadable(fd)

\* The server never waits for a user.  The handler may block in a read, since
\* header and body of a request are two writes, but only on a client that has
\* begun to send: accepted connections whose users type nothing hold up nobody,
\* which is what this server has over the iterative one.
NeverHoldsIdle == pc = "handle" => cpc[conn[sfd]] # "typing"

\* The process ends only because of a division by zero somebody asked for, a
\* client that went away in the middle of its call, or the descriptor limit.
DeathExplained ==
  ~ up => \/ \E c \in Trapping : req[c] = "whole"
          \/ \E c \in Clients : cpc[c] = "gone"
          \/ FreeFds = {}

\* A client whose user has entered the request gets its own result, although
\* other users never enter theirs and calls are handled one after another:
\* unless it goes away itself or the process ends.
SenderServed ==
  \A c \in Clients :
    cpc[c] = "sendBody" ~> (shown[c] = "own" \/ cpc[c] = "gone" \/ ~ up)

\* The server closes the connection of a client that has gone away, whatever
\* state that client left it in and whoever comes after it.
GoneClosed ==
  \A c \in MayVanish \cup MayReset :
    cpc[c] = "gone" /\ srvEnd[c] \in {"pending", "open"} ~> srvEnd[c] = "closed"
=============================================================================
