-------------------------- MODULE SelectServerProofs --------------------------
(***************************************************************************)
(* Theorems about SelectServer, for any number of clients and descriptors, *)
(* any sizes of header and bodies, and whatever the clients and the        *)
(* network do.                                                             *)
(***************************************************************************)
EXTENDS SelectServer, CalConnProofs

USE DEF serverVars

\* The loop runs as long as the process does.
AliveOK ==
  /\ up <=> pc # "dead"
  /\ dropped = IF up THEN {} ELSE Clients

\* The watched descriptors are the open ones, and select() looks at them all.
WatchOK ==
  /\ reads = {ListenFd} \cup (ClientFds \ FreeFds)
  /\ \A fd \in reads : fd <= max_sfd

\* The handler runs for an open connection.
HandlingOK == pc = "handle" => IsOpen(sfd)

\* The inductive invariant behind WatchesOpen.
WatchInv ==
  /\ TypeOK
  /\ QueueOK
  /\ AliveOK
  /\ up => TableOK /\ WatchOK
  /\ HandlingOK

\* The listening socket has the lowest descriptor and is none of the clients'.
LEMMA FdFacts ==
  /\ ListenFd \in Int /\ MaxFd \in Int /\ ListenFd >= 0 /\ ListenFd < MaxFd
  /\ ClientFds = ListenFd + 1 .. MaxFd
  /\ ListenFd \notin ClientFds
  BY FdAssumption DEF ClientFds

\* The invariant holds when the loop starts.
LEMMA WatchInit == Init => WatchInv
<1> SUFFICES ASSUME Init PROVE WatchInv
  OBVIOUS
<1>1. ConnTypeOK /\ QueueOK
  BY ConnInitType, ConnInitQueue DEF Init
<1>2. FdTypeOK /\ TableOK
  BY InitTable DEF Init
<1>3. TypeOK
  BY <1>1, <1>2, FdFacts DEF Init, TypeOK
<1>4. WatchOK
  BY FdFacts DEF Init, WatchOK, FreeFds, FdInit
<1> QED BY <1>1, <1>2, <1>3, <1>4 DEF WatchInv, AliveOK, HandlingOK, Init, ConnInit

\* The clients and the kernel keep it: they change nothing of the loop's, nor
\* which connections are accepted.
LEMMA WatchEnvironment ==
  ASSUME NEW c \in Clients, WatchInv, Environment(c)
  PROVE  WatchInv'
<1>1. ConnTypeOK /\ FdTypeOK
  BY DEF WatchInv, TypeOK
<1>2. ConnTypeOK' /\ QueueOK' /\ (TableOK => TableOK')
  BY <1>1, ClientStepType, NetStepType, ClientStepQueue, NetStepQueue,
     ClientStepTable, NetStepTable DEF WatchInv, Environment
<1>3. UNCHANGED <<up, dropped>>
  BY DEF Environment, ClientStep, Connect, ConnectRefused, SendHead, SendBody, RecvHead,
         RecvBody, RecvShort, NetStep, Deliver, Vanish, Reset, PeerReset
<1>4. UNCHANGED <<conn, reads, ready, max_sfd, sfd, pc>>
  BY DEF Environment, loopVars
<1> QED
  BY <1>1, <1>2, <1>3, <1>4
  DEF WatchInv, TypeOK, FdTypeOK, AliveOK, WatchOK, HandlingOK, FreeFds, IsOpen

\* The end of the process keeps it.
LEMMA WatchEnds ==
  ASSUME WatchInv, ProcessEnds, pc' = "dead",
         UNCHANGED <<conn, reads, ready, max_sfd, sfd>>
  PROVE  WatchInv'
<1>1. ConnTypeOK' /\ QueueOK'
  BY ProcessEndsType, ProcessEndsQueue DEF WatchInv, TypeOK
<1> QED BY <1>1 DEF WatchInv, TypeOK, FdTypeOK, AliveOK, HandlingOK, ProcessEnds

\* accept() adds the lowest free descriptor and raises max_sfd to it.
LEMMA WatchAccept ==
  ASSUME WatchInv, Accept
  PROVE  WatchInv'
<1>1. PICK fd \in FreeFds :
        /\ AcceptAs(fd)
        /\ reads' = reads \cup {fd}
        /\ max_sfd' = IF fd > max_sfd THEN fd ELSE max_sfd
  BY DEF Accept
<1>2. fd \in ClientFds
  BY DEF FreeFds
<1>3. pc = "scan" /\ up /\ TableOK /\ WatchOK
  BY DEF WatchInv, AliveOK, Accept, ComesTo
<1>4. /\ ConnTypeOK' /\ FdTypeOK' /\ QueueOK' /\ TableOK'
      /\ conn[fd] = NoConn /\ conn'[fd] # NoConn
  BY <1>1, <1>2, <1>3, AcceptAsKeeps DEF WatchInv, TypeOK
<1>5. UNCHANGED <<ready, pc, up, dropped>> /\ sfd' = ListenFd + 1
  BY <1>1 DEF Accept, AcceptAs
<1>6. max_sfd' \in ListenFd .. MaxFd /\ max_sfd <= max_sfd' /\ fd <= max_sfd'
  BY <1>1, <1>2, FdFacts DEF WatchInv, TypeOK
<1>7. TypeOK'
  <2>1. reads' \subseteq ListenFd .. MaxFd
    BY <1>1, <1>2, FdFacts DEF WatchInv, TypeOK
  <2>2. sfd' \in 0 .. MaxFd + 1
    BY <1>5, FdFacts
  <2> QED BY <1>4, <1>5, <1>6, <2>1, <2>2 DEF WatchInv, TypeOK
<1>8. WatchOK'
  <2>1. FreeFds' = FreeFds \ {fd}
    BY <1>1, <1>2, <1>4 DEF FreeFds, AcceptAs, FdTypeOK, WatchInv, TypeOK
  <2>2. reads' = {ListenFd} \cup (ClientFds \ FreeFds')
    BY <1>1, <1>2, <1>3, <2>1 DEF WatchOK
  <2>3. \A g \in reads' : g <= max_sfd'
    BY <1>1, <1>2, <1>3, <1>6, FdFacts DEF WatchOK, WatchInv, TypeOK
  <2> QED BY <2>2, <2>3 DEF WatchOK
<1> QED BY <1>3, <1>4, <1>5, <1>7, <1>8 DEF WatchInv, AliveOK, HandlingOK

\* close() removes a descriptor; max_sfd is lowered only past it.
LEMMA WatchFinish ==
  ASSUME WatchInv, FinishIo
  PROVE  WatchInv'
<1>1. /\ pc = "handle" /\ CloseFd(sfd)
      /\ reads' = reads \ {sfd}
      /\ max_sfd' = IF max_sfd = sfd THEN max_sfd - 1 ELSE max_sfd
      /\ sfd' = sfd + 1 /\ pc' = "scan" /\ ready' = ready
  BY DEF FinishIo
<1>2. sfd \in ClientFds
  BY <1>1 DEF CloseFd, IsOpen
<1>3. up /\ TableOK /\ WatchOK
  BY <1>1 DEF WatchInv, AliveOK
<1>4. ConnTypeOK' /\ FdTypeOK' /\ QueueOK' /\ TableOK'
  BY <1>1, <1>2, <1>3, CloseKeeps DEF WatchInv, TypeOK
<1>5. TypeOK'
  BY <1>1, <1>2, <1>4, FdFacts DEF WatchInv, TypeOK
<1>6. WatchOK'
  <2>1. FreeFds' = FreeFds \cup {sfd}
    BY <1>1, <1>2 DEF FreeFds, CloseFd, FdTypeOK, WatchInv, TypeOK
  <2>2. reads' = {ListenFd} \cup (ClientFds \ FreeFds')
    BY <1>1, <1>2, <1>3, <2>1, FdFacts DEF WatchOK
  <2>3. ASSUME NEW g \in reads'
        PROVE  g <= max_sfd'
    <3>1. g \in Int /\ g <= max_sfd /\ g # sfd /\ max_sfd \in Int
      BY <1>1, <1>3, FdFacts DEF WatchOK, WatchInv, TypeOK
    <3> QED BY <1>1, <3>1
  <2> QED BY <2>2, <2>3 DEF WatchOK
<1>7. UNCHANGED <<up, dropped>>
  BY <1>1 DEF CloseFd
<1> QED BY <1>1, <1>3, <1>4, <1>5, <1>6, <1>7 DEF WatchInv, AliveOK, HandlingOK

\* Every step keeps the invariant.
LEMMA WatchNext == WatchInv /\ [Next]_vars => WatchInv'
<1> SUFFICES ASSUME WatchInv, [Next]_vars PROVE WatchInv'
  OBVIOUS
<1>1. CASE Select
  <2>1. Selected \subseteq ListenFd .. MaxFd
    BY DEF Selected, WatchInv, TypeOK
  <2>2. /\ ready' = Selected /\ sfd' = 0 /\ pc' = "scan"
        /\ UNCHANGED <<conn, reads, max_sfd, connVars>>
    BY <1>1 DEF Select
  <2>3. TypeOK'
    <3>1. 0 \in 0 .. MaxFd + 1
      BY FdFacts
    <3> QED
      BY <2>1, <2>2, <3>1
      DEF WatchInv, TypeOK, ConnTypeOK, FdTypeOK, connVars, clientVars, netVars, handlerVars
  <2>4. /\ QueueOK' /\ AliveOK'
    BY <1>1, <2>2 DEF Select, WatchInv, QueueOK, AliveOK, connVars, clientVars
  <2>5. up => (TableOK /\ WatchOK)'
    BY <2>2 DEF WatchInv, TableOK, WatchOK, FreeFds, connVars
  <2> QED BY <2>2, <2>3, <2>4, <2>5 DEF WatchInv, HandlingOK, connVars
<1>2. CASE ScanEnds
  BY <1>2
  DEF ScanEnds, WatchInv, TypeOK, ConnTypeOK, FdTypeOK, QueueOK, AliveOK, TableOK, WatchOK,
      HandlingOK, FreeFds, IsOpen, connVars, clientVars, netVars, handlerVars
<1>3. CASE Accept
  BY <1>3, WatchAccept
<1>4. CASE AcceptFails
  BY <1>4, WatchEnds DEF AcceptFails
<1>5. CASE HandleIo
  <2>1. PICK fd \in ClientFds : ComesTo(fd) /\ CallHandler(fd) /\ sfd' = fd
    BY <1>5 DEF HandleIo
  <2>2. up /\ TableOK /\ WatchOK
    BY <2>1 DEF WatchInv, AliveOK, ComesTo
  <2>3. ConnTypeOK' /\ FdTypeOK' /\ QueueOK' /\ TableOK'
    BY <2>1, <2>2, CallHandlerKeeps DEF WatchInv, TypeOK
  <2>4. UNCHANGED <<up, dropped, conn, reads, ready, max_sfd>> /\ pc' = "handle" /\ IsOpen(fd)
    BY <1>5, <2>1 DEF HandleIo, CallHandler
  <2> QED
    BY <2>1, <2>2, <2>3, <2>4, FdFacts
    DEF WatchInv, TypeOK, AliveOK, WatchOK, HandlingOK, FreeFds, IsOpen
<1>6. CASE HandlerMoves
  <2>1. conn[sfd] \in Clients /\ up /\ TableOK /\ WatchOK
    BY <1>6 DEF HandlerMoves, WatchInv, HandlingOK, AliveOK, IsOpen, TypeOK, FdTypeOK
  <2>2. HandlerStep(conn[sfd]) /\ UNCHANGED <<conn, reads, ready, max_sfd, sfd, pc>>
    BY <1>6 DEF HandlerMoves, loopVars
  <2>3. ConnTypeOK' /\ QueueOK' /\ TableOK'
    BY <2>1, <2>2, HandlerStepType, HandlerStepQueue, HandlerStepTable DEF WatchInv, TypeOK
  <2>4. UNCHANGED <<up, dropped>>
    BY <2>2 DEF HandlerStep, ReadHead, ReadBody, ReadShort, DoCal, WriteHead, WriteBody
  <2> QED
    BY <2>1, <2>2, <2>3, <2>4
    DEF WatchInv, TypeOK, FdTypeOK, AliveOK, WatchOK, HandlingOK, FreeFds, IsOpen
<1>7. CASE FinishIo
  BY <1>7, WatchFinish
<1>8. CASE Die
  BY <1>8, WatchEnds DEF Die
<1>9. CASE \E c \in Clients : Environment(c)
  BY <1>9, WatchEnvironment
<1>10. CASE UNCHANGED vars
  BY <1>10
  DEF vars, loopVars, WatchInv, TypeOK, ConnTypeOK, FdTypeOK, QueueOK, AliveOK, TableOK,
      WatchOK, HandlingOK, FreeFds, IsOpen, connVars, clientVars, netVars, handlerVars
<1> QED
  BY <1>1, <1>2, <1>3, <1>4, <1>5, <1>6, <1>7, <1>8, <1>9, <1>10
  DEF Next, ServerStep, SelectTimeout

\* The invariant says what WatchesOpen says.
LEMMA WatchImplies == WatchInv => WatchesOpen
<1> SUFFICES ASSUME WatchInv, up PROVE WatchesOpen
  BY DEF WatchesOpen
<1>1. TableOK /\ WatchOK
  BY DEF WatchInv
<1> DEFINE watched == {fd \in reads : fd <= max_sfd} \ {ListenFd}
<1>2. watched = ClientFds \ FreeFds
  BY <1>1, FdFacts DEF WatchOK
<1>3. \A fd \in watched : conn[fd] # NoConn /\ conn[fd] \in Clients /\ fd \in ClientFds
  BY <1>2 DEF FreeFds, WatchInv, TypeOK, FdTypeOK
<1>4. \A c \in Clients : srvEnd[c] = "open" => \E fd \in watched : conn[fd] = c
  BY <1>1, <1>2, FdAssumption DEF TableOK, FreeFds
<1>5. ListenFd \in reads
  BY <1>1 DEF WatchOK
<1> HIDE DEF watched
<1>6. /\ \A fd \in watched : srvEnd[conn[fd]] = "open"
      /\ \A fd, g \in watched : conn[fd] = conn[g] => fd = g
  BY <1>1, <1>3 DEF TableOK
<1> QED BY <1>3, <1>4, <1>5, <1>6 DEF WatchesOpen, watched

\* The types hold in every state.
THEOREM TypeCorrect == Spec => []TypeOK
<1>1. WatchInv => TypeOK
  BY DEF WatchInv
<1> QED BY <1>1, WatchInit, WatchNext, PTL DEF Spec

\* In every state in which the server runs, select() is asked for the
\* listening socket and for exactly the open connections: the updates of
\* reads and max_sfd lose no connection and keep no closed descriptor.
THEOREM WatchesOpenAlways == Spec => []WatchesOpen
  BY WatchInit, WatchNext, WatchImplies, PTL DEF Spec

-----------------------------------------------------------------------------
(* The scan *)

\* The connections the scan has still to come to are open, can be read and
\* are within its reach; while one is handled, those above it.
ConnsDue ==
  pc \in {"scan", "handle"} =>
    \A fd \in ready \ {ListenFd} :
      sfd < fd \/ (pc = "scan" /\ sfd = fd)
        => IsOpen(fd) /\ fd <= max_sfd /\ Readable(conn[fd])

\* The listening socket has a connection to accept when the scan comes to it.
AcceptDue ==
  pc = "scan" /\ ListenFd \in ready /\ sfd <= ListenFd /\ ~ DropAborted
    => pending # <<>>

ScanInv == WatchInv /\ ConnsDue /\ AcceptDue

\* The invariant about the scan holds when the loop starts.
LEMMA ScanInit == Init => ScanInv
  BY WatchInit DEF Init, ScanInv, ConnsDue, AcceptDue

\* A connection found readable stays readable, whatever clients and network do.
LEMMA ConnsEnvironment ==
  ASSUME NEW c \in Clients, ScanInv, Environment(c)
  PROVE  ConnsDue'
<1>1. UNCHANGED <<conn, ready, max_sfd, sfd, pc>> /\ (ClientStep(c) \/ NetStep(c))
  BY DEF Environment, loopVars
<1>2. \A d \in Clients : Readable(d) => Readable(d)'
  BY <1>1, ReadableStable DEF ScanInv, WatchInv, TypeOK
<1>3. \A fd \in ClientFds : IsOpen(fd) => conn[fd] \in Clients
  BY DEF IsOpen, ScanInv, WatchInv, TypeOK, FdTypeOK
<1> SUFFICES ASSUME pc \in {"scan", "handle"}, NEW fd \in ready \ {ListenFd},
                    sfd < fd \/ (pc = "scan" /\ sfd = fd)
             PROVE  IsOpen(fd) /\ fd <= max_sfd /\ Readable(conn[fd])'
  BY <1>1 DEF ConnsDue, IsOpen
<1>4. IsOpen(fd) /\ fd <= max_sfd /\ Readable(conn[fd])
  BY DEF ScanInv, ConnsDue
<1>5. conn[fd] \in Clients /\ conn'[fd] = conn[fd]
  BY <1>1, <1>3, <1>4 DEF IsOpen
<1>6. Readable(conn[fd])'
  BY <1>1, <1>2, <1>4, <1>5 DEF Readable, Eof
<1> QED BY <1>4, <1>6

\* Every step keeps the connections the scan has still to come to readable and
\* below max_sfd.
LEMMA ConnsNext ==
  ASSUME ScanInv, [Next]_vars
  PROVE  ConnsDue'
<1>1. CASE Select
  <2>1. /\ ready' = Selected /\ sfd' = 0 /\ pc' = "scan"
        /\ UNCHANGED <<connVars, conn, max_sfd>>
    BY <1>1 DEF Select
  <2>2. \A fd \in Selected \ {ListenFd} :
          IsOpen(fd) /\ fd <= max_sfd /\ Readable(conn[fd])
    BY DEF Selected, FdReadable
  <2> QED
    BY <2>1, <2>2
    DEF ConnsDue, IsOpen, Readable, Eof, connVars, clientVars, netVars, handlerVars
<1>2. CASE ScanEnds
  BY <1>2 DEF ScanEnds, ConnsDue
<1>3. CASE Accept
  <2>1. PICK new \in FreeFds : AcceptAs(new)
    BY <1>3 DEF Accept
  <2>2. /\ new \in ClientFds /\ conn[new] = NoConn
        /\ conn' = [conn EXCEPT ![new] = Head(pending)]
        /\ UNCHANGED <<clientVars, netVars, taken>>
    BY <2>1 DEF AcceptAs, FreeFds, handlerVars
  <2>3. /\ pc = "scan" /\ pc' = "scan" /\ ready' = ready
        /\ sfd' = ListenFd + 1 /\ sfd <= ListenFd /\ max_sfd <= max_sfd'
    BY <1>3, <2>1, FdFacts
    DEF Accept, ComesTo, ScanInv, WatchInv, TypeOK, FreeFds
  <2>4. ASSUME NEW fd \in ready \ {ListenFd}, sfd' < fd \/ sfd' = fd
        PROVE  IsOpen(fd)' /\ fd <= max_sfd' /\ Readable(conn[fd])'
    <3>1. fd \in Int /\ sfd < fd /\ max_sfd \in Int /\ max_sfd' \in Int
      BY <1>3, <2>1, <2>3, <2>4, FdFacts
      DEF Accept, ScanInv, WatchInv, TypeOK, FreeFds
    <3>2. IsOpen(fd) /\ fd <= max_sfd /\ Readable(conn[fd])
      BY <2>3, <3>1 DEF ScanInv, ConnsDue
    <3>3. conn'[fd] = conn[fd]
      BY <2>2, <3>2 DEF IsOpen, ScanInv, WatchInv, TypeOK, FdTypeOK
    <3> QED
      BY <2>2, <2>3, <3>1, <3>2, <3>3 DEF IsOpen, Readable, Eof, clientVars, netVars
  <2> QED BY <2>3, <2>4 DEF ConnsDue
<1>4. CASE AcceptFails \/ Die
  BY <1>4 DEF AcceptFails, Die, ConnsDue
<1>5. CASE HandleIo
  <2>1. PICK fd \in ClientFds : ComesTo(fd) /\ CallHandler(fd) /\ sfd' = fd
    BY <1>5 DEF HandleIo
  <2>2. /\ pc = "scan" /\ pc' = "handle" /\ sfd <= fd
        /\ UNCHANGED <<conn, ready, max_sfd, clientVars, netVars, taken>>
    BY <1>5, <2>1 DEF HandleIo, ComesTo, CallHandler
  <2>3. \A g \in ready : sfd' < g => sfd < g
    BY <2>1, <2>2, FdFacts DEF ScanInv, WatchInv, TypeOK
  <2> QED
    BY <2>2, <2>3 DEF ScanInv, ConnsDue, IsOpen, Readable, Eof, clientVars, netVars
<1>6. CASE HandlerMoves
  <2>1. /\ pc = "handle" /\ IsOpen(sfd) /\ conn[sfd] \in Clients /\ TableOK
        /\ HandlerStep(conn[sfd])
        /\ UNCHANGED <<conn, ready, max_sfd, sfd, pc>>
    BY <1>6
    DEF HandlerMoves, loopVars, ScanInv, WatchInv, HandlingOK, AliveOK, IsOpen, TypeOK, FdTypeOK
  <2>2. ASSUME NEW fd \in ready \ {ListenFd}, sfd < fd
        PROVE  IsOpen(fd)' /\ fd <= max_sfd' /\ Readable(conn[fd])'
    <3>1. IsOpen(fd) /\ fd <= max_sfd /\ Readable(conn[fd])
      BY <2>1, <2>2 DEF ScanInv, ConnsDue
    <3>2. conn[fd] \in Clients /\ conn[fd] # conn[sfd]
      BY <2>1, <2>2, <3>1, FdFacts
      DEF IsOpen, TableOK, ScanInv, WatchInv, TypeOK, FdTypeOK
    <3> DEFINE d == conn[fd]
               c == conn[sfd]
    <3>3. c \in Clients /\ d \in Clients /\ c # d /\ HandlerStep(c) /\ Readable(d) /\ ConnTypeOK
      BY <2>1, <3>1, <3>2 DEF ScanInv, WatchInv, TypeOK
    <3> HIDE DEF c, d
    <3>4. /\ UNCHANGED <<arrived, rst, cpc, sent>>
          /\ taken'[d] = taken[d]
      BY <3>3
      DEF HandlerStep, ReadHead, ReadBody, ReadShort, DoCal, WriteHead, WriteBody,
          netVars, clientVars, ConnTypeOK
    <3>5. Readable(conn[fd])'
      BY <2>1, <3>1, <3>4 DEF Readable, Eof, d
    <3> QED BY <2>1, <3>1, <3>5 DEF IsOpen
  <2> QED BY <2>1, <2>2 DEF ConnsDue
<1>7. CASE FinishIo
  <2>1. /\ pc = "handle" /\ pc' = "scan" /\ sfd' = sfd + 1 /\ ready' = ready
        /\ max_sfd' = IF max_sfd = sfd THEN max_sfd - 1 ELSE max_sfd
        /\ sfd \in ClientFds
        /\ conn' = [conn EXCEPT ![sfd] = NoConn]
        /\ UNCHANGED <<clientVars, netVars, taken>>
    BY <1>7 DEF FinishIo, CloseFd, IsOpen
  <2>2. ASSUME NEW fd \in ready \ {ListenFd}, sfd + 1 < fd \/ sfd + 1 = fd
        PROVE  IsOpen(fd)' /\ fd <= max_sfd' /\ Readable(conn[fd])'
    <3>1. fd \in Int /\ sfd \in Int /\ max_sfd \in Int /\ sfd < fd
      BY <2>1, <2>2, FdFacts DEF ScanInv, WatchInv, TypeOK
    <3>2. IsOpen(fd) /\ fd <= max_sfd /\ Readable(conn[fd])
      BY <2>1, <3>1 DEF ScanInv, ConnsDue
    <3>3. conn'[fd] = conn[fd]
      BY <2>1, <3>1, <3>2 DEF IsOpen, ScanInv, WatchInv, TypeOK, FdTypeOK
    <3>4. fd <= max_sfd'
      BY <2>1, <3>1, <3>2
    <3> QED
      BY <2>1, <3>2, <3>3, <3>4 DEF IsOpen, Readable, Eof, clientVars, netVars
  <2> QED BY <2>1, <2>2 DEF ConnsDue
<1>8. CASE \E c \in Clients : Environment(c)
  BY <1>8, ConnsEnvironment
<1>9. CASE UNCHANGED vars
  BY <1>9
  DEF vars, loopVars, ScanInv, ConnsDue, IsOpen, Readable, Eof, connVars, clientVars,
      netVars, handlerVars
<1> QED
  BY <1>1, <1>2, <1>3, <1>4, <1>5, <1>6, <1>7, <1>8, <1>9
  DEF Next, ServerStep, SelectTimeout

\* Only accept() and an abort take connections out of the queue.
LEMMA AcceptDueNext ==
  ASSUME ScanInv, [Next]_vars
  PROVE  AcceptDue'
<1> SUFFICES ASSUME pc' = "scan", ListenFd \in ready', sfd' <= ListenFd, ~ DropAborted
             PROVE  pending' # <<>>
  BY DEF AcceptDue
<1>1. CASE Select
  BY <1>1 DEF Select, Selected, FdReadable, connVars
<1>2. CASE ScanEnds \/ AcceptFails \/ Die
  BY <1>2 DEF ScanEnds, AcceptFails, Die
<1>3. CASE Accept
  BY <1>3, FdFacts DEF Accept
<1>4. CASE HandleIo
  BY <1>4 DEF HandleIo
<1>5. CASE HandlerMoves
  BY <1>5 DEF HandlerMoves, loopVars
<1>6. CASE FinishIo
  BY <1>6, FdFacts DEF FinishIo, CloseFd, IsOpen
<1>7. ASSUME NEW c \in Clients, Environment(c)
      PROVE  pending' # <<>>
  <2>1. pending # <<>> /\ pending \in Seq(Clients)
    BY <1>7 DEF Environment, loopVars, ScanInv, AcceptDue, WatchInv, TypeOK, ConnTypeOK
  <2>2. CASE Connect(c)
    <3>1. pending' = Append(pending, c)
      BY <2>2 DEF Connect
    <3>2. Len(pending') = Len(pending) + 1 /\ Len(pending) \in Nat
      BY <2>1, <3>1, AppendProperties, LenProperties
    <3>3. Len(pending') # 0
      BY <3>2
    <3> QED BY <3>3, EmptySeq
  <2>3. CASE pending' = pending
    BY <2>1, <2>3
  <2> QED
    BY <1>7, <2>2, <2>3
    DEF Environment, ClientStep, ConnectRefused, SendHead, SendBody, RecvHead, RecvBody,
        RecvShort, NetStep, Deliver, Vanish, Reset, PeerReset
<1>8. CASE UNCHANGED vars
  BY <1>8 DEF vars, loopVars, connVars, ScanInv, AcceptDue
<1> QED
  BY <1>1, <1>2, <1>3, <1>4, <1>5, <1>6, <1>7, <1>8
  DEF Next, ServerStep, SelectTimeout

\* Every step keeps the invariant about the scan.
LEMMA ScanNext == ScanInv /\ [Next]_vars => ScanInv'
  BY WatchNext, ConnsNext, AcceptDueNext DEF ScanInv

\* The invariant about the scan is stronger than the properties it is for.
LEMMA ScanImplies ==
  ScanInv => ScanConnReady /\ (~ DropAborted => ScanReady)
<1> SUFFICES ASSUME ScanInv, pc = "scan"
             PROVE  ScanConnReady /\ (~ DropAborted => ScanReady)
  BY DEF ScanConnReady, ScanReady
<1>1. ASSUME NEW fd \in ready \ {ListenFd}, sfd <= fd
      PROVE  fd <= max_sfd /\ FdReadable(fd)
  <2>1. sfd < fd \/ sfd = fd
    BY <1>1, FdFacts DEF ScanInv, WatchInv, TypeOK
  <2> QED BY <2>1 DEF ScanInv, ConnsDue, FdReadable
<1>2. ASSUME ListenFd \in ready, sfd <= ListenFd, ~ DropAborted
      PROVE  ListenFd <= max_sfd /\ FdReadable(ListenFd)
  BY <1>2, FdFacts DEF ScanInv, WatchInv, TypeOK, AcceptDue, FdReadable
<1> QED BY <1>1, <1>2 DEF ScanConnReady, ScanReady

\* A connection that select() reported can still be read when the scan comes
\* to it: no other connection's accept, call or close, and no client, takes
\* that away.
THEOREM ScanConnReadyAlways == Spec => []ScanConnReady
  BY ScanInit, ScanNext, ScanImplies, PTL DEF Spec

\* Where the kernel leaves aborted connections in the accept queue, accept()
\* does not block the loop either.
THEOREM ScanReadyAlways == ASSUME ~ DropAborted PROVE Spec => []ScanReady
<1>1. ScanInv => ScanReady
  BY ScanImplies
<1> QED BY <1>1, ScanInit, ScanNext, PTL DEF Spec

-----------------------------------------------------------------------------
(* The calls *)

\* The one thread is in HandleIoEvent for at most one connection: every other
\* connection that is not closed has not been handled.
OneCall ==
  up => \A c \in Clients :
          /\ hpc[c] = "closed" => srvEnd[c] = "closed"
          /\ hpc[c] \notin {"idle", "closed"} => pc = "handle" /\ conn[sfd] = c

CallInv == WatchInv /\ OneCall /\ CallsOK

\* The invariant about the calls holds when the loop starts.
LEMMA CallInit == Init => CallInv
  BY WatchInit, ConnInitCalls DEF Init, ConnInit, CallInv, OneCall

\* Clients and network keep every call in order and start no handler.
LEMMA CallEnvironment ==
  ASSUME NEW c \in Clients, CallInv, Environment(c)
  PROVE  OneCall' /\ CallsOK'
<1>1. /\ ClientStep(c) \/ NetStep(c)
      /\ UNCHANGED <<conn, sfd, pc, hpc, up>>
  BY DEF Environment, loopVars, ClientStep, Connect, ConnectRefused, SendHead, SendBody,
         RecvHead, RecvBody, RecvShort, NetStep, Deliver, Vanish, Reset, PeerReset,
         handlerVars
<1>2. ConnTypeOK /\ QueueOK /\ CallsOK /\ UpOK
  BY DEF CallInv, WatchInv, TypeOK, AliveOK, UpOK
<1>3. \A d \in Clients : srvEnd[d] = "closed" => srvEnd'[d] = "closed"
  BY <1>1, <1>2
  DEF ClientStep, Connect, ConnectRefused, SendHead, SendBody, RecvHead, RecvBody,
      RecvShort, NetStep, Deliver, Vanish, Reset, PeerReset, ConnTypeOK, QueueOK
<1>4. OneCall'
  BY <1>1, <1>3 DEF CallInv, OneCall
<1>5. CallsOK'
  BY <1>1, <1>2, ClientNetStepCalls
<1> QED BY <1>4, <1>5

\* HandleIoEvent keeps every call in order, its own one included.
LEMMA CallHandlerMoves ==
  ASSUME CallInv, HandlerMoves
  PROVE  OneCall' /\ CallsOK'
<1>1. PICK c \in Clients : c = conn[sfd]
  BY DEF HandlerMoves, CallInv, WatchInv, HandlingOK, IsOpen, TypeOK, FdTypeOK
<1>2. /\ pc = "handle" /\ up /\ dropped = {} /\ srvEnd[c] = "open" /\ HandlerStep(c)
      /\ UNCHANGED <<conn, sfd, pc>>
  BY <1>1
  DEF HandlerMoves, loopVars, CallInv, WatchInv, HandlingOK, AliveOK, TableOK, IsOpen
<1>3. ConnTypeOK /\ CallsOK
  BY DEF CallInv, WatchInv, TypeOK
<1>4. CallsOK'
  BY <1>2, <1>3, HandlerStepCalls
<1>5. \A d \in Clients : d # c => hpc'[d] = hpc[d]
  BY <1>2, <1>3
  DEF HandlerStep, ReadHead, ReadBody, ReadShort, DoCal, WriteHead, WriteBody, ConnTypeOK
<1>6. UNCHANGED srvEnd /\ UNCHANGED up /\ hpc'[c] # "closed"
  BY <1>2, <1>3
  DEF HandlerStep, ReadHead, ReadBody, ReadShort, DoCal, WriteHead, WriteBody, ConnTypeOK
<1>7. OneCall'
  BY <1>1, <1>2, <1>5, <1>6 DEF CallInv, OneCall
<1> QED BY <1>4, <1>7 DEF CallsOK

\* Every step keeps the invariant about the calls.
LEMMA CallNext == CallInv /\ [Next]_vars => CallInv'
<1> SUFFICES ASSUME CallInv, [Next]_vars PROVE OneCall' /\ CallsOK'
  BY WatchNext DEF CallInv
<1> USE DEF CallInv
<1>0. ConnTypeOK /\ FdTypeOK
  BY DEF WatchInv, TypeOK
<1>1. CASE Select \/ ScanEnds
  BY <1>1
  DEF Select, ScanEnds, OneCall, CallsOK, CallOK, StreamOK, HandlerOK, OutcomeOK,
      connVars, clientVars, netVars, handlerVars
<1>2. CASE Accept
  <2>1. PICK fd \in ClientFds : AcceptAs(fd)
    BY <1>2 DEF Accept, FreeFds
  <2>2. /\ pc = "scan" /\ up /\ UNCHANGED <<hpc, up, pc>>
        /\ Head(pending) \in Clients /\ srvEnd[Head(pending)] = "pending"
        /\ srvEnd' = [srvEnd EXCEPT ![Head(pending)] = "open"]
    <3>1. pending \in Seq(Clients) /\ pending # <<>>
      BY <1>0, <2>1 DEF AcceptAs, ConnTypeOK
    <3>2. Head(pending) = pending[1] /\ 1 \in 1 .. Len(pending)
      BY <3>1, HeadTailProperties, LenProperties, EmptySeq
    <3> QED
      BY <1>2, <2>1, <3>1, <3>2, ElementOfSeq
      DEF Accept, ComesTo, AcceptAs, handlerVars, WatchInv, AliveOK, QueueOK
  <2>3. OneCall'
    BY <1>0, <2>2 DEF OneCall, ConnTypeOK
  <2> QED BY <1>0, <2>1, <2>3, AcceptAsCalls
<1>3. CASE AcceptFails \/ Die
  <2>1. ProcessEnds
    BY <1>3 DEF AcceptFails, Die
  <2> QED BY <2>1, ProcessEndsCalls DEF ProcessEnds, OneCall
<1>4. CASE HandleIo
  <2>1. PICK fd \in ClientFds : ComesTo(fd) /\ CallHandler(fd) /\ sfd' = fd
    BY <1>4 DEF HandleIo
  <2>2. /\ pc = "scan" /\ pc' = "handle" /\ up
        /\ UNCHANGED <<up, srvEnd, conn>>
        /\ conn[fd] \in Clients /\ srvEnd[conn[fd]] = "open"
        /\ hpc' = [hpc EXCEPT ![conn[fd]] = "recvHead"]
    BY <1>0, <1>4, <2>1
    DEF HandleIo, ComesTo, CallHandler, WatchInv, AliveOK, TableOK, IsOpen, FdTypeOK
  <2>3. hpc[conn[fd]] = "idle" /\ \A c \in Clients : hpc[c] \in {"idle", "closed"}
    BY <2>2 DEF OneCall
  <2>4. OneCall'
    BY <1>0, <2>1, <2>2, <2>3 DEF OneCall, ConnTypeOK
  <2> QED BY <1>0, <2>1, <2>3, <2>4, CallHandlerCalls
<1>5. CASE HandlerMoves
  BY <1>5, CallHandlerMoves
<1>6. CASE FinishIo
  <2>1. /\ pc = "handle" /\ CloseFd(sfd) /\ sfd \in ClientFds /\ up /\ up' = up
        /\ conn[sfd] \in Clients
        /\ hpc' = [hpc EXCEPT ![conn[sfd]] = "closed"]
        /\ srvEnd' = [srvEnd EXCEPT ![conn[sfd]] = "closed"]
    BY <1>0, <1>6 DEF FinishIo, CloseFd, IsOpen, WatchInv, AliveOK, FdTypeOK
  <2>2. OneCall'
    BY <1>0, <2>1 DEF OneCall, ConnTypeOK
  <2> QED BY <1>0, <2>1, <2>2, CloseCalls
<1>7. CASE \E c \in Clients : Environment(c)
  BY <1>7, CallEnvironment
<1>8. CASE UNCHANGED vars
  BY <1>8
  DEF vars, loopVars, OneCall, CallsOK, CallOK, StreamOK, HandlerOK, OutcomeOK,
      connVars, clientVars, netVars, handlerVars
<1> QED
  BY <1>1, <1>2, <1>3, <1>4, <1>5, <1>6, <1>7, <1>8
  DEF Next, ServerStep, SelectTimeout

\* A client that ended without its own result was not failed by a server
\* that still runs.
THEOREM LostOnlyByCrashAlways == Spec => []LostOnlyByCrash
<1>1. CallInv => LostOnlyByCrash
  BY CallsImply DEF CallInv
<1> QED BY <1>1, CallInit, CallNext, PTL DEF Spec

-----------------------------------------------------------------------------
(* Whom the server waits for *)

\* The client of the call that is handled has begun to send, or is gone.
Begun == pc = "handle" => cpc[conn[sfd]] \notin {"init", "typing"}

\* A connection that can be read is one whose client has sent something.
LEMMA ReadableBegun ==
  ASSUME NEW c \in Clients, ConnTypeOK, CallOK(c), Readable(c)
  PROVE  cpc[c] \notin {"init", "typing"}
  BY DEF ConnTypeOK, CallOK, StreamOK, OutcomeOK, Readable, Eof, Ended

\* A client that has begun to send does not go back to typing.
LEMMA BegunStays ==
  ASSUME NEW c \in Clients, NEW d \in Clients, ConnTypeOK,
         ClientStep(c) \/ NetStep(c), cpc[d] \notin {"init", "typing"}
  PROVE  cpc'[d] \notin {"init", "typing"}
<1> USE DEF ConnTypeOK, clientVars
<1>1. CASE NetStep(c)
  BY <1>1 DEF NetStep, Deliver, Vanish, Reset, PeerReset
<1>2. CASE Connect(c) \/ ConnectRefused(c) \/ SendHead(c) \/ SendBody(c)
  BY <1>2 DEF Connect, ConnectRefused, SendHead, SendBody
<1>3. CASE RecvHead(c) \/ RecvBody(c) \/ RecvShort(c)
  BY <1>3 DEF RecvHead, RecvBody, RecvShort
<1> QED BY <1>1, <1>2, <1>3 DEF ClientStep

\* Every step keeps it so.
LEMMA BegunNext ==
  ASSUME ScanInv, CallInv, Begun, [Next]_vars
  PROVE  Begun'
<1>1. ConnTypeOK /\ FdTypeOK /\ CallsOK /\ HandlingOK
  BY DEF CallInv, WatchInv, TypeOK
<1>2. CASE Select \/ ScanEnds \/ Accept \/ AcceptFails \/ FinishIo \/ Die
  BY <1>2 DEF Select, ScanEnds, Accept, ComesTo, AcceptFails, FinishIo, Die, Begun
<1>3. CASE HandleIo
  <2>1. PICK fd \in ClientFds : ComesTo(fd) /\ CallHandler(fd) /\ sfd' = fd
    BY <1>3 DEF HandleIo
  <2>2. pc = "scan" /\ fd \in ready \ {ListenFd} /\ (sfd < fd \/ sfd = fd)
    BY <2>1, FdFacts DEF ComesTo, ClientFds, ScanInv, WatchInv, TypeOK
  <2>3. IsOpen(fd) /\ Readable(conn[fd])
    BY <2>2 DEF ScanInv, ConnsDue
  <2>4. conn[fd] \in Clients
    BY <1>1, <2>3 DEF IsOpen, FdTypeOK
  <2>5. cpc[conn[fd]] \notin {"init", "typing"}
    BY <1>1, <2>3, <2>4, ReadableBegun DEF CallsOK
  <2> QED BY <2>1, <2>5 DEF CallHandler, clientVars, Begun
<1>4. CASE HandlerMoves
  <2>1. conn[sfd] \in Clients /\ HandlerStep(conn[sfd]) /\ UNCHANGED <<conn, sfd, pc>>
    BY <1>1, <1>4 DEF HandlerMoves, HandlingOK, IsOpen, FdTypeOK, loopVars
  <2>2. cpc' = cpc
    BY <1>1, <2>1, HandlerLeaves
  <2> QED BY <2>1, <2>2 DEF Begun
<1>5. ASSUME NEW c \in Clients, Environment(c)
      PROVE  Begun'
  <2>1. (ClientStep(c) \/ NetStep(c)) /\ UNCHANGED <<conn, sfd, pc>>
    BY <1>5 DEF Environment, loopVars
  <2>2. pc = "handle" => conn[sfd] \in Clients
    BY <1>1 DEF HandlingOK, IsOpen, FdTypeOK
  <2> QED BY <1>1, <2>1, <2>2, BegunStays DEF Begun
<1>6. CASE UNCHANGED vars
  BY <1>6 DEF vars, connVars, clientVars, loopVars, Begun
<1> QED
  BY <1>2, <1>3, <1>4, <1>5, <1>6 DEF Next, ServerStep, SelectTimeout

\* The handler never waits for a user: idle connections hold up nobody, for any
\* number of them.
THEOREM NeverHoldsIdleAlways == Spec => []NeverHoldsIdle
<1>1. Init => ScanInv /\ CallInv /\ Begun
  BY ScanInit, CallInit DEF Init, Begun
<1>2. ScanInv /\ CallInv /\ Begun /\ [Next]_vars => ScanInv' /\ CallInv' /\ Begun'
  BY ScanNext, CallNext, BegunNext
<1>3. Begun => NeverHoldsIdle
  BY DEF Begun, NeverHoldsIdle
<1> QED BY <1>1, <1>2, <1>3, PTL DEF Spec

-----------------------------------------------------------------------------
(* The end of the process *)

\* A step that ends the process leaves one of the three explanations behind,
\* and none of them goes away once the process has ended.
LEMMA DeathNext ==
  ASSUME CallInv, DeathExplained, [Next]_vars
  PROVE  DeathExplained'
<1> SUFFICES ASSUME ~ up'
             PROVE  \/ \E c \in Trapping : req'[c] = "whole"
                    \/ \E c \in Clients : cpc'[c] = "gone"
                    \/ FreeFds' = {}
  BY DEF DeathExplained
<1>1. ConnTypeOK /\ FdTypeOK /\ CallsOK /\ (up <=> pc # "dead") /\ (up => dropped = {})
  BY DEF CallInv, WatchInv, TypeOK, AliveOK
<1>2. CASE AcceptFails
  BY <1>2 DEF AcceptFails, FreeFds
<1>3. CASE Die
  <2>1. PICK c \in Clients : c = conn[sfd]
    BY <1>3 DEF Die, CallInv, WatchInv, HandlingOK, IsOpen, TypeOK, FdTypeOK
  <2>2. up /\ Dies(c) /\ UNCHANGED <<cpc, req>>
    BY <1>1, <1>3, <2>1 DEF Die, ProcessEnds, clientVars, handlerVars
  <2>3. cpc[c] = "gone" \/ (c \in Trapping /\ req[c] = "whole")
    BY <1>1, <2>2, DiesBlames DEF CallsOK
  <2> QED BY <2>2, <2>3
<1>4. CASE ~ AcceptFails /\ ~ Die
  <2>1. up' = up
    BY <1>4
    DEF Next, ServerStep, Select, ScanEnds, Accept, AcceptAs, HandleIo, CallHandler,
        HandlerMoves, HandlerStep, ReadHead, ReadBody, ReadShort, DoCal, WriteHead,
        WriteBody, FinishIo, CloseFd, SelectTimeout, vars, connVars, Environment, ClientStep,
        Connect, ConnectRefused, SendHead, SendBody, RecvHead, RecvBody, RecvShort,
        NetStep, Deliver, Vanish, Reset, PeerReset
  <2>2. pc = "dead"
    BY <1>1, <2>1
  <2>3. \/ UNCHANGED vars
        \/ \E c \in Clients : Environment(c)
    BY <1>4, <2>2
    DEF Next, ServerStep, Select, ScanEnds, Accept, ComesTo, HandleIo, HandlerMoves,
        FinishIo, SelectTimeout
  <2>4. UNCHANGED <<req, conn>> /\ \A c \in Clients : cpc[c] = "gone" => cpc'[c] = "gone"
    BY <1>1, <2>3
    DEF vars, connVars, clientVars, handlerVars, Environment, ClientStep,
        Connect, ConnectRefused, SendHead, SendBody, RecvHead, RecvBody, RecvShort,
        NetStep, Deliver, Vanish, Reset, PeerReset, ConnTypeOK, Connected
  <2> QED BY <2>1, <2>4 DEF DeathExplained, FreeFds
<1> QED BY <1>2, <1>3, <1>4

\* The server ends only by a division somebody asked for, by a client that
\* went away in the middle of its call, or at its descriptor limit: no
\* interleaving of well-behaved clients ends it.
THEOREM DeathExplainedAlways == Spec => []DeathExplained
<1>1. Init => CallInv /\ DeathExplained
  BY CallInit DEF Init, ConnInit, DeathExplained
<1>2. CallInv /\ DeathExplained /\ [Next]_vars => CallInv' /\ DeathExplained'
  BY CallNext, DeathNext
<1> QED BY <1>1, <1>2, PTL DEF Spec

-----------------------------------------------------------------------------
(* The service *)

\* Every step of the server, a client or the network is a step of the service
\* or leaves it alone.
LEMMA NextRefines ==
  CallInv /\ CallInv' /\ [Next]_vars
    => [Abstract!ServiceNext]_Abstract!serviceVars
<1> SUFFICES ASSUME CallInv, CallInv', [Next]_vars PROVE ServiceStep
  BY DEF ServiceStep
<1>0. /\ ConnTypeOK /\ FdTypeOK /\ CallsOK /\ CallsOK' /\ UpOK
      /\ (up <=> pc # "dead") /\ (up => dropped = {})
  BY DEF CallInv, WatchInv, TypeOK, AliveOK, UpOK
<1>1. CASE Select \/ ScanEnds \/ Accept \/ HandleIo \/ FinishIo \/ UNCHANGED vars
  <2>1. UNCHANGED <<dropped, cpc, shown, reply>>
    BY <1>1
    DEF Select, ScanEnds, Accept, AcceptAs, HandleIo, CallHandler, FinishIo, CloseFd,
        vars, connVars, clientVars, handlerVars
  <2> QED BY <2>1, StutterRefines DEF ServiceStep
<1>2. CASE AcceptFails \/ Die
  <2>1. ProcessEnds
    BY <1>2 DEF AcceptFails, Die
  <2> QED BY <1>0, <2>1, ProcessEndsRefines
<1>3. CASE HandlerMoves
  <2>1. PICK c \in Clients : c = conn[sfd]
    BY <1>3 DEF HandlerMoves, CallInv, WatchInv, HandlingOK, IsOpen, TypeOK, FdTypeOK
  <2>2. up /\ HandlerStep(c)
    BY <1>0, <1>3, <2>1 DEF HandlerMoves
  <2> QED BY <1>0, <2>2, HandlerStepRefines DEF CallsOK
<1>4. ASSUME NEW c \in Clients, Environment(c)
      PROVE  ServiceStep
  <2>1. CallOK(c) /\ CallOK(c)'
    BY <1>0 DEF CallsOK
  <2> QED BY <1>0, <1>4, <2>1, ClientStepRefines, NetStepRefines DEF Environment
<1> QED
  BY <1>1, <1>2, <1>3, <1>4 DEF Next, ServerStep, SelectTimeout

\* The select server implements the calculator service, for any number of
\* clients: each answer is the client's own result, computed while the server
\* ran and after the client asked, and only a crash leaves one unanswered.
THEOREM Implementation == Spec => ImplementsService
<1>1. Init => Abstract!ServiceInit
  BY InitRefines DEF Init
<1> QED
  BY <1>1, CallInit, CallNext, NextRefines, PTL
  DEF Spec, ImplementsService, Abstract!Service
=============================================================================
