--------------------------- MODULE ForkServerProofs ---------------------------
(***************************************************************************)
(* Theorems about ForkServer, for any number of clients and any limit on   *)
(* processes, any sizes of header and bodies, and whatever the clients and *)
(* the network do.                                                         *)
(***************************************************************************)
EXTENDS ForkServer, CalConnProofs, FiniteSetTheorems

USE DEF serverVars, signalVars

\* The connection in the parent's hands: without a child before fork(), with
\* one after it, and open as long as the parent has not closed it.
ParentOK ==
  /\ up
  /\ pc = "accept" => cur = None
  /\ pc # "accept" => cur \in Clients /\ srvEnd[cur] = "open"
  /\ pc = "fork" => child[cur] = "none" /\ cur \notin dropped
  /\ pc = "close" => child[cur] # "none"

\* A connection and its child: open means that the parent or the child has it;
\* only a running child is in the handler; a child that has ended was through
\* with its call, or its call is dropped.
ChildOK(c) ==
  /\ srvEnd[c] = "open" <=> cur = c \/ child[c] = "running"
  /\ srvEnd[c] \in {"none", "pending"} => child[c] = "none" /\ c \notin dropped
  /\ child[c] = "none" => hpc[c] = "idle"
  /\ child[c] = "running" => c \notin dropped
  /\ child[c] \in {"exiting", "zombie", "reaped"} => hpc[c] = "closed" \/ c \in dropped

\* The inductive invariant.
ForkInv ==
  /\ TypeOK
  /\ QueueOK
  /\ CallsOK
  /\ ParentOK
  /\ \A c \in Clients : ChildOK(c)

\* What ForkInv says of the types and of the clients' part.
LEMMA ForkParts == ForkInv => ConnTypeOK /\ QueueOK /\ CallsOK /\ UpOK
  BY DEF ForkInv, TypeOK, ParentOK, UpOK

\* The invariant holds when the server starts.
LEMMA ForkInit == Init => ForkInv
<1> SUFFICES ASSUME Init PROVE ForkInv
  OBVIOUS
<1>1. ConnTypeOK /\ QueueOK /\ CallsOK
  BY ConnInitType, ConnInitQueue, ConnInitCalls DEF Init
<1>2. TypeOK
  BY <1>1 DEF Init, TypeOK
<1>3. ParentOK /\ \A c \in Clients : ChildOK(c)
  BY ForkAssumption DEF Init, ConnInit, ParentOK, ChildOK
<1> QED BY <1>1, <1>2, <1>3 DEF ForkInv

\* Clients and kernel keep it: they touch no accepted connection.
LEMMA ForkEnvironment ==
  ASSUME NEW c \in Clients, ForkInv, Environment(c)
  PROVE  ForkInv'
<1>1. (ClientStep(c) \/ NetStep(c)) /\ UNCHANGED <<pc, cur, child, sigchld, inHandler, merged>>
  BY DEF Environment, parentVars
<1>2. ConnTypeOK' /\ QueueOK' /\ CallsOK'
  BY <1>1, ForkParts, ClientStepType, NetStepType, ClientStepQueue, NetStepQueue,
     ClientNetStepCalls
<1>3. /\ UNCHANGED <<up, dropped, hpc>>
      /\ \A d \in Clients :
           /\ srvEnd'[d] = "open" <=> srvEnd[d] = "open"
           /\ srvEnd'[d] \in {"none", "pending"} => srvEnd[d] \in {"none", "pending"}
  BY <1>1, ForkParts, EnvironmentLeaves
<1>4. ParentOK'
  BY <1>1, <1>3 DEF ForkInv, ParentOK
<1>5. \A d \in Clients : ChildOK(d)'
  BY <1>1, <1>3 DEF ForkInv, ChildOK
<1> QED BY <1>1, <1>2, <1>4, <1>5 DEF ForkInv, TypeOK

\* accept() puts the first queued connection into the parent's hands.
LEMMA ForkAccept ==
  ASSUME ForkInv, Accept
  PROVE  ForkInv'
<1> DEFINE c == Head(pending)
<1>1. /\ pc = "accept" /\ pending # <<>> /\ pending' = Tail(pending)
      /\ srvEnd' = [srvEnd EXCEPT ![c] = "open"]
      /\ cur' = c /\ pc' = "fork"
      /\ UNCHANGED <<up, dropped, clientVars, netVars, handlerVars, child, sigchld, inHandler, merged>>
  BY DEF Accept
<1>2. c \in Clients /\ srvEnd[c] = "pending" /\ pending' \in Seq(Clients) /\ QueueOK'
  BY <1>1, ForkParts, AcceptQueue DEF clientVars
<1> HIDE DEF c
<1>3. \A d \in Clients : srvEnd'[d] = IF d = c THEN "open" ELSE srvEnd[d]
  BY <1>1, ForkParts DEF ConnTypeOK
<1>4. CallsOK'
  BY <1>1, <1>3, ForkParts, CloseKeepsCalls
<1>5. TypeOK'
  BY <1>1, <1>2 DEF ForkInv, TypeOK, ConnTypeOK, clientVars, netVars, handlerVars
<1>6. child[c] = "none" /\ c \notin dropped /\ up /\ cur = None
  BY <1>1, <1>2 DEF ForkInv, ChildOK, ParentOK
<1>7. ParentOK'
  BY <1>1, <1>2, <1>3, <1>6 DEF ParentOK
<1>8. \A d \in Clients : ChildOK(d)'
  BY <1>1, <1>3, <1>6, ForkAssumption DEF ForkInv, ChildOK, handlerVars
<1> QED BY <1>2, <1>4, <1>5, <1>7, <1>8 DEF ForkInv

\* fork() gives the connection a child that begins the call.
LEMMA ForkFork ==
  ASSUME ForkInv, Fork
  PROVE  ForkInv'
<1>1. /\ pc = "fork" /\ cur \in Clients /\ srvEnd[cur] = "open"
      /\ child[cur] = "none" /\ cur \notin dropped /\ up
  BY DEF ForkInv, ParentOK, Fork
<1>2. /\ child' = [child EXCEPT ![cur] = "running"]
      /\ hpc' = [hpc EXCEPT ![cur] = "recvHead"]
      /\ pc' = "close"
      /\ UNCHANGED <<up, dropped, pending, clientVars, netVars, srvEnd, taken, req, reply,
                     put, cur, sigchld, inHandler, merged>>
  BY DEF Fork
<1>3. hpc[cur] = "idle"
  BY <1>1 DEF ForkInv, ChildOK
<1>4. CallsOK'
  BY <1>1, <1>2, <1>3, ForkParts, BeginCalls
<1>5. TypeOK'
  BY <1>1, <1>2 DEF ForkInv, TypeOK, ConnTypeOK, clientVars, netVars
<1>6. QueueOK'
  BY <1>2 DEF ForkInv, QueueOK, clientVars
<1>7. ParentOK'
  BY <1>1, <1>2 DEF ParentOK, ForkInv, TypeOK
<1>8. \A d \in Clients : ChildOK(d)'
  BY <1>1, <1>2 DEF ForkInv, ChildOK, TypeOK, ConnTypeOK
<1> QED BY <1>4, <1>5, <1>6, <1>7, <1>8 DEF ForkInv

\* When fork() fails the connection is closed and its call dropped.
LEMMA ForkForkFails ==
  ASSUME ForkInv, ForkFails
  PROVE  ForkInv'
<1>1. /\ pc = "fork" /\ cur \in Clients /\ srvEnd[cur] = "open"
      /\ child[cur] = "none" /\ up
  BY DEF ForkInv, ParentOK, ForkFails
<1>2. /\ srvEnd' = [srvEnd EXCEPT ![cur] = "closed"]
      /\ dropped' = dropped \cup {cur}
      /\ cur' = None /\ pc' = "accept"
      /\ UNCHANGED <<up, pending, clientVars, netVars, handlerVars, child, sigchld, inHandler, merged>>
  BY DEF ForkFails
<1>3. \A d \in Clients : srvEnd'[d] = IF d = cur THEN "closed" ELSE srvEnd[d]
  BY <1>1, <1>2, ForkParts DEF ConnTypeOK
<1>4. CallsOK'
  BY <1>2, <1>3, ForkParts, CloseKeepsCalls
<1>5. TypeOK'
  BY <1>1, <1>2 DEF ForkInv, TypeOK, ConnTypeOK, clientVars, netVars, handlerVars
<1>6. QueueOK'
  BY <1>1, <1>2, ForkParts, CloseQueue DEF clientVars
<1>7. ParentOK'
  BY <1>1, <1>2 DEF ParentOK
<1>8. \A d \in Clients : ChildOK(d)'
  BY <1>1, <1>2, <1>3, ForkAssumption DEF ForkInv, ChildOK, handlerVars
<1> QED BY <1>4, <1>5, <1>6, <1>7, <1>8 DEF ForkInv

\* The parent's close takes the connection from nobody who works on it.
LEMMA ForkParentCloses ==
  ASSUME ForkInv, ParentCloses
  PROVE  ForkInv'
<1>1. /\ pc = "close" /\ cur \in Clients /\ srvEnd[cur] = "open"
      /\ child[cur] # "none" /\ up
  BY DEF ForkInv, ParentOK, ParentCloses
<1>2. /\ srvEnd' = IF child[cur] = "running"
                   THEN srvEnd ELSE [srvEnd EXCEPT ![cur] = "closed"]
      /\ cur' = None /\ pc' = "accept"
      /\ UNCHANGED <<up, dropped, pending, clientVars, netVars, handlerVars, child,
                     sigchld, inHandler, merged>>
  BY DEF ParentCloses
<1>3. \A d \in Clients :
        srvEnd'[d] = IF d = cur /\ child[cur] # "running" THEN "closed" ELSE srvEnd[d]
  BY <1>1, <1>2, ForkParts DEF ConnTypeOK
<1>4. child[cur] # "running" => hpc[cur] = "closed" \/ cur \in dropped
  BY <1>1 DEF ForkInv, ChildOK, TypeOK
<1>5. CallsOK'
  BY <1>2, <1>3, <1>4, ForkParts, CloseKeepsCalls
<1>6. TypeOK'
  BY <1>1, <1>2 DEF ForkInv, TypeOK, ConnTypeOK, clientVars, netVars, handlerVars
<1>7. QueueOK'
  <2>1. CASE child[cur] = "running"
    BY <1>2, <2>1 DEF ForkInv, QueueOK, clientVars
  <2>2. CASE child[cur] # "running"
    BY <1>1, <1>2, <2>2, ForkParts, CloseQueue DEF clientVars
  <2> QED BY <2>1, <2>2
<1>8. ParentOK'
  BY <1>1, <1>2 DEF ParentOK
<1>9. \A d \in Clients : ChildOK(d)'
  BY <1>1, <1>2, <1>3, ForkAssumption DEF ForkInv, ChildOK, handlerVars
<1> QED BY <1>5, <1>6, <1>7, <1>8, <1>9 DEF ForkInv

\* A step of a child's handler keeps the invariant.
LEMMA ForkChildMoves ==
  ASSUME NEW c \in Clients, ForkInv, ChildMoves(c)
  PROVE  ForkInv'
<1>1. /\ child[c] = "running" /\ HandlerStep(c)
      /\ UNCHANGED <<pc, cur, sigchld, inHandler, merged, child>>
  BY DEF ChildMoves, parentVars
<1>2. c \notin dropped /\ srvEnd[c] = "open"
  BY <1>1 DEF ForkInv, ChildOK
<1>3. ConnTypeOK' /\ QueueOK' /\ CallsOK'
  BY <1>1, <1>2, ForkParts, HandlerStepType, HandlerStepQueue, HandlerStepCalls
<1>4. /\ UNCHANGED <<up, dropped, srvEnd>>
      /\ \A d \in Clients \ {c} : hpc'[d] = hpc[d]
  BY <1>1, ForkParts, HandlerLeaves
<1>5. \A d \in Clients : ChildOK(d)'
  BY <1>1, <1>4 DEF ForkInv, ChildOK
<1> QED BY <1>1, <1>3, <1>4, <1>5 DEF ForkInv, TypeOK, ParentOK

\* The last descriptor of a connection closes it; while the parent still has
\* one it stays open.
LEMMA ChildEndIs ==
  ASSUME NEW c \in Clients, ForkInv, srvEnd' = ChildEnd(c)
  PROVE  /\ \A d \in Clients :
              srvEnd'[d] = IF d = c /\ cur # c THEN "closed" ELSE srvEnd[d]
         /\ srvEnd' \in {srvEnd, [srvEnd EXCEPT ![c] = "closed"]}
         /\ srvEnd' \in [Clients -> {"none", "pending", "open", "closed"}]
  BY ForkParts DEF ChildEnd, ConnTypeOK

\* The queue does not notice the end of a child.
LEMMA ChildEndQueue ==
  ASSUME NEW c \in Clients, ForkInv, srvEnd[c] = "open", srvEnd' = ChildEnd(c),
         UNCHANGED <<pending, cpc>>
  PROVE  QueueOK'
<1>1. CASE srvEnd' = srvEnd
  BY <1>1 DEF ForkInv, QueueOK
<1>2. CASE srvEnd' = [srvEnd EXCEPT ![c] = "closed"]
  BY <1>2, ForkParts, CloseQueue
<1> QED BY <1>1, <1>2, ChildEndIs

\* A child closes its connection after the call.
LEMMA ForkChildCloses ==
  ASSUME NEW c \in Clients, ForkInv, ChildCloses(c)
  PROVE  ForkInv'
<1>1. /\ child[c] = "running" /\ hpc[c] = "close"
      /\ hpc' = [hpc EXCEPT ![c] = "closed"]
      /\ srvEnd' = ChildEnd(c)
      /\ child' = [child EXCEPT ![c] = "exiting"]
      /\ UNCHANGED <<up, dropped, pending, clientVars, netVars, taken, req, reply, put,
                     pc, cur, sigchld, inHandler, merged>>
  BY DEF ChildCloses, parentVars
<1>2. srvEnd[c] = "open"
  BY <1>1 DEF ForkInv, ChildOK
<1>3. CallsOK'
  BY <1>1, ForkParts, ChildEndIs, EndCalls
<1>4. QueueOK'
  BY <1>1, <1>2, ChildEndQueue DEF clientVars
<1>5. TypeOK'
  <2>1. ConnTypeOK'
    BY <1>1, ForkParts, ChildEndIs DEF ConnTypeOK, clientVars, netVars
  <2> QED BY <1>1, <2>1 DEF ForkInv, TypeOK
<1>6. ParentOK'
  BY <1>1, ChildEndIs DEF ForkInv, ParentOK, TypeOK
<1>7. \A d \in Clients : ChildOK(d)'
  <2> SUFFICES ASSUME NEW d \in Clients PROVE ChildOK(d)'
    OBVIOUS
  <2>1. /\ srvEnd'[d] = IF d = c /\ cur # c THEN "closed" ELSE srvEnd[d]
        /\ child'[d] = IF d = c THEN "exiting" ELSE child[d]
        /\ hpc'[d] = IF d = c THEN "closed" ELSE hpc[d]
        /\ cur' = cur /\ dropped' = dropped
    <3>1. srvEnd'[d] = IF d = c /\ cur # c THEN "closed" ELSE srvEnd[d]
      BY <1>1, ChildEndIs
    <3>2. child'[d] = IF d = c THEN "exiting" ELSE child[d]
      BY <1>1 DEF ForkInv, TypeOK
    <3>3. hpc'[d] = IF d = c THEN "closed" ELSE hpc[d]
      BY <1>1, ForkParts DEF ConnTypeOK
    <3> QED BY <1>1, <3>1, <3>2, <3>3
  <2>2. ChildOK(d)
    BY DEF ForkInv
  <2>3. CASE d = c
    BY <1>2, <2>1, <2>3 DEF ChildOK
  <2>4. CASE d # c
    BY <2>1, <2>2, <2>4 DEF ChildOK
  <2> QED BY <2>3, <2>4
<1> QED BY <1>3, <1>4, <1>5, <1>6, <1>7 DEF ForkInv

\* A child that is killed by its call drops it.
LEMMA ForkChildDies ==
  ASSUME NEW c \in Clients, ForkInv, ChildDies(c)
  PROVE  ForkInv'
<1>1. /\ child[c] = "running"
      /\ child' = [child EXCEPT ![c] = "zombie"]
      /\ sigchld' \in BOOLEAN /\ inHandler' = inHandler /\ merged' \in Nat
      /\ srvEnd' = ChildEnd(c)
      /\ dropped' = dropped \cup {c}
      /\ UNCHANGED <<up, pending, clientVars, netVars, handlerVars, pc, cur>>
  BY DEF ChildDies, SignalParent, ForkInv, TypeOK
<1>2. srvEnd[c] = "open"
  BY <1>1 DEF ForkInv, ChildOK
<1>3. CallsOK'
  BY <1>1, ForkParts, ChildEndIs, CloseKeepsCalls
<1>4. QueueOK'
  BY <1>1, <1>2, ChildEndQueue DEF clientVars
<1>5. TypeOK'
  <2>1. ConnTypeOK'
    BY <1>1, ForkParts, ChildEndIs DEF ConnTypeOK, clientVars, netVars, handlerVars
  <2> QED BY <1>1, <2>1 DEF ForkInv, TypeOK
<1>6. ParentOK'
  BY <1>1, ChildEndIs DEF ForkInv, ParentOK, TypeOK
<1>7. \A d \in Clients : ChildOK(d)'
  <2> SUFFICES ASSUME NEW d \in Clients PROVE ChildOK(d)'
    OBVIOUS
  <2>1. /\ srvEnd'[d] = IF d = c /\ cur # c THEN "closed" ELSE srvEnd[d]
        /\ child'[d] = IF d = c THEN "zombie" ELSE child[d]
        /\ hpc'[d] = hpc[d] /\ cur' = cur
        /\ d \in dropped' <=> d \in dropped \/ d = c
    BY <1>1, ChildEndIs DEF ForkInv, TypeOK, handlerVars
  <2>2. ChildOK(d)
    BY DEF ForkInv
  <2>3. CASE d = c
    BY <1>2, <2>1, <2>3 DEF ChildOK
  <2>4. CASE d # c
    BY <2>1, <2>2, <2>4 DEF ChildOK
  <2> QED BY <2>3, <2>4
<1> QED BY <1>3, <1>4, <1>5, <1>6, <1>7 DEF ForkInv

\* The signal, the handler for it and the end of a child that has closed its
\* connection change nothing of the connections, and no child begins.
LEMMA ForkReaping ==
  ASSUME ForkInv, UNCHANGED <<connVars, pc, cur>>,
         child' \in [Clients -> {"none", "running", "exiting", "zombie", "reaped"}],
         sigchld' \in BOOLEAN, inHandler' \in BOOLEAN, merged' \in Nat,
         \A c \in Clients : \/ child'[c] = child[c]
                            \/ /\ child[c] \in {"exiting", "zombie"}
                               /\ child'[c] \in {"zombie", "reaped"}
  PROVE  ForkInv'
<1>1. ConnTypeOK' /\ QueueOK' /\ CallsOK'
  BY ForkParts
  DEF connVars, clientVars, netVars, handlerVars, ConnTypeOK, QueueOK, CallsOK, CallOK,
      StreamOK, HandlerOK, OutcomeOK
<1>2. UNCHANGED <<up, dropped, srvEnd, hpc>>
  BY DEF connVars, handlerVars
<1>3. ParentOK'
  BY <1>2 DEF ForkInv, ParentOK
<1>4. \A c \in Clients : ChildOK(c)'
  BY <1>2 DEF ForkInv, ChildOK
<1> QED BY <1>1, <1>3, <1>4 DEF ForkInv, TypeOK

\* Every step keeps the invariant.
LEMMA ForkNext == ForkInv /\ [Next]_vars => ForkInv'
<1> SUFFICES ASSUME ForkInv, [Next]_vars PROVE ForkInv'
  OBVIOUS
<1>0. /\ child \in [Clients -> {"none", "running", "exiting", "zombie", "reaped"}]
      /\ sigchld \in BOOLEAN /\ inHandler \in BOOLEAN /\ merged \in Nat
  BY DEF ForkInv, TypeOK
<1>1. CASE Accept
  BY <1>1, ForkAccept
<1>2. CASE Fork
  BY <1>2, ForkFork
<1>3. CASE ForkFails
  BY <1>3, ForkForkFails
<1>4. CASE ParentCloses
  BY <1>4, ForkParentCloses
<1>5. CASE SignalArrives
  BY <1>0, <1>5, ForkReaping DEF SignalArrives
<1>6. CASE Waitpid
  BY <1>0, <1>6, ForkReaping DEF Waitpid, Zombies
<1>7. CASE \E c \in Clients : ChildStep(c)
  <2> PICK c \in Clients : ChildStep(c)
    BY <1>7
  <2>1. CASE ChildExits(c)
    BY <1>0, <2>1, ForkReaping DEF ChildExits, SignalParent
  <2> QED
    BY <2>1, ForkChildMoves, ForkChildCloses, ForkChildDies DEF ChildStep
<1>8. CASE \E c \in Clients : Environment(c)
  BY <1>8, ForkEnvironment
<1>9. CASE UNCHANGED vars
  BY <1>0, <1>9, ForkReaping DEF vars, parentVars
<1> QED BY <1>1, <1>2, <1>3, <1>4, <1>5, <1>6, <1>7, <1>8, <1>9 DEF Next, ParentStep

\* The types of the multi-process server are right in every state.
THEOREM TypeCorrect == Spec => []TypeOK
<1>1. ForkInv => TypeOK
  BY DEF ForkInv
<1> QED BY <1>1, ForkInit, ForkNext, PTL DEF Spec

\* A connection is open exactly as long as a child works on it or the parent
\* is about to give it to one, in whichever order the two close it.
THEOREM OpenWhileHandledAlways == Spec => []OpenWhileHandled
<1>1. ForkInv => OpenWhileHandled
  BY ForkAssumption DEF ForkInv, ChildOK, ParentOK, OpenWhileHandled
<1> QED BY <1>1, ForkInit, ForkNext, PTL DEF Spec

\* A client that ended without its own result is one whose call was dropped:
\* its child died of it, or fork() failed for it.
THEOREM LostOnlyByCrashAlways == Spec => []LostOnlyByCrash
<1>1. ForkInv => LostOnlyByCrash
  BY CallsImply DEF ForkInv
<1> QED BY <1>1, ForkInit, ForkNext, PTL DEF Spec

-----------------------------------------------------------------------------
(* Why calls are dropped *)

\* A step that drops a call leaves an explanation behind, and it stays.
LEMMA DropNext ==
  ASSUME ForkInv, DropExplained, [Next]_vars
  PROVE  DropExplained'
<1> DEFINE Why(c) == \/ c \in Trapping /\ req[c] = "whole"
                     \/ cpc[c] = "gone"
                     \/ child[c] = "none" /\ srvEnd[c] = "closed"
<1>1. \A c \in dropped : c \in Clients /\ Why(c)
  BY ForkParts DEF DropExplained, ConnTypeOK
<1>2. SUFFICES ASSUME NEW c \in dropped' PROVE Why(c)'
  BY DEF DropExplained
<1>3. CASE c \notin dropped
  <2>1. ForkFails \/ \E d \in Clients : ChildDies(d)
    <3>1. ASSUME NEW d \in Clients, Environment(d)
          PROVE  dropped' = dropped
      BY <3>1, ForkParts, EnvironmentLeaves DEF Environment
    <3>2. ASSUME NEW d \in Clients, ChildMoves(d)
          PROVE  dropped' = dropped
      BY <3>2, ForkParts, HandlerLeaves DEF ChildMoves
    <3> QED
      BY <1>2, <1>3, <3>1, <3>2
      DEF Next, ParentStep, ChildStep, Accept, Fork, ParentCloses, SignalArrives, Waitpid,
          ChildCloses, ChildExits, vars, connVars
  <2>2. CASE ForkFails
    <3>1. c = cur /\ cur \in Clients /\ child[cur] = "none" /\ child' = child
          /\ srvEnd' = [srvEnd EXCEPT ![cur] = "closed"]
      BY <1>2, <1>3, <2>2 DEF ForkFails, ForkInv, ParentOK
    <3> QED BY <3>1, ForkParts DEF ConnTypeOK
  <2>3. ASSUME NEW d \in Clients, ChildDies(d)
        PROVE  Why(c)'
    <3>1. c = d /\ Dies(c) /\ UNCHANGED <<cpc, req>>
      BY <1>2, <1>3, <2>3 DEF ChildDies, clientVars, handlerVars
    <3>2. cpc[c] = "gone" \/ (c \in Trapping /\ req[c] = "whole")
      BY <1>3, <3>1, ForkParts, DiesBlames DEF CallsOK
    <3> QED BY <3>1, <3>2
  <2> QED BY <2>1, <2>2, <2>3
<1>4. CASE c \in dropped
  <2>0. c \in Clients /\ Why(c) /\ ChildOK(c)
    BY <1>1, <1>4 DEF ForkInv
  <2>1. req[c] = "whole" => req'[c] = "whole"
    <3>1. ASSUME NEW d \in Clients, ChildMoves(d)
          PROVE  req'[c] = req[c]
      <4>1. d # c
        BY <1>4, <3>1 DEF ChildMoves, ForkInv, ChildOK
      <4> QED BY <2>0, <3>1, <4>1, ForkParts, HandlerLeaves DEF ChildMoves
    <3>2. ASSUME NEW d \in Clients, Environment(d)
          PROVE  req' = req
      BY <3>2, ForkParts, EnvironmentLeaves DEF Environment
    <3> QED
      BY <3>1, <3>2
      DEF Next, ParentStep, ChildStep, Accept, Fork, ForkFails, ParentCloses,
          SignalArrives, Waitpid, ChildCloses, ChildExits, ChildDies, vars, connVars,
          handlerVars
  <2>2. cpc[c] = "gone" => cpc'[c] = "gone"
    <3>1. ASSUME NEW d \in Clients, ChildMoves(d)
          PROVE  cpc' = cpc
      BY <3>1, ForkParts, HandlerLeaves DEF ChildMoves
    <3>2. ASSUME NEW d \in Clients, Environment(d)
          PROVE  cpc[c] = "gone" => cpc'[c] = "gone"
      BY <2>0, <3>2, ForkParts, EnvironmentLeaves DEF Environment
    <3> QED
      BY <3>1, <3>2
      DEF Next, ParentStep, ChildStep, Accept, Fork, ForkFails, ParentCloses,
          SignalArrives, Waitpid, ChildCloses, ChildExits, ChildDies, vars, connVars,
          clientVars
  <2>3. child[c] = "none" /\ srvEnd[c] = "closed"
          => child'[c] = "none" /\ srvEnd'[c] = "closed"
    <3> SUFFICES ASSUME child[c] = "none", srvEnd[c] = "closed"
                 PROVE  child'[c] = "none" /\ srvEnd'[c] = "closed"
      OBVIOUS
    <3>0. /\ child \in [Clients -> {"none", "running", "exiting", "zombie", "reaped"}]
          /\ ConnTypeOK
      BY DEF ForkInv, TypeOK
    <3>1. CASE Accept
      <4>1. Head(pending) \in Clients /\ srvEnd[Head(pending)] = "pending"
        BY <3>1, ForkParts, AcceptQueue DEF Accept, clientVars
      <4> QED BY <2>0, <3>0, <3>1, <4>1 DEF Accept, ConnTypeOK
    <3>2. CASE Fork \/ ForkFails \/ ParentCloses
      <4>1. cur \in Clients /\ srvEnd[cur] = "open"
        BY <3>2 DEF Fork, ForkFails, ParentCloses, ForkInv, ParentOK
      <4>2. c # cur
        BY <4>1
      <4> QED BY <2>0, <3>0, <3>2, <4>1, <4>2 DEF Fork, ForkFails, ParentCloses, ConnTypeOK
    <3>3. CASE SignalArrives \/ Waitpid \/ UNCHANGED vars
      BY <2>0, <3>0, <3>3 DEF SignalArrives, Waitpid, Zombies, vars, connVars
    <3>4. ASSUME NEW d \in Clients, ChildStep(d)
          PROVE  child'[c] = "none" /\ srvEnd'[c] = "closed"
      <4>1. d # c
        BY <3>4 DEF ChildStep, ChildMoves, ChildCloses, ChildExits, ChildDies
      <4>2. CASE ChildMoves(d)
        BY <3>0, <4>2, HandlerLeaves DEF ChildMoves
      <4>3. CASE ChildCloses(d) \/ ChildExits(d) \/ ChildDies(d)
        BY <2>0, <3>0, <4>1, <4>3
        DEF ChildCloses, ChildExits, ChildDies, ChildEnd, connVars, ConnTypeOK
      <4> QED BY <3>4, <4>2, <4>3 DEF ChildStep
    <3>5. ASSUME NEW d \in Clients, Environment(d)
          PROVE  child'[c] = "none" /\ srvEnd'[c] = "closed"
      BY <2>0, <3>5, ForkParts, EnvironmentLeaves DEF Environment
    <3> QED BY <3>1, <3>2, <3>3, <3>4, <3>5 DEF Next, ParentStep
  <2> QED BY <2>0, <2>1, <2>2, <2>3
<1> QED BY <1>3, <1>4

\* A call is dropped for its own sake only: what ends one child leaves the
\* calls of the others alone.
THEOREM DropExplainedAlways == Spec => []DropExplained
<1>1. Init => ForkInv /\ DropExplained
  BY ForkInit DEF Init, ConnInit, DropExplained
<1>2. ForkInv /\ DropExplained /\ [Next]_vars => ForkInv' /\ DropExplained'
  BY ForkNext, DropNext
<1> QED BY <1>1, <1>2, PTL DEF Spec

-----------------------------------------------------------------------------
(* Reaping *)

\* There are finitely many children.
LEMMA ZombiesFinite ==
  IsFiniteSet(Zombies) /\ Cardinality(Zombies) \in Nat
<1>1. Zombies \subseteq Clients
  BY DEF Zombies
<1>2. IsFiniteSet(Zombies)
  BY <1>1, ForkAssumption, FS_Subset
<1> QED BY <1>2, FS_CardinalityType

\* A child that ends, by itself or by its call, is one more to wait for, and
\* has a signal of its own or one with a signal that is pending.
LEMMA CountedEnd ==
  ASSUME ForkInv, SignalsCounted, NEW c \in Clients, child[c] \in {"running", "exiting"},
         child' = [child EXCEPT ![c] = "zombie"], SignalParent
  PROVE  SignalsCounted'
<1>1. Zombies' = Zombies \cup {c} /\ c \notin Zombies
  BY DEF Zombies, ForkInv, TypeOK
<1>2. Cardinality(Zombies') = Cardinality(Zombies) + 1
  BY <1>1, ZombiesFinite, FS_AddElement
<1>3. inHandler' = inHandler /\ sigchld' = TRUE
      /\ merged' = (IF sigchld THEN merged + 1 ELSE merged)
  BY DEF SignalParent
<1> QED
  BY <1>2, <1>3, ZombiesFinite DEF SignalsCounted, ForkInv, TypeOK

\* The handler waits for one child, and there is one to wait for.
LEMMA CountedWait ==
  ASSUME ForkInv, SignalsCounted, Waitpid
  PROVE  SignalsCounted'
<1>0. /\ merged \in Nat /\ sigchld \in BOOLEAN
      /\ inHandler = TRUE /\ inHandler' = FALSE /\ UNCHANGED <<sigchld, merged>>
  BY DEF Waitpid, ForkInv, TypeOK
<1>1. Zombies # {}
  <2> SUFFICES ASSUME Zombies = {} PROVE FALSE
    OBVIOUS
  <2>1. Cardinality(Zombies) = 0
    BY FS_EmptySet
  <2> QED BY <1>0, <2>1 DEF SignalsCounted
<1>2. PICK c \in Zombies : child' = [child EXCEPT ![c] = "reaped"]
  BY <1>1 DEF Waitpid
<1>3. Zombies' = Zombies \ {c}
  BY <1>2 DEF Zombies, ForkInv, TypeOK
<1>4. Cardinality(Zombies') = Cardinality(Zombies) - 1
  BY <1>2, <1>3, ZombiesFinite, FS_RemoveElement
<1> QED BY <1>0, <1>4, ZombiesFinite DEF SignalsCounted

\* Every step keeps the count.
LEMMA CountedNext ==
  ASSUME ForkInv, SignalsCounted, [Next]_vars
  PROVE  SignalsCounted'
<1>0. child \in [Clients -> {"none", "running", "exiting", "zombie", "reaped"}]
  BY DEF ForkInv, TypeOK
<1>1. CASE UNCHANGED <<child, sigchld, inHandler, merged>>
  BY <1>1 DEF SignalsCounted, Zombies
<1>2. CASE SignalArrives
  <2>1. /\ sigchld = TRUE /\ inHandler = FALSE /\ sigchld' = FALSE /\ inHandler' = TRUE
        /\ merged' = merged /\ merged \in Nat /\ Zombies' = Zombies
    BY <1>2 DEF SignalArrives, Zombies, ForkInv, TypeOK
  <2> QED BY <2>1 DEF SignalsCounted
<1>3. CASE Waitpid
  BY <1>3, CountedWait
<1>4. ASSUME NEW c \in Clients, ChildExits(c) \/ ChildDies(c)
      PROVE  SignalsCounted'
  BY <1>4, CountedEnd DEF ChildExits, ChildDies
<1>5. CASE Fork
  <2>1. cur \in Clients /\ child[cur] = "none" /\ child' = [child EXCEPT ![cur] = "running"]
        /\ UNCHANGED <<sigchld, inHandler, merged>>
    BY <1>5 DEF Fork, ForkInv, ParentOK
  <2>2. Zombies' = Zombies
    BY <1>0, <2>1 DEF Zombies
  <2> QED BY <2>1, <2>2 DEF SignalsCounted
<1>6. ASSUME NEW c \in Clients, ChildCloses(c)
      PROVE  SignalsCounted'
  <2>1. child[c] = "running" /\ child' = [child EXCEPT ![c] = "exiting"]
        /\ UNCHANGED <<sigchld, inHandler, merged>>
    BY <1>6 DEF ChildCloses, parentVars
  <2>2. Zombies' = Zombies
    BY <1>0, <2>1 DEF Zombies
  <2> QED BY <2>1, <2>2 DEF SignalsCounted
<1> QED
  BY <1>1, <1>2, <1>3, <1>4, <1>5, <1>6
  DEF Next, ParentStep, ChildStep, Accept, ForkFails, ParentCloses, ChildMoves,
      Environment, parentVars, vars

\* A child that has ended and is not waited for has its signal pending or in
\* the parent's hands, or had it swallowed by one that was pending: whatever
\* the parent is doing when a signal comes, no other is lost.
THEOREM SignalsCountedAlways == Spec => []SignalsCounted
<1>1. Init => ForkInv /\ SignalsCounted
  <2> SUFFICES ASSUME Init PROVE SignalsCounted
    BY ForkInit
  <2>1. Zombies = {} /\ merged = 0 /\ sigchld = FALSE /\ inHandler = FALSE
    BY DEF Init, Zombies
  <2>2. Cardinality(Zombies) = 0
    BY <2>1, FS_EmptySet
  <2> QED BY <2>1, <2>2 DEF SignalsCounted
<1>2. ForkInv /\ SignalsCounted /\ [Next]_vars => ForkInv' /\ SignalsCounted'
  BY ForkNext, CountedNext
<1> QED BY <1>1, <1>2, PTL DEF Spec

-----------------------------------------------------------------------------
(* The service *)

\* Every step is a step of the service or leaves it alone: a failed fork() and
\* the death of a child are crashes that take one call with them.
LEMMA NextRefines ==
  ForkInv /\ ForkInv' /\ [Next]_vars
    => [Abstract!ServiceNext]_Abstract!serviceVars
<1> SUFFICES ASSUME ForkInv, ForkInv', [Next]_vars PROVE ServiceStep
  BY DEF ServiceStep
<1>1. ConnTypeOK /\ ConnTypeOK' /\ CallsOK /\ CallsOK' /\ UpOK
  BY ForkParts DEF ForkInv, TypeOK
<1>2. CASE Accept \/ Fork \/ ParentCloses \/ SignalArrives \/ Waitpid \/ UNCHANGED vars
  <2>1. UNCHANGED <<dropped, cpc, shown, reply>>
    BY <1>2
    DEF Accept, Fork, ParentCloses, SignalArrives, Waitpid, vars, connVars, clientVars,
        handlerVars
  <2> QED BY <2>1, StutterRefines DEF ServiceStep
<1>3. CASE ForkFails
  <2>1. UNCHANGED <<cpc, shown, reply>> /\ dropped \subseteq dropped' /\ dropped' \subseteq Clients
    BY <1>1, <1>3 DEF ForkFails, clientVars, handlerVars, ConnTypeOK
  <2> QED BY <1>1, <2>1, DropRefines
<1>4. ASSUME NEW c \in Clients, ChildDies(c)
      PROVE  ServiceStep
  <2>1. UNCHANGED <<cpc, shown, reply>> /\ dropped \subseteq dropped' /\ dropped' \subseteq Clients
    BY <1>1, <1>4 DEF ChildDies, clientVars, handlerVars, ConnTypeOK
  <2> QED BY <1>1, <2>1, DropRefines
<1>5. ASSUME NEW c \in Clients, ChildMoves(c)
      PROVE  ServiceStep
  <2>1. c \notin dropped /\ HandlerStep(c)
    BY <1>5 DEF ChildMoves, ForkInv, ChildOK
  <2> QED BY <1>1, <2>1, HandlerStepRefines DEF CallsOK
<1>6. ASSUME NEW c \in Clients, ChildCloses(c) \/ ChildExits(c)
      PROVE  ServiceStep
  <2>1. UNCHANGED <<dropped, cpc, shown, reply>>
    BY <1>6 DEF ChildCloses, ChildExits, connVars, clientVars, handlerVars
  <2> QED BY <2>1, StutterRefines DEF ServiceStep
<1>7. ASSUME NEW c \in Clients, Environment(c)
      PROVE  ServiceStep
  <2>1. CallOK(c) /\ CallOK(c)'
    BY <1>1 DEF CallsOK
  <2> QED BY <1>1, <1>7, <2>1, ClientStepRefines, NetStepRefines DEF Environment
<1> QED BY <1>2, <1>3, <1>4, <1>5, <1>6, <1>7 DEF Next, ParentStep, ChildStep

\* The multi-process server implements the calculator service, for any number
\* of clients and processes.
THEOREM Implementation == Spec => ImplementsService
<1>1. Init => Abstract!ServiceInit
  BY InitRefines DEF Init
<1> QED
  BY <1>1, ForkInit, ForkNext, NextRefines, PTL
  DEF Spec, ImplementsService, Abstract!Service
=============================================================================
