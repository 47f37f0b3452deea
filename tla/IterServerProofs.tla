--------------------------- MODULE IterServerProofs ---------------------------
(***************************************************************************)
(* Theorems about IterServer, for any number of clients, any sizes of      *)
(* header and bodies, and whatever the clients and the network do.         *)
(***************************************************************************)
EXTENDS IterServer, CalConnProofs

USE DEF serverVars

\* The loop runs as long as the process does.  A process that runs has none of
\* the connections of the ones before it.
AliveOK ==
  /\ up <=> pc \notin Down
  /\ ~ up => dropped = Clients /\ \A c \in Clients : srvEnd[c] \notin {"pending", "open"}
  /\ up => \A c \in dropped : cpc[c] # "init" /\ srvEnd[c] \notin {"pending", "open"}

\* The handler runs for an open connection.
HandlingOK ==
  pc = "handle" =>
    cur \in Clients /\ srvEnd[cur] = "open" /\ hpc[cur] \notin {"idle", "closed"}

\* No connection is open but the one in the server's hands, and the handler
\* has not been called for one that is not accepted.
OneCall ==
  \A c \in Clients :
    /\ srvEnd[c] = "open" => pc = "handle" /\ cur = c
    /\ srvEnd[c] \in {"none", "pending"} => hpc[c] = "idle"

\* The inductive invariant.
IterInv ==
  /\ TypeOK
  /\ QueueOK
  /\ AliveOK
  /\ HandlingOK
  /\ OneCall
  /\ CallsOK

\* The states in which the event loop is and those in which there is none.
LEMMA Places ==
  /\ "accept" \notin Down /\ "handle" \notin Down
  /\ "dead" \in Down /\ "stopped" \in Down /\ "refused" \in Down
  BY DEF Down

\* The invariant holds when the loop starts.
LEMMA IterInit == Init => IterInv
<1> SUFFICES ASSUME Init PROVE IterInv
  OBVIOUS
<1>1. ConnTypeOK /\ QueueOK /\ CallsOK
  BY ConnInitType, ConnInitQueue, ConnInitCalls DEF Init
<1> QED
  BY <1>1, IterAssumption
  DEF IterInv, TypeOK, AliveOK, HandlingOK, OneCall, Init, ConnInit, Down

\* Clients and kernel keep it.
LEMMA IterEnvironment ==
  ASSUME NEW c \in Clients, IterInv, Environment(c)
  PROVE  IterInv'
<1>1. ConnTypeOK /\ QueueOK /\ CallsOK /\ UpOK
  BY DEF IterInv, TypeOK, AliveOK, UpOK
<1>2. (ClientStep(c) \/ NetStep(c)) /\ UNCHANGED <<pc, cur, lingering, starts>>
  BY DEF Environment, loopVars, kernelVars
<1>3. ConnTypeOK' /\ QueueOK' /\ CallsOK'
  BY <1>1, <1>2, ClientStepType, NetStepType, ClientStepQueue, NetStepQueue,
     ClientNetStepCalls
<1>4. /\ UNCHANGED <<up, dropped, hpc>>
      /\ \A d \in Clients :
           /\ srvEnd'[d] = "open" <=> srvEnd[d] = "open"
           /\ srvEnd'[d] \in {"none", "pending"} => srvEnd[d] \in {"none", "pending"}
           /\ srvEnd'[d] = "pending" => srvEnd[d] = "pending" \/ (up /\ cpc[d] = "init")
           /\ cpc'[d] = "init" => cpc[d] = "init"
  BY <1>1, <1>2, EnvironmentLeaves
<1>5. HandlingOK' /\ OneCall'
  BY <1>2, <1>4 DEF IterInv, HandlingOK, OneCall
<1>6. AliveOK'
  BY <1>1, <1>2, <1>4 DEF IterInv, AliveOK, ConnTypeOK
<1> QED BY <1>2, <1>3, <1>5, <1>6 DEF IterInv, TypeOK

\* accept() takes the first queued connection, and HandleIoEvent begins.
LEMMA IterAccept ==
  ASSUME IterInv, Accept
  PROVE  IterInv'
<1> DEFINE c == Head(pending)
<1>1. ConnTypeOK /\ QueueOK /\ CallsOK /\ pc = "accept" /\ up
  BY Places DEF IterInv, TypeOK, AliveOK, Accept
<1>2. /\ pending # <<>> /\ pending' = Tail(pending) /\ cpc' = cpc
      /\ srvEnd' = [srvEnd EXCEPT ![c] = "open"]
      /\ hpc' = [hpc EXCEPT ![c] = "recvHead"]
      /\ cur' = c /\ pc' = "handle"
      /\ UNCHANGED <<up, dropped, clientVars, netVars, taken, req, reply, put>>
  BY DEF Accept, clientVars
<1>3. c \in Clients /\ srvEnd[c] = "pending" /\ pending' \in Seq(Clients) /\ QueueOK'
  BY <1>1, <1>2, AcceptQueue
<1> HIDE DEF c
<1>4. hpc[c] = "idle"
  BY <1>1, <1>3 DEF IterInv, OneCall
<1>5. CallsOK'
  <2>1. \A d \in Clients : srvEnd'[d] = "closed" => srvEnd[d] = "closed"
    BY <1>1, <1>2 DEF ConnTypeOK
  <2> QED BY <1>1, <1>2, <1>3, <1>4, <2>1, BeginCalls
<1>6. TypeOK'
  BY <1>1, <1>2, <1>3 DEF TypeOK, ConnTypeOK, clientVars, netVars, Accept, kernelVars, IterInv
<1>7. HandlingOK' /\ OneCall'
  BY <1>1, <1>2, <1>3 DEF IterInv, HandlingOK, OneCall, ConnTypeOK
<1>8. AliveOK'
  <2>1. c \notin dropped
    BY <1>1, <1>3 DEF IterInv, AliveOK
  <2> QED
    BY <1>1, <1>2, <1>3, <2>1, Places DEF IterInv, AliveOK, ConnTypeOK
<1> QED BY <1>1, <1>2, <1>3, <1>5, <1>6, <1>7, <1>8 DEF IterInv

\* A step of the handler keeps the invariant.
LEMMA IterHandler ==
  ASSUME IterInv, HandlerMoves
  PROVE  IterInv'
<1>1. /\ ConnTypeOK /\ QueueOK /\ CallsOK /\ pc = "handle"
      /\ cur \in Clients /\ srvEnd[cur] = "open" /\ cur \notin dropped
  BY Places DEF IterInv, TypeOK, AliveOK, HandlingOK, HandlerMoves
<1>2. HandlerStep(cur) /\ UNCHANGED <<pc, cur, lingering, starts>>
  BY DEF HandlerMoves, loopVars, kernelVars
<1>3. ConnTypeOK' /\ QueueOK' /\ CallsOK'
  BY <1>1, <1>2, HandlerStepType, HandlerStepQueue, HandlerStepCalls
<1>4. /\ UNCHANGED <<up, dropped, srvEnd, cpc>>
      /\ hpc'[cur] \notin {"idle", "closed"}
      /\ \A d \in Clients \ {cur} : hpc'[d] = hpc[d]
  BY <1>1, <1>2, HandlerLeaves
<1>5. HandlingOK' /\ OneCall'
  BY <1>1, <1>2, <1>4 DEF IterInv, HandlingOK, OneCall
<1>6. AliveOK'
  BY <1>2, <1>4 DEF IterInv, AliveOK
<1> QED BY <1>2, <1>3, <1>5, <1>6 DEF IterInv, TypeOK

\* close() ends the call in the server's hands.
LEMMA IterClose ==
  ASSUME IterInv, Close
  PROVE  IterInv'
<1>1. /\ ConnTypeOK /\ QueueOK /\ CallsOK /\ pc = "handle" /\ up
      /\ cur \in Clients /\ srvEnd[cur] = "open"
  BY Places DEF IterInv, TypeOK, AliveOK, HandlingOK, Close
<1>2. /\ hpc[cur] = "close" /\ hpc' = [hpc EXCEPT ![cur] = "closed"]
      /\ srvEnd' = [srvEnd EXCEPT ![cur] = "closed"]
      /\ cur' = None /\ pc' = "accept"
      /\ lingering' = lingering \cup Parting
      /\ UNCHANGED <<up, dropped, pending, clientVars, netVars, taken, req, reply, put, starts>>
  BY DEF Close, serverVars
<1>3. CallsOK'
  BY <1>1, <1>2, EndCalls
<1>4. QueueOK'
  BY <1>1, <1>2, CloseQueue DEF clientVars
<1>5. TypeOK'
  <2>1. lingering' \subseteq Clients /\ starts' \in 1 .. MaxStarts
    BY <1>2 DEF IterInv, TypeOK, Parting
  <2> QED BY <1>1, <1>2, <2>1 DEF TypeOK, ConnTypeOK, clientVars, netVars
<1>6. HandlingOK' /\ OneCall'
  BY <1>1, <1>2 DEF IterInv, HandlingOK, OneCall, ConnTypeOK
<1>7. AliveOK'
  BY <1>1, <1>2, Places DEF IterInv, AliveOK, ConnTypeOK, clientVars
<1> QED BY <1>1, <1>2, <1>3, <1>4, <1>5, <1>6, <1>7 DEF IterInv

\* The end of the process, whatever its reason.
LEMMA IterEnd ==
  ASSUME IterInv, NEW how \in Down, End(how)
  PROVE  IterInv'
<1>1. /\ ProcessEnds /\ pc' = how /\ cur' = None
      /\ lingering' = lingering \cup Parting /\ starts' = starts
  BY DEF End
<1>2. ConnTypeOK' /\ QueueOK' /\ CallsOK'
  BY <1>1, ProcessEndsType, ProcessEndsQueue, ProcessEndsCalls DEF IterInv, TypeOK
<1>3. lingering \subseteq Clients /\ Parting \subseteq Clients /\ pc' \in Down
  BY <1>1 DEF IterInv, TypeOK, Parting
<1>4. TypeOK'
  BY <1>1, <1>2, <1>3 DEF IterInv, TypeOK
<1>5. AliveOK' /\ HandlingOK' /\ OneCall'
  BY <1>1, <1>3, Places
  DEF IterInv, TypeOK, ConnTypeOK, AliveOK, HandlingOK, OneCall, ProcessEnds, handlerVars
<1> QED BY <1>2, <1>4, <1>5 DEF IterInv

\* A new process starts with the calls that have not been made.
LEMMA IterStart ==
  ASSUME IterInv, Start
  PROVE  IterInv'
<1>1. /\ pc \in Down /\ ~ up /\ dropped = Clients /\ ConnTypeOK /\ QueueOK /\ CallsOK
  BY DEF Start, IterInv, TypeOK, AliveOK
<1>2. /\ up' = TRUE /\ dropped' = {c \in Clients : cpc[c] # "init"} /\ pc' = "accept"
      /\ starts < MaxStarts /\ starts' = starts + 1
      /\ UNCHANGED <<pending, clientVars, netVars, srvEnd, handlerVars, cur, lingering>>
  BY DEF Start
<1>3. ConnTypeOK' /\ QueueOK'
  BY <1>1, <1>2 DEF ConnTypeOK, QueueOK, clientVars, netVars, handlerVars
<1>4. TypeOK'
  BY <1>2, <1>3, IterAssumption DEF IterInv, TypeOK
<1>5. CallsOK'
  <2> SUFFICES ASSUME NEW c \in Clients PROVE CallOK(c)'
    BY DEF CallsOK
  <2>1. StreamOK(c)' /\ HandlerOK(c)'
    BY <1>1, <1>2 DEF CallsOK, CallOK, StreamOK, HandlerOK, clientVars, netVars, handlerVars
  <2>2. cpc[c] = "init" => srvEnd[c] = "none" /\ shown[c] = "none"
    BY <1>1 DEF QueueOK, CallsOK, CallOK, OutcomeOK
  <2>3. OutcomeOK(c)'
    BY <1>1, <1>2, <2>2 DEF CallsOK, CallOK, OutcomeOK, clientVars, netVars, handlerVars
  <2> QED BY <2>1, <2>3 DEF CallOK
<1>6. HandlingOK' /\ OneCall'
  BY <1>1, <1>2, Places DEF IterInv, HandlingOK, OneCall, handlerVars
<1>7. AliveOK'
  BY <1>1, <1>2, Places DEF IterInv, AliveOK, clientVars
<1> QED BY <1>3, <1>4, <1>5, <1>6, <1>7 DEF IterInv

\* What the predicates say is about the connections only.
LEMMA SameConn ==
  ASSUME ConnTypeOK, QueueOK, CallsOK, UNCHANGED connVars
  PROVE  ConnTypeOK' /\ QueueOK' /\ CallsOK'
  BY DEF connVars, clientVars, netVars, handlerVars, ConnTypeOK, QueueOK,
         CallsOK, CallOK, StreamOK, HandlerOK, OutcomeOK

\* Every step keeps the invariant.
LEMMA IterNext == IterInv /\ [Next]_vars => IterInv'
<1> SUFFICES ASSUME IterInv, [Next]_vars PROVE IterInv'
  OBVIOUS
<1>1. CASE Accept
  BY <1>1, IterAccept
<1>2. CASE HandlerMoves
  BY <1>2, IterHandler
<1>3. CASE Close
  BY <1>3, IterClose
<1>4. CASE Die \/ Stop
  BY <1>4, IterEnd, Places DEF Die, Stop
<1>5. CASE Start
  BY <1>5, IterStart
<1>6. CASE StartRefused
  <2>1. /\ pc \in Down /\ pc' = "refused" /\ starts < MaxStarts /\ starts' = starts + 1
        /\ UNCHANGED <<connVars, cur, lingering>>
    BY <1>6 DEF StartRefused
  <2>2. ConnTypeOK' /\ QueueOK' /\ CallsOK'
    BY <2>1, SameConn DEF IterInv, TypeOK
  <2>3. TypeOK'
    BY <2>1, <2>2, Places, IterAssumption DEF IterInv, TypeOK
  <2> QED
    BY <2>1, <2>2, <2>3, Places
    DEF connVars, clientVars, handlerVars, IterInv, AliveOK, HandlingOK, OneCall
<1>7. CASE \E c \in Clients : Environment(c)
  BY <1>7, IterEnvironment
<1>8. CASE (\E c \in Clients : LingerEnds(c)) \/ UNCHANGED vars
  <2>1. UNCHANGED <<connVars, pc, cur, starts>> /\ lingering' \subseteq lingering
    BY <1>8 DEF LingerEnds, vars, loopVars, kernelVars
  <2>2. ConnTypeOK' /\ QueueOK' /\ CallsOK'
    BY <2>1, SameConn DEF IterInv, TypeOK
  <2> QED
    BY <2>1, <2>2
    DEF connVars, clientVars, handlerVars, IterInv, TypeOK, AliveOK, HandlingOK, OneCall
<1> QED
  BY <1>1, <1>2, <1>3, <1>4, <1>5, <1>6, <1>7, <1>8 DEF Next, ServerStep, Operator

\* The types of the iterative server are right in every state.
THEOREM TypeCorrect == Spec => []TypeOK
<1>1. IterInv => TypeOK
  BY DEF IterInv
<1> QED BY <1>1, IterInit, IterNext, PTL DEF Spec

\* A client that ended without its own result was failed by a process that had
\* its call and ended, whichever process runs now.
THEOREM LostOnlyByCrashAlways == Spec => []LostOnlyByCrash
<1>1. IterInv => LostOnlyByCrash
  BY CallsImply DEF IterInv
<1> QED BY <1>1, IterInit, IterNext, PTL DEF Spec

\* A connection the loop closed is one whose call is over, except of a client
\* that went away: a handler that had read less, or had computed from less, had
\* met the end of the client's stream.
LEMMA CallsClosed == ConnTypeOK /\ CallsOK => ClosedInFull
<1> SUFFICES ASSUME ConnTypeOK, CallsOK,
                    NEW c \in Clients, hpc[c] = "closed", cpc[c] # "gone"
             PROVE  /\ ~ rst[c] /\ taken[c] = HeadSz + ReqSz
                    /\ reply[c] = "own" /\ put[c] = HeadSz + ResSz
  BY DEF ClosedInFull
<1>1. HandlerOK(c) /\ OutcomeOK(c)
  BY DEF CallsOK, CallOK
<1>2. ~ rst[c] /\ req[c] # "junk"
  BY <1>1 DEF OutcomeOK
<1>3. put[c] = HeadSz + ResSz /\ req[c] = "whole" /\ reply[c] = "own"
  BY <1>1, <1>2 DEF HandlerOK, ConnTypeOK
<1> QED BY <1>1, <1>2, <1>3 DEF HandlerOK

\* In every life of the process, what the loop closes is a connection it has
\* read empty and answered in full, or one whose client went away.
THEOREM ClosedInFullAlways == Spec => []ClosedInFull
<1>1. IterInv => ClosedInFull
  BY CallsClosed DEF IterInv, TypeOK
<1> QED BY <1>1, IterInit, IterNext, PTL DEF Spec

-----------------------------------------------------------------------------
(* The end of the process *)

\* A step that ends the process leaves an explanation behind, and it stays.
LEMMA DeathNext ==
  ASSUME IterInv, DeathExplained, [Next]_vars
  PROVE  DeathExplained'
<1>1. ConnTypeOK /\ QueueOK /\ CallsOK
  BY DEF IterInv, TypeOK
<1>2. CASE Die
  <2>1. cur \in Clients /\ cur \notin dropped /\ Dies(cur) /\ UNCHANGED <<cpc, req>>
    BY <1>2, Places
    DEF Die, End, IterInv, HandlingOK, AliveOK, ProcessEnds, clientVars, handlerVars
  <2>2. cpc[cur] = "gone" \/ (cur \in Trapping /\ req[cur] = "whole")
    BY <1>1, <2>1, DiesBlames DEF CallsOK
  <2> QED BY <2>1, <2>2 DEF DeathExplained
<1>3. CASE Accept \/ Close \/ Operator
  BY <1>3 DEF Accept, Close, Operator, Stop, End, Start, StartRefused, DeathExplained
<1>4. CASE HandlerMoves
  BY <1>4 DEF HandlerMoves, loopVars, DeathExplained
<1>5. ASSUME NEW c \in Clients, Environment(c)
      PROVE  DeathExplained'
  <2>1. /\ UNCHANGED <<pc, req>>
        /\ \A d \in Clients : cpc[d] = "gone" => cpc'[d] = "gone"
    BY <1>1, <1>5, EnvironmentLeaves DEF Environment, loopVars
  <2> QED BY <2>1 DEF DeathExplained
<1>6. CASE (\E c \in Clients : LingerEnds(c)) \/ UNCHANGED vars
  BY <1>6 DEF LingerEnds, vars, loopVars, connVars, clientVars, handlerVars, DeathExplained
<1> QED BY <1>2, <1>3, <1>4, <1>5, <1>6 DEF Next, ServerStep

\* A server nobody stopped ends only by a division somebody asked for or by a
\* client that went away in the middle of its call.
THEOREM DeathExplainedAlways == Spec => []DeathExplained
<1>1. Init => IterInv /\ DeathExplained
  BY IterInit DEF Init, DeathExplained
<1>2. IterInv /\ DeathExplained /\ [Next]_vars => IterInv' /\ DeathExplained'
  BY IterNext, DeathNext
<1> QED BY <1>1, <1>2, PTL DEF Spec

-----------------------------------------------------------------------------
(* The service *)

\* Every step is a step of the service or leaves it alone.
LEMMA NextRefines ==
  IterInv /\ IterInv' /\ [Next]_vars
    => [Abstract!ServiceNext]_Abstract!serviceVars
<1> SUFFICES ASSUME IterInv, IterInv', [Next]_vars PROVE ServiceStep
  BY DEF ServiceStep
<1>1. ConnTypeOK /\ CallsOK /\ CallsOK' /\ UpOK
  BY DEF IterInv, TypeOK, AliveOK, UpOK
<1>2. CASE \/ Accept \/ Close \/ StartRefused
           \/ \E c \in Clients : LingerEnds(c)
           \/ UNCHANGED vars
  <2>1. UNCHANGED <<dropped, cpc, shown, reply>>
    BY <1>2
    DEF Accept, Close, StartRefused, LingerEnds, vars, connVars, clientVars, handlerVars
  <2> QED BY <2>1, StutterRefines DEF ServiceStep
<1>3. CASE Die \/ Stop
  BY <1>1, <1>3, ProcessEndsRefines DEF Die, Stop, End
<1>4. CASE HandlerMoves
  <2>1. cur \in Clients /\ cur \notin dropped /\ HandlerStep(cur)
    BY <1>4, Places DEF HandlerMoves, IterInv, HandlingOK, AliveOK
  <2> QED BY <1>1, <2>1, HandlerStepRefines DEF CallsOK
<1>6. CASE Start
  <2>1. /\ dropped = Clients /\ dropped' = {c \in Clients : cpc[c] # "init"}
        /\ UNCHANGED <<cpc, shown, reply>>
    BY <1>6 DEF Start, IterInv, AliveOK, clientVars, handlerVars
  <2> QED BY <1>1, <2>1, StartRefines
<1>5. ASSUME NEW c \in Clients, Environment(c)
      PROVE  ServiceStep
  <2>1. CallOK(c) /\ CallOK(c)'
    BY <1>1 DEF CallsOK
  <2> QED BY <1>1, <1>5, <2>1, ClientStepRefines, NetStepRefines DEF Environment
<1> QED BY <1>2, <1>3, <1>4, <1>5, <1>6 DEF Next, ServerStep, Operator

\* The iterative server, stopped and started again as it may be, implements the
\* calculator service, for any number of clients.
THEOREM Implementation == Spec => ImplementsService
<1>1. Init => Abstract!ServiceInit
  BY InitRefines DEF Init
<1> QED
  BY <1>1, IterInit, IterNext, NextRefines, PTL
  DEF Spec, ImplementsService, Abstract!Service
=============================================================================
