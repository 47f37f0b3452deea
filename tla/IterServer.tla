------------------------------ MODULE IterServer ------------------------------
(***************************************************************************)
(* The iterative calculator server of chapter05/demo-04 and                *)
(* chapter09/demo-01: accept a connection, handle its whole call, close    *)
(* it, go round.  The process is started by start.sh and ended by stop.sh, *)
(* or by what happens in its handler, and can be started again.  What the  *)
(* two versions differ in is whether Init sets SO_REUSEADDR, without which *)
(* bind() fails as long as the kernel still has a connection of the        *)
(* process before.                                                         *)
(***************************************************************************)
EXTENDS CalConn

CONSTANTS
  None,      \* no connection is being handled
  ReuseAddr, \* Init sets SO_REUSEADDR: chapter09 does, chapter05 does not
  MaxStarts  \* bound: how often the server is started

ASSUME IterAssumption ==
  /\ None \notin Clients
  /\ ReuseAddr \in BOOLEAN
  /\ MaxStarts \in Nat \ {0}

VARIABLES
  pc,        \* where EventLoop is, or how the process ended
  cur,       \* the connection clnt_sfd stands for
  lingering, \* connections the server has closed and the kernel still keeps,
             \* in TIME_WAIT or on the way to it
  starts     \* how often the server has been started

loopVars == <<pc, cur>>
kernelVars == <<lingering, starts>>
vars == <<connVars, loopVars, kernelVars>>

\* The process has ended: by a signal or an exception of its own, by stop.sh,
\* or because bind() failed.
Down == {"dead", "stopped", "refused"}

TypeOK ==
  /\ ConnTypeOK
  /\ pc \in {"accept", "handle"} \cup Down
  /\ cur \in Clients \cup {None}
  /\ lingering \subseteq Clients
  /\ starts \in 1 .. MaxStarts

Init ==
  /\ ConnInit
  /\ pc = "accept"
  /\ cur = None
  /\ lingering = {}
  /\ starts = 1

\* The connections whose FIN the server's kernel sends when they are closed
\* now.  One that was reset, or has bytes nobody read, is gone at once.
Parting == {c \in Clients : srvEnd[c] = "open" /\ ~ rst[c] /\ taken[c] = arrived[c]}

\* accept() returns the first connection of the queue, or blocks; the call
\* goes straight on to HandleIoEvent.
Accept ==
  /\ pc = "accept"
  /\ pending # <<>>
  /\ cur' = Head(pending)
  /\ pending' = Tail(pending)
  /\ srvEnd' = [srvEnd EXCEPT ![Head(pending)] = "open"]
  /\ hpc' = [hpc EXCEPT ![Head(pending)] = "recvHead"]
  /\ pc' = "handle"
  /\ UNCHANGED <<serverVars, clientVars, netVars, taken, req, reply, put, kernelVars>>

HandlerMoves ==
  /\ pc = "handle"
  /\ HandlerStep(cur)
  /\ UNCHANGED <<loopVars, kernelVars>>

\* HandleIoEvent has returned: close(clnt_sfd).
Close ==
  /\ pc = "handle"
  /\ hpc[cur] = "close"
  /\ hpc' = [hpc EXCEPT ![cur] = "closed"]
  /\ srvEnd' = [srvEnd EXCEPT ![cur] = "closed"]
  /\ lingering' = lingering \cup Parting
  /\ cur' = None
  /\ pc' = "accept"
  /\ UNCHANGED <<serverVars, pending, clientVars, netVars, taken, req, reply, put, starts>>

\* The process ends: the kernel closes whatever it had open.
End(how) ==
  /\ pc' = how
  /\ cur' = None
  /\ ProcessEnds
  /\ lingering' = lingering \cup Parting
  /\ UNCHANGED starts

\* An exception, SIGFPE or SIGPIPE in the handler ends the server.
Die ==
  /\ pc = "handle"
  /\ Dies(cur)
  /\ End("dead")

\* stop.sh: killall, wherever the server is.
Stop ==
  /\ pc \notin Down
  /\ End("stopped")

\* bind() would find the port in use.
PortInUse == lingering # {} /\ ~ ReuseAddr

\* start.sh: a new process binds and listens.  The clients that have not
\* connected yet will find it; no other call is ever taken up again.
Start ==
  /\ pc \in Down
  /\ starts < MaxStarts
  /\ ~ PortInUse
  /\ starts' = starts + 1
  /\ up' = TRUE
  /\ dropped' = {c \in Clients : cpc[c] # "init"}
  /\ pc' = "accept"
  /\ UNCHANGED <<pending, clientVars, netVars, srvEnd, handlerVars, cur, lingering>>

\* start.sh: bind() fails and perr_handling exits.
StartRefused ==
  /\ pc \in Down
  /\ starts < MaxStarts
  /\ PortInUse
  /\ starts' = starts + 1
  /\ pc' = "refused"
  /\ UNCHANGED <<connVars, cur, lingering>>

\* The kernel forgets a connection: its last FIN is acknowledged, TIME_WAIT
\* is over, or the client's end answered with a reset.
LingerEnds(c) ==
  /\ c \in lingering
  /\ lingering' = lingering \ {c}
  /\ UNCHANGED <<connVars, loopVars, starts>>

ServerStep == Accept \/ HandlerMoves \/ Close \/ Die

Operator == Stop \/ Start \/ StartRefused

Environment(c) == (ClientStep(c) \/ NetStep(c)) /\ UNCHANGED <<loopVars, kernelVars>>

Next ==
  \/ ServerStep
  \/ Operator
  \/ \E c \in Clients : Environment(c) \/ LingerEnds(c)

Spec == Init /\ [][Next]_vars

\* A running server runs, the network delivers, clients go on except where
\* they wait for their user.
ClientRuns(c) ==
  /\ \/ SendBody(c)
     \/ RecvHead(c)
     \/ RecvBody(c)
     \/ RecvShort(c)
  /\ UNCHANGED <<loopVars, kernelVars>>

Delivers(c) == Deliver(c) /\ UNCHANGED <<loopVars, kernelVars>>

FairSpec ==
  /\ Spec
  /\ WF_vars(ServerStep)
  /\ \A c \in Clients : WF_vars(ClientRuns(c)) /\ WF_vars(Delivers(c))

-----------------------------------------------------------------------------
(* Properties *)

\* The server holds an accepted connection whose user types nothing.
HoldsIdle == pc = "handle" /\ cpc[cur] = "typing"

\* A client whose user has entered the request gets its own result, unless it
\* goes away itself, the process that had its call ends, or from some time on
\* the server waits for one idle user for ever: nothing else can come between,
\* no connection of the accept queue is overtaken for ever by newer ones, and a
\* server that was started again serves like the first.
ServedUnlessHeld ==
  \A c \in Clients :
    cpc[c] = "sendBody" ~>
      (shown[c] = "own" \/ cpc[c] = "gone" \/ c \in dropped \/ []HoldsIdle)

\* A process that was not stopped ends only because of a division by zero
\* somebody asked for or a client that went away in the middle of its call.
DeathExplained ==
  pc = "dead" => \/ \E c \in Trapping : req[c] = "whole"
                 \/ \E c \in Clients : cpc[c] = "gone"

\* The loop closes a connection only after the call is over: the handler has
\* read everything the client sends and written the whole of its own response,
\* so that what close() sends is a FIN behind the response and never a reset
\* that would take it away from the client.  A client that went away is closed
\* with whatever had come of its call.
ClosedInFull ==
  \A c \in Clients :
    hpc[c] = "closed" /\ cpc[c] # "gone" =>
      /\ ~ rst[c] /\ taken[c] = HeadSz + ReqSz
      /\ reply[c] = "own" /\ put[c] = HeadSz + ResSz
=============================================================================
