------------------------------ MODULE ForkServer ------------------------------
(***************************************************************************)
(* The calculator server of chapter10/demo-03: the parent accepts, forks a *)
(* child for the connection and closes its own copy of it; the child       *)
(* handles the call and exits; SIGCHLD makes the parent wait for a child.  *)
(*                                                                         *)
(* A connection closes when the last of the two descriptors for it does.   *)
(* The parent holds one connection at a time and so never runs out of      *)
(* descriptors; the number of processes is limited by MaxChildren, and a   *)
(* child nobody has waited for counts.                                     *)
(***************************************************************************)
EXTENDS CalConn

CONSTANTS
  MaxChildren, \* processes the user may have beside the parent (RLIMIT_NPROC)
  None         \* no connection is in the parent's hands

ASSUME ForkAssumption ==
  /\ MaxChildren \in Nat
  /\ None \notin Clients
  /\ IsFiniteSet(Clients)

VARIABLES
  pc,      \* where the parent's EventLoop is
  cur,     \* the connection clnt_sfd of the parent stands for
  child,   \* the child process of each connection
  sigchld, \* SIGCHLD is pending for the parent; it does not count
  inHandler, \* the parent is in child_handler, before waitpid
  merged   \* history, no step depends on it: the SIGCHLDs that came while one
           \* was pending already

signalVars == <<sigchld, inHandler, merged>>
parentVars == <<pc, cur, signalVars>>
vars == <<connVars, parentVars, child>>

TypeOK ==
  /\ ConnTypeOK
  /\ pc \in {"accept", "fork", "close"}
  /\ cur \in Clients \cup {None}
  /\ child \in [Clients -> {"none", "running", "exiting", "zombie", "reaped"}]
  /\ sigchld \in BOOLEAN
  /\ inHandler \in BOOLEAN
  /\ merged \in Nat

Init ==
  /\ ConnInit
  /\ pc = "accept"
  /\ cur = None
  /\ child = [c \in Clients |-> "none"]
  /\ sigchld = FALSE
  /\ inHandler = FALSE
  /\ merged = 0

Zombies == {c \in Clients : child[c] = "zombie"}

\* The children that count against the limit: running, or not waited for.
Children == {c \in Clients : child[c] \in {"running", "exiting", "zombie"}}

\* accept() returns the first connection of the queue, or blocks.  SIGCHLD
\* interrupts it, for the handler has no SA_RESTART, and the loop goes round.
Accept ==
  /\ pc = "accept"
  /\ ~ inHandler
  /\ pending # <<>>
  /\ cur' = Head(pending)
  /\ pending' = Tail(pending)
  /\ srvEnd' = [srvEnd EXCEPT ![Head(pending)] = "open"]
  /\ pc' = "fork"
  /\ UNCHANGED <<serverVars, clientVars, netVars, handlerVars, child, signalVars>>

Fork ==
  /\ pc = "fork"
  /\ ~ inHandler
  /\ Cardinality(Children) < MaxChildren
  /\ child' = [child EXCEPT ![cur] = "running"]
  /\ hpc' = [hpc EXCEPT ![cur] = "recvHead"]
  /\ pc' = "close"
  /\ UNCHANGED <<serverVars, pending, clientVars, netVars, srvEnd, taken, req, reply, put,
                 cur, signalVars>>

\* EAGAIN: close(clnt_sfd), and the call is dropped.
ForkFails ==
  /\ pc = "fork"
  /\ ~ inHandler
  /\ Cardinality(Children) >= MaxChildren
  /\ srvEnd' = [srvEnd EXCEPT ![cur] = "closed"]
  /\ dropped' = dropped \cup {cur}
  /\ cur' = None
  /\ pc' = "accept"
  /\ UNCHANGED <<up, pending, clientVars, netVars, handlerVars, child, signalVars>>

\* Faulty variant of ParentCloses: the connection is closed for the child too.
ParentShutsDown ==
  /\ pc = "close"
  /\ ~ inHandler
  /\ srvEnd' = [srvEnd EXCEPT ![cur] = "closed"]
  /\ cur' = None
  /\ pc' = "accept"
  /\ UNCHANGED <<serverVars, pending, clientVars, netVars, handlerVars, child, signalVars>>

\* The parent's close(clnt_sfd) closes the connection if the child has ended.
ParentCloses ==
  /\ pc = "close"
  /\ ~ inHandler
  /\ srvEnd' = IF child[cur] = "running" THEN srvEnd ELSE [srvEnd EXCEPT ![cur] = "closed"]
  /\ cur' = None
  /\ pc' = "accept"
  /\ UNCHANGED <<serverVars, pending, clientVars, netVars, handlerVars, child, signalVars>>

\* Faulty variant of SignalArrives: registered with SA_RESETHAND, the handler
\* is good for one signal, and those that follow are ignored.
SignalArrivesOnce ==
  /\ sigchld
  /\ ~ inHandler
  /\ sigchld' = FALSE
  /\ inHandler' = \A c \in Clients : child[c] # "reaped"
  /\ UNCHANGED <<connVars, pc, cur, child, merged>>

\* The parent is interrupted by child_handler wherever it is but in
\* child_handler itself: the signal is blocked there, and stays pending.
SignalArrives ==
  /\ sigchld
  /\ ~ inHandler
  /\ sigchld' = FALSE
  /\ inHandler' = TRUE
  /\ UNCHANGED <<connVars, pc, cur, child, merged>>

\* waitpid(-1, WNOHANG) in child_handler, once: one child that has ended, if
\* there is any.
Waitpid ==
  /\ inHandler
  /\ inHandler' = FALSE
  /\ IF Zombies = {}
     THEN UNCHANGED child
     ELSE \E c \in Zombies : child' = [child EXCEPT ![c] = "reaped"]
  /\ UNCHANGED <<connVars, pc, cur, sigchld, merged>>

\* The child has ended: SIGCHLD, which is one with a SIGCHLD not yet taken.
SignalParent ==
  /\ sigchld' = TRUE
  /\ merged' = IF sigchld THEN merged + 1 ELSE merged
  /\ UNCHANGED inHandler

ChildMoves(c) ==
  /\ child[c] = "running"
  /\ HandlerStep(c)
  /\ UNCHANGED <<parentVars, child>>

\* What becomes of the connection when the child's descriptor is closed.
ChildEnd(c) == IF cur = c THEN srvEnd ELSE [srvEnd EXCEPT ![c] = "closed"]

\* HandleIoEvent has returned: the child's close(clnt_sfd).
ChildCloses(c) ==
  /\ child[c] = "running"
  /\ hpc[c] = "close"
  /\ hpc' = [hpc EXCEPT ![c] = "closed"]
  /\ srvEnd' = ChildEnd(c)
  /\ child' = [child EXCEPT ![c] = "exiting"]
  /\ UNCHANGED <<serverVars, pending, clientVars, netVars, taken, req, reply, put, parentVars>>

\* EventLoop returns in the child, and main: the process exits.
ChildExits(c) ==
  /\ child[c] = "exiting"
  /\ child' = [child EXCEPT ![c] = "zombie"]
  /\ SignalParent
  /\ UNCHANGED <<connVars, pc, cur>>

\* An exception, SIGFPE or SIGPIPE in the handler ends the child.
ChildDies(c) ==
  /\ child[c] = "running"
  /\ Dies(c)
  /\ child' = [child EXCEPT ![c] = "zombie"]
  /\ SignalParent
  /\ srvEnd' = ChildEnd(c)
  /\ dropped' = dropped \cup {c}
  /\ UNCHANGED <<up, pending, clientVars, netVars, handlerVars, pc, cur>>

ParentStep ==
  \/ Accept
  \/ Fork
  \/ ForkFails
  \/ ParentCloses
  \/ SignalArrives
  \/ Waitpid

ChildStep(c) ==
  \/ ChildMoves(c)
  \/ ChildCloses(c)
  \/ ChildExits(c)
  \/ ChildDies(c)

Environment(c) == (ClientStep(c) \/ NetStep(c)) /\ UNCHANGED <<parentVars, child>>

Next ==
  \/ ParentStep
  \/ \E c \in Clients : ChildStep(c) \/ Environment(c)

Spec == Init /\ [][Next]_vars

\* The scheduler runs the parent and every child that can run, the network
\* delivers, and clients go on except where they wait for their user.
ClientRuns(c) ==
  /\ \/ SendBody(c)
     \/ RecvHead(c)
     \/ RecvBody(c)
     \/ RecvShort(c)
  /\ UNCHANGED <<parentVars, child>>

Delivers(c) == Deliver(c) /\ UNCHANGED <<parentVars, child>>

FairSpec ==
  /\ Spec
  /\ WF_vars(ParentStep)
  /\ \A c \in Clients :
       WF_vars(ChildStep(c)) /\ WF_vars(ClientRuns(c)) /\ WF_vars(Delivers(c))

-----------------------------------------------------------------------------
(* Properties *)

\* A connection is open as long as somebody still works on it and no longer:
\* the parent's close does not take it from the child, the child's does not
\* leave the client waiting for an end that the parent's copy holds back, and
\* the handler runs for open connections only.
OpenWhileHandled ==
  /\ \A c \in Clients : child[c] = "running" => srvEnd[c] = "open"
  /\ pc = "accept" => \A c \in Clients : srvEnd[c] = "open" => child[c] = "running"

\* A call is dropped only for its own sake: it divides by zero, its client
\* has gone away in the middle of it, or there was no process for it.  What
\* ends another call's process leaves it alone.
DropExplained ==
  \A c \in dropped :
    \/ c \in Trapping /\ req[c] = "whole"
    \/ cpc[c] = "gone"
    \/ child[c] = "none" /\ srvEnd[c] = "closed"

\* What becomes of the children that have ended: each of them is waited for in
\* its turn, but for as many as had their signal swallowed by one that was
\* pending.  No other signal is ever lost, though it comes between fork() and
\* close(), in accept() or while the handler runs, the first or the last; and
\* the handler is never entered without a child to wait for.
SignalsCounted ==
  Cardinality(Zombies) =
    merged + (IF sigchld THEN 1 ELSE 0) + (IF inHandler THEN 1 ELSE 0)

\* The README of chapter10 says of this handler that the parent need not care
\* for its children: with its signals dealt with, no child that has ended is
\* left.  Signals do not count, and the handler waits for one child.
NoZombies == ~ sigchld /\ ~ inHandler => Zombies = {}

\* A client whose user has entered the request gets its own result, unless there
\* was no process for it, however many users are idle, and although another
\* call's division by zero or vanished client ends the process it is in.
SenderServed ==
  \A c \in Clients \ Trapping :
    cpc[c] = "sendBody" ~> (shown[c] = "own" \/ cpc[c] = "gone" \/ c \in dropped)
=============================================================================
