------------------------------ MODULE PollServer ------------------------------
(***************************************************************************)
(* The calculator server of chapter12/demo-02: poll() over an array of     *)
(* pollfd whose entry 0 is the listening socket.  The array is malloc'ed   *)
(* and not cleared, grows by realloc, an entry is removed by copying the   *)
(* last one over it, and the loop over the entries runs one past the last. *)
(*                                                                         *)
(* What the loop then finds past the end is modelled as the memory it is:  *)
(* slots holds every entry the block can have and the one after it, with   *)
(* what was last written there.  malloc's block is large enough for that   *)
(* one too, and realloc copies it.                                         *)
(***************************************************************************)
EXTENDS Descriptors

CONSTANTS
  FirstCap,  \* kDefaultPollConnections
  DirtyHeap  \* TRUE: memory from malloc may happen to read as POLLIN

ASSUME PollAssumption ==
  /\ FirstCap \in Nat \ {0}
  /\ DirtyHeap \in BOOLEAN
  /\ IsFiniteSet(Clients)

VARIABLES
  slots,  \* pfd_arr
  fd_sz,  \* entries in use
  fd_cap, \* entries allocated
  i,      \* the entry the loop examines
  sfd,    \* the descriptor HandleIoEvent works on
  pc      \* where EventLoop is

loopVars == <<slots, fd_sz, fd_cap, i, sfd, pc>>
vars == <<connVars, conn, loopVars>>

\* Every accept adds an entry, and the loop looks one further.
LastSlot == Cardinality(Clients) + 1

\* A descriptor that no socket of this process has: memory never written.
BadFd == MaxFd + 1

\* revents: nothing, exactly POLLIN, any other value, or memory as malloc
\* returned it.
Revents == {"none", "in", "other", "unset"}

TypeOK ==
  /\ ConnTypeOK
  /\ FdTypeOK
  /\ slots \in [0 .. LastSlot -> [fd : ListenFd .. BadFd, revents : Revents]]
  /\ fd_sz \in 1 .. LastSlot
  /\ fd_cap \in {FirstCap} \cup FirstCap .. 2 * LastSlot
  /\ i \in 0 .. LastSlot + 1
  /\ sfd \in ListenFd .. BadFd
  /\ pc \in {"poll", "loop", "handle", "dead"}

Init ==
  /\ ConnInit
  /\ FdInit
  /\ slots = [k \in 0 .. LastSlot |->
                [fd |-> IF k = 0 THEN ListenFd ELSE BadFd, revents |-> "unset"]]
  /\ fd_sz = 1
  /\ fd_cap = FirstCap
  /\ i = 0
  /\ sfd = ListenFd
  /\ pc = "poll"

\* What poll() stores in revents: POLLIN alone only for a connection without
\* an error, POLLNVAL for a descriptor that is not open.
PollResult(fd) ==
  CASE fd # ListenFd /\ ~ IsOpen(fd) -> "other"
    [] fd # ListenFd /\ IsOpen(fd) /\ rst[conn[fd]] -> "other"
    [] OTHER -> IF FdReadable(fd) THEN "in" ELSE "none"

Poll ==
  /\ pc = "poll"
  /\ \E k \in 0 .. fd_sz - 1 : PollResult(slots[k].fd) # "none"
  /\ slots' = [k \in 0 .. LastSlot |->
                 IF k < fd_sz
                 THEN [slots[k] EXCEPT !.revents = PollResult(slots[k].fd)]
                 ELSE slots[k]]
  /\ i' = 0
  /\ pc' = "loop"
  /\ UNCHANGED <<connVars, conn, fd_sz, fd_cap, sfd>>

\* After ten seconds poll() returns 0, and the loop goes round.
PollTimeout ==
  /\ pc = "poll"
  /\ \A k \in 0 .. fd_sz - 1 : PollResult(slots[k].fd) = "none"
  /\ UNCHANGED vars

\* Faulty variant of Examines: the loop stops one entry early.
ExaminesShort == pc = "loop" /\ i < fd_sz - 1

\* The loop runs to i = fd_sz inclusive.
Examines == pc = "loop" /\ i <= fd_sz

\* The loop's test of revents.
Fires ==
  \/ slots[i].revents = "in"
  \/ DirtyHeap /\ slots[i].revents = "unset"

PassOver ==
  /\ Examines
  /\ slots[i].revents # "in"
  /\ i' = i + 1
  /\ UNCHANGED <<connVars, conn, slots, fd_sz, fd_cap, sfd, pc>>

LoopEnds ==
  /\ pc = "loop"
  /\ ~ Examines
  /\ pc' = "poll"
  /\ UNCHANGED <<connVars, conn, slots, fd_sz, fd_cap, i, sfd>>

\* Faulty variant of AddfdToPoll: the array never grows.
AddfdNoGrow(fd) ==
  /\ fd_cap' = fd_cap
  /\ slots' = [slots EXCEPT ![fd_sz].fd = fd]
  /\ fd_sz' = fd_sz + 1

\* Faulty variant of AddfdToPoll: the array grows with every connection.
AddfdGrows(fd) ==
  /\ fd_cap' = 2 * fd_cap
  /\ slots' = [slots EXCEPT ![fd_sz].fd = fd]
  /\ fd_sz' = fd_sz + 1

\* AddfdToPoll writes fd and events of the entry after the last one, and
\* leaves its revents as they are.
AddfdToPoll(fd) ==
  /\ fd_cap' = IF fd_sz = fd_cap THEN 2 * fd_cap ELSE fd_cap
  /\ slots' = [slots EXCEPT ![fd_sz].fd = fd]
  /\ fd_sz' = fd_sz + 1

Accept ==
  /\ Examines
  /\ Fires
  /\ slots[i].fd = ListenFd
  /\ \E fd \in FreeFds : AcceptAs(fd) /\ AddfdToPoll(fd)
  /\ i' = i + 1
  /\ UNCHANGED <<sfd, pc>>

\* EMFILE: accept() returns -1 and perr_handling exits.
AcceptFails ==
  /\ Examines
  /\ Fires
  /\ slots[i].fd = ListenFd
  /\ FreeFds = {}
  /\ pc' = "dead"
  /\ ProcessEnds
  /\ UNCHANGED <<conn, slots, fd_sz, fd_cap, i, sfd>>

\* RemovefdFromPoll copies the last entry over the entry at the index of the
\* loop, which need not be below fd_sz.
RemovefdFromPoll ==
  /\ slots' = [slots EXCEPT ![i] = slots[fd_sz - 1]]
  /\ fd_sz' = fd_sz - 1

HandleIo ==
  /\ Examines
  /\ Fires
  /\ slots[i].fd # ListenFd
  /\ CallHandler(slots[i].fd)
  /\ sfd' = slots[i].fd
  /\ pc' = "handle"
  /\ UNCHANGED <<slots, fd_sz, fd_cap, i>>

\* HandleIoEvent on a descriptor that is not open: every read, write and
\* close fails, and the entry is removed all the same.
HandleNothing ==
  /\ Examines
  /\ Fires
  /\ slots[i].fd # ListenFd
  /\ ~ IsOpen(slots[i].fd)
  /\ RemovefdFromPoll
  /\ i' = i + 1
  /\ UNCHANGED <<connVars, conn, fd_cap, sfd, pc>>

\* On such a descriptor the length of the request is whatever the header's
\* buffer held, and std::string may throw.
DieOfNothing ==
  /\ Examines
  /\ Fires
  /\ slots[i].fd # ListenFd
  /\ ~ IsOpen(slots[i].fd)
  /\ pc' = "dead"
  /\ ProcessEnds
  /\ UNCHANGED <<conn, slots, fd_sz, fd_cap, i, sfd>>

\* One step of HandleIoEvent, in the only thread there is.
HandlerMoves ==
  /\ pc = "handle"
  /\ HandlerStep(conn[sfd])
  /\ UNCHANGED <<conn, loopVars>>

FinishIo ==
  /\ pc = "handle"
  /\ CloseFd(sfd)
  /\ RemovefdFromPoll
  /\ i' = i + 1
  /\ pc' = "loop"
  /\ UNCHANGED <<fd_cap, sfd>>

\* An exception, SIGFPE or SIGPIPE in the handler ends the whole server.
Die ==
  /\ pc = "handle"
  /\ Dies(conn[sfd])
  /\ pc' = "dead"
  /\ ProcessEnds
  /\ UNCHANGED <<conn, slots, fd_sz, fd_cap, i, sfd>>

ServerStep ==
  \/ Poll
  \/ PassOver
  \/ LoopEnds
  \/ Accept
  \/ AcceptFails
  \/ HandleIo
  \/ HandleNothing
  \/ DieOfNothing
  \/ HandlerMoves
  \/ FinishIo
  \/ Die

Environment(c) == (ClientStep(c) \/ NetStep(c)) /\ UNCHANGED <<conn, loopVars>>

Next ==
  \/ ServerStep
  \/ PollTimeout
  \/ \E c \in Clients : Environment(c)

Spec == Init /\ [][Next]_vars

\* The server runs while it can, the network delivers, and a client goes on by
\* itself except where it waits for its user.
ClientRuns(c) ==
  /\ \/ SendBody(c)
     \/ RecvHead(c)
     \/ RecvBody(c)
     \/ RecvShort(c)
  /\ UNCHANGED <<conn, loopVars>>

Delivers(c) == Deliver(c) /\ UNCHANGED <<conn, loopVars>>

FairSpec ==
  /\ Spec
  /\ WF_vars(ServerStep)
  /\ \A c \in Clients : WF_vars(ClientRuns(c)) /\ WF_vars(Delivers(c))

-----------------------------------------------------------------------------
(* Properties *)

\* The array stays within its block: AddfdToPoll grows it in time, and no
\* entry past the block that the loop can come to holds a POLLIN of poll()'s,
\* on which the handler would be called and RemovefdFromPoll write there.
\* The listening socket keeps entry 0 and no other entry that the loop can
\* reach has its descriptor.
ArrayInBounds ==
  /\ fd_sz <= fd_cap
  /\ i <= fd_sz /\ slots[i].revents = "in" => i < fd_cap
  /\ slots[0].fd = ListenFd
  /\ \A k \in 1 .. LastSlot : slots[k].fd # ListenFd

\* When poll() is called, the entries are the listening socket and the open
\* connections, each once: the comments say AddfdToPoll and RemovefdFromPoll
\* are there for that.
PollsOpen ==
  pc = "poll" =>
    LET polled == {slots[k].fd : k \in 1 .. fd_sz - 1}
    IN /\ polled = ClientFds \ FreeFds
       /\ Cardinality(polled) = fd_sz - 1

\* The connection of c is open and no entry in use stands for it.
NotPolled(c) ==
  srvEnd[c] = "open" /\ \A k \in 1 .. fd_sz - 1 : conn[slots[k].fd] # c

\* The handler waits for a user who types nothing: it was called on a stale
\* revents.
HoldsIdle == pc = "handle" /\ cpc[conn[sfd]] = "typing"

\* A client whose user has entered the request gets its own result, however
\* its entry is moved, skipped or overtaken in the array: unless it goes away
\* itself, the process ends, its entry is lost, or a stale revents makes the
\* server wait for an idle user.
ServedUnlessLost ==
  \A c \in Clients :
    cpc[c] = "sendBody" ~> \/ shown[c] = "own"
                           \/ cpc[c] = "gone"
                           \/ ~ up
                           \/ NotPolled(c)
                           \/ HoldsIdle

\* The connection of a client that has gone away is closed, under the same
\* conditions, unless it was reset: its revents then is more than POLLIN, which
\* the loop passes over for ever.
GoneClosed ==
  \A c \in MayVanish \cup MayReset :
    cpc[c] = "gone" /\ srvEnd[c] # "closed" /\ up
      ~> \/ srvEnd[c] = "closed"
         \/ rst[c]
         \/ NotPolled(c)
         \/ HoldsIdle
=============================================================================
