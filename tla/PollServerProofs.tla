--------------------------- MODULE PollServerProofs ---------------------------
(***************************************************************************)
(* Theorems about PollServer, for any number of clients and descriptors,   *)
(* any size of the first array, whatever its memory held, and whatever the *)
(* clients and the network do.                                             *)
(***************************************************************************)
EXTENDS PollServer, CalConnProofs, FiniteSetTheorems

USE DEF serverVars

\* The loop runs as long as the process does.
AliveOK ==
  /\ up <=> pc # "dead"
  /\ dropped = IF up THEN {} ELSE Clients

\* The handler runs for an open connection.
HandlingOK == pc = "handle" => IsOpen(sfd)

\* The connections that accept() has returned, and those that were closed in
\* the accept queue.
Taken == {c \in Clients : srvEnd[c] \notin {"none", "pending"}}

\* There are no more entries than accept() has made.
CountOK == fd_sz <= 1 + Cardinality(Taken)

\* The array fits its block, the listening socket has entry 0 alone, and no
\* entry past the block holds a POLLIN.
ArrayOK ==
  /\ fd_sz <= fd_cap
  /\ slots[0].fd = ListenFd
  /\ \A k \in 1 .. LastSlot : slots[k].fd # ListenFd
  /\ \A k \in 0 .. LastSlot : fd_cap <= k => slots[k].revents # "in"

\* An entry is removed only while there is one beside the listening socket's,
\* and what is copied past the block is no POLLIN: when the loop gets there, it
\* has just passed over the entry that would be copied.
LoopOK ==
  /\ pc = "loop" /\ i = 0 => fd_sz >= 2 \/ slots[0].revents = "in"
  /\ pc = "loop" /\ i = 1 => fd_sz >= 2
  /\ pc = "handle" => 1 <= i /\ i <= fd_sz /\ fd_sz >= 2
  /\ pc \in {"loop", "handle"} /\ 1 <= i /\ i = fd_sz /\ i = fd_cap
       => slots[i - 1].revents # "in"

\* The inductive invariant behind TypeOK and ArrayInBounds.
PollInv ==
  /\ TypeOK
  /\ QueueOK
  /\ AliveOK
  /\ up => TableOK
  /\ HandlingOK
  /\ CountOK
  /\ ArrayOK
  /\ LoopOK

-----------------------------------------------------------------------------
(* Numbers *)

\* The listening socket has the lowest descriptor and is none of the clients',
\* and BadFd is no descriptor.
LEMMA PollFds ==
  /\ ListenFd \in Int /\ MaxFd \in Int /\ ListenFd >= 0 /\ ListenFd < MaxFd
  /\ ClientFds = ListenFd + 1 .. MaxFd
  /\ ListenFd \notin ClientFds
  /\ BadFd = MaxFd + 1
  BY FdAssumption DEF ClientFds, BadFd

\* The clients can be counted, and those whose connections were accepted are
\* no more.
LEMMA Counts ==
  /\ LastSlot \in Nat /\ LastSlot >= 1
  /\ IsFiniteSet(Taken) /\ Cardinality(Taken) \in Nat
  /\ Cardinality(Taken) + 1 <= LastSlot
<1>1. IsFiniteSet(Clients) /\ Cardinality(Clients) \in Nat
  BY PollAssumption, FS_CardinalityType
<1>2. Taken \subseteq Clients
  BY DEF Taken
<1>3. IsFiniteSet(Taken) /\ Cardinality(Taken) <= Cardinality(Clients)
  BY <1>1, <1>2, FS_Subset
<1>4. Cardinality(Taken) \in Nat
  BY <1>3, FS_CardinalityType
<1> QED BY <1>1, <1>3, <1>4 DEF LastSlot

\* Connections that were accepted stay so, and their number does not fall.
LEMMA TakenGrows ==
  ASSUME \A c \in Clients : srvEnd'[c] \in {"none", "pending"} => srvEnd[c] \in {"none", "pending"}
  PROVE  /\ Cardinality(Taken)' \in Nat
         /\ Cardinality(Taken) <= Cardinality(Taken)'
<1>1. Taken \subseteq Taken'
  BY DEF Taken
<1>2. IsFiniteSet(Taken')
  <2>1. IsFiniteSet(Clients) /\ Taken' \subseteq Clients
    BY PollAssumption DEF Taken
  <2> QED BY <2>1, FS_Subset
<1>3. Cardinality(Taken') \in Nat /\ Cardinality(Taken) <= Cardinality(Taken')
  BY <1>1, <1>2, FS_CardinalityType, FS_Subset
<1> QED BY <1>3

\* The types of the array and of its indices, apart.
ArrayTypeOK ==
  /\ slots \in [0 .. LastSlot -> [fd : ListenFd .. BadFd, revents : Revents]]
  /\ fd_sz \in 1 .. LastSlot
  /\ fd_cap \in {FirstCap} \cup FirstCap .. 2 * LastSlot
  /\ i \in 0 .. LastSlot + 1

\* The numbers among them are integers.
LEMMA Indices ==
  ASSUME ArrayTypeOK
  PROVE  /\ fd_sz \in Int /\ fd_cap \in Int /\ i \in Int /\ LastSlot \in Int
         /\ 1 <= fd_sz /\ fd_sz <= LastSlot /\ 1 <= fd_cap /\ 0 <= i
<1>1. FirstCap \in Nat /\ FirstCap >= 1 /\ LastSlot \in Nat
  BY PollAssumption, Counts
<1>2. fd_sz \in Int /\ i \in Int /\ 1 <= fd_sz /\ fd_sz <= LastSlot /\ 0 <= i
  BY <1>1 DEF ArrayTypeOK
<1>3. fd_cap \in Int /\ FirstCap <= fd_cap
  <2>1. fd_cap = FirstCap \/ fd_cap \in FirstCap .. 2 * LastSlot
    BY DEF ArrayTypeOK
  <2> QED BY <1>1, <2>1
<1> QED BY <1>1, <1>2, <1>3

\* TypeOK is the types of the calls, of the descriptors and of the array.
LEMMA Types ==
  TypeOK <=> /\ ConnTypeOK /\ FdTypeOK /\ ArrayTypeOK
             /\ sfd \in ListenFd .. BadFd
             /\ pc \in {"poll", "loop", "handle", "dead"}
  BY DEF TypeOK, ArrayTypeOK

-----------------------------------------------------------------------------
(* The array *)

\* The invariant holds when the loop starts.
LEMMA PollInit == Init => PollInv
<1> SUFFICES ASSUME Init PROVE PollInv
  OBVIOUS
<1>1. ConnTypeOK /\ QueueOK
  BY ConnInitType, ConnInitQueue DEF Init
<1>2. FdTypeOK /\ TableOK
  BY InitTable DEF Init
<1>3. ArrayTypeOK
  <2>1. BadFd \in ListenFd .. BadFd /\ ListenFd \in ListenFd .. BadFd
    BY PollFds
  <2>2. slots \in [0 .. LastSlot -> [fd : ListenFd .. BadFd, revents : Revents]]
    BY <2>1 DEF Init, Revents
  <2>3. fd_sz \in 1 .. LastSlot /\ i \in 0 .. LastSlot + 1
    BY Counts DEF Init
  <2> QED BY <2>2, <2>3 DEF Init, ArrayTypeOK
<1>4. TypeOK
  BY <1>1, <1>2, <1>3, PollFds, Types DEF Init
<1>5. CountOK
  BY Counts DEF Init, CountOK
<1>6. ArrayOK
  <2>1. fd_sz <= fd_cap
    BY PollAssumption DEF Init
  <2>2. \A k \in 0 .. LastSlot : slots[k].fd = (IF k = 0 THEN ListenFd ELSE BadFd)
                                 /\ slots[k].revents = "unset"
    BY DEF Init
  <2>3. BadFd # ListenFd /\ LastSlot \in Nat
    BY PollFds, Counts
  <2> QED BY <2>1, <2>2, <2>3 DEF ArrayOK
<1>7. LoopOK
  BY DEF Init, LoopOK
<1> QED
  BY <1>1, <1>2, <1>4, <1>5, <1>6, <1>7
  DEF PollInv, AliveOK, HandlingOK, Init, ConnInit

\* poll() writes the entries in use, all of them inside the block.
LEMMA ArrayPoll ==
  ASSUME ArrayTypeOK, ArrayOK, Poll
  PROVE  ArrayTypeOK' /\ ArrayOK' /\ LoopOK'
<1>1. /\ slots' = [k \in 0 .. LastSlot |->
                     IF k < fd_sz
                     THEN [slots[k] EXCEPT !.revents = PollResult(slots[k].fd)]
                     ELSE slots[k]]
      /\ i' = 0 /\ pc' = "loop" /\ UNCHANGED <<fd_sz, fd_cap>>
  BY DEF Poll
<1>2. \A fd : PollResult(fd) \in Revents
  BY DEF PollResult, Revents
<1>3. \A k \in 0 .. LastSlot : slots[k] \in [fd : ListenFd .. BadFd, revents : Revents]
  BY DEF ArrayTypeOK
<1>4. slots' \in [0 .. LastSlot -> [fd : ListenFd .. BadFd, revents : Revents]]
  BY <1>1, <1>2, <1>3
<1>5. ArrayTypeOK'
  <2>1. 0 \in 0 .. LastSlot + 1
    BY Counts
  <2> QED BY <1>1, <1>4, <2>1 DEF ArrayTypeOK, LastSlot
<1>6. \A k \in 0 .. LastSlot : /\ slots'[k].fd = slots[k].fd
                               /\ fd_sz <= k => slots'[k] = slots[k]
  BY <1>1, <1>3, Indices
<1>7. ArrayOK'
  <2>1. \A k \in 0 .. LastSlot : fd_cap <= k => slots'[k].revents # "in"
    BY <1>6, Indices DEF ArrayOK
  <2>2. 0 \in 0 .. LastSlot /\ \A k \in 1 .. LastSlot : k \in 0 .. LastSlot
    BY Indices
  <2> QED BY <1>1, <1>6, <2>1, <2>2 DEF ArrayOK, LastSlot
<1>8. fd_sz >= 2 \/ slots'[0].revents = "in"
  <2> SUFFICES ASSUME fd_sz = 1 PROVE slots'[0].revents = "in"
    BY Indices
  <2>1. PollResult(slots[0].fd) # "none"
    BY DEF Poll
  <2>2. PollResult(slots[0].fd) = "in"
    BY <2>1 DEF PollResult, ArrayOK
  <2>3. 0 \in 0 .. LastSlot /\ 0 < fd_sz
    BY Indices
  <2> QED BY <1>1, <1>3, <2>2, <2>3
<1> QED BY <1>1, <1>5, <1>7, <1>8 DEF LoopOK

\* AddfdToPoll adds an entry, inside the block, for a connection that was not
\* accepted before.
LEMMA ArrayAccept ==
  ASSUME PollInv, Accept
  PROVE  /\ ArrayTypeOK' /\ ArrayOK' /\ LoopOK' /\ CountOK'
         /\ i = 0 /\ pc = "loop" /\ pc' = "loop"
<1>1. PICK fd \in FreeFds : AcceptAs(fd) /\ AddfdToPoll(fd)
  BY DEF Accept
<1>2. /\ slots' = [slots EXCEPT ![fd_sz].fd = fd]
      /\ fd_sz' = fd_sz + 1
      /\ fd_cap' = IF fd_sz = fd_cap THEN 2 * fd_cap ELSE fd_cap
      /\ i' = i + 1 /\ pc' = pc /\ pc = "loop"
      /\ slots[i].fd = ListenFd /\ i <= fd_sz
  BY <1>1 DEF AddfdToPoll, Accept, Examines
<1>3. /\ ArrayTypeOK /\ ArrayOK /\ CountOK /\ ConnTypeOK /\ QueueOK
  BY Types DEF PollInv
<1>4. i = 0
  BY <1>2, <1>3, Indices DEF ArrayOK
<1>5. fd \in ListenFd .. BadFd /\ fd # ListenFd
  <2>1. fd \in ClientFds
    BY <1>1 DEF FreeFds
  <2> QED BY <2>1, PollFds
<1>6. fd_sz + 1 <= LastSlot /\ fd_sz + 1 <= 1 + Cardinality(Taken)'
  <2> DEFINE c == Head(pending)
  <2>1. /\ c \in Clients /\ srvEnd[c] = "pending" /\ srvEnd' = [srvEnd EXCEPT ![c] = "open"]
    BY <1>1, <1>3, AcceptQueue DEF AcceptAs, clientVars
  <2> HIDE DEF c
  <2>2. c \notin Taken /\ Taken' = Taken \cup {c} /\ Taken' \subseteq Clients
    BY <1>3, <2>1 DEF Taken, ConnTypeOK
  <2>3. Cardinality(Taken') = Cardinality(Taken) + 1
    BY <2>2, Counts, FS_AddElement
  <2>4. IsFiniteSet(Clients) /\ Cardinality(Clients) \in Nat /\ LastSlot = Cardinality(Clients) + 1
    BY PollAssumption, FS_CardinalityType DEF LastSlot
  <2>5. Cardinality(Taken') <= Cardinality(Clients)
    BY <2>2, <2>4, FS_Subset
  <2>6. fd_sz \in Int /\ Cardinality(Taken) \in Nat /\ fd_sz <= 1 + Cardinality(Taken)
    BY <1>3, Counts, Indices DEF CountOK
  <2> QED BY <2>3, <2>4, <2>5, <2>6
<1>7. \A k \in 0 .. LastSlot : /\ slots'[k].revents = slots[k].revents
                               /\ k # fd_sz => slots'[k] = slots[k]
                               /\ slots'[fd_sz].fd = fd
                               /\ slots'[k] \in [fd : ListenFd .. BadFd, revents : Revents]
  <2>1. fd_sz \in 0 .. LastSlot
    BY <1>3, Indices
  <2> QED BY <1>2, <1>3, <1>5, <2>1 DEF ArrayTypeOK
<1>8. ArrayTypeOK'
  <2>1. slots' \in [0 .. LastSlot -> [fd : ListenFd .. BadFd, revents : Revents]]
    BY <1>2, <1>3, <1>7 DEF ArrayTypeOK
  <2>2. fd_sz' \in 1 .. LastSlot /\ i' \in 0 .. LastSlot + 1
    BY <1>2, <1>3, <1>4, <1>6, Indices
  <2>3. fd_cap' \in {FirstCap} \cup FirstCap .. 2 * LastSlot
    <3>1. CASE fd_sz # fd_cap
      BY <1>2, <1>3, <3>1 DEF ArrayTypeOK
    <3>2. CASE fd_sz = fd_cap
      <4>1. fd_cap' = 2 * fd_cap /\ fd_cap < LastSlot
        BY <1>2, <1>3, <1>6, <3>2, Indices
      <4>2. fd_cap = FirstCap \/ fd_cap \in FirstCap .. 2 * LastSlot
        BY <1>3 DEF ArrayTypeOK
      <4>3. FirstCap \in Nat /\ fd_cap \in Int /\ LastSlot \in Int /\ 1 <= fd_cap
        BY <1>3, Indices, PollAssumption
      <4>4. FirstCap <= fd_cap
        BY <4>2, <4>3
      <4>5. fd_cap' \in FirstCap .. 2 * LastSlot
        BY <4>1, <4>3, <4>4
      <4> QED BY <4>5
    <3> QED BY <3>1, <3>2
  <2> QED BY <2>1, <2>2, <2>3 DEF ArrayTypeOK, LastSlot
<1>9. ArrayOK'
  <2>1. fd_sz' <= fd_cap' /\ fd_cap <= fd_cap'
    BY <1>2, <1>3, Indices DEF ArrayOK
  <2>2. \A k \in 0 .. LastSlot : fd_cap' <= k => slots'[k].revents # "in"
    BY <1>2, <1>3, <1>7, <2>1, Indices DEF ArrayOK
  <2>3. \A k \in 1 .. LastSlot : k \in 0 .. LastSlot /\ slots'[k].fd # ListenFd
    BY <1>3, <1>5, <1>7, Indices DEF ArrayOK
  <2>4. 0 \in 0 .. LastSlot /\ 0 # fd_sz
    BY <1>3, Indices
  <2>5. slots'[0].fd = ListenFd
    BY <1>3, <1>7, <2>4 DEF ArrayOK
  <2> QED BY <2>1, <2>2, <2>3, <2>5 DEF ArrayOK, LastSlot
<1>10. LoopOK'
  <2>1. i' = 1 /\ fd_sz' >= 2 /\ pc' = "loop"
    BY <1>2, <1>3, <1>4, Indices
  <2> QED BY <2>1 DEF LoopOK
<1>11. CountOK'
  BY <1>2, <1>6 DEF CountOK
<1> QED BY <1>2, <1>4, <1>8, <1>9, <1>10, <1>11

\* RemovefdFromPoll takes an entry away that is not the listening socket's, and
\* copies a POLLIN only to where the block is.
LEMMA ArrayRemove ==
  ASSUME ArrayTypeOK, ArrayOK, LoopOK, pc \in {"loop", "handle"},
         1 <= i, i <= fd_sz, RemovefdFromPoll, i' = i + 1, pc' = "loop", fd_cap' = fd_cap
  PROVE  ArrayTypeOK' /\ ArrayOK' /\ LoopOK' /\ fd_sz' <= fd_sz
<1>1. slots' = [slots EXCEPT ![i] = slots[fd_sz - 1]] /\ fd_sz' = fd_sz - 1
  BY DEF RemovefdFromPoll
<1>2. /\ fd_sz \in Int /\ fd_cap \in Int /\ i \in Int /\ LastSlot \in Int
      /\ fd_sz <= LastSlot /\ fd_sz <= fd_cap
  BY Indices DEF ArrayOK
<1>3. fd_sz >= 2
  <2>1. CASE pc = "handle"
    BY <2>1 DEF LoopOK
  <2>2. CASE pc = "loop" /\ i = 1
    BY <2>2 DEF LoopOK
  <2>3. CASE i >= 2
    BY <1>2, <2>3
  <2> QED BY <1>2, <2>1, <2>2, <2>3
<1>4. fd_sz - 1 \in 1 .. LastSlot /\ fd_sz - 1 \in 0 .. LastSlot /\ i \in 0 .. LastSlot /\ i # 0
  BY <1>2, <1>3
<1>5. \A k \in 0 .. LastSlot : slots'[k] = IF k = i THEN slots[fd_sz - 1] ELSE slots[k]
  BY <1>1, <1>4 DEF ArrayTypeOK
<1>6. ArrayTypeOK'
  <2>1. slots' \in [0 .. LastSlot -> [fd : ListenFd .. BadFd, revents : Revents]]
    BY <1>1, <1>4 DEF ArrayTypeOK
  <2>2. fd_sz' \in 1 .. LastSlot /\ i' \in 0 .. LastSlot + 1
    BY <1>1, <1>2, <1>3
  <2> QED BY <2>1, <2>2 DEF ArrayTypeOK, LastSlot
<1>7. ArrayOK'
  <2>1. fd_sz' <= fd_cap'
    BY <1>1, <1>2
  <2>2. slots'[0].fd = ListenFd
    BY <1>2, <1>4, <1>5 DEF ArrayOK
  <2>3. \A k \in 1 .. LastSlot : slots'[k].fd # ListenFd
    BY <1>2, <1>4, <1>5 DEF ArrayOK
  <2>4. ASSUME NEW k \in 0 .. LastSlot, fd_cap <= k
        PROVE  slots'[k].revents # "in"
    <3>1. CASE k # i
      BY <1>5, <2>4, <3>1 DEF ArrayOK
    <3>2. CASE k = i
      <4>1. i = fd_sz /\ i = fd_cap
        BY <1>2, <2>4, <3>2
      <4>2. slots[i - 1].revents # "in"
        BY <4>1 DEF LoopOK
      <4>3. slots'[k] = slots[i - 1]
        BY <1>5, <3>2, <4>1
      <4> QED BY <4>2, <4>3
    <3> QED BY <3>1, <3>2
  <2> QED BY <2>1, <2>2, <2>3, <2>4 DEF ArrayOK, LastSlot
<1>8. i' # 0 /\ i' # 1 /\ fd_sz' # fd_cap' /\ fd_sz' <= fd_sz
  BY <1>1, <1>2
<1>9. LoopOK'
  BY <1>8 DEF LoopOK
<1> QED BY <1>6, <1>7, <1>8, <1>9

\* An entry that fires and is not the listening socket's is one of the others,
\* and there is one in use beside the listening socket's.
LEMMA FiresBeside ==
  ASSUME ArrayTypeOK, ArrayOK, LoopOK, Examines, slots[i].fd # ListenFd
  PROVE  1 <= i /\ i <= fd_sz /\ fd_sz >= 2 /\ pc = "loop"
<1>1. /\ pc = "loop" /\ i <= fd_sz /\ i \in Int /\ 0 <= i /\ fd_sz \in Int
  BY Indices DEF Examines
<1>2. 1 <= i
  BY <1>1 DEF ArrayOK
<1>3. i = 1 \/ i >= 2
  BY <1>1, <1>2
<1>4. fd_sz >= 2
  BY <1>1, <1>3 DEF LoopOK
<1> QED BY <1>1, <1>2, <1>4

\* An entry that is passed over holds no POLLIN.
LEMMA ArrayPassOver ==
  ASSUME ArrayTypeOK, ArrayOK, LoopOK, PassOver
  PROVE  ArrayTypeOK' /\ ArrayOK' /\ LoopOK'
<1>1. /\ pc = "loop" /\ i <= fd_sz /\ slots[i].revents # "in"
      /\ i' = i + 1 /\ UNCHANGED <<slots, fd_sz, fd_cap, pc>>
  BY DEF PassOver, Examines
<1>2. i \in Int /\ fd_sz \in Int /\ LastSlot \in Int /\ fd_sz <= LastSlot /\ 0 <= i
  BY Indices
<1>3. ArrayTypeOK'
  BY <1>1, <1>2 DEF ArrayTypeOK, LastSlot
<1>4. ArrayOK'
  BY <1>1 DEF ArrayOK, LastSlot
<1>5. i = 0 => fd_sz >= 2
  BY <1>1 DEF LoopOK
<1>6. i' # 0 /\ i' - 1 = i /\ (i' = 1 => i = 0)
  BY <1>1, <1>2
<1>7. LoopOK'
  BY <1>1, <1>5, <1>6 DEF LoopOK
<1> QED BY <1>3, <1>4, <1>7

\* Steps that do not touch the array keep what is known of it.
LEMMA ArraySame ==
  ASSUME ArrayTypeOK, ArrayOK, LoopOK, UNCHANGED <<slots, fd_sz, fd_cap, i>>,
         pc' \in {pc, "poll", "dead"}
  PROVE  ArrayTypeOK' /\ ArrayOK' /\ LoopOK'
  BY DEF ArrayTypeOK, ArrayOK, LoopOK, LastSlot

\* The clients and the kernel keep the invariant: they change nothing of the
\* loop's, nor which connections are accepted.
LEMMA PollEnvironment ==
  ASSUME NEW c \in Clients, PollInv, Environment(c)
  PROVE  PollInv'
<1>1. ConnTypeOK /\ FdTypeOK /\ ArrayTypeOK /\ ArrayOK /\ LoopOK /\ CountOK
  BY Types DEF PollInv
<1>2. /\ ClientStep(c) \/ NetStep(c)
      /\ UNCHANGED <<conn, slots, fd_sz, fd_cap, i, sfd, pc>>
  BY DEF Environment, loopVars
<1>3. ConnTypeOK' /\ QueueOK' /\ (TableOK => TableOK')
  BY <1>1, <1>2, ClientStepType, NetStepType, ClientStepQueue, NetStepQueue,
     ClientStepTable, NetStepTable DEF PollInv
<1>4. /\ UNCHANGED <<up, dropped>>
      /\ \A d \in Clients : srvEnd'[d] \in {"none", "pending"} => srvEnd[d] \in {"none", "pending"}
  BY <1>1, <1>2, EnvironmentLeaves DEF PollInv
<1>5. ArrayTypeOK' /\ ArrayOK' /\ LoopOK'
  BY <1>1, <1>2, ArraySame
<1>6. TypeOK'
  <2>1. FdTypeOK'
    BY <1>1, <1>2 DEF FdTypeOK
  <2> QED BY <1>2, <1>3, <1>5, <2>1, Types DEF PollInv, TypeOK
<1>7. CountOK'
  <2>1. Cardinality(Taken)' \in Nat /\ Cardinality(Taken) <= Cardinality(Taken)'
    BY <1>4, TakenGrows
  <2> QED BY <1>1, <1>2, <2>1, Counts, Indices DEF CountOK
<1> QED
  BY <1>2, <1>3, <1>4, <1>5, <1>6, <1>7 DEF PollInv, AliveOK, HandlingOK, IsOpen

\* The end of the process keeps it.
LEMMA PollEnds ==
  ASSUME PollInv, ProcessEnds, pc' = "dead",
         UNCHANGED <<conn, slots, fd_sz, fd_cap, i, sfd>>
  PROVE  PollInv'
<1>1. ConnTypeOK' /\ QueueOK'
  BY ProcessEndsType, ProcessEndsQueue DEF PollInv, TypeOK
<1>2. ConnTypeOK /\ FdTypeOK /\ ArrayTypeOK /\ ArrayOK /\ LoopOK /\ CountOK
  BY Types DEF PollInv
<1>3. ArrayTypeOK' /\ ArrayOK' /\ LoopOK'
  BY <1>2, ArraySame
<1>4. TypeOK'
  BY <1>1, <1>2, <1>3, Types DEF FdTypeOK, PollInv, TypeOK
<1>5. CountOK'
  <2>1. \A c \in Clients : srvEnd'[c] \in {"none", "pending"} => srvEnd[c] \in {"none", "pending"}
    BY DEF ProcessEnds
  <2>2. Cardinality(Taken)' \in Nat /\ Cardinality(Taken) <= Cardinality(Taken)'
    BY <2>1, TakenGrows
  <2> QED BY <1>2, <2>2, Counts, Indices DEF CountOK
<1> QED
  BY <1>1, <1>3, <1>4, <1>5 DEF PollInv, AliveOK, HandlingOK, ProcessEnds

\* accept() and AddfdToPoll keep it.
LEMMA PollAccept ==
  ASSUME PollInv, Accept
  PROVE  PollInv'
<1>1. PICK fd \in FreeFds : AcceptAs(fd)
  BY DEF Accept
<1>2. fd \in ClientFds
  BY DEF FreeFds
<1>3. ArrayTypeOK' /\ ArrayOK' /\ LoopOK' /\ CountOK' /\ pc = "loop" /\ pc' = "loop"
  BY ArrayAccept
<1>4. up /\ TableOK /\ ConnTypeOK /\ FdTypeOK /\ QueueOK
  BY <1>3 DEF PollInv, AliveOK, TypeOK
<1>5. ConnTypeOK' /\ FdTypeOK' /\ QueueOK' /\ TableOK'
  BY <1>1, <1>2, <1>4, AcceptAsKeeps
<1>6. UNCHANGED <<up, dropped, sfd>>
  BY <1>1 DEF Accept, AcceptAs
<1>7. TypeOK'
  BY <1>3, <1>5, <1>6 DEF PollInv, TypeOK, ArrayTypeOK
<1> QED BY <1>3, <1>4, <1>5, <1>6, <1>7 DEF PollInv, AliveOK, HandlingOK

\* close() and RemovefdFromPoll keep it.
LEMMA PollFinish ==
  ASSUME PollInv, FinishIo
  PROVE  PollInv'
<1>1. /\ pc = "handle" /\ CloseFd(sfd) /\ RemovefdFromPoll
      /\ i' = i + 1 /\ pc' = "loop" /\ fd_cap' = fd_cap /\ sfd' = sfd
  BY DEF FinishIo
<1>2. sfd \in ClientFds
  BY <1>1 DEF CloseFd, IsOpen
<1>3. /\ up /\ TableOK /\ ConnTypeOK /\ FdTypeOK /\ QueueOK
      /\ ArrayTypeOK /\ ArrayOK /\ LoopOK /\ CountOK
  BY <1>1, Types DEF PollInv, AliveOK
<1>4. ConnTypeOK' /\ FdTypeOK' /\ QueueOK' /\ TableOK'
  BY <1>1, <1>2, <1>3, CloseKeeps
<1>5. ArrayTypeOK' /\ ArrayOK' /\ LoopOK' /\ fd_sz' <= fd_sz
  BY <1>1, <1>3, ArrayRemove DEF LoopOK
<1>6. UNCHANGED <<up, dropped>>
  BY <1>1 DEF CloseFd
<1>7. TypeOK'
  BY <1>1, <1>4, <1>5 DEF PollInv, TypeOK, ArrayTypeOK
<1>8. CountOK'
  <2>1. \A c \in Clients : srvEnd'[c] \in {"none", "pending"} => srvEnd[c] \in {"none", "pending"}
    BY <1>1, <1>3 DEF CloseFd, ConnTypeOK
  <2>2. Cardinality(Taken)' \in Nat /\ Cardinality(Taken) <= Cardinality(Taken)'
    BY <2>1, TakenGrows
  <2>3. fd_sz \in Int /\ fd_sz' \in Int /\ Cardinality(Taken) \in Nat
    BY <1>1, <1>3, Counts, Indices DEF RemovefdFromPoll
  <2> QED BY <1>3, <1>5, <2>2, <2>3 DEF CountOK
<1> QED BY <1>1, <1>3, <1>4, <1>5, <1>6, <1>7, <1>8 DEF PollInv, AliveOK, HandlingOK

\* Steps of the loop that leave connections and descriptors alone keep the
\* invariant if they keep what it says of the array.
LEMMA PollLoopStep ==
  ASSUME PollInv, UNCHANGED <<connVars, conn, sfd>>, pc = pc' \/ {pc, pc'} = {"poll", "loop"},
         ArrayTypeOK', ArrayOK', LoopOK', fd_sz' <= fd_sz
  PROVE  PollInv'
<1>1. ConnTypeOK /\ FdTypeOK /\ ArrayTypeOK /\ CountOK
  BY Types DEF PollInv
<1>2. ConnTypeOK' /\ FdTypeOK'
  BY <1>1 DEF ConnTypeOK, FdTypeOK, connVars, clientVars, netVars, handlerVars
<1>3. TypeOK'
  BY <1>2 DEF PollInv, TypeOK, ArrayTypeOK
<1>4. QueueOK' /\ AliveOK' /\ HandlingOK' /\ (up' => TableOK')
  BY DEF PollInv, QueueOK, AliveOK, HandlingOK, TableOK, IsOpen, connVars, clientVars
<1>5. CountOK'
  <2>1. Cardinality(Taken)' = Cardinality(Taken) /\ Cardinality(Taken) \in Nat
    BY Counts DEF Taken, connVars
  <2>2. fd_sz \in Int /\ fd_sz' \in Int
    <3>1. LastSlot \in Nat /\ LastSlot' = LastSlot
      BY Counts DEF LastSlot
    <3> QED BY <1>1, <3>1 DEF ArrayTypeOK
  <2> QED BY <1>1, <2>1, <2>2 DEF CountOK
<1> QED BY <1>3, <1>4, <1>5 DEF PollInv

\* Every step keeps the invariant.
LEMMA PollNext == PollInv /\ [Next]_vars => PollInv'
<1> SUFFICES ASSUME PollInv, [Next]_vars PROVE PollInv'
  OBVIOUS
<1>0. /\ ConnTypeOK /\ FdTypeOK /\ QueueOK /\ ArrayTypeOK /\ ArrayOK /\ LoopOK /\ CountOK
      /\ fd_sz \in Int
  BY Types, Indices DEF PollInv
<1>1. CASE Poll
  <2>1. ArrayTypeOK' /\ ArrayOK' /\ LoopOK'
    BY <1>0, <1>1, ArrayPoll
  <2>2. UNCHANGED <<connVars, conn, sfd>> /\ pc = "poll" /\ pc' = "loop" /\ fd_sz' <= fd_sz
    BY <1>0, <1>1 DEF Poll
  <2> QED BY <2>1, <2>2, PollLoopStep
<1>2. CASE PassOver
  <2>1. ArrayTypeOK' /\ ArrayOK' /\ LoopOK'
    BY <1>0, <1>2, ArrayPassOver
  <2>2. UNCHANGED <<connVars, conn, sfd>> /\ pc' = pc /\ fd_sz' <= fd_sz
    BY <1>0, <1>2 DEF PassOver
  <2> QED BY <2>1, <2>2, PollLoopStep
<1>3. CASE LoopEnds
  <2>1. /\ UNCHANGED <<connVars, conn, sfd, slots, fd_sz, fd_cap, i>>
        /\ pc = "loop" /\ pc' = "poll" /\ fd_sz' <= fd_sz
    BY <1>0, <1>3 DEF LoopEnds
  <2>2. ArrayTypeOK' /\ ArrayOK' /\ LoopOK'
    BY <1>0, <2>1, ArraySame
  <2>3. {pc, pc'} = {"poll", "loop"}
    BY <2>1
  <2> QED BY <2>1, <2>2, <2>3, PollLoopStep
<1>4. CASE Accept
  BY <1>4, PollAccept
<1>5. CASE AcceptFails \/ DieOfNothing \/ Die
  BY <1>5, PollEnds DEF AcceptFails, DieOfNothing, Die
<1>6. CASE HandleIo
  <2> DEFINE fd == slots[i].fd
  <2>1. /\ Examines /\ fd # ListenFd /\ CallHandler(fd) /\ sfd' = fd /\ pc' = "handle"
        /\ UNCHANGED <<slots, fd_sz, fd_cap, i>>
    BY <1>6 DEF HandleIo
  <2>2. 1 <= i /\ i <= fd_sz /\ fd_sz >= 2 /\ pc = "loop"
    BY <1>0, <2>1, FiresBeside
  <2>3. IsOpen(fd) /\ fd \in ClientFds /\ fd \in ListenFd .. BadFd
    BY <2>1, PollFds DEF CallHandler, IsOpen
  <2> HIDE DEF fd
  <2>4. up /\ TableOK
    BY <2>2 DEF PollInv, AliveOK
  <2>5. ConnTypeOK' /\ FdTypeOK' /\ QueueOK' /\ TableOK'
    BY <1>0, <2>1, <2>3, <2>4, CallHandlerKeeps
  <2>6. UNCHANGED <<up, dropped, conn, srvEnd>>
    BY <2>1 DEF CallHandler
  <2>7. ArrayTypeOK' /\ ArrayOK' /\ LoopOK'
    BY <1>0, <2>1, <2>2 DEF ArrayTypeOK, ArrayOK, LoopOK, LastSlot
  <2>8. TypeOK'
    BY <2>1, <2>3, <2>5, <2>7 DEF TypeOK, ArrayTypeOK
  <2>9. CountOK'
    BY <1>0, <2>1, <2>6 DEF CountOK, Taken
  <2> QED
    BY <2>1, <2>3, <2>4, <2>5, <2>6, <2>7, <2>8, <2>9
    DEF PollInv, AliveOK, HandlingOK, IsOpen
<1>7. CASE HandleNothing
  <2>1. /\ Examines /\ slots[i].fd # ListenFd /\ RemovefdFromPoll
        /\ i' = i + 1 /\ UNCHANGED <<connVars, conn, fd_cap, sfd, pc>>
    BY <1>7 DEF HandleNothing
  <2>2. 1 <= i /\ i <= fd_sz /\ pc = "loop"
    BY <1>0, <2>1, FiresBeside
  <2>3. ArrayTypeOK' /\ ArrayOK' /\ LoopOK' /\ fd_sz' <= fd_sz
    BY <1>0, <2>1, <2>2, ArrayRemove
  <2> QED BY <2>1, <2>3, PollLoopStep
<1>8. CASE HandlerMoves
  <2>1. conn[sfd] \in Clients /\ up /\ TableOK
    BY <1>8 DEF HandlerMoves, PollInv, HandlingOK, AliveOK, IsOpen, TypeOK, FdTypeOK
  <2>2. HandlerStep(conn[sfd]) /\ UNCHANGED <<conn, slots, fd_sz, fd_cap, i, sfd, pc>>
    BY <1>8 DEF HandlerMoves, loopVars
  <2>3. ConnTypeOK' /\ QueueOK' /\ TableOK'
    BY <1>0, <2>1, <2>2, HandlerStepType, HandlerStepQueue, HandlerStepTable
  <2>4. UNCHANGED <<up, dropped, srvEnd>>
    BY <1>0, <2>1, <2>2, HandlerLeaves
  <2>5. ArrayTypeOK' /\ ArrayOK' /\ LoopOK'
    BY <1>0, <2>2, ArraySame
  <2>6. TypeOK' /\ CountOK'
    BY <1>0, <2>2, <2>3, <2>4, <2>5, Types DEF PollInv, TypeOK, FdTypeOK, CountOK, Taken
  <2> QED
    BY <2>1, <2>2, <2>3, <2>4, <2>5, <2>6 DEF PollInv, AliveOK, HandlingOK, IsOpen
<1>9. CASE FinishIo
  BY <1>9, PollFinish
<1>10. CASE \E c \in Clients : Environment(c)
  BY <1>10, PollEnvironment
<1>11. CASE UNCHANGED vars
  <2>1. UNCHANGED <<connVars, conn, slots, fd_sz, fd_cap, i, sfd, pc>> /\ fd_sz' <= fd_sz
    BY <1>0, <1>11 DEF vars, loopVars
  <2>2. ArrayTypeOK' /\ ArrayOK' /\ LoopOK'
    BY <1>0, <2>1, ArraySame
  <2> QED BY <2>1, <2>2, PollLoopStep
<1> QED
  BY <1>1, <1>2, <1>3, <1>4, <1>5, <1>6, <1>7, <1>8, <1>9, <1>10, <1>11
  DEF Next, ServerStep, PollTimeout

\* The types hold in every state: in particular the loop, although it runs one
\* past the last entry, never leaves the entries there are, and never removes
\* the listening socket's.
THEOREM TypeCorrect == Spec => []TypeOK
<1>1. PollInv => TypeOK
  BY DEF PollInv
<1> QED BY <1>1, PollInit, PollNext, PTL DEF Spec

\* The invariant says what ArrayInBounds says.
LEMMA PollImplies == PollInv => ArrayInBounds
<1> SUFFICES ASSUME PollInv PROVE ArrayInBounds
  OBVIOUS
<1>1. ArrayTypeOK /\ ArrayOK
  BY Types DEF PollInv
<1>2. ASSUME i <= fd_sz, slots[i].revents = "in"
      PROVE  i < fd_cap
  <2>1. i \in 0 .. LastSlot /\ fd_cap \in Int
    BY <1>1, <1>2, Indices
  <2>2. ~ (fd_cap <= i)
    BY <1>1, <1>2, <2>1 DEF ArrayOK
  <2>3. i \in Int
    BY <1>1, Indices
  <2> QED BY <2>1, <2>2, <2>3
<1> QED BY <1>1, <1>2 DEF ArrayInBounds, ArrayOK

\* For any number of connections and whatever malloc() returned, the array grows
\* in time and what poll() reported is handled inside its block only.
THEOREM ArrayInBoundsAlways == Spec => []ArrayInBounds
  BY PollInit, PollNext, PollImplies, PTL DEF Spec

-----------------------------------------------------------------------------
(* The calls *)

\* The one thread is in HandleIoEvent for at most one connection: every other
\* connection that is not closed has not been handled, although the array may
\* make the loop come to a descriptor twice.
OneCall ==
  up => \A c \in Clients :
          /\ hpc[c] = "closed" => srvEnd[c] = "closed"
          /\ hpc[c] \notin {"idle", "closed"} => pc = "handle" /\ conn[sfd] = c

CallInv == PollInv /\ OneCall /\ CallsOK

\* The invariant about the calls holds when the loop starts.
LEMMA CallInit == Init => CallInv
  BY PollInit, ConnInitCalls DEF Init, ConnInit, CallInv, OneCall

\* What the invariant says of the calls and the descriptors.
LEMMA CallFacts ==
  ASSUME CallInv
  PROVE  /\ ConnTypeOK /\ FdTypeOK /\ QueueOK /\ CallsOK /\ UpOK /\ OneCall /\ HandlingOK
         /\ (up <=> pc # "dead") /\ (up => dropped = {} /\ TableOK)
  BY DEF CallInv, PollInv, TypeOK, AliveOK, UpOK

\* Clients and network keep every call in order and start no handler.
LEMMA CallEnvironment ==
  ASSUME NEW c \in Clients, CallInv, Environment(c)
  PROVE  OneCall' /\ CallsOK'
<1>1. (ClientStep(c) \/ NetStep(c)) /\ UNCHANGED <<conn, sfd, pc>>
  BY DEF Environment, loopVars
<1>2. ConnTypeOK /\ QueueOK /\ CallsOK /\ UpOK /\ OneCall
  BY CallFacts
<1>3. /\ UNCHANGED <<hpc, up>>
      /\ \A d \in Clients : srvEnd[d] = "closed" => srvEnd'[d] = "closed"
  BY <1>1, <1>2, EnvironmentLeaves
<1>4. OneCall'
  BY <1>1, <1>2, <1>3 DEF OneCall
<1>5. CallsOK'
  BY <1>1, <1>2, ClientNetStepCalls
<1> QED BY <1>4, <1>5

\* HandleIoEvent keeps every call in order, its own one included.
LEMMA CallHandlerMoves ==
  ASSUME CallInv, HandlerMoves
  PROVE  OneCall' /\ CallsOK'
<1>1. pc = "handle" /\ HandlerStep(conn[sfd]) /\ UNCHANGED <<conn, sfd, pc>>
  BY DEF HandlerMoves, loopVars
<1>2. ConnTypeOK /\ FdTypeOK /\ CallsOK /\ OneCall /\ up /\ dropped = {} /\ TableOK /\ IsOpen(sfd)
  BY <1>1, CallFacts DEF HandlingOK
<1>3. PICK c \in Clients : c = conn[sfd] /\ srvEnd[c] = "open"
  BY <1>2 DEF IsOpen, FdTypeOK, TableOK
<1>4. CallsOK'
  BY <1>1, <1>2, <1>3, HandlerStepCalls
<1>5. /\ UNCHANGED <<srvEnd, up>> /\ hpc'[c] # "closed"
      /\ \A d \in Clients \ {c} : hpc'[d] = hpc[d]
  BY <1>1, <1>2, <1>3, HandlerLeaves
<1>6. OneCall'
  BY <1>1, <1>2, <1>3, <1>5 DEF OneCall
<1> QED BY <1>4, <1>6

\* The steps of the loop that call no handler leave the calls alone.
LEMMA CallLoop ==
  ASSUME CallInv, UNCHANGED <<connVars, conn, sfd>>, pc = "handle" => pc' = "handle"
  PROVE  OneCall' /\ CallsOK'
  BY DEF CallInv, OneCall, CallsOK, CallOK, StreamOK, HandlerOK, OutcomeOK,
         connVars, clientVars, netVars, handlerVars

\* accept() begins no call: it opens a connection nobody has handled.
LEMMA CallAccept ==
  ASSUME CallInv, Accept
  PROVE  OneCall' /\ CallsOK'
<1>1. PICK fd \in ClientFds : AcceptAs(fd)
  BY DEF Accept, FreeFds
<1>2. pc = "loop" /\ UNCHANGED <<hpc, up, pc>>
  BY <1>1 DEF Accept, Examines, AcceptAs, handlerVars
<1>3. ConnTypeOK /\ FdTypeOK /\ QueueOK /\ CallsOK /\ OneCall /\ up
  BY <1>2, CallFacts
<1>4. /\ pending \in Seq(Clients) /\ pending # <<>>
      /\ srvEnd' = [srvEnd EXCEPT ![Head(pending)] = "open"]
  BY <1>1, <1>3 DEF AcceptAs, ConnTypeOK
<1>5. Head(pending) \in Clients /\ srvEnd[Head(pending)] = "pending"
  <2>1. Head(pending) = pending[1] /\ 1 \in 1 .. Len(pending)
    BY <1>4, HeadTailProperties, LenProperties, EmptySeq
  <2> QED BY <1>3, <1>4, <2>1, ElementOfSeq DEF QueueOK
<1>6. OneCall'
  BY <1>2, <1>3, <1>4, <1>5 DEF OneCall, ConnTypeOK
<1> QED BY <1>1, <1>3, <1>6, AcceptAsCalls

\* HandleIoEvent begins with a connection that nobody has handled.
LEMMA CallHandleIo ==
  ASSUME CallInv, HandleIo
  PROVE  OneCall' /\ CallsOK'
<1> DEFINE fd == slots[i].fd
<1>1. pc = "loop" /\ pc' = "handle" /\ fd # ListenFd /\ CallHandler(fd) /\ sfd' = fd
  BY DEF HandleIo, Examines
<1>2. ConnTypeOK /\ FdTypeOK /\ CallsOK /\ OneCall /\ up /\ TableOK
  BY <1>1, CallFacts
<1>3. fd \in ClientFds /\ IsOpen(fd)
  BY <1>1 DEF CallHandler, IsOpen
<1> HIDE DEF fd
<1>4. conn[fd] \in Clients /\ srvEnd[conn[fd]] = "open"
  BY <1>2, <1>3 DEF IsOpen, FdTypeOK, TableOK
<1>5. UNCHANGED <<up, srvEnd, conn>> /\ hpc' = [hpc EXCEPT ![conn[fd]] = "recvHead"]
  BY <1>1 DEF CallHandler
<1>6. hpc[conn[fd]] = "idle" /\ \A c \in Clients : hpc[c] \in {"idle", "closed"}
  BY <1>1, <1>2, <1>4 DEF OneCall
<1>7. OneCall'
  BY <1>1, <1>2, <1>4, <1>5, <1>6 DEF OneCall, ConnTypeOK
<1> QED BY <1>1, <1>2, <1>3, <1>6, <1>7, CallHandlerCalls

\* Every step keeps the invariant about the calls.
LEMMA CallNext == CallInv /\ [Next]_vars => CallInv'
<1> SUFFICES ASSUME CallInv, [Next]_vars PROVE OneCall' /\ CallsOK'
  BY PollNext DEF CallInv
<1>1. CASE Poll \/ PassOver \/ LoopEnds \/ HandleNothing
  BY <1>1, CallLoop DEF Poll, PassOver, LoopEnds, Examines, HandleNothing
<1>2. CASE Accept
  BY <1>2, CallAccept
<1>3. CASE AcceptFails \/ DieOfNothing \/ Die
  <2>1. ProcessEnds
    BY <1>3 DEF AcceptFails, DieOfNothing, Die
  <2>2. CallsOK
    BY CallFacts
  <2> QED BY <2>1, <2>2, ProcessEndsCalls DEF ProcessEnds, OneCall
<1>4. CASE HandleIo
  BY <1>4, CallHandleIo
<1>5. CASE HandlerMoves
  BY <1>5, CallHandlerMoves
<1>6. CASE FinishIo
  <2>1. pc = "handle" /\ CloseFd(sfd) /\ sfd \in ClientFds
    BY <1>6 DEF FinishIo, CloseFd, IsOpen
  <2>2. ConnTypeOK /\ FdTypeOK /\ CallsOK /\ OneCall /\ up /\ TableOK
    BY <2>1, CallFacts
  <2>3. /\ up' = up /\ conn[sfd] \in Clients
        /\ hpc' = [hpc EXCEPT ![conn[sfd]] = "closed"]
        /\ srvEnd' = [srvEnd EXCEPT ![conn[sfd]] = "closed"]
    BY <2>1, <2>2 DEF CloseFd, IsOpen, FdTypeOK
  <2>4. OneCall'
    BY <2>1, <2>2, <2>3 DEF OneCall, ConnTypeOK
  <2> QED BY <2>1, <2>2, <2>4, CloseCalls
<1>7. CASE \E c \in Clients : Environment(c)
  BY <1>7, CallEnvironment
<1>8. CASE UNCHANGED vars
  BY <1>8, CallLoop DEF vars, loopVars
<1> QED
  BY <1>1, <1>2, <1>3, <1>4, <1>5, <1>6, <1>7, <1>8
  DEF Next, ServerStep, PollTimeout

\* A client that ended without its own result was not failed by a server that
\* still runs, although its entry may have been lost.
THEOREM LostOnlyByCrashAlways == Spec => []LostOnlyByCrash
<1>1. CallInv => LostOnlyByCrash
  BY CallsImply DEF CallInv
<1> QED BY <1>1, CallInit, CallNext, PTL DEF Spec

-----------------------------------------------------------------------------
(* The service *)

\* Every step of the server, a client or the network is a step of the service
\* or leaves it alone.
LEMMA NextRefines ==
  CallInv /\ CallInv' /\ [Next]_vars
    => [Abstract!ServiceNext]_Abstract!serviceVars
<1> SUFFICES ASSUME CallInv, CallInv', [Next]_vars PROVE ServiceStep
  BY DEF ServiceStep
<1>0. /\ ConnTypeOK /\ FdTypeOK /\ CallsOK /\ CallsOK' /\ UpOK
      /\ (up <=> pc # "dead") /\ (up => dropped = {})
  BY CallFacts DEF CallInv
<1>1. CASE \/ Poll \/ PassOver \/ LoopEnds \/ HandleNothing
           \/ Accept \/ HandleIo \/ FinishIo \/ UNCHANGED vars
  <2>1. UNCHANGED <<dropped, cpc, shown, reply>>
    BY <1>1
    DEF Poll, PassOver, LoopEnds, HandleNothing, Accept, AcceptAs, HandleIo, CallHandler,
        FinishIo, CloseFd, vars, connVars, clientVars, handlerVars
  <2> QED BY <2>1, StutterRefines DEF ServiceStep
<1>2. CASE AcceptFails \/ DieOfNothing \/ Die
  <2>1. ProcessEnds
    BY <1>2 DEF AcceptFails, DieOfNothing, Die
  <2> QED BY <1>0, <2>1, ProcessEndsRefines
<1>3. CASE HandlerMoves
  <2>1. PICK c \in Clients : c = conn[sfd] /\ HandlerStep(c) /\ up
    BY <1>0, <1>3, CallFacts DEF HandlerMoves, HandlingOK, IsOpen, FdTypeOK
  <2> QED BY <1>0, <2>1, HandlerStepRefines DEF CallsOK
<1>4. ASSUME NEW c \in Clients, Environment(c)
      PROVE  ServiceStep
  <2>1. CallOK(c) /\ CallOK(c)'
    BY <1>0 DEF CallsOK
  <2> QED BY <1>0, <1>4, <2>1, ClientStepRefines, NetStepRefines DEF Environment
<1> QED
  BY <1>1, <1>2, <1>3, <1>4 DEF Next, ServerStep, PollTimeout

\* The poll server implements the calculator service, for any number of
\* clients and whatever its array holds past the end: each answer is the
\* client's own result, computed while the server ran and after the client
\* asked, and only a crash leaves one unanswered.
THEOREM Implementation == Spec => ImplementsService
<1>1. Init => Abstract!ServiceInit
  BY InitRefines DEF Init
<1> QED
  BY <1>1, CallInit, CallNext, NextRefines, PTL
  DEF Spec, ImplementsService, Abstract!Service
=============================================================================
