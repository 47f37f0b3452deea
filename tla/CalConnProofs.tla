---------------------------- MODULE CalConnProofs ----------------------------
(***************************************************************************)
(* What the clients, the kernel and HandleIoEvent preserve, whatever the   *)
(* server's event loop, and for the servers that have a descriptor table   *)
(* what accept, HandleIoEvent and close do to it: lemmas for the proofs    *)
(* about each server.                                                      *)
(***************************************************************************)
EXTENDS Descriptors, SequenceTheorems, TLAPS

\* The accept queue: every entry is a connection not yet accepted, once; a
\* client that has not connected has no connection.
QueueOK ==
  /\ \A k \in 1 .. Len(pending) : srvEnd[pending[k]] = "pending"
  /\ \A j, k \in 1 .. Len(pending) : pending[j] = pending[k] => j = k
  /\ \A c \in Clients : cpc[c] = "init" => srvEnd[c] = "none"

\* Taking one entry out of a sequence leaves a sequence of the other entries,
\* in their order.
LEMMA RemoveOne ==
  ASSUME NEW S, NEW q \in Seq(S), NEW k \in 1 .. Len(q)
  PROVE  LET r == SubSeq(q, 1, k - 1) \o SubSeq(q, k + 1, Len(q))
         IN /\ r \in Seq(S)
            /\ Len(r) = Len(q) - 1
            /\ \A j \in 1 .. Len(r) : r[j] = IF j < k THEN q[j] ELSE q[j + 1]
<1> DEFINE n == Len(q)
           a == SubSeq(q, 1, k - 1)
           b == SubSeq(q, k + 1, n)
           r == a \o b
<1>1. n \in Nat /\ k \in 1 .. n
  BY LenProperties
<1>2. a \in Seq(S) /\ Len(a) = k - 1 /\ \A j \in 1 .. k - 1 : a[j] = q[j]
  BY <1>1, SubSeqProperties
<1>3. b \in Seq(S) /\ Len(b) = n - k /\ \A j \in 1 .. n - k : b[j] = q[k + j]
  BY <1>1, SubSeqProperties
<1>4. /\ r \in Seq(S)
      /\ Len(r) = Len(a) + Len(b)
      /\ \A j \in 1 .. Len(a) + Len(b) :
           r[j] = IF j <= Len(a) THEN a[j] ELSE b[j - Len(a)]
  BY <1>2, <1>3, ConcatProperties
<1> HIDE DEF n, a, b, r
<1>5. Len(r) = n - 1
  BY <1>1, <1>2, <1>3, <1>4
<1>6. ASSUME NEW j \in 1 .. Len(r)
      PROVE  r[j] = IF j < k THEN q[j] ELSE q[j + 1]
  <2>1. CASE j < k
    BY <2>1, <1>1, <1>2, <1>3, <1>4
  <2>2. CASE ~ (j < k)
    <3>1. r[j] = b[j - (k - 1)] /\ j - (k - 1) \in 1 .. n - k
      BY <2>2, <1>1, <1>2, <1>3, <1>4
    <3>2. b[j - (k - 1)] = q[k + (j - (k - 1))]
      BY <3>1, <1>3
    <3>3. k + (j - (k - 1)) = j + 1
      BY <1>1, <1>5
    <3> QED BY <2>2, <3>1, <3>2, <3>3
  <2> QED BY <2>1, <2>2
<1> QED BY <1>4, <1>5, <1>6 DEF n, a, b, r

-----------------------------------------------------------------------------
(* Types *)

\* The types hold of a server that has just called listen().
LEMMA ConnInitType == ConnInit => ConnTypeOK
  BY ConnAssumption, EmptySeq DEF ConnInit, ConnTypeOK, Connected, Ended

\* A step of a client keeps the types.
LEMMA ClientStepType ==
  ASSUME NEW c \in Clients, ConnTypeOK, ClientStep(c)
  PROVE  ConnTypeOK'
<1> USE ConnAssumption DEF ConnTypeOK, Connected, Ended, serverVars, clientVars, netVars, handlerVars
<1>1. CASE Connect(c)
  <2>1. pending' \in Seq(Clients)
    BY <1>1, AppendProperties DEF Connect
  <2> QED BY <1>1, <2>1 DEF Connect
<1>2. CASE ConnectRefused(c)
  BY <1>2 DEF ConnectRefused
<1>3. CASE SendHead(c)
  <2>1. HeadSz \in 0 .. HeadSz + ReqSz
    OBVIOUS
  <2>2. sent' \in [Clients -> 0 .. HeadSz + ReqSz]
    BY <1>3, <2>1 DEF SendHead
  <2> QED BY <1>3, <2>2 DEF SendHead
<1>4. CASE SendBody(c)
  <2>1. HeadSz + ReqSz \in 0 .. HeadSz + ReqSz
    OBVIOUS
  <2>2. sent' \in [Clients -> 0 .. HeadSz + ReqSz]
    <3>1. sent' = [sent EXCEPT ![c] = HeadSz + ReqSz] \/ sent' = sent
      BY <1>4 DEF SendBody
    <3> QED BY <2>1, <3>1
  <2>3. cpc' \in [Clients -> {"init"} \cup Connected \cup Ended]
    <3>1. \/ cpc' = [cpc EXCEPT ![c] = "recvHead"]
          \/ cpc' = [cpc EXCEPT ![c] = "killed"]
      BY <1>4 DEF SendBody
    <3> QED BY <3>1
  <2> QED BY <1>4, <2>2, <2>3 DEF SendBody
<1>5. CASE RecvHead(c)
  <2>1. PICK n \in 1 .. HeadSz - got[c] :
          /\ got' = [got EXCEPT ![c] = @ + n]
          /\ cpc' = [cpc EXCEPT ![c] = IF got[c] + n = HeadSz THEN "recvBody" ELSE @]
    BY <1>5 DEF RecvHead
  <2>2. got[c] + n \in 0 .. HeadSz + ResSz
    BY <2>1
  <2>3. got' \in [Clients -> 0 .. HeadSz + ResSz]
    BY <2>1, <2>2
  <2>4. cpc' \in [Clients -> {"init"} \cup Connected \cup Ended]
    BY <2>1
  <2> QED BY <1>5, <2>3, <2>4 DEF RecvHead
<1>6. CASE RecvBody(c)
  <2>1. got' \in [Clients -> 0 .. HeadSz + ResSz]
    <3>1. PICK n \in 1 .. HeadSz + ResSz - got[c] :
            got' = [got EXCEPT ![c] = @ + n]
      BY <1>6 DEF RecvBody
    <3>2. got[c] + n \in 0 .. HeadSz + ResSz
      BY <3>1
    <3> QED BY <3>1, <3>2
  <2>2. cpc' \in [Clients -> {"init"} \cup Connected \cup Ended]
    <3>1. cpc' = [cpc EXCEPT ![c] = "done"] \/ cpc' = cpc
      BY <1>6 DEF RecvBody
    <3> QED BY <3>1
  <2>3. shown' \in [Clients -> {"none", "own", "junk"}]
    <3>1. shown' = [shown EXCEPT ![c] = reply[c]] \/ shown' = shown
      BY <1>6 DEF RecvBody
    <3>2. reply[c] \in {"none", "own", "junk"}
      OBVIOUS
    <3> QED BY <3>1, <3>2
  <2> QED BY <1>6, <2>1, <2>2, <2>3 DEF RecvBody
<1>7. CASE RecvShort(c)
  BY <1>7 DEF RecvShort
<1> QED BY <1>1, <1>2, <1>3, <1>4, <1>5, <1>6, <1>7 DEF ClientStep

\* A step of the kernel or the network keeps the types.
LEMMA NetStepType ==
  ASSUME NEW c \in Clients, ConnTypeOK, NetStep(c)
  PROVE  ConnTypeOK'
<1> USE ConnAssumption DEF ConnTypeOK, Connected, Ended, serverVars, clientVars, netVars, handlerVars
<1>1. CASE Deliver(c)
  <2>1. PICK n \in 1 .. sent[c] - arrived[c] :
          arrived' = [arrived EXCEPT ![c] = @ + n]
    BY <1>1 DEF Deliver
  <2>2. arrived[c] + n \in 0 .. HeadSz + ReqSz
    BY <2>1
  <2>3. arrived' \in [Clients -> 0 .. HeadSz + ReqSz]
    BY <2>1, <2>2
  <2> QED BY <1>1, <2>3 DEF Deliver
<1>2. CASE Vanish(c)
  BY <1>2 DEF Vanish
<1>3. CASE Reset(c)
  <2>1. pending' \in Seq(Clients)
    <3>1. CASE LeaveQueue(c)
      <4>1. PICK k \in 1 .. Len(pending) :
              pending' = SubSeq(pending, 1, k - 1) \o SubSeq(pending, k + 1, Len(pending))
        BY <3>1 DEF LeaveQueue
      <4>2. pending \in Seq(Clients)
        OBVIOUS
      <4> QED BY <4>1, <4>2, RemoveOne
    <3>2. CASE pending' = pending
      BY <3>2
    <3> QED BY <1>3, <3>1, <3>2 DEF Reset
  <2>2. srvEnd' \in [Clients -> {"none", "pending", "open", "closed"}]
    <3>1. srvEnd' = [srvEnd EXCEPT ![c] = "closed"] \/ srvEnd' = srvEnd
      BY <1>3 DEF Reset
    <3> QED BY <3>1
  <2> QED BY <1>3, <2>1, <2>2 DEF Reset
<1>4. CASE PeerReset(c)
  BY <1>4 DEF PeerReset
<1> QED BY <1>1, <1>2, <1>3, <1>4 DEF NetStep

\* A step of HandleIoEvent keeps the types.
LEMMA HandlerStepType ==
  ASSUME NEW c \in Clients, ConnTypeOK, HandlerStep(c)
  PROVE  ConnTypeOK'
<1> USE ConnAssumption DEF ConnTypeOK, Connected, Ended, serverVars, clientVars, netVars, handlerVars
<1>1. CASE ReadHead(c)
  BY <1>1 DEF ReadHead
<1>2. CASE ReadBody(c)
  BY <1>2 DEF ReadBody
<1>3. CASE ReadShort(c)
  BY <1>3 DEF ReadShort
<1>4. CASE DoCal(c)
  BY <1>4 DEF DoCal
<1>5. CASE WriteHead(c)
  <2>1. HeadSz \in 0 .. HeadSz + ResSz
    OBVIOUS
  <2>2. put' \in [Clients -> 0 .. HeadSz + ResSz]
    BY <1>5, <2>1 DEF WriteHead
  <2> QED BY <1>5, <2>2 DEF WriteHead
<1>6. CASE WriteBody(c)
  <2>1. HeadSz + ResSz \in 0 .. HeadSz + ResSz
    OBVIOUS
  <2>2. put' \in [Clients -> 0 .. HeadSz + ResSz]
    BY <1>6, <2>1 DEF WriteBody
  <2> QED BY <1>6, <2>2 DEF WriteBody
<1> QED BY <1>1, <1>2, <1>3, <1>4, <1>5, <1>6 DEF HandlerStep

\* The end of the server's process keeps the types.
LEMMA ProcessEndsType ==
  ASSUME ConnTypeOK, ProcessEnds
  PROVE  ConnTypeOK'
  BY EmptySeq DEF ConnTypeOK, ProcessEnds, serverVars, clientVars, netVars, handlerVars

-----------------------------------------------------------------------------
(* The accept queue *)

\* Nothing is queued before anybody connects.
LEMMA ConnInitQueue == ConnInit => QueueOK
  BY DEF ConnInit, QueueOK

\* A client's step keeps the queue: connect() appends a new connection.
LEMMA ClientStepQueue ==
  ASSUME NEW c \in Clients, ConnTypeOK, QueueOK, ClientStep(c)
  PROVE  QueueOK'
<1>1. CASE Connect(c)
  <2>1. pending \in Seq(Clients)
    BY DEF ConnTypeOK
  <2>2. /\ pending' \in Seq(Clients)
        /\ Len(pending') = Len(pending) + 1
        /\ \A k \in 1 .. Len(pending) : pending'[k] = pending[k]
        /\ pending'[Len(pending) + 1] = c
    BY <1>1, <2>1, AppendProperties DEF Connect
  <2>3. srvEnd[c] = "none" /\ cpc' = [cpc EXCEPT ![c] = "typing"]
        /\ srvEnd' = [srvEnd EXCEPT ![c] = "pending"]
    BY <1>1 DEF Connect, QueueOK
  <2>4. \A k \in 1 .. Len(pending) : pending[k] \in Clients /\ pending[k] # c
    BY <2>1, <2>3, ElementOfSeq DEF QueueOK
  <2>5. Len(pending) \in Nat
    BY <2>1, LenProperties
  <2>6. ASSUME NEW k \in 1 .. Len(pending')
        PROVE  srvEnd'[pending'[k]] = "pending"
    <3>1. CASE k \in 1 .. Len(pending)
      <4>1. pending'[k] = pending[k] /\ pending[k] \in Clients /\ pending[k] # c
        BY <3>1, <2>2, <2>4
      <4>2. srvEnd[pending[k]] = "pending"
        BY <3>1 DEF QueueOK
      <4> QED BY <4>1, <4>2, <2>3 DEF ConnTypeOK
    <3>2. CASE k = Len(pending) + 1
      BY <3>2, <2>2, <2>3 DEF ConnTypeOK
    <3> QED BY <2>2, <2>5, <3>1, <3>2
  <2>7. \A j, k \in 1 .. Len(pending') : pending'[j] = pending'[k] => j = k
    BY <2>2, <2>4, <2>5 DEF QueueOK
  <2>8. \A d \in Clients : cpc'[d] = "init" => srvEnd'[d] = "none"
    BY <2>3 DEF QueueOK, ConnTypeOK
  <2> QED BY <2>6, <2>7, <2>8 DEF QueueOK
<1>2. CASE ~ Connect(c)
  <2>1. pending' = pending /\ srvEnd' = srvEnd
    BY <1>2 DEF ClientStep, ConnectRefused, SendHead, SendBody, RecvHead, RecvBody, RecvShort
  <2>2. \A d \in Clients : cpc'[d] = "init" => cpc[d] = "init"
    <3>1. CASE ConnectRefused(c) \/ SendHead(c) \/ SendBody(c)
      BY <3>1 DEF ConnectRefused, SendHead, SendBody, ConnTypeOK
    <3>2. CASE RecvHead(c) \/ RecvBody(c) \/ RecvShort(c)
      BY <3>2 DEF RecvHead, RecvBody, RecvShort, ConnTypeOK
    <3> QED BY <1>2, <3>1, <3>2 DEF ClientStep
  <2> QED BY <2>1, <2>2 DEF QueueOK
<1> QED BY <1>1, <1>2

\* The kernel keeps the queue: an aborted connection leaves it.
LEMMA NetStepQueue ==
  ASSUME NEW c \in Clients, ConnTypeOK, QueueOK, NetStep(c)
  PROVE  QueueOK'
<1>1. \A d \in Clients : cpc'[d] = "init" => cpc[d] = "init"
  BY DEF NetStep, Deliver, Vanish, Reset, PeerReset, clientVars, ConnTypeOK
<1>2. CASE pending' = pending /\ srvEnd' = srvEnd
  BY <1>1, <1>2 DEF QueueOK
<1>3. CASE LeaveQueue(c) /\ srvEnd' = [srvEnd EXCEPT ![c] = "closed"] /\ Reset(c)
  <2>1. pending \in Seq(Clients)
    BY DEF ConnTypeOK
  <2>2. PICK k \in 1 .. Len(pending) :
          /\ pending[k] = c
          /\ pending' = SubSeq(pending, 1, k - 1) \o SubSeq(pending, k + 1, Len(pending))
    BY <1>3 DEF LeaveQueue
  <2>3. /\ Len(pending') = Len(pending) - 1
        /\ \A j \in 1 .. Len(pending') :
             pending'[j] = IF j < k THEN pending[j] ELSE pending[j + 1]
    BY <2>1, <2>2, RemoveOne
  <2>4. Len(pending) \in Nat
    BY <2>1, LenProperties
  <2> DEFINE old(j) == IF j < k THEN j ELSE j + 1
  <2>5. ASSUME NEW j \in 1 .. Len(pending')
        PROVE  /\ old(j) \in 1 .. Len(pending) /\ old(j) # k
               /\ pending'[j] = pending[old(j)]
    <3>1. j \in Int /\ k \in Int /\ 1 <= j /\ j <= Len(pending) - 1
      BY <2>3, <2>4
    <3>2. old(j) \in 1 .. Len(pending) /\ old(j) # k
      BY <3>1, <2>4
    <3> QED BY <3>2, <2>3
  <2>6. ASSUME NEW i \in 1 .. Len(pending'), NEW j \in 1 .. Len(pending'), old(i) = old(j)
        PROVE  i = j
    <3>1. i \in Int /\ j \in Int /\ k \in Int
      BY <2>3, <2>4
    <3>2. (i < k /\ j < k) \/ (i >= k /\ j >= k)
      BY <2>6, <3>1
    <3> QED BY <2>6, <3>1, <3>2
  <2> HIDE DEF old
  <2>7. \A j, i \in 1 .. Len(pending') : pending'[j] = pending'[i] => j = i
    BY <2>5, <2>6 DEF QueueOK
  <2>8. ASSUME NEW j \in 1 .. Len(pending')
        PROVE  srvEnd'[pending'[j]] = "pending"
    <3>1. pending[old(j)] # c
      BY <2>2, <2>5 DEF QueueOK
    <3>2. pending[old(j)] \in Clients /\ srvEnd[pending[old(j)]] = "pending"
      BY <2>1, <2>5, ElementOfSeq DEF QueueOK
    <3> QED BY <1>3, <2>5, <3>1, <3>2 DEF ConnTypeOK
  <2>9. \A d \in Clients : cpc'[d] = "init" => srvEnd'[d] = "none"
    BY <1>1, <1>3 DEF QueueOK, ConnTypeOK, Reset, Connected
  <2> QED BY <2>7, <2>8, <2>9 DEF QueueOK
<1> QED
  BY <1>2, <1>3 DEF NetStep, Deliver, Vanish, Reset, PeerReset

\* HandleIoEvent does not touch the queue.
LEMMA HandlerStepQueue ==
  ASSUME NEW c \in Clients, QueueOK, HandlerStep(c)
  PROVE  QueueOK'
  BY DEF HandlerStep, ReadHead, ReadBody, ReadShort, DoCal, WriteHead, WriteBody,
         QueueOK, clientVars

\* accept() takes the first connection off the queue and opens it.
LEMMA AcceptQueue ==
  ASSUME ConnTypeOK, QueueOK, pending # <<>>, pending' = Tail(pending),
         srvEnd' = [srvEnd EXCEPT ![Head(pending)] = "open"], cpc' = cpc
  PROVE  /\ Head(pending) \in Clients /\ srvEnd[Head(pending)] = "pending"
         /\ pending' \in Seq(Clients) /\ QueueOK'
<1> DEFINE c == Head(pending)
<1>1. pending \in Seq(Clients)
  BY DEF ConnTypeOK
<1>2. /\ c \in Clients /\ c = pending[1]
      /\ pending' \in Seq(Clients)
      /\ Len(pending') = Len(pending) - 1
      /\ \A k \in 1 .. Len(pending') : pending'[k] = pending[k + 1]
  BY <1>1, HeadTailProperties
<1>3. Len(pending) \in Nat \ {0}
  BY <1>1, LenProperties, EmptySeq
<1>4. srvEnd' = [srvEnd EXCEPT ![c] = "open"]
  OBVIOUS
<1>5. srvEnd[c] = "pending"
  BY <1>2, <1>3 DEF QueueOK
<1> HIDE DEF c
<1>6. ASSUME NEW k \in 1 .. Len(pending')
      PROVE  /\ pending'[k] # c /\ pending'[k] \in Clients
             /\ srvEnd[pending'[k]] = "pending"
  <2>1. k + 1 \in 1 .. Len(pending) /\ 1 \in 1 .. Len(pending) /\ k + 1 # 1
    BY <1>2, <1>3
  <2>2. pending[k + 1] \in Clients
    BY <1>1, <2>1, ElementOfSeq
  <2> QED BY <1>2, <2>1, <2>2 DEF QueueOK
<1>7. \A k \in 1 .. Len(pending') : srvEnd'[pending'[k]] = "pending"
  BY <1>4, <1>6 DEF ConnTypeOK
<1>8. ASSUME NEW j \in 1 .. Len(pending'), NEW k \in 1 .. Len(pending'),
             pending'[j] = pending'[k]
      PROVE  j = k
  <2>1. j + 1 \in 1 .. Len(pending) /\ k + 1 \in 1 .. Len(pending)
    BY <1>2, <1>3
  <2>2. pending[j + 1] = pending[k + 1]
    BY <1>2, <1>8
  <2>3. j + 1 = k + 1
    BY <2>1, <2>2 DEF QueueOK
  <2> QED BY <2>3
<1>9. \A d \in Clients : cpc'[d] = "init" => srvEnd'[d] = "none"
  BY <1>2, <1>4, <1>5 DEF QueueOK, ConnTypeOK
<1> QED BY <1>2, <1>5, <1>7, <1>8, <1>9 DEF QueueOK, c

\* The end of an accepted connection leaves the queue alone.
LEMMA CloseQueue ==
  ASSUME NEW c \in Clients, ConnTypeOK, QueueOK, srvEnd[c] = "open",
         srvEnd' = [srvEnd EXCEPT ![c] = "closed"], UNCHANGED <<pending, cpc>>
  PROVE  QueueOK'
<1>1. ASSUME NEW k \in 1 .. Len(pending)
      PROVE  srvEnd'[pending[k]] = "pending"
  <2>1. pending[k] \in Clients /\ srvEnd[pending[k]] = "pending"
    BY ElementOfSeq DEF QueueOK, ConnTypeOK
  <2> QED BY <2>1 DEF ConnTypeOK
<1>2. \A d \in Clients : cpc'[d] = "init" => srvEnd'[d] = "none"
  BY DEF QueueOK, ConnTypeOK
<1> QED BY <1>1, <1>2 DEF QueueOK

\* When the process ends the queue is gone.
LEMMA ProcessEndsQueue ==
  ASSUME ConnTypeOK, QueueOK, ProcessEnds
  PROVE  QueueOK'
  BY DEF ProcessEnds, QueueOK, clientVars, ConnTypeOK

-----------------------------------------------------------------------------
(* Readiness *)

\* What makes a connection readable stays until the server reads.
LEMMA ReadableStable ==
  ASSUME NEW c \in Clients, NEW d \in Clients, ConnTypeOK, Readable(d),
         ClientStep(c) \/ NetStep(c)
  PROVE  Readable(d)'
<1> USE DEF ConnTypeOK, Readable, Eof, Ended, Connected, netVars, handlerVars, clientVars
<1>1. CASE Connect(c)
  BY <1>1 DEF Connect
<1>2. CASE ConnectRefused(c)
  BY <1>2 DEF ConnectRefused
<1>3. CASE SendHead(c)
  BY <1>3 DEF SendHead
<1>4. CASE SendBody(c)
  BY <1>4 DEF SendBody
<1>5. CASE RecvHead(c)
  BY <1>5 DEF RecvHead
<1>6. CASE RecvBody(c)
  BY <1>6 DEF RecvBody
<1>7. CASE RecvShort(c)
  BY <1>7 DEF RecvShort
<1>8. CASE Deliver(c)
  <2>1. PICK n \in 1 .. sent[c] - arrived[c] :
          arrived' = [arrived EXCEPT ![c] = @ + n]
    BY <1>8 DEF Deliver
  <2>2. UNCHANGED <<taken, rst, cpc, sent>>
    BY <1>8 DEF Deliver
  <2>3. CASE c = d
    BY <2>1, <2>2, <2>3
  <2>4. CASE c # d
    BY <2>1, <2>2, <2>4
  <2> QED BY <2>3, <2>4
<1>9. CASE Vanish(c)
  BY <1>9 DEF Vanish
<1>10. CASE Reset(c)
  BY <1>10 DEF Reset
<1>11. CASE PeerReset(c)
  BY <1>11 DEF PeerReset
<1> QED
  BY <1>1, <1>2, <1>3, <1>4, <1>5, <1>6, <1>7, <1>8, <1>9, <1>10, <1>11
  DEF ClientStep, NetStep

-----------------------------------------------------------------------------
(* Calls *)

\* The streams: nothing is read that has not arrived, nor arrives that was not
\* written; how far a client is in its call is how much it wrote and read.
StreamOK(c) ==
  /\ taken[c] <= arrived[c] /\ arrived[c] <= sent[c] /\ got[c] <= put[c]
  /\ cpc[c] \in {"init", "typing"} => sent[c] = 0
  /\ cpc[c] = "sendBody" => sent[c] = HeadSz
  /\ cpc[c] \in {"init", "typing", "sendBody"} => got[c] = 0
  /\ cpc[c] = "recvHead" => got[c] < HeadSz
  /\ cpc[c] = "recvBody" => got[c] < HeadSz + ResSz

\* The handler: how far it is is how much it wrote; what it computes from a
\* whole request it computes after it has read one.
HandlerOK(c) ==
  /\ hpc[c] \in {"idle", "recvHead", "recvBody", "cal", "sendHead"} => put[c] = 0
  /\ hpc[c] = "sendBody" => put[c] = HeadSz
  /\ hpc[c] \in {"close", "closed"} => put[c] = HeadSz + ResSz
  /\ hpc[c] \in {"idle", "recvHead", "recvBody"} => req[c] = "none"
  /\ hpc[c] \in {"idle", "recvHead", "recvBody", "cal"} => reply[c] = "none"
  /\ hpc[c] \in {"cal", "sendHead", "sendBody", "close", "closed"} => req[c] # "none"
  /\ hpc[c] \in {"sendHead", "sendBody", "close", "closed"} => reply[c] # "none"
  /\ req[c] = "whole" => taken[c] = HeadSz + ReqSz
  /\ reply[c] = "own" => req[c] = "whole"
  /\ reply[c] = "junk" => req[c] = "junk"

\* The outcome: a reset, or a request read short, comes of a client that went
\* away, and while the server runs every other client that ended, or whose
\* connection was closed, had its own result.
OutcomeOK(c) ==
  /\ rst[c] => cpc[c] = "gone"
  /\ req[c] = "junk" => cpc[c] = "gone"
  /\ cpc[c] \in {"init", "typing", "sendBody", "recvHead", "recvBody", "gone"}
       => shown[c] = "none"
  /\ cpc[c] = "done" => shown[c] # "none"
  /\ shown[c] = "own" => cpc[c] = "done" /\ reply[c] = "own"
  /\ c \notin dropped =>
       /\ cpc[c] \notin {"killed", "failed"}
       /\ shown[c] # "junk"
       /\ cpc[c] = "done" => hpc[c] \in {"close", "closed"}
       /\ srvEnd[c] = "closed" => cpc[c] = "gone" \/ hpc[c] = "closed"

\* Nobody is served once nobody listens.
UpOK == ~ up => dropped = Clients

CallOK(c) == StreamOK(c) /\ HandlerOK(c) /\ OutcomeOK(c)
CallsOK == \A c \in Clients : CallOK(c)

\* No call has begun when the server starts, so every call is in order.
LEMMA ConnInitCalls == ConnInit => CallsOK
  BY ConnAssumption DEF ConnInit, CallsOK, CallOK, StreamOK, HandlerOK, OutcomeOK

\* What the predicates say of a client is about its own part of the state.
SameCall(c) ==
  UNCHANGED <<cpc[c], shown[c], sent[c], got[c], arrived[c], rst[c], taken[c],
              hpc[c], req[c], reply[c], put[c], srvEnd[c], dropped>>

\* A call whose part of the state a step leaves alone stays in order.
LEMMA SameCallKeeps ==
  ASSUME NEW c \in Clients, CallOK(c), SameCall(c)
  PROVE  CallOK(c)'
  BY DEF SameCall, CallOK, StreamOK, HandlerOK, OutcomeOK

\* A step of one client, of its connection or of its handler leaves the calls
\* of the other clients alone.
LEMMA OthersSame ==
  ASSUME NEW c \in Clients, NEW d \in Clients, c # d, ConnTypeOK,
         ClientStep(c) \/ NetStep(c) \/ HandlerStep(c)
  PROVE  SameCall(d)
<1> USE DEF ConnTypeOK, SameCall, serverVars, clientVars, netVars, handlerVars
<1>1. CASE ClientStep(c)
  <2>1. CASE Connect(c) \/ ConnectRefused(c) \/ SendHead(c) \/ SendBody(c)
    BY <2>1 DEF Connect, ConnectRefused, SendHead, SendBody
  <2>2. CASE RecvHead(c) \/ RecvBody(c) \/ RecvShort(c)
    BY <2>2 DEF RecvHead, RecvBody, RecvShort
  <2> QED BY <1>1, <2>1, <2>2 DEF ClientStep
<1>2. CASE NetStep(c)
  BY <1>2 DEF NetStep, Deliver, Vanish, Reset, PeerReset
<1>3. CASE HandlerStep(c)
  BY <1>3 DEF HandlerStep, ReadHead, ReadBody, ReadShort, DoCal, WriteHead, WriteBody
<1> QED BY <1>1, <1>2, <1>3

\* A client's own step keeps its call in order.
LEMMA ClientStepCall ==
  ASSUME NEW c \in Clients, ConnTypeOK, CallOK(c), ClientStep(c), QueueOK, UpOK
  PROVE  CallOK(c)'
<1> USE ConnAssumption
    DEF ConnTypeOK, Connected, Ended, serverVars, clientVars, netVars, handlerVars,
        CallOK, StreamOK, HandlerOK, OutcomeOK
<1>1. CASE Connect(c)
  BY <1>1 DEF Connect
<1>2. CASE ConnectRefused(c)
  BY <1>2 DEF ConnectRefused, UpOK
<1>3. CASE SendHead(c)
  BY <1>3 DEF SendHead
<1>4. CASE SendBody(c)
  <2>1. /\ cpc[c] = "sendBody"
        /\ UNCHANGED <<serverVars, shown, got, netVars, srvEnd, handlerVars>>
    BY <1>4 DEF SendBody
  <2>2. CASE /\ cpc' = [cpc EXCEPT ![c] = "recvHead"]
             /\ sent' = [sent EXCEPT ![c] = HeadSz + ReqSz]
    <3>1. StreamOK(c)'
      BY <2>1, <2>2
    <3>2. HandlerOK(c)' /\ OutcomeOK(c)'
      BY <2>1, <2>2
    <3> QED BY <3>1, <3>2
  <2>3. CASE /\ srvEnd[c] = "closed"
             /\ cpc' = [cpc EXCEPT ![c] = "killed"] /\ UNCHANGED sent
    <3>1. c \in dropped
      BY <2>1, <2>3
    <3> QED BY <2>1, <2>3, <3>1
  <2> QED BY <1>4, <2>2, <2>3 DEF SendBody
<1>5. CASE RecvHead(c)
  <2>1. PICK n \in 1 .. HeadSz - got[c] :
          /\ got[c] + n <= put[c]
          /\ got' = [got EXCEPT ![c] = @ + n]
          /\ cpc' = [cpc EXCEPT ![c] = IF got[c] + n = HeadSz THEN "recvBody" ELSE @]
    BY <1>5 DEF RecvHead
  <2>2. cpc[c] = "recvHead" /\ UNCHANGED <<dropped, shown, sent, netVars, srvEnd, handlerVars>>
    BY <1>5 DEF RecvHead
  <2>3. got'[c] = got[c] + n /\ got[c] + n <= HeadSz /\ got[c] \in Nat /\ n \in Nat
    BY <2>1
  <2>4. StreamOK(c)'
    <3>1. got[c] + n <= put[c] /\ UNCHANGED <<taken, arrived, sent, put>>
      BY <2>1, <2>2
    <3>2. cpc'[c] = "recvBody" \/ (cpc'[c] = "recvHead" /\ got[c] + n < HeadSz)
      <4>1. CASE got[c] + n = HeadSz
        BY <4>1, <2>1
      <4>2. CASE got[c] + n # HeadSz
        <5>1. cpc'[c] = "recvHead"
          BY <4>2, <2>1, <2>2
        <5>2. got[c] + n < HeadSz
          <6>1. \A x, y \in Nat : x <= y /\ x # y => x < y
            OBVIOUS
          <6>2. got[c] + n \in Nat /\ HeadSz \in Nat
            BY <2>3
          <6> QED BY <6>1, <6>2, <4>2, <2>3
        <5> QED BY <5>1, <5>2
      <4> QED BY <4>1, <4>2
    <3>3. got[c] + n < HeadSz + ResSz
      BY <2>3
    <3> QED BY <2>3, <3>1, <3>2, <3>3
  <2>5. cpc'[c] \in {"recvHead", "recvBody"}
    BY <2>1, <2>2
  <2>6. HandlerOK(c)' /\ OutcomeOK(c)'
    BY <2>2, <2>5
  <2> QED BY <2>4, <2>6
<1>6. CASE RecvBody(c)
  <2>1. PICK n \in 1 .. HeadSz + ResSz - got[c] :
          /\ got[c] + n <= put[c]
          /\ got' = [got EXCEPT ![c] = @ + n]
          /\ IF got[c] + n = HeadSz + ResSz
             THEN /\ cpc' = [cpc EXCEPT ![c] = "done"]
                  /\ shown' = [shown EXCEPT ![c] = reply[c]]
             ELSE UNCHANGED <<cpc, shown>>
    BY <1>6 DEF RecvBody
  <2>2. cpc[c] = "recvBody" /\ UNCHANGED <<dropped, sent, netVars, srvEnd, handlerVars>>
    BY <1>6 DEF RecvBody
  <2>3. /\ got'[c] = got[c] + n /\ got[c] + n <= HeadSz + ResSz
        /\ got[c] \in Nat /\ n \in Nat
    BY <2>1
  <2>4. HandlerOK(c)'
    BY <2>2
  <2>5. CASE got[c] + n # HeadSz + ResSz
    <3>1. UNCHANGED <<cpc, shown>>
      BY <2>1, <2>5
    <3>2. StreamOK(c)'
      <4>1. got[c] + n < HeadSz + ResSz
        <5>1. \A x, y \in Nat : x <= y /\ x # y => x < y
          OBVIOUS
        <5>2. got[c] + n \in Nat /\ HeadSz + ResSz \in Nat
          BY <2>3
        <5> QED BY <5>1, <5>2, <2>3, <2>5
      <4>2. got[c] + n <= put[c] /\ UNCHANGED <<taken, arrived, sent, put>>
        BY <2>1, <2>2
      <4> QED BY <2>2, <2>3, <3>1, <4>1, <4>2
    <3>3. OutcomeOK(c)'
      BY <2>2, <3>1
    <3> QED BY <2>4, <3>2, <3>3
  <2>6. CASE got[c] + n = HeadSz + ResSz
    <3>1. cpc'[c] = "done" /\ shown'[c] = reply[c]
      BY <2>1, <2>6
    <3>2. StreamOK(c)'
      BY <2>1, <2>2, <2>3, <3>1
    <3>3. put[c] >= HeadSz + ResSz
      BY <2>1, <2>6
    <3>4. hpc[c] \in {"close", "closed"}
      BY <3>3
    <3>5. reply[c] = "own"
      BY <2>2, <3>4
    <3>6. OutcomeOK(c)'
      BY <2>2, <3>1, <3>4, <3>5
    <3> QED BY <2>4, <3>2, <3>6
  <2> QED BY <2>5, <2>6
<1>7. CASE RecvShort(c)
  BY <1>7 DEF RecvShort
<1> QED BY <1>1, <1>2, <1>3, <1>4, <1>5, <1>6, <1>7 DEF ClientStep

\* The kernel and the network keep a call in order.
LEMMA NetStepCall ==
  ASSUME NEW c \in Clients, ConnTypeOK, CallOK(c), NetStep(c)
  PROVE  CallOK(c)'
<1> USE ConnAssumption
    DEF ConnTypeOK, Connected, Ended, serverVars, clientVars, netVars, handlerVars,
        CallOK, StreamOK, HandlerOK, OutcomeOK
<1>1. CASE Deliver(c)
  BY <1>1 DEF Deliver
<1>2. CASE Vanish(c)
  BY <1>2 DEF Vanish
<1>3. CASE Reset(c)
  BY <1>3 DEF Reset
<1>4. CASE PeerReset(c)
  BY <1>4 DEF PeerReset
<1> QED BY <1>1, <1>2, <1>3, <1>4 DEF NetStep

\* A running server that handles a call keeps it in order.
LEMMA HandlerStepCall ==
  ASSUME NEW c \in Clients, ConnTypeOK, CallOK(c), HandlerStep(c), c \notin dropped, srvEnd[c] = "open"
  PROVE  CallOK(c)'
<1> USE ConnAssumption
    DEF ConnTypeOK, Connected, Ended, serverVars, clientVars, netVars, handlerVars,
        CallOK, StreamOK, HandlerOK, OutcomeOK
<1>1. CASE ReadHead(c)
  BY <1>1 DEF ReadHead
<1>2. CASE ReadBody(c)
  BY <1>2 DEF ReadBody
<1>3. CASE ReadShort(c)
  <2>1. /\ hpc[c] \in {"recvHead", "recvBody"} /\ Eof(c)
        /\ hpc' = [hpc EXCEPT ![c] = "cal"]
        /\ req' = [req EXCEPT ![c] = "junk"]
        /\ UNCHANGED <<serverVars, clientVars, netVars, srvEnd, taken, reply, put>>
    BY <1>3 DEF ReadShort
  <2>2. cpc[c] = "gone"
    BY <2>1 DEF Eof
  <2>3. StreamOK(c)'
    BY <2>1
  <2>4. HandlerOK(c)'
    BY <2>1
  <2>5. OutcomeOK(c)'
    BY <2>1, <2>2
  <2> QED BY <2>3, <2>4, <2>5
<1>4. CASE DoCal(c)
  BY <1>4 DEF DoCal
<1>5. CASE WriteHead(c)
  BY <1>5 DEF WriteHead
<1>6. CASE WriteBody(c)
  BY <1>6 DEF WriteBody
<1> QED BY <1>1, <1>2, <1>3, <1>4, <1>5, <1>6 DEF HandlerStep

\* A step of one client, or of its connection, keeps all the calls in order.
LEMMA ClientNetStepCalls ==
  ASSUME NEW c \in Clients, ConnTypeOK, QueueOK, UpOK, CallsOK,
         ClientStep(c) \/ NetStep(c)
  PROVE  CallsOK'
<1> SUFFICES ASSUME NEW d \in Clients PROVE CallOK(d)'
  BY DEF CallsOK
<1>1. CASE d = c
  BY <1>1, ClientStepCall, NetStepCall DEF CallsOK
<1>2. CASE d # c
  <2>1. SameCall(d)
    BY <1>2, OthersSame
  <2> QED BY <2>1, SameCallKeeps DEF CallsOK
<1> QED BY <1>1, <1>2

\* A step of a handler for an open connection keeps all the calls in order.
LEMMA HandlerStepCalls ==
  ASSUME NEW c \in Clients, ConnTypeOK, CallsOK, c \notin dropped, srvEnd[c] = "open",
         HandlerStep(c)
  PROVE  CallsOK'
<1> SUFFICES ASSUME NEW d \in Clients PROVE CallOK(d)'
  BY DEF CallsOK
<1>1. CASE d = c
  BY <1>1, HandlerStepCall DEF CallsOK
<1>2. CASE d # c
  <2>1. SameCall(d)
    BY <1>2, OthersSame
  <2> QED BY <2>1, SameCallKeeps DEF CallsOK
<1> QED BY <1>1, <1>2

\* HandleIoEvent begins a call that had not begun.
LEMMA BeginCalls ==
  ASSUME NEW c \in Clients, ConnTypeOK, CallsOK, hpc[c] = "idle",
         hpc' = [hpc EXCEPT ![c] = "recvHead"],
         \A d \in Clients : srvEnd'[d] = "closed" => srvEnd[d] = "closed",
         UNCHANGED <<dropped, clientVars, netVars, taken, req, reply, put>>
  PROVE  CallsOK'
<1> USE DEF CallsOK, CallOK, StreamOK, HandlerOK, OutcomeOK, ConnTypeOK, clientVars, netVars
<1> SUFFICES ASSUME NEW d \in Clients PROVE CallOK(d)'
  OBVIOUS
<1>1. CASE d = c
  BY <1>1
<1>2. CASE d # c
  BY <1>2
<1> QED BY <1>1, <1>2

\* The server's end of a connection changes, and some calls are dropped: what
\* is closed was handled to the end, or is dropped.
LEMMA CloseKeepsCalls ==
  ASSUME CallsOK, dropped \subseteq dropped', UNCHANGED <<clientVars, netVars, handlerVars>>,
         \A d \in Clients : srvEnd'[d] = "closed" =>
           srvEnd[d] = "closed" \/ hpc[d] = "closed" \/ d \in dropped'
  PROVE  CallsOK'
  BY DEF CallsOK, CallOK, StreamOK, HandlerOK, OutcomeOK, clientVars, netVars, handlerVars

\* close() ends a call whose response has been written.
LEMMA EndCalls ==
  ASSUME NEW c \in Clients, ConnTypeOK, CallsOK, hpc[c] = "close",
         hpc' = [hpc EXCEPT ![c] = "closed"],
         srvEnd' \in {srvEnd, [srvEnd EXCEPT ![c] = "closed"]},
         UNCHANGED <<dropped, clientVars, netVars, taken, req, reply, put>>
  PROVE  CallsOK'
<1> USE DEF CallsOK, CallOK, StreamOK, HandlerOK, OutcomeOK, ConnTypeOK, clientVars, netVars
<1> SUFFICES ASSUME NEW d \in Clients PROVE CallOK(d)'
  OBVIOUS
<1>1. CASE d = c
  BY <1>1
<1>2. CASE d # c
  BY <1>2
<1> QED BY <1>1, <1>2

\* The end of the process keeps every call in order.
LEMMA ProcessEndsCalls ==
  ASSUME CallsOK, ProcessEnds
  PROVE  CallsOK'
  BY DEF ProcessEnds, CallsOK, CallOK, StreamOK, HandlerOK, OutcomeOK,
         serverVars, clientVars, netVars, handlerVars

\* LostOnlyByCrash is part of what is kept.
LEMMA CallsImply == CallsOK => LostOnlyByCrash
  BY DEF CallsOK, CallOK, OutcomeOK, LostOnlyByCrash

\* A handler's step that can kill the process is a trap somebody asked for, or
\* comes of a client that went away.
LEMMA DiesBlames ==
  ASSUME NEW c \in Clients, ConnTypeOK, CallOK(c), c \notin dropped, Dies(c)
  PROVE  cpc[c] = "gone" \/ (c \in Trapping /\ req[c] = "whole")
<1> USE DEF ConnTypeOK, CallOK
<1>1. CASE hpc[c] = "recvHead" /\ Eof(c)
  BY <1>1 DEF Eof, Ended, OutcomeOK
<1>2. CASE hpc[c] = "cal" /\ c \in Trapping
  BY <1>2 DEF HandlerOK, OutcomeOK
<1>3. CASE hpc[c] \in {"sendHead", "sendBody"} /\ rst[c]
  BY <1>3 DEF OutcomeOK
<1> QED BY <1>1, <1>2, <1>3 DEF Dies

-----------------------------------------------------------------------------
(* What a step leaves alone *)

\* Clients and kernel start no handler and drop no call, and of the server's
\* ends they change those of connections that are not accepted only.
LEMMA EnvironmentLeaves ==
  ASSUME NEW c \in Clients, ConnTypeOK, QueueOK, ClientStep(c) \/ NetStep(c)
  PROVE  /\ UNCHANGED <<up, dropped, hpc, req, reply>>
         /\ \A d \in Clients :
              /\ srvEnd'[d] = "open" <=> srvEnd[d] = "open"
              /\ srvEnd[d] = "closed" => srvEnd'[d] = "closed"
              /\ srvEnd'[d] \in {"none", "pending"} => srvEnd[d] \in {"none", "pending"}
              /\ srvEnd'[d] = "pending" => srvEnd[d] = "pending" \/ (up /\ cpc[d] = "init")
              /\ cpc[d] = "gone" => cpc'[d] = "gone"
              /\ cpc'[d] = "init" => cpc[d] = "init"
<1> USE DEF serverVars, handlerVars, clientVars
<1>1. UNCHANGED <<up, dropped, hpc, req, reply>>
  BY DEF ClientStep, Connect, ConnectRefused, SendHead, SendBody, RecvHead,
         RecvBody, RecvShort, NetStep, Deliver, Vanish, Reset, PeerReset
<1>2. \/ srvEnd' = srvEnd
      \/ /\ srvEnd[c] = "none" /\ cpc[c] = "init" /\ up
         /\ srvEnd' = [srvEnd EXCEPT ![c] = "pending"]
      \/ srvEnd[c] = "pending" /\ srvEnd' = [srvEnd EXCEPT ![c] = "closed"]
  <2>1. CASE Connect(c)
    BY <2>1 DEF Connect, QueueOK
  <2>2. CASE ~ Connect(c)
    BY <2>2
    DEF ClientStep, ConnectRefused, SendHead, SendBody, RecvHead, RecvBody, RecvShort,
        NetStep, Deliver, Vanish, Reset, PeerReset
  <2> QED BY <2>1, <2>2
<1>3. ASSUME NEW d \in Clients
      PROVE  (cpc[d] = "gone" => cpc'[d] = "gone") /\ (cpc'[d] = "init" => cpc[d] = "init")
  <2>1. CASE NetStep(c)
    BY <1>3, <2>1 DEF NetStep, Deliver, Vanish, Reset, PeerReset, ConnTypeOK
  <2>2. CASE Connect(c) \/ ConnectRefused(c) \/ SendHead(c) \/ SendBody(c)
    BY <1>3, <2>2 DEF Connect, ConnectRefused, SendHead, SendBody, ConnTypeOK
  <2>3. CASE RecvHead(c) \/ RecvBody(c) \/ RecvShort(c)
    BY <1>3, <2>3 DEF RecvHead, RecvBody, RecvShort, ConnTypeOK
  <2> QED BY <2>1, <2>2, <2>3 DEF ClientStep
<1> QED BY <1>1, <1>2, <1>3 DEF ConnTypeOK

\* HandleIoEvent moves on in its own call only, and leaves it to the event
\* loop to close the connection.
LEMMA HandlerLeaves ==
  ASSUME NEW c \in Clients, ConnTypeOK, HandlerStep(c)
  PROVE  /\ UNCHANGED <<up, dropped, pending, cpc, srvEnd>>
         /\ hpc[c] \notin {"idle", "closed"} /\ hpc'[c] \notin {"idle", "closed"}
         /\ \A d \in Clients \ {c} :
              hpc'[d] = hpc[d] /\ req'[d] = req[d] /\ taken'[d] = taken[d]
         /\ UNCHANGED <<rst, arrived>>
<1> USE DEF serverVars, clientVars, netVars, ConnTypeOK
<1>1. CASE ReadHead(c) \/ ReadBody(c) \/ ReadShort(c)
  BY <1>1 DEF ReadHead, ReadBody, ReadShort
<1>2. CASE DoCal(c) \/ WriteHead(c) \/ WriteBody(c)
  BY <1>2 DEF DoCal, WriteHead, WriteBody
<1> QED BY <1>1, <1>2 DEF HandlerStep

-----------------------------------------------------------------------------
(* The service *)

\* A step of the service, or none.
ServiceStep == Abstract!ServiceNext \/ UNCHANGED Abstract!serviceVars

\* The call of one client goes from one state to the next, or stays.
LEMMA OneCallMoves ==
  ASSUME NEW c \in Clients, NEW v, CallState(c)' = v,
         \A d \in Clients : d # c => CallState(d)' = CallState(d)
  PROVE  [d \in Clients |-> CallState(d)]'
           = [[d \in Clients |-> CallState(d)] EXCEPT ![c] = v]
  OBVIOUS

\* Nothing the service shows has changed.
LEMMA StutterRefines ==
  ASSUME UNCHANGED <<dropped, cpc, shown, reply>>
  PROVE  UNCHANGED Abstract!serviceVars
  BY DEF Abstract!serviceVars, CallState

\* The initial states of clients, kernel and server are initial states of the
\* service.
LEMMA InitRefines == ConnInit => Abstract!ServiceInit
  BY DEF ConnInit, Abstract!ServiceInit, CallState

\* A server that serves fewer calls has crashed on the others.
LEMMA DropRefines ==
  ASSUME ConnTypeOK, dropped \subseteq dropped', dropped' \subseteq Clients,
         UNCHANGED <<cpc, shown, reply>>
  PROVE  ServiceStep
<1>1. CASE dropped' = dropped
  BY <1>1, StutterRefines DEF ServiceStep
<1>2. CASE dropped' # dropped
  <2>1. dropped' \in SUBSET Clients /\ dropped' \cap (Clients \ dropped) # {}
    BY <1>2
  <2>2. Clients \ dropped' = (Clients \ dropped) \ dropped'
    OBVIOUS
  <2>3. Abstract!Crash(dropped')
    BY <2>1, <2>2 DEF Abstract!Crash, CallState
  <2> QED BY <2>1, <2>3 DEF ServiceStep, Abstract!ServiceNext
<1> QED BY <1>1, <1>2

\* The end of the one process is a crash.
LEMMA ProcessEndsRefines ==
  ASSUME ConnTypeOK, ProcessEnds
  PROVE  ServiceStep
  BY DropRefines DEF ConnTypeOK, ProcessEnds, clientVars, handlerVars

\* A new process serves the clients that have not connected, and nobody else.
LEMMA StartRefines ==
  ASSUME ConnTypeOK, dropped = Clients, dropped' = {c \in Clients : cpc[c] # "init"},
         UNCHANGED <<cpc, shown, reply>>
  PROVE  ServiceStep
<1> DEFINE S == {c \in Clients : cpc[c] = "init"}
<1>1. S \in SUBSET Clients /\ S \cap (Clients \ dropped) = {}
  OBVIOUS
<1>2. \A c \in S : CallState(c) = "idle"
  BY DEF CallState
<1>3. Clients \ dropped' = (Clients \ dropped) \cup S
  OBVIOUS
<1>4. Abstract!Restart(S)
  BY <1>1, <1>2, <1>3 DEF Abstract!Restart, CallState
<1> QED BY <1>1, <1>4 DEF ServiceStep, Abstract!ServiceNext

\* A handler's step that computes a result computes it for a client that asked.
LEMMA HandlerStepRefines ==
  ASSUME NEW c \in Clients, ConnTypeOK, CallOK(c), c \notin dropped, HandlerStep(c)
  PROVE  ServiceStep
<1>1. CASE DoCal(c) /\ req[c] = "whole"
  <2>1. /\ hpc[c] = "cal" /\ UNCHANGED <<dropped, cpc, shown>>
        /\ reply' = [reply EXCEPT ![c] = "own"]
    BY <1>1 DEF DoCal, serverVars, clientVars
  <2>2. reply[c] = "none" /\ taken[c] = HeadSz + ReqSz
    BY <1>1, <2>1 DEF CallOK, HandlerOK
  <2>3. sent[c] = HeadSz + ReqSz
    BY <2>2, ConnAssumption DEF CallOK, StreamOK, ConnTypeOK
  <2>4. cpc[c] \notin {"init", "typing", "sendBody"}
    BY <2>3, ConnAssumption DEF CallOK, StreamOK
  <2>5. cpc[c] \in {"recvHead", "recvBody", "gone"}
    BY <2>1, <2>4 DEF CallOK, OutcomeOK, ConnTypeOK, Connected, Ended
  <2>6. CallState(c) \in {"asking", "gone"}
    BY <2>5 DEF CallState
  <2>7. {d \in Clients : reply[d] = "own"}' = {d \in Clients : reply[d] = "own"} \cup {c}
    BY <2>1 DEF ConnTypeOK
  <2>8. [d \in Clients |-> CallState(d)]' = [d \in Clients |-> CallState(d)]
    BY <2>1 DEF CallState
  <2>9. Abstract!Compute(c)
    BY <2>1, <2>2, <2>6, <2>7, <2>8 DEF Abstract!Compute
  <2> QED BY <2>9 DEF ServiceStep, Abstract!ServiceNext
<1>2. CASE DoCal(c) /\ req[c] # "whole"
  <2>1. UNCHANGED <<dropped, cpc, shown>> /\ reply' = [reply EXCEPT ![c] = "junk"]
    BY <1>2 DEF DoCal, serverVars, clientVars
  <2>2. reply[c] = "none"
    BY <1>2 DEF DoCal, CallOK, HandlerOK
  <2>3. {d \in Clients : reply[d] = "own"}' = {d \in Clients : reply[d] = "own"}
    BY <2>1, <2>2 DEF ConnTypeOK
  <2>4. [d \in Clients |-> CallState(d)]' = [d \in Clients |-> CallState(d)]
    BY <2>1 DEF CallState
  <2> QED BY <2>1, <2>3, <2>4 DEF ServiceStep, Abstract!serviceVars
<1>3. CASE ~ DoCal(c)
  <2>1. UNCHANGED <<dropped, cpc, shown, reply>>
    BY <1>3
    DEF HandlerStep, ReadHead, ReadBody, ReadShort, WriteHead, WriteBody, serverVars, clientVars
  <2> QED BY <2>1, StutterRefines DEF ServiceStep
<1> QED BY <1>1, <1>2, <1>3

\* A client's step asks, takes its answer, or ends without one when the server
\* has ended.
LEMMA ClientStepRefines ==
  ASSUME NEW c \in Clients, ConnTypeOK, UpOK, CallOK(c), CallOK(c)', ClientStep(c)
  PROVE  ServiceStep
<1>1. /\ UNCHANGED <<dropped, reply>>
      /\ \A d \in Clients : d # c => cpc'[d] = cpc[d] /\ shown'[d] = shown[d]
  BY DEF ClientStep, Connect, ConnectRefused, SendHead, SendBody, RecvHead, RecvBody,
         RecvShort, serverVars, handlerVars, ConnTypeOK
<1>2. \A d \in Clients : d # c => CallState(d)' = CallState(d)
  BY <1>1 DEF CallState
<1>3. {d \in Clients : reply[d] = "own"}' = {d \in Clients : reply[d] = "own"}
  BY <1>1
<1>4. CASE CallState(c)' = CallState(c)
  <2>1. [d \in Clients |-> CallState(d)]' = [d \in Clients |-> CallState(d)]
    BY <1>2, <1>4
  <2> QED BY <1>1, <1>3, <2>1 DEF ServiceStep, Abstract!serviceVars
<1>5. CASE CallState(c) = "idle" /\ CallState(c)' = "asking"
  <2>1. Abstract!Ask(c)
    BY <1>1, <1>2, <1>3, <1>5, OneCallMoves DEF Abstract!Ask
  <2> QED BY <2>1 DEF ServiceStep, Abstract!ServiceNext
<1>6. CASE CallState(c) = "asking" /\ CallState(c)' = "answered" /\ reply[c] = "own"
  <2>1. Abstract!Answer(c)
    BY <1>1, <1>2, <1>3, <1>6, OneCallMoves DEF Abstract!Answer
  <2> QED BY <2>1 DEF ServiceStep, Abstract!ServiceNext
<1>7. CASE CallState(c) \in {"idle", "asking"} /\ CallState(c)' = "lost" /\ c \notin Clients \ dropped
  <2>1. Abstract!Lose(c)
    BY <1>1, <1>2, <1>3, <1>7, OneCallMoves DEF Abstract!Lose
  <2> QED BY <2>1 DEF ServiceStep, Abstract!ServiceNext
<1> USE DEF ConnTypeOK, CallState
<1>8. CASE Connect(c)
  BY <1>8, <1>4 DEF Connect
<1>9. CASE ConnectRefused(c)
  BY <1>9, <1>7 DEF ConnectRefused, UpOK
<1>10. CASE SendHead(c)
  BY <1>10, <1>5 DEF SendHead
<1>11. CASE SendBody(c)
  <2>1. cpc[c] = "sendBody" /\ cpc'[c] \in {"recvHead", "killed"}
    BY <1>11 DEF SendBody
  <2>2. CASE cpc'[c] = "recvHead"
    BY <2>1, <2>2, <1>4
  <2>3. CASE cpc'[c] = "killed"
    <3>1. c \in dropped
      BY <1>1, <2>3 DEF CallOK, OutcomeOK
    <3> QED BY <2>1, <2>3, <3>1, <1>7
  <2> QED BY <2>1, <2>2, <2>3
<1>12. CASE RecvHead(c)
  <2>1. cpc[c] = "recvHead" /\ cpc'[c] \in {"recvHead", "recvBody"}
    BY <1>12 DEF RecvHead
  <2> QED BY <2>1, <1>4
<1>13. CASE RecvBody(c)
  <2>1. /\ cpc[c] = "recvBody"
        /\ \/ cpc'[c] = "recvBody"
           \/ cpc'[c] = "done" /\ shown'[c] = reply[c]
    BY <1>13 DEF RecvBody
  <2>2. CASE cpc'[c] = "recvBody"
    BY <2>1, <2>2, <1>4
  <2>3. CASE cpc'[c] = "done" /\ shown'[c] = "own"
    BY <2>1, <2>3, <1>6
  <2>4. CASE cpc'[c] = "done" /\ shown'[c] # "own"
    <3>1. shown'[c] = "junk"
      BY <2>1, <2>4 DEF CallOK, OutcomeOK
    <3>2. c \in dropped
      BY <1>1, <3>1 DEF CallOK, OutcomeOK
    <3> QED BY <2>1, <2>4, <3>2, <1>7
  <2> QED BY <2>1, <2>2, <2>3, <2>4
<1>14. CASE RecvShort(c)
  <2>1. /\ cpc[c] \in {"recvHead", "recvBody"}
        /\ \/ cpc'[c] = "killed"
           \/ cpc'[c] = "done" /\ shown'[c] = "junk"
    BY <1>14 DEF RecvShort
  <2>2. c \in dropped
    BY <1>1, <2>1 DEF CallOK, OutcomeOK
  <2> QED BY <2>1, <2>2, <1>7
<1> QED
  BY <1>8, <1>9, <1>10, <1>11, <1>12, <1>13, <1>14 DEF ClientStep

\* A failure of a client's is a call given up.
LEMMA NetStepRefines ==
  ASSUME NEW c \in Clients, ConnTypeOK, NetStep(c)
  PROVE  ServiceStep
<1>1. CASE Vanish(c) \/ Reset(c)
  <2>1. /\ cpc[c] \in Connected
        /\ cpc' = [cpc EXCEPT ![c] = "gone"]
        /\ UNCHANGED <<dropped, shown, reply>>
    BY <1>1 DEF Vanish, Reset, serverVars, handlerVars
  <2>2. CallState(c) \in {"idle", "asking"} /\ CallState(c)' = "gone"
    BY <2>1 DEF Connected, CallState, ConnTypeOK
  <2>3. \A d \in Clients : d # c => CallState(d)' = CallState(d)
    BY <2>1 DEF CallState, ConnTypeOK
  <2>4. Abstract!GiveUp(c)
    BY <2>1, <2>2, <2>3, OneCallMoves DEF Abstract!GiveUp
  <2> QED BY <2>4 DEF ServiceStep, Abstract!ServiceNext
<1>2. CASE Deliver(c) \/ PeerReset(c)
  <2>1. UNCHANGED <<dropped, cpc, shown, reply>>
    BY <1>2 DEF Deliver, PeerReset, serverVars, clientVars, handlerVars
  <2> QED BY <2>1, StutterRefines DEF ServiceStep
<1> QED BY <1>1, <1>2 DEF NetStep

-----------------------------------------------------------------------------
(* The descriptor table *)

USE DEF serverVars

\* The open descriptors are the accepted connections, one for one.
TableOK ==
  /\ \A fd \in ClientFds : conn[fd] # NoConn => srvEnd[conn[fd]] = "open"
  /\ \A c \in Clients : srvEnd[c] = "open" => \E fd \in ClientFds : conn[fd] = c
  /\ \A fd, g \in ClientFds : conn[fd] # NoConn /\ conn[fd] = conn[g] => fd = g

\* A client that is not yet connected or not yet accepted has no descriptor.
LEMMA InitTable == ConnInit /\ FdInit => FdTypeOK /\ TableOK
  BY FdAssumption DEF ConnInit, FdInit, FdTypeOK, TableOK

\* Clients and kernel do not change which connections are accepted.
LEMMA ClientStepTable ==
  ASSUME NEW c \in Clients, ConnTypeOK, FdTypeOK, QueueOK, TableOK,
         ClientStep(c), conn' = conn
  PROVE  TableOK'
<1>1. CASE Connect(c)
  <2>1. srvEnd[c] = "none" /\ srvEnd' = [srvEnd EXCEPT ![c] = "pending"]
    BY <1>1 DEF Connect, QueueOK
  <2>2. \A d \in Clients : srvEnd'[d] = "open" <=> srvEnd[d] = "open"
    BY <2>1 DEF ConnTypeOK
  <2> QED BY <2>2, FdAssumption DEF TableOK, FdTypeOK
<1>2. CASE ~ Connect(c)
  <2>1. srvEnd' = srvEnd
    BY <1>2 DEF ClientStep, ConnectRefused, SendHead, SendBody, RecvHead, RecvBody, RecvShort
  <2> QED BY <2>1 DEF TableOK
<1> QED BY <1>1, <1>2

\* What the network does to a connection leaves the descriptor table right: a
\* reset closes a connection only while it is still in the accept queue.
LEMMA NetStepTable ==
  ASSUME NEW c \in Clients, ConnTypeOK, FdTypeOK, TableOK,
         NetStep(c), conn' = conn
  PROVE  TableOK'
<1>1. \/ srvEnd' = srvEnd
      \/ srvEnd[c] = "pending" /\ srvEnd' = [srvEnd EXCEPT ![c] = "closed"]
  BY DEF NetStep, Deliver, Vanish, Reset, PeerReset
<1>2. \A d \in Clients : srvEnd'[d] = "open" <=> srvEnd[d] = "open"
  BY <1>1 DEF ConnTypeOK
<1> QED BY <1>2, FdAssumption DEF TableOK, FdTypeOK

\* A step of HandleIoEvent opens and closes nothing.
LEMMA HandlerStepTable ==
  ASSUME NEW c \in Clients, TableOK, HandlerStep(c), conn' = conn
  PROVE  TableOK'
  BY DEF HandlerStep, ReadHead, ReadBody, ReadShort, DoCal, WriteHead, WriteBody, TableOK

\* accept() opens the descriptor for a connection that had none.
LEMMA AcceptAsKeeps ==
  ASSUME NEW fd \in ClientFds, ConnTypeOK, FdTypeOK, QueueOK, TableOK, AcceptAs(fd)
  PROVE  /\ ConnTypeOK' /\ FdTypeOK' /\ QueueOK' /\ TableOK'
         /\ conn[fd] = NoConn /\ conn'[fd] # NoConn
<1> DEFINE c == Head(pending)
<1>1. /\ pending # <<>> /\ pending' = Tail(pending)
      /\ conn[fd] = NoConn
      /\ conn' = [conn EXCEPT ![fd] = c]
      /\ srvEnd' = [srvEnd EXCEPT ![c] = "open"]
      /\ cpc' = cpc
  BY DEF AcceptAs, FreeFds, clientVars
<1>2. c \in Clients /\ srvEnd[c] = "pending" /\ pending' \in Seq(Clients) /\ QueueOK'
  BY <1>1, AcceptQueue
<1> HIDE DEF c
<1>3. ConnTypeOK'
  BY <1>1, <1>2 DEF ConnTypeOK, AcceptAs, clientVars, netVars, handlerVars
<1>4. FdTypeOK'
  BY <1>1, <1>2 DEF FdTypeOK
<1>5. TableOK'
  <2>1. \A g \in ClientFds : conn[g] # c
    BY <1>2, FdAssumption DEF TableOK
  <2>2. \A g \in ClientFds : conn'[g] = IF g = fd THEN c ELSE conn[g]
    BY <1>1 DEF FdTypeOK
  <2>3. \A d \in Clients : srvEnd'[d] = IF d = c THEN "open" ELSE srvEnd[d]
    BY <1>1, <1>2 DEF ConnTypeOK
  <2>4. \A g \in ClientFds : conn'[g] # NoConn => srvEnd'[conn'[g]] = "open"
    BY <1>2, <2>1, <2>2, <2>3 DEF TableOK, FdTypeOK
  <2>5. \A d \in Clients : srvEnd'[d] = "open" => \E g \in ClientFds : conn'[g] = d
    BY <1>1, <2>2, <2>3, FdAssumption DEF TableOK
  <2>6. \A g, h \in ClientFds : conn'[g] # NoConn /\ conn'[g] = conn'[h] => g = h
    BY <2>1, <2>2 DEF TableOK
  <2> QED BY <2>4, <2>5, <2>6 DEF TableOK
<1>6. conn'[fd] # NoConn
  BY <1>1, <1>2, FdAssumption DEF FdTypeOK
<1> QED BY <1>1, <1>2, <1>3, <1>4, <1>5, <1>6

\* Calling HandleIoEvent changes neither the table nor the queue.
LEMMA CallHandlerKeeps ==
  ASSUME NEW fd \in ClientFds, ConnTypeOK, FdTypeOK, QueueOK, TableOK, CallHandler(fd)
  PROVE  ConnTypeOK' /\ FdTypeOK' /\ QueueOK' /\ TableOK'
<1>1. conn[fd] \in Clients
  BY DEF CallHandler, IsOpen, FdTypeOK
<1>2. ConnTypeOK' /\ FdTypeOK'
  BY <1>1 DEF CallHandler, ConnTypeOK, FdTypeOK, clientVars, netVars
<1>3. QueueOK' /\ TableOK'
  BY DEF CallHandler, QueueOK, TableOK, clientVars
<1> QED BY <1>2, <1>3

\* close() frees the descriptor and ends the connection.
LEMMA CloseKeeps ==
  ASSUME NEW fd \in ClientFds, ConnTypeOK, FdTypeOK, QueueOK, TableOK, CloseFd(fd)
  PROVE  ConnTypeOK' /\ FdTypeOK' /\ QueueOK' /\ TableOK'
<1> DEFINE c == conn[fd]
<1>1. c \in Clients /\ srvEnd[c] = "open"
  BY DEF CloseFd, IsOpen, FdTypeOK, TableOK
<1>2. /\ conn' = [conn EXCEPT ![fd] = NoConn]
      /\ srvEnd' = [srvEnd EXCEPT ![c] = "closed"]
      /\ hpc' = [hpc EXCEPT ![c] = "closed"]
      /\ pending' = pending /\ cpc' = cpc
  BY DEF CloseFd, clientVars
<1>3. \A g \in ClientFds : g # fd => conn[g] # c
  BY <1>1, FdAssumption DEF TableOK
<1> HIDE DEF c
<1>4. ConnTypeOK'
  BY <1>1, <1>2 DEF ConnTypeOK, CloseFd, clientVars, netVars
<1>5. FdTypeOK'
  BY <1>2 DEF FdTypeOK
<1>6. QueueOK'
  BY <1>1, <1>2, CloseQueue
<1>7. TableOK'
  BY <1>1, <1>2, <1>3, FdAssumption DEF TableOK, FdTypeOK, ConnTypeOK
<1> QED BY <1>4, <1>5, <1>6, <1>7

-----------------------------------------------------------------------------
(* The calls of a server with a descriptor table *)

\* accept() keeps every call in order.
LEMMA AcceptAsCalls ==
  ASSUME NEW fd \in ClientFds, ConnTypeOK, CallsOK, AcceptAs(fd)
  PROVE  CallsOK'
<1>1. srvEnd' = [srvEnd EXCEPT ![Head(pending)] = "open"]
      /\ UNCHANGED <<dropped, clientVars, netVars, handlerVars>>
  BY DEF AcceptAs
<1>2. \A c \in Clients : srvEnd'[c] = "closed" => srvEnd[c] = "closed"
  BY <1>1 DEF ConnTypeOK
<1> QED
  BY <1>1, <1>2
  DEF CallsOK, CallOK, StreamOK, HandlerOK, OutcomeOK, clientVars, netVars, handlerVars

\* HandleIoEvent begins a call that had not begun.
LEMMA CallHandlerCalls ==
  ASSUME NEW fd \in ClientFds, ConnTypeOK, FdTypeOK, CallsOK, CallHandler(fd),
         hpc[conn[fd]] = "idle"
  PROVE  CallsOK'
<1>1. /\ conn[fd] \in Clients
      /\ hpc' = [hpc EXCEPT ![conn[fd]] = "recvHead"]
      /\ UNCHANGED <<dropped, clientVars, netVars, srvEnd, taken, req, reply, put>>
  BY DEF CallHandler, IsOpen, FdTypeOK
<1> QED BY <1>1, BeginCalls

\* close() ends a call whose response has been written.
LEMMA CloseCalls ==
  ASSUME NEW fd \in ClientFds, ConnTypeOK, FdTypeOK, CallsOK, CloseFd(fd)
  PROVE  CallsOK'
<1>1. /\ conn[fd] \in Clients /\ hpc[conn[fd]] = "close"
      /\ hpc' = [hpc EXCEPT ![conn[fd]] = "closed"]
      /\ srvEnd' = [srvEnd EXCEPT ![conn[fd]] = "closed"]
      /\ UNCHANGED <<dropped, clientVars, netVars, taken, req, reply, put>>
  BY DEF CloseFd, IsOpen, FdTypeOK
<1> QED BY <1>1, EndCalls
=============================================================================
