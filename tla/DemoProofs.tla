----------------------------- MODULE DemoProofs ------------------------------
(***************************************************************************)
(* Theorems about the programs that are no calculators: the byte-stream    *)
(* demos of EchoStream, for any number of clients and any length of the    *)
(* message, and the web server of WebServer, for any number of browsers,   *)
(* descriptors and threads.                                                *)
(***************************************************************************)
EXTENDS EchoStream, WebServer, SequenceTheorems, TLAPS

USE DEF Aborted

\* The accept queue holds connections that nobody has accepted, each once.
QueueOK ==
  /\ \A k \in 1 .. Len(pending) : srvEnd[pending[k]] = "pending"
  /\ \A j, k \in 1 .. Len(pending) : pending[j] = pending[k] => j = k
  /\ \A c \in Clients : cpc[c] = "init" => srvEnd[c] = "none"

\* The one open connection of a running server is the one in its hands.
InHandOK ==
  up => /\ cur = None <=> spc = "accept"
        /\ \A c \in Clients : srvEnd[c] = "open" <=> cur = c

\* The counters of a connection do not pass each other; a reset is the answer
\* to bytes that a client which has ended did not read.
CountsOK ==
  \A c \in Clients :
    /\ taken[c] <= arrived[c] /\ arrived[c] <= sent[c] /\ got[c] <= put[c]
    /\ demo # "hello" => put[c] <= taken[c]
    /\ srvEnd[c] \in {"none", "pending"} => taken[c] = 0 /\ put[c] = 0 /\ ~ rst[c]
    /\ rst[c] => got[c] < put[c] /\ cpc[c] \in {"done", "gone"}
    /\ demo # "loop" /\ cpc[c] \in {"init", "write", "read"} => got[c] = 0

\* What the server has read and not yet written; only the loop writes twice.
ServerOK ==
  cur # None =>
    /\ spc = "read" => /\ demo # "hello"
                       /\ demo # "loop" => taken[cur] = 0 /\ put[cur] = 0
    /\ spc = "write" => /\ demo \in {"loop", "once"} =>
                             nread > 0 /\ put[cur] + nread <= taken[cur]
                        /\ demo # "loop" => put[cur] = 0
                        /\ demo = "call" => taken[cur] = MsgLen

\* A running server ends a connection of the loop only after the client, and
\* one that reads once not before it has written something.
EndsOK ==
  up => \A c \in Clients :
          /\ srvEnd[c] = "closed" \/ (cur = c /\ spc = "close") =>
               \/ cpc[c] \in {"done", "gone"}
               \/ demo \in {"hello", "call"}
               \/ demo = "once" /\ put[c] > 0
          /\ demo = "loop" /\ cpc[c] = "done" => got[c] = MsgLen

\* The inductive invariant.
EchoInv ==
  /\ TypeOK
  /\ QueueOK
  /\ InHandOK
  /\ CountsOK
  /\ ServerOK
  /\ EndsOK
  /\ EchoWhole
  /\ DeathExplained

-----------------------------------------------------------------------------
(* The initial state *)

\* The invariant holds before the first connection.
LEMMA EchoInit == Init => EchoInv
<1> SUFFICES ASSUME Init PROVE EchoInv
  OBVIOUS
<1>1. TypeOK
  BY EmptySeq, EchoAssumption DEF Init, TypeOK
<1>2. QueueOK /\ InHandOK /\ CountsOK /\ ServerOK /\ EndsOK
  BY EchoAssumption DEF Init, QueueOK, InHandOK, CountsOK, ServerOK, EndsOK
<1>3. EchoWhole /\ DeathExplained
  BY DEF Init, EchoWhole, DeathExplained
<1> QED BY <1>1, <1>2, <1>3 DEF EchoInv

\* The counters of a connection are lengths of a part of the message.
LEMMA Lengths ==
  ASSUME EchoInv
  PROVE  /\ MsgLen \in Nat /\ BufSz \in Nat /\ MsgLen < BufSz
         /\ \A c \in Clients : /\ sent[c] \in 0 .. MsgLen /\ arrived[c] \in 0 .. MsgLen
                              /\ taken[c] \in 0 .. MsgLen /\ put[c] \in 0 .. MsgLen
                              /\ got[c] \in 0 .. MsgLen
<1>1. MsgLen \in Nat /\ BufSz \in Nat /\ MsgLen < BufSz
  BY EchoAssumption
<1>2. 0 \in 0 .. MsgLen /\ MsgLen \in 0 .. MsgLen
  BY <1>1
<1>3. \A c \in Clients : sent[c] \in {0, MsgLen}
  BY DEF EchoInv, TypeOK
<1>4. \A c \in Clients : sent[c] \in 0 .. MsgLen
  BY <1>2, <1>3, Zenon
<1>5. \A c \in Clients : /\ arrived[c] \in 0 .. MsgLen /\ taken[c] \in 0 .. MsgLen
                        /\ put[c] \in 0 .. MsgLen /\ got[c] \in 0 .. MsgLen
  BY DEF EchoInv, TypeOK
<1> QED BY <1>1, <1>4, <1>5

-----------------------------------------------------------------------------
(* The accept queue *)

\* connect() appends a connection that was not in the queue.
LEMMA ConnectQueue ==
  ASSUME EchoInv, NEW c \in Clients, Connect(c)
  PROVE  QueueOK' /\ pending' \in Seq(Clients)
<1>1. pending \in Seq(Clients) /\ Len(pending) \in Nat
  BY LenProperties DEF EchoInv, TypeOK
<1>2. /\ pending' \in Seq(Clients)
      /\ Len(pending') = Len(pending) + 1
      /\ \A k \in 1 .. Len(pending) : pending'[k] = pending[k]
      /\ pending'[Len(pending) + 1] = c
  BY <1>1, AppendProperties DEF Connect
<1>3. \A k \in 1 .. Len(pending) :
        pending[k] \in Clients /\ pending[k] # c /\ srvEnd[pending[k]] = "pending"
  BY <1>1, ElementOfSeq DEF EchoInv, QueueOK, Connect
<1>4. /\ srvEnd \in [Clients -> {"none", "pending", "open", "closed"}]
      /\ srvEnd' = [srvEnd EXCEPT ![c] = "pending"]
  BY DEF EchoInv, TypeOK, Connect
<1>5. \A k \in 1 .. Len(pending') : srvEnd'[pending'[k]] = "pending"
  <2> TAKE k \in 1 .. Len(pending')
  <2>1. CASE k \in 1 .. Len(pending)
    BY <2>1, <1>2, <1>3, <1>4
  <2>2. CASE k = Len(pending) + 1
    BY <2>2, <1>2, <1>4
  <2> QED BY <1>1, <1>2, <2>1, <2>2
<1>6. \A j, k \in 1 .. Len(pending') : pending'[j] = pending'[k] => j = k
  BY <1>1, <1>2, <1>3 DEF EchoInv, QueueOK
<1>7. \A d \in Clients : cpc'[d] = "init" => srvEnd'[d] = "none"
  BY DEF EchoInv, TypeOK, QueueOK, Connect
<1> QED BY <1>2, <1>5, <1>6, <1>7 DEF QueueOK

\* accept() takes the first connection off the queue.
LEMMA AcceptQueue ==
  ASSUME EchoInv, Accept
  PROVE  /\ Head(pending) \in Clients /\ srvEnd[Head(pending)] = "pending"
         /\ pending' \in Seq(Clients) /\ QueueOK'
<1> DEFINE c == Head(pending)
<1>1. pending \in Seq(Clients) /\ pending # <<>>
  BY DEF EchoInv, TypeOK, Accept
<1>2. /\ c \in Clients /\ c = pending[1]
      /\ pending' \in Seq(Clients)
      /\ Len(pending') = Len(pending) - 1
      /\ \A k \in 1 .. Len(pending') : pending'[k] = pending[k + 1]
  BY <1>1, HeadTailProperties DEF Accept
<1>3. Len(pending) \in Nat \ {0}
  BY <1>1, LenProperties, EmptySeq
<1>4. srvEnd[c] = "pending"
  BY <1>2, <1>3 DEF EchoInv, QueueOK
<1>5. srvEnd' = [srvEnd EXCEPT ![c] = "open"] /\ cpc' = cpc
  BY DEF Accept, clientVars
<1> HIDE DEF c
<1>6. \A k \in 1 .. Len(pending') : k + 1 \in 1 .. Len(pending) /\ k + 1 # 1
  BY <1>2, <1>3
<1>7. ASSUME NEW k \in 1 .. Len(pending')
      PROVE  srvEnd'[pending'[k]] = "pending"
  <2>1. 1 \in 1 .. Len(pending)
    BY <1>3
  <2>2. pending[k + 1] \in Clients /\ srvEnd[pending[k + 1]] = "pending"
    BY <1>1, <1>6, ElementOfSeq DEF EchoInv, QueueOK
  <2>3. pending[k + 1] # c
    BY <1>2, <1>6, <2>1 DEF EchoInv, QueueOK
  <2> QED BY <1>2, <1>5, <2>2, <2>3 DEF EchoInv, TypeOK
<1>8. ASSUME NEW j \in 1 .. Len(pending'), NEW k \in 1 .. Len(pending'),
             pending'[j] = pending'[k]
      PROVE  j = k
  <2>1. j + 1 = k + 1
    BY <1>2, <1>6, <1>8 DEF EchoInv, QueueOK
  <2> QED BY <2>1
<1>9. \A d \in Clients : cpc'[d] = "init" => srvEnd'[d] = "none"
  BY <1>2, <1>4, <1>5 DEF EchoInv, TypeOK, QueueOK
<1> QED BY <1>2, <1>4, <1>7, <1>8, <1>9 DEF QueueOK, c

\* What does not touch the queue, and neither opens nor closes a connection
\* that waits in it, keeps it.
LEMMA SameQueue ==
  ASSUME EchoInv, pending' = pending,
         \A d \in Clients : srvEnd[d] = "pending" => srvEnd'[d] = "pending",
         \A d \in Clients : cpc'[d] = "init" =>
           cpc[d] = "init" /\ (srvEnd[d] = "none" => srvEnd'[d] = "none")
  PROVE  QueueOK'
<1>1. \A k \in 1 .. Len(pending) : pending[k] \in Clients /\ srvEnd[pending[k]] = "pending"
  BY ElementOfSeq DEF EchoInv, TypeOK, QueueOK
<1>2. \A k \in 1 .. Len(pending') : srvEnd'[pending'[k]] = "pending"
  BY <1>1
<1> QED BY <1>2 DEF EchoInv, QueueOK

-----------------------------------------------------------------------------
(* The steps *)

\* The connection of a new client is queued.
LEMMA EchoConnect ==
  ASSUME EchoInv, NEW c \in Clients, Connect(c)
  PROVE  EchoInv'
<1>0. /\ cpc[c] = "init" /\ srvEnd[c] = "none" /\ up
      /\ srvEnd' = [srvEnd EXCEPT ![c] = "pending"]
      /\ \E w \in Connected : cpc' = [cpc EXCEPT ![c] = w]
      /\ UNCHANGED <<demo, shown, sent, got, serverVars, rst, arrived>>
  BY DEF EchoInv, QueueOK, Connect, Connected
<1>2. QueueOK' /\ pending' \in Seq(Clients)
  BY ConnectQueue
<1>1. TypeOK'
  BY <1>0, <1>2 DEF EchoInv, TypeOK, serverVars
<1>3. InHandOK'
  BY <1>0 DEF EchoInv, TypeOK, InHandOK, serverVars
<1>4. CountsOK'
  <2>1. ASSUME NEW d \in Clients
        PROVE  /\ srvEnd'[d] \in {"none", "pending"} => srvEnd[d] \in {"none", "pending"}
               /\ cpc'[d] \in {"init", "write", "read"} => cpc[d] \in {"init", "write", "read"}
               /\ cpc[d] \in {"done", "gone"} => cpc'[d] \in {"done", "gone"}
    BY <1>0 DEF EchoInv, TypeOK, Connected
  <2> QED BY <1>0, <2>1 DEF EchoInv, CountsOK, serverVars
<1>5. ServerOK'
  BY <1>0 DEF EchoInv, ServerOK, serverVars
<1>6. EndsOK'
  <2>1. ASSUME NEW d \in Clients
        PROVE  /\ srvEnd'[d] = "closed" => srvEnd[d] = "closed"
               /\ cpc[d] \in {"done", "gone"} <=> cpc'[d] \in {"done", "gone"}
               /\ cpc'[d] = "done" => cpc[d] = "done"
    BY <1>0 DEF EchoInv, TypeOK, Connected
  <2> QED BY <1>0, <2>1 DEF EchoInv, EndsOK, serverVars
<1>7. EchoWhole'
  BY <1>0 DEF EchoInv, EchoWhole, serverVars
<1>8. DeathExplained'
  BY <1>0 DEF EchoInv, DeathExplained, serverVars
<1> QED BY <1>1, <1>2, <1>3, <1>4, <1>5, <1>6, <1>7, <1>8 DEF EchoInv

\* A client that is refused has no connection.
LEMMA EchoRefused ==
  ASSUME EchoInv, NEW c \in Clients, ConnectRefused(c)
  PROVE  EchoInv'
<1>1. TypeOK'
  BY EchoAssumption DEF EchoInv, TypeOK, CountsOK, ServerOK, InHandOK,
       Connected, ConnectRefused, serverVars, netVars
<1>2. QueueOK'
  BY SameQueue DEF EchoInv, TypeOK, InHandOK, ConnectRefused, serverVars,
       netVars
<1>3. InHandOK'
  BY EchoAssumption DEF EchoInv, TypeOK, InHandOK, ConnectRefused, serverVars,
       netVars
<1>4. CountsOK'
  BY EchoAssumption DEF EchoInv, TypeOK, InHandOK, ServerOK, CountsOK,
       ConnectRefused, serverVars, netVars
<1>5. ServerOK'
  BY EchoAssumption DEF EchoInv, TypeOK, InHandOK, CountsOK, ServerOK,
       ConnectRefused, serverVars, netVars
<1>6. EndsOK'
  BY EchoAssumption DEF EchoInv, TypeOK, InHandOK, CountsOK, ServerOK, EndsOK,
       ConnectRefused, serverVars, netVars
<1>7. EchoWhole'
  BY DEF EchoInv, TypeOK, CountsOK, EndsOK, EchoWhole, ConnectRefused,
       serverVars, netVars
<1>8. DeathExplained'
  BY DEF EchoInv, TypeOK, InHandOK, CountsOK, ServerOK, EndsOK, DeathExplained,
       ConnectRefused, serverVars, netVars
<1> QED BY <1>1, <1>2, <1>3, <1>4, <1>5, <1>6, <1>7, <1>8 DEF EchoInv

\* A client has written its message.
LEMMA EchoWriteMsg ==
  ASSUME EchoInv, NEW c \in Clients, WriteMsg(c)
  PROVE  EchoInv'
<1>1. TypeOK'
  BY EchoAssumption DEF EchoInv, TypeOK, CountsOK, ServerOK, InHandOK,
       Connected, WriteMsg, serverVars, netVars
<1>2. QueueOK'
  BY SameQueue DEF EchoInv, TypeOK, InHandOK, WriteMsg, serverVars, netVars
<1>3. InHandOK'
  BY EchoAssumption DEF EchoInv, TypeOK, InHandOK, WriteMsg, serverVars,
       netVars
<1>4. CountsOK'
  BY EchoAssumption DEF EchoInv, TypeOK, InHandOK, ServerOK, CountsOK,
       WriteMsg, serverVars, netVars
<1>5. ServerOK'
  BY EchoAssumption DEF EchoInv, TypeOK, InHandOK, CountsOK, ServerOK,
       WriteMsg, serverVars, netVars
<1>6. EndsOK'
  BY EchoAssumption DEF EchoInv, TypeOK, InHandOK, CountsOK, ServerOK, EndsOK,
       WriteMsg, serverVars, netVars
<1>7. EchoWhole'
  <2>1. \A d \in Clients : Aborted(d) => Aborted(d)'
    <3>1. /\ \A d \in Clients : sent[d] \in {0, MsgLen} /\ taken[d] \in 0 .. MsgLen
          /\ sent \in [Clients -> {0, MsgLen}] /\ sent' = [sent EXCEPT ![c] = MsgLen]
          /\ UNCHANGED <<srvEnd, taken>> /\ MsgLen \in Nat
      BY EchoAssumption DEF EchoInv, TypeOK, WriteMsg, serverVars, netVars
    <3> QED BY <3>1
  <2>2. UNCHANGED <<demo, shown, up>>
    BY DEF WriteMsg, serverVars
  <2> HIDE DEF Aborted
  <2> QED BY <2>1, <2>2 DEF EchoInv, EchoWhole
<1>8. DeathExplained'
  BY DEF EchoInv, TypeOK, InHandOK, CountsOK, ServerOK, EndsOK, DeathExplained,
       WriteMsg, serverVars, netVars
<1> QED BY <1>1, <1>2, <1>3, <1>4, <1>5, <1>6, <1>7, <1>8 DEF EchoInv

\* A client has written its request.
LEMMA EchoWriteRequest ==
  ASSUME EchoInv, NEW c \in Clients, WriteRequest(c)
  PROVE  EchoInv'
<1>1. TypeOK'
  BY EchoAssumption DEF EchoInv, TypeOK, CountsOK, ServerOK, InHandOK,
       Connected, WriteRequest, serverVars, netVars
<1>2. QueueOK'
  BY SameQueue DEF EchoInv, TypeOK, InHandOK, WriteRequest, serverVars, netVars
<1>3. InHandOK'
  BY EchoAssumption DEF EchoInv, TypeOK, InHandOK, WriteRequest, serverVars,
       netVars
<1>4. CountsOK'
  BY EchoAssumption DEF EchoInv, TypeOK, InHandOK, ServerOK, CountsOK,
       WriteRequest, serverVars, netVars
<1>5. ServerOK'
  BY EchoAssumption DEF EchoInv, TypeOK, InHandOK, CountsOK, ServerOK,
       WriteRequest, serverVars, netVars
<1>6. EndsOK'
  BY EchoAssumption DEF EchoInv, TypeOK, InHandOK, CountsOK, ServerOK, EndsOK,
       WriteRequest, serverVars, netVars
<1>7. EchoWhole'
  BY DEF EchoInv, TypeOK, CountsOK, EndsOK, EchoWhole, WriteRequest,
       serverVars, netVars
<1>8. DeathExplained'
  BY DEF EchoInv, TypeOK, InHandOK, CountsOK, ServerOK, EndsOK, DeathExplained,
       WriteRequest, serverVars, netVars
<1> QED BY <1>1, <1>2, <1>3, <1>4, <1>5, <1>6, <1>7, <1>8 DEF EchoInv

\* A client shows the greeting, or a part of it.
LEMMA EchoReadHello ==
  ASSUME EchoInv, NEW c \in Clients, ReadHello(c)
  PROVE  EchoInv'
<1>1. TypeOK'
  <2>1. got' \in [Clients -> 0 .. MsgLen]
    <3>1. got' = got \/ \E n \in 1 .. MsgLen : got' = [got EXCEPT ![c] = n]
      BY DEF ReadHello
    <3>2. \A n \in 1 .. MsgLen : n \in 0 .. MsgLen
      BY Lengths
    <3>3. got \in [Clients -> 0 .. MsgLen]
      BY DEF EchoInv, TypeOK
    <3> QED BY <3>1, <3>2, <3>3
  <2>2. /\ shown' \in [Clients -> {"none", "whole", "part", "junk", "invalid"}]
        /\ cpc' \in [Clients -> {"init", "done", "gone", "failed"} \cup Connected]
    BY DEF EchoInv, TypeOK, ReadHello, Shows
  <2>3. UNCHANGED <<demo, sent, serverVars, netVars>>
    BY DEF ReadHello
  <2> QED BY <2>1, <2>2, <2>3 DEF EchoInv, TypeOK, serverVars, netVars
<1>2. QueueOK'
  BY SameQueue DEF EchoInv, TypeOK, InHandOK, ReadHello, Shows, Takes, AtEnd,
       serverVars, netVars
<1>3. InHandOK'
  BY EchoAssumption DEF EchoInv, TypeOK, InHandOK, ReadHello, Shows, Takes,
       AtEnd, serverVars, netVars
<1>4. CountsOK'
  BY EchoAssumption DEF EchoInv, TypeOK, InHandOK, ServerOK, CountsOK,
       ReadHello, Shows, Takes, AtEnd, serverVars, netVars
<1>5. ServerOK'
  BY EchoAssumption DEF EchoInv, TypeOK, InHandOK, CountsOK, ServerOK,
       ReadHello, Shows, Takes, AtEnd, serverVars, netVars
<1>6. EndsOK'
  BY EchoAssumption DEF EchoInv, TypeOK, InHandOK, CountsOK, ServerOK, EndsOK,
       ReadHello, Shows, Takes, AtEnd, serverVars, netVars
<1>7. EchoWhole'
  BY DEF EchoInv, TypeOK, CountsOK, EndsOK, EchoWhole, ReadHello, Shows, Takes,
       AtEnd, serverVars, netVars
<1>8. DeathExplained'
  BY DEF EchoInv, TypeOK, InHandOK, CountsOK, ServerOK, EndsOK, DeathExplained,
       ReadHello, Shows, Takes, AtEnd, serverVars, netVars
<1> QED BY <1>1, <1>2, <1>3, <1>4, <1>5, <1>6, <1>7, <1>8 DEF EchoInv

\* A client that reads once finds a byte, as long as the server runs, or has been
\* reset by a server that closed with part of its message unread.
LEMMA EchoReadOnce ==
  ASSUME EchoInv, NEW c \in Clients, ReadOnce(c)
  PROVE  EchoInv'
<1>1. TypeOK'
  <2>1. got' \in [Clients -> 0 .. MsgLen]
    <3>1. got' = got \/ \E n \in 1 .. MsgLen : got' = [got EXCEPT ![c] = n]
      BY DEF ReadOnce
    <3>2. \A n \in 1 .. MsgLen : n \in 0 .. MsgLen
      BY Lengths
    <3>3. got \in [Clients -> 0 .. MsgLen]
      BY DEF EchoInv, TypeOK
    <3> QED BY <3>1, <3>2, <3>3
  <2>2. /\ shown' \in [Clients -> {"none", "whole", "part", "junk", "invalid"}]
        /\ cpc' \in [Clients -> {"init", "done", "gone", "failed"} \cup Connected]
    BY DEF EchoInv, TypeOK, ReadOnce, Shows
  <2>3. UNCHANGED <<demo, sent, serverVars, netVars>>
    BY DEF ReadOnce
  <2> QED BY <2>1, <2>2, <2>3 DEF EchoInv, TypeOK, serverVars, netVars
<1>2. QueueOK'
  BY SameQueue DEF EchoInv, TypeOK, InHandOK, ReadOnce, Shows, Takes, AtEnd,
       serverVars, netVars
<1>3. InHandOK'
  BY EchoAssumption DEF EchoInv, TypeOK, InHandOK, ReadOnce, Shows, Takes,
       AtEnd, serverVars, netVars
<1>4. CountsOK'
  BY EchoAssumption DEF EchoInv, TypeOK, InHandOK, ServerOK, CountsOK,
       ReadOnce, Shows, Takes, AtEnd, serverVars, netVars
<1>5. ServerOK'
  BY EchoAssumption DEF EchoInv, TypeOK, InHandOK, CountsOK, ServerOK,
       ReadOnce, Shows, Takes, AtEnd, serverVars, netVars
<1>6. EndsOK'
  BY EchoAssumption DEF EchoInv, TypeOK, InHandOK, CountsOK, ServerOK, EndsOK,
       ReadOnce, Shows, Takes, AtEnd, serverVars, netVars
<1>7. EchoWhole'
  <2>1. demo' = demo /\ demo = "once" /\ up' = up
    BY DEF ReadOnce, serverVars
  <2>2. up => \/ shown'[c] \in {"none", "part", "whole"}
              \/ shown'[c] = "junk" /\ Aborted(c)
    <3>1. ASSUME up, AtEnd(c) PROVE FALSE
      <4>1. demo = "once" /\ cpc[c] = "read"
        BY DEF ReadOnce
      <4>2. got[c] = 0 /\ got[c] = put[c] /\ srvEnd[c] = "closed"
        BY <3>1, <4>1 DEF EchoInv, CountsOK, AtEnd
      <4>3. put[c] > 0
        BY <3>1, <4>1, <4>2 DEF EchoInv, EndsOK
      <4> QED BY <4>2, <4>3
    <3>2. CASE Aborted(c) /\ Shows(c, "junk")
      BY <3>2 DEF EchoInv, TypeOK, Shows
    <3>3. CASE ~ AtEnd(c) /\ ~ (Aborted(c) /\ Shows(c, "junk"))
      <4>1. PICK n \in 1 .. MsgLen : Shows(c, IF n = MsgLen THEN "whole" ELSE "part")
        BY <3>3 DEF ReadOnce
      <4> QED BY <4>1 DEF EchoInv, TypeOK, Shows
    <3> QED BY <3>1, <3>2, <3>3
  <2>3. \A d \in Clients \ {c} : shown'[d] = shown[d]
    BY DEF EchoInv, TypeOK, ReadOnce, Shows
  <2>4. UNCHANGED <<srvEnd, taken, sent>>
    BY DEF ReadOnce, serverVars, netVars
  <2> QED BY <2>1, <2>2, <2>3, <2>4 DEF EchoInv, EchoWhole
<1>8. DeathExplained'
  BY DEF EchoInv, TypeOK, InHandOK, CountsOK, ServerOK, EndsOK, DeathExplained,
       ReadOnce, Shows, Takes, AtEnd, serverVars, netVars
<1> QED BY <1>1, <1>2, <1>3, <1>4, <1>5, <1>6, <1>7, <1>8 DEF EchoInv

\* What one read() of the loop comes to: some bytes, the last one, or the end.
LoopRead(c) ==
  /\ demo = "loop" /\ cpc[c] = "read"
  /\ UNCHANGED <<demo, sent, serverVars, netVars>>
  /\ got' \in [Clients -> 0 .. MsgLen]
  /\ \A d \in Clients \ {c} : got'[d] = got[d] /\ shown'[d] = shown[d] /\ cpc'[d] = cpc[d]
  /\ got'[c] <= put[c]
  /\ shown' \in [Clients -> {"none", "whole", "part", "junk", "invalid"}]
  /\ cpc' \in [Clients -> {"init", "done", "gone", "failed"} \cup Connected]
  /\ \/ cpc'[c] = "read" /\ shown'[c] = shown[c]
     \/ cpc'[c] = "done" /\ shown'[c] = "whole" /\ got'[c] = MsgLen
     \/ cpc'[c] = "done" /\ srvEnd[c] = "closed"

\* Every read() of the loop is one of these.
LEMMA LoopReads ==
  ASSUME EchoInv, NEW c \in Clients, ReadN(c)
  PROVE  LoopRead(c)
<1>1. /\ demo = "loop" /\ cpc[c] = "read"
      /\ UNCHANGED <<demo, sent, serverVars, netVars>>
  BY DEF ReadN
<1>2. /\ got[c] \in 0 .. MsgLen /\ put[c] \in 0 .. MsgLen /\ got[c] <= put[c]
      /\ MsgLen \in Nat
  BY EchoAssumption DEF EchoInv, TypeOK, CountsOK
<1>3. CASE (AtEnd(c) \/ Aborted(c)) /\ Shows(c, "junk") /\ UNCHANGED got
  BY <1>1, <1>2, <1>3 DEF LoopRead, EchoInv, TypeOK, AtEnd, Shows
<1>4. ASSUME NEW n \in 1 .. BufSz, Takes(c, n), got' = [got EXCEPT ![c] = @ + n],
             IF got[c] + n >= MsgLen THEN Shows(c, "whole") ELSE UNCHANGED <<cpc, shown>>
      PROVE  LoopRead(c)
  <2>1. n \in Nat /\ got[c] + n \in 0 .. MsgLen /\ got[c] + n <= put[c]
    BY <1>2, <1>4, EchoAssumption DEF Takes
  <2>2. /\ got' \in [Clients -> 0 .. MsgLen]
        /\ got'[c] = got[c] + n
        /\ \A d \in Clients \ {c} : got'[d] = got[d]
    BY <1>4, <2>1 DEF EchoInv, TypeOK
  <2>3. CASE got[c] + n >= MsgLen
    <3>1. got[c] + n = MsgLen
      BY <1>2, <2>1, <2>3
    <3>2. Shows(c, "whole")
      BY <1>4, <2>3
    <3>3. /\ shown' \in [Clients -> {"none", "whole", "part", "junk", "invalid"}]
          /\ cpc' \in [Clients -> {"init", "done", "gone", "failed"} \cup Connected]
          /\ shown'[c] = "whole" /\ cpc'[c] = "done"
          /\ \A d \in Clients \ {c} : shown'[d] = shown[d] /\ cpc'[d] = cpc[d]
      BY <3>2 DEF EchoInv, TypeOK, Shows
    <3> QED BY <1>1, <2>1, <2>2, <3>1, <3>3 DEF LoopRead
  <2>4. CASE ~ (got[c] + n >= MsgLen)
    BY <1>1, <1>2, <1>4, <2>1, <2>2, <2>4 DEF LoopRead, EchoInv, TypeOK
  <2> QED BY <2>3, <2>4
<1> QED BY <1>3, <1>4 DEF ReadN

\* A client of the loop goes on to the last byte, as long as the server runs.
LEMMA EchoReadN ==
  ASSUME EchoInv, NEW c \in Clients, ReadN(c)
  PROVE  EchoInv'
<1>0. LoopRead(c)
  BY LoopReads
<1>1. TypeOK'
  BY <1>0 DEF LoopRead, EchoInv, TypeOK, serverVars, netVars
<1>2. QueueOK'
  BY <1>0, SameQueue DEF LoopRead, EchoInv, TypeOK, serverVars, netVars
<1>3. InHandOK'
  BY <1>0 DEF LoopRead, EchoInv, InHandOK, serverVars, netVars
<1>4. CountsOK'
  <2>1. \A d \in Clients : (cpc[d] \in {"done", "gone"} => cpc'[d] \in {"done", "gone"})
    BY <1>0 DEF LoopRead
  <2>2. \A d \in Clients : got'[d] <= put[d] /\ (rst[d] => got'[d] < put[d])
    BY <1>0 DEF LoopRead, EchoInv, CountsOK
  <2> QED BY <1>0, <2>1, <2>2 DEF LoopRead, EchoInv, CountsOK, serverVars, netVars
<1>5. ServerOK'
  BY <1>0 DEF LoopRead, EchoInv, ServerOK, serverVars, netVars
<1>6. EndsOK'
  BY <1>0 DEF LoopRead, EchoInv, EndsOK, serverVars, netVars
<1>7. EchoWhole'
  BY <1>0 DEF LoopRead, EchoInv, EndsOK, EchoWhole, serverVars, netVars
<1>8. DeathExplained'
  BY <1>0 DEF LoopRead, EchoInv, DeathExplained, serverVars, netVars
<1> QED BY <1>1, <1>2, <1>3, <1>4, <1>5, <1>6, <1>7, <1>8 DEF EchoInv

\* A client of the calculator shows a whole response or refuses it.
LEMMA EchoReadResponse ==
  ASSUME EchoInv, NEW c \in Clients, ReadResponse(c)
  PROVE  EchoInv'
<1>1. TypeOK'
  <2>1. got' \in [Clients -> 0 .. MsgLen]
    <3>1. got' = got \/ \E n \in 1 .. MsgLen : got' = [got EXCEPT ![c] = n]
      BY DEF ReadResponse
    <3>2. \A n \in 1 .. MsgLen : n \in 0 .. MsgLen
      BY Lengths
    <3>3. got \in [Clients -> 0 .. MsgLen]
      BY DEF EchoInv, TypeOK
    <3> QED BY <3>1, <3>2, <3>3
  <2>2. /\ shown' \in [Clients -> {"none", "whole", "part", "junk", "invalid"}]
        /\ cpc' \in [Clients -> {"init", "done", "gone", "failed"} \cup Connected]
    BY DEF EchoInv, TypeOK, ReadResponse, Shows
  <2>3. UNCHANGED <<demo, sent, serverVars, netVars>>
    BY DEF ReadResponse
  <2> QED BY <2>1, <2>2, <2>3 DEF EchoInv, TypeOK, serverVars, netVars
<1>2. QueueOK'
  BY SameQueue DEF EchoInv, TypeOK, InHandOK, ReadResponse, Shows, Takes,
       AtEnd, serverVars, netVars
<1>3. InHandOK'
  BY EchoAssumption DEF EchoInv, TypeOK, InHandOK, ReadResponse, Shows, Takes,
       AtEnd, serverVars, netVars
<1>4. CountsOK'
  BY EchoAssumption DEF EchoInv, TypeOK, InHandOK, ServerOK, CountsOK,
       ReadResponse, Shows, Takes, AtEnd, serverVars, netVars
<1>5. ServerOK'
  BY EchoAssumption DEF EchoInv, TypeOK, InHandOK, CountsOK, ServerOK,
       ReadResponse, Shows, Takes, AtEnd, serverVars, netVars
<1>6. EndsOK'
  BY EchoAssumption DEF EchoInv, TypeOK, InHandOK, CountsOK, ServerOK, EndsOK,
       ReadResponse, Shows, Takes, AtEnd, serverVars, netVars
<1>7. EchoWhole'
  BY DEF EchoInv, TypeOK, CountsOK, EndsOK, EchoWhole, ReadResponse, Shows,
       Takes, AtEnd, serverVars, netVars
<1>8. DeathExplained'
  BY DEF EchoInv, TypeOK, InHandOK, CountsOK, ServerOK, EndsOK, DeathExplained,
       ReadResponse, Shows, Takes, AtEnd, serverVars, netVars
<1> QED BY <1>1, <1>2, <1>3, <1>4, <1>5, <1>6, <1>7, <1>8 DEF EchoInv

\* Bytes arrive.
LEMMA EchoDeliver ==
  ASSUME EchoInv, NEW c \in Clients, Deliver(c)
  PROVE  EchoInv'
<1>0. /\ \E n \in 1 .. sent[c] - arrived[c] : arrived' = [arrived EXCEPT ![c] = @ + n]
      /\ UNCHANGED <<demo, clientVars, serverVars, pending, srvEnd, rst>>
  BY DEF Deliver
<1>9. /\ arrived' \in [Clients -> 0 .. MsgLen]
       /\ \A d \in Clients : arrived[d] <= arrived'[d] /\ arrived'[d] <= sent[d]
  <2>1. PICK n \in 1 .. sent[c] - arrived[c] : arrived' = [arrived EXCEPT ![c] = @ + n]
    BY <1>0
  <2>2. /\ sent[c] \in 0 .. MsgLen /\ arrived[c] \in 0 .. MsgLen /\ MsgLen \in Nat
        /\ \A d \in Clients : arrived[d] \in 0 .. MsgLen /\ arrived[d] <= sent[d]
    BY Lengths DEF EchoInv, CountsOK
  <2>3. /\ n \in Nat /\ arrived[c] + n \in 0 .. MsgLen
        /\ arrived[c] <= arrived[c] + n /\ arrived[c] + n <= sent[c]
    BY <2>1, <2>2
  <2>4. arrived' \in [Clients -> 0 .. MsgLen]
    BY <2>1, <2>3 DEF EchoInv, TypeOK
  <2>5. arrived'[c] = arrived[c] + n /\ \A d \in Clients \ {c} : arrived'[d] = arrived[d]
    BY <2>1 DEF EchoInv, TypeOK
  <2> QED BY <2>2, <2>3, <2>4, <2>5
<1>1. TypeOK'
  BY <1>0, <1>9 DEF EchoInv, TypeOK, clientVars, serverVars
<1>2. QueueOK'
  BY SameQueue DEF EchoInv, TypeOK, InHandOK, Deliver, clientVars, serverVars
<1>3. InHandOK'
  BY EchoAssumption DEF EchoInv, TypeOK, InHandOK, Deliver, clientVars,
       serverVars
<1>4. CountsOK'
  <2>1. \A d \in Clients : taken[d] <= arrived'[d]
    <3>1. \A d \in Clients : taken[d] \in Int /\ arrived[d] \in Int /\ arrived'[d] \in Int
      BY <1>9, EchoAssumption DEF EchoInv, TypeOK
    <3> QED BY <1>9, <3>1 DEF EchoInv, CountsOK
  <2> QED BY <1>0, <1>9, <2>1 DEF EchoInv, CountsOK, clientVars, serverVars
<1>5. ServerOK'
  BY EchoAssumption DEF EchoInv, TypeOK, InHandOK, CountsOK, ServerOK, Deliver,
       clientVars, serverVars
<1>6. EndsOK'
  BY EchoAssumption DEF EchoInv, TypeOK, InHandOK, CountsOK, ServerOK, EndsOK,
       Deliver, clientVars, serverVars
<1>7. EchoWhole'
  BY DEF EchoInv, TypeOK, CountsOK, EndsOK, EchoWhole, Deliver, clientVars,
       serverVars
<1>8. DeathExplained'
  BY DEF EchoInv, TypeOK, InHandOK, CountsOK, ServerOK, EndsOK, DeathExplained,
       Deliver, clientVars, serverVars
<1> QED BY <1>1, <1>2, <1>3, <1>4, <1>5, <1>6, <1>7, <1>8 DEF EchoInv

\* A client is killed.
LEMMA EchoVanish ==
  ASSUME EchoInv, NEW c \in Clients, Vanish(c)
  PROVE  EchoInv'
<1>1. TypeOK'
  BY EchoAssumption DEF EchoInv, TypeOK, CountsOK, ServerOK, InHandOK,
       Connected, Vanish, Connected, serverVars, netVars
<1>2. QueueOK'
  BY SameQueue DEF EchoInv, TypeOK, InHandOK, Vanish, Connected, serverVars,
       netVars
<1>3. InHandOK'
  BY EchoAssumption DEF EchoInv, TypeOK, InHandOK, Vanish, Connected,
       serverVars, netVars
<1>4. CountsOK'
  BY EchoAssumption DEF EchoInv, TypeOK, InHandOK, ServerOK, CountsOK, Vanish,
       Connected, serverVars, netVars
<1>5. ServerOK'
  BY EchoAssumption DEF EchoInv, TypeOK, InHandOK, CountsOK, ServerOK, Vanish,
       Connected, serverVars, netVars
<1>6. EndsOK'
  BY EchoAssumption DEF EchoInv, TypeOK, InHandOK, CountsOK, ServerOK, EndsOK,
       Vanish, Connected, serverVars, netVars
<1>7. EchoWhole'
  BY DEF EchoInv, TypeOK, CountsOK, EndsOK, EchoWhole, Vanish, Connected,
       serverVars, netVars
<1>8. DeathExplained'
  BY DEF EchoInv, TypeOK, InHandOK, CountsOK, ServerOK, EndsOK, DeathExplained,
       Vanish, Connected, serverVars, netVars
<1> QED BY <1>1, <1>2, <1>3, <1>4, <1>5, <1>6, <1>7, <1>8 DEF EchoInv

\* A client that has ended resets the connection.
LEMMA EchoPeerReset ==
  ASSUME EchoInv, NEW c \in Clients, PeerReset(c)
  PROVE  EchoInv'
<1>1. TypeOK'
  BY EchoAssumption DEF EchoInv, TypeOK, CountsOK, ServerOK, InHandOK,
       Connected, PeerReset, clientVars, serverVars
<1>2. QueueOK'
  BY SameQueue DEF EchoInv, TypeOK, InHandOK, PeerReset, clientVars, serverVars
<1>3. InHandOK'
  BY EchoAssumption DEF EchoInv, TypeOK, InHandOK, PeerReset, clientVars,
       serverVars
<1>4. CountsOK'
  BY EchoAssumption DEF EchoInv, TypeOK, InHandOK, ServerOK, CountsOK,
       PeerReset, clientVars, serverVars
<1>5. ServerOK'
  BY EchoAssumption DEF EchoInv, TypeOK, InHandOK, CountsOK, ServerOK,
       PeerReset, clientVars, serverVars
<1>6. EndsOK'
  BY EchoAssumption DEF EchoInv, TypeOK, InHandOK, CountsOK, ServerOK, EndsOK,
       PeerReset, clientVars, serverVars
<1>7. EchoWhole'
  BY DEF EchoInv, TypeOK, CountsOK, EndsOK, EchoWhole, PeerReset, clientVars,
       serverVars
<1>8. DeathExplained'
  BY DEF EchoInv, TypeOK, InHandOK, CountsOK, ServerOK, EndsOK, DeathExplained,
       PeerReset, clientVars, serverVars
<1> QED BY <1>1, <1>2, <1>3, <1>4, <1>5, <1>6, <1>7, <1>8 DEF EchoInv

\* The server takes a connection in hand.
LEMMA EchoAccept ==
  ASSUME EchoInv, Accept
  PROVE  EchoInv'
<1>1. TypeOK'
  <2>1. Head(pending) \in Clients /\ pending' \in Seq(Clients)
    BY AcceptQueue
  <2>2. /\ cur' = Head(pending) /\ nread' = 0 /\ spc' \in {"write", "read"}
        /\ srvEnd' = [srvEnd EXCEPT ![Head(pending)] = "open"]
        /\ UNCHANGED <<demo, clientVars, up, taken, put, rst, arrived>>
    BY DEF Accept
  <2>3. 0 \in 0 .. MsgLen
    BY Lengths
  <2>4. srvEnd' \in [Clients -> {"none", "pending", "open", "closed"}]
    BY <2>1, <2>2 DEF EchoInv, TypeOK
  <2> QED BY <2>1, <2>2, <2>3, <2>4 DEF EchoInv, TypeOK, clientVars
<1>2. QueueOK'
  BY AcceptQueue DEF EchoInv, TypeOK, InHandOK, Accept, clientVars
<1>3. InHandOK'
  BY AcceptQueue, EchoAssumption DEF EchoInv, TypeOK, InHandOK, Accept,
       clientVars
<1>4. CountsOK'
  BY AcceptQueue, EchoAssumption DEF EchoInv, TypeOK, InHandOK, ServerOK,
       CountsOK, Accept, clientVars
<1>5. ServerOK'
  BY AcceptQueue, EchoAssumption DEF EchoInv, TypeOK, InHandOK, CountsOK,
       ServerOK, Accept, clientVars
<1>6. EndsOK'
  BY AcceptQueue, EchoAssumption DEF EchoInv, TypeOK, InHandOK, CountsOK,
       ServerOK, EndsOK, Accept, clientVars
<1>7. EchoWhole'
  <2>1. \A d \in Clients : Aborted(d) => Aborted(d)'
    BY AcceptQueue DEF EchoInv, TypeOK, Accept, clientVars
  <2>2. UNCHANGED <<demo, shown, up>>
    BY DEF Accept, clientVars
  <2> HIDE DEF Aborted
  <2> QED BY <2>1, <2>2 DEF EchoInv, EchoWhole
<1>8. DeathExplained'
  BY DEF EchoInv, TypeOK, InHandOK, CountsOK, ServerOK, EndsOK, DeathExplained,
       Accept, clientVars
<1> QED BY <1>1, <1>2, <1>3, <1>4, <1>5, <1>6, <1>7, <1>8 DEF EchoInv

\* The server has read once.
LEMMA EchoReadMsg ==
  ASSUME EchoInv, ReadMsg
  PROVE  EchoInv'
<1>1. TypeOK'
  BY EchoAssumption DEF EchoInv, TypeOK, CountsOK, ServerOK, InHandOK,
       Connected, ReadMsg, Reads, clientVars, netVars
<1>2. QueueOK'
  BY SameQueue DEF EchoInv, TypeOK, InHandOK, ReadMsg, Reads, clientVars,
       netVars
<1>3. InHandOK'
  BY EchoAssumption DEF EchoInv, TypeOK, InHandOK, ReadMsg, Reads, clientVars,
       netVars
<1>4. CountsOK'
  BY EchoAssumption DEF EchoInv, TypeOK, InHandOK, ServerOK, CountsOK, ReadMsg,
       Reads, clientVars, netVars
<1>5. ServerOK'
  BY EchoAssumption DEF EchoInv, TypeOK, InHandOK, CountsOK, ServerOK, ReadMsg,
       Reads, clientVars, netVars
<1>6. EndsOK'
  BY EchoAssumption DEF EchoInv, TypeOK, InHandOK, CountsOK, ServerOK, EndsOK,
       ReadMsg, Reads, clientVars, netVars
<1>7. EchoWhole'
  <2>1. \A d \in Clients : Aborted(d) => Aborted(d)'
    <3>1. srvEnd[cur] = "open" /\ taken' = [taken EXCEPT ![cur] = arrived[cur]]
          /\ UNCHANGED <<srvEnd, sent>>
      BY DEF EchoInv, TypeOK, InHandOK, ReadMsg, Reads, clientVars, netVars
    <3> QED BY <3>1 DEF EchoInv, TypeOK
  <2>2. UNCHANGED <<demo, shown, up>>
    BY DEF ReadMsg, Reads, clientVars
  <2> HIDE DEF Aborted
  <2> QED BY <2>1, <2>2 DEF EchoInv, EchoWhole
<1>8. DeathExplained'
  BY DEF EchoInv, TypeOK, InHandOK, CountsOK, ServerOK, EndsOK, DeathExplained,
       ReadMsg, Reads, clientVars, netVars
<1> QED BY <1>1, <1>2, <1>3, <1>4, <1>5, <1>6, <1>7, <1>8 DEF EchoInv

\* The server of the loop has read.
LEMMA EchoReadLoop ==
  ASSUME EchoInv, ReadLoop
  PROVE  EchoInv'
<1>1. TypeOK'
  BY EchoAssumption DEF EchoInv, TypeOK, CountsOK, ServerOK, InHandOK,
       Connected, ReadLoop, Reads, clientVars, netVars
<1>2. QueueOK'
  BY SameQueue DEF EchoInv, TypeOK, InHandOK, ReadLoop, Reads, clientVars,
       netVars
<1>3. InHandOK'
  BY EchoAssumption DEF EchoInv, TypeOK, InHandOK, ReadLoop, Reads, clientVars,
       netVars
<1>4. CountsOK'
  BY EchoAssumption DEF EchoInv, TypeOK, InHandOK, ServerOK, CountsOK,
       ReadLoop, Reads, clientVars, netVars
<1>5. ServerOK'
  BY EchoAssumption DEF EchoInv, TypeOK, InHandOK, CountsOK, ServerOK,
       ReadLoop, Reads, clientVars, netVars
<1>6. EndsOK'
  BY EchoAssumption DEF EchoInv, TypeOK, InHandOK, CountsOK, ServerOK, EndsOK,
       ReadLoop, Reads, clientVars, netVars
<1>7. EchoWhole'
  BY DEF EchoInv, TypeOK, CountsOK, EndsOK, EchoWhole, ReadLoop, Reads,
       clientVars, netVars
<1>8. DeathExplained'
  BY DEF EchoInv, TypeOK, InHandOK, CountsOK, ServerOK, EndsOK, DeathExplained,
       ReadLoop, Reads, clientVars, netVars
<1> QED BY <1>1, <1>2, <1>3, <1>4, <1>5, <1>6, <1>7, <1>8 DEF EchoInv

\* The server has read a request, or a part of one.
LEMMA EchoReadRequest ==
  ASSUME EchoInv, ReadRequest
  PROVE  EchoInv'
<1>1. TypeOK'
  BY EchoAssumption DEF EchoInv, TypeOK, CountsOK, ServerOK, InHandOK,
       Connected, ReadRequest, Reads, clientVars, netVars
<1>2. QueueOK'
  BY SameQueue DEF EchoInv, TypeOK, InHandOK, ReadRequest, Reads, clientVars,
       netVars
<1>3. InHandOK'
  BY EchoAssumption DEF EchoInv, TypeOK, InHandOK, ReadRequest, Reads,
       clientVars, netVars
<1>4. CountsOK'
  BY EchoAssumption DEF EchoInv, TypeOK, InHandOK, ServerOK, CountsOK,
       ReadRequest, Reads, clientVars, netVars
<1>5. ServerOK'
  BY EchoAssumption DEF EchoInv, TypeOK, InHandOK, CountsOK, ServerOK,
       ReadRequest, Reads, clientVars, netVars
<1>6. EndsOK'
  BY EchoAssumption DEF EchoInv, TypeOK, InHandOK, CountsOK, ServerOK, EndsOK,
       ReadRequest, Reads, clientVars, netVars
<1>7. EchoWhole'
  BY DEF EchoInv, TypeOK, CountsOK, EndsOK, EchoWhole, ReadRequest, Reads,
       clientVars, netVars
<1>8. DeathExplained'
  BY DEF EchoInv, TypeOK, InHandOK, CountsOK, ServerOK, EndsOK, DeathExplained,
       ReadRequest, Reads, clientVars, netVars
<1> QED BY <1>1, <1>2, <1>3, <1>4, <1>5, <1>6, <1>7, <1>8 DEF EchoInv

\* The server has seen the end of a client.
LEMMA EchoReadEnds ==
  ASSUME EchoInv, ReadEnds
  PROVE  EchoInv'
<1>1. TypeOK'
  BY EchoAssumption DEF EchoInv, TypeOK, CountsOK, ServerOK, InHandOK,
       Connected, ReadEnds, EndOfInput, clientVars, netVars
<1>2. QueueOK'
  BY SameQueue DEF EchoInv, TypeOK, InHandOK, ReadEnds, EndOfInput, clientVars,
       netVars
<1>3. InHandOK'
  BY EchoAssumption DEF EchoInv, TypeOK, InHandOK, ReadEnds, EndOfInput,
       clientVars, netVars
<1>4. CountsOK'
  BY EchoAssumption DEF EchoInv, TypeOK, InHandOK, ServerOK, CountsOK,
       ReadEnds, EndOfInput, clientVars, netVars
<1>5. ServerOK'
  BY EchoAssumption DEF EchoInv, TypeOK, InHandOK, CountsOK, ServerOK,
       ReadEnds, EndOfInput, clientVars, netVars
<1>6. EndsOK'
  BY EchoAssumption DEF EchoInv, TypeOK, InHandOK, CountsOK, ServerOK, EndsOK,
       ReadEnds, EndOfInput, clientVars, netVars
<1>7. EchoWhole'
  BY DEF EchoInv, TypeOK, CountsOK, EndsOK, EchoWhole, ReadEnds, EndOfInput,
       clientVars, netVars
<1>8. DeathExplained'
  BY DEF EchoInv, TypeOK, InHandOK, CountsOK, ServerOK, EndsOK, DeathExplained,
       ReadEnds, EndOfInput, clientVars, netVars
<1> QED BY <1>1, <1>2, <1>3, <1>4, <1>5, <1>6, <1>7, <1>8 DEF EchoInv

\* The server has written the greeting.
LEMMA EchoWriteHello ==
  ASSUME EchoInv, WriteHello
  PROVE  EchoInv'
<1>1. TypeOK'
  BY EchoAssumption DEF EchoInv, TypeOK, CountsOK, ServerOK, InHandOK,
       Connected, WriteHello, Writes, clientVars, netVars
<1>2. QueueOK'
  BY SameQueue DEF EchoInv, TypeOK, InHandOK, WriteHello, Writes, clientVars,
       netVars
<1>3. InHandOK'
  BY EchoAssumption DEF EchoInv, TypeOK, InHandOK, WriteHello, Writes,
       clientVars, netVars
<1>4. CountsOK'
  BY EchoAssumption DEF EchoInv, TypeOK, InHandOK, ServerOK, CountsOK,
       WriteHello, Writes, clientVars, netVars
<1>5. ServerOK'
  BY EchoAssumption DEF EchoInv, TypeOK, InHandOK, CountsOK, ServerOK,
       WriteHello, Writes, clientVars, netVars
<1>6. EndsOK'
  BY EchoAssumption DEF EchoInv, TypeOK, InHandOK, CountsOK, ServerOK, EndsOK,
       WriteHello, Writes, clientVars, netVars
<1>7. EchoWhole'
  BY DEF EchoInv, TypeOK, CountsOK, EndsOK, EchoWhole, WriteHello, Writes,
       clientVars, netVars
<1>8. DeathExplained'
  BY DEF EchoInv, TypeOK, InHandOK, CountsOK, ServerOK, EndsOK, DeathExplained,
       WriteHello, Writes, clientVars, netVars
<1> QED BY <1>1, <1>2, <1>3, <1>4, <1>5, <1>6, <1>7, <1>8 DEF EchoInv

\* The server has written back what it read once.
LEMMA EchoWriteOnce ==
  ASSUME EchoInv, WriteOnce
  PROVE  EchoInv'
<1>1. TypeOK'
  BY EchoAssumption DEF EchoInv, TypeOK, CountsOK, ServerOK, InHandOK,
       Connected, WriteOnce, Writes, clientVars, netVars
<1>2. QueueOK'
  BY SameQueue DEF EchoInv, TypeOK, InHandOK, WriteOnce, Writes, clientVars,
       netVars
<1>3. InHandOK'
  BY EchoAssumption DEF EchoInv, TypeOK, InHandOK, WriteOnce, Writes,
       clientVars, netVars
<1>4. CountsOK'
  BY EchoAssumption DEF EchoInv, TypeOK, InHandOK, ServerOK, CountsOK,
       WriteOnce, Writes, clientVars, netVars
<1>5. ServerOK'
  BY EchoAssumption DEF EchoInv, TypeOK, InHandOK, CountsOK, ServerOK,
       WriteOnce, Writes, clientVars, netVars
<1>6. EndsOK'
  BY EchoAssumption DEF EchoInv, TypeOK, InHandOK, CountsOK, ServerOK, EndsOK,
       WriteOnce, Writes, clientVars, netVars
<1>7. EchoWhole'
  BY DEF EchoInv, TypeOK, CountsOK, EndsOK, EchoWhole, WriteOnce, Writes,
       clientVars, netVars
<1>8. DeathExplained'
  BY DEF EchoInv, TypeOK, InHandOK, CountsOK, ServerOK, EndsOK, DeathExplained,
       WriteOnce, Writes, clientVars, netVars
<1> QED BY <1>1, <1>2, <1>3, <1>4, <1>5, <1>6, <1>7, <1>8 DEF EchoInv

\* The server of the loop has written back what it read.
LEMMA EchoWriteBack ==
  ASSUME EchoInv, WriteBack
  PROVE  EchoInv'
<1>1. TypeOK'
  BY EchoAssumption DEF EchoInv, TypeOK, CountsOK, ServerOK, InHandOK,
       Connected, WriteBack, Writes, clientVars, netVars
<1>2. QueueOK'
  BY SameQueue DEF EchoInv, TypeOK, InHandOK, WriteBack, Writes, clientVars,
       netVars
<1>3. InHandOK'
  BY EchoAssumption DEF EchoInv, TypeOK, InHandOK, WriteBack, Writes,
       clientVars, netVars
<1>4. CountsOK'
  BY EchoAssumption DEF EchoInv, TypeOK, InHandOK, ServerOK, CountsOK,
       WriteBack, Writes, clientVars, netVars
<1>5. ServerOK'
  BY EchoAssumption DEF EchoInv, TypeOK, InHandOK, CountsOK, ServerOK,
       WriteBack, Writes, clientVars, netVars
<1>6. EndsOK'
  BY EchoAssumption DEF EchoInv, TypeOK, InHandOK, CountsOK, ServerOK, EndsOK,
       WriteBack, Writes, clientVars, netVars
<1>7. EchoWhole'
  BY DEF EchoInv, TypeOK, CountsOK, EndsOK, EchoWhole, WriteBack, Writes,
       clientVars, netVars
<1>8. DeathExplained'
  BY DEF EchoInv, TypeOK, InHandOK, CountsOK, ServerOK, EndsOK, DeathExplained,
       WriteBack, Writes, clientVars, netVars
<1> QED BY <1>1, <1>2, <1>3, <1>4, <1>5, <1>6, <1>7, <1>8 DEF EchoInv

\* The server has written the response.
LEMMA EchoWriteResponse ==
  ASSUME EchoInv, WriteResponse
  PROVE  EchoInv'
<1>1. TypeOK'
  BY EchoAssumption DEF EchoInv, TypeOK, CountsOK, ServerOK, InHandOK,
       Connected, WriteResponse, Writes, clientVars, netVars
<1>2. QueueOK'
  BY SameQueue DEF EchoInv, TypeOK, InHandOK, WriteResponse, Writes,
       clientVars, netVars
<1>3. InHandOK'
  BY EchoAssumption DEF EchoInv, TypeOK, InHandOK, WriteResponse, Writes,
       clientVars, netVars
<1>4. CountsOK'
  BY EchoAssumption DEF EchoInv, TypeOK, InHandOK, ServerOK, CountsOK,
       WriteResponse, Writes, clientVars, netVars
<1>5. ServerOK'
  BY EchoAssumption DEF EchoInv, TypeOK, InHandOK, CountsOK, ServerOK,
       WriteResponse, Writes, clientVars, netVars
<1>6. EndsOK'
  BY EchoAssumption DEF EchoInv, TypeOK, InHandOK, CountsOK, ServerOK, EndsOK,
       WriteResponse, Writes, clientVars, netVars
<1>7. EchoWhole'
  BY DEF EchoInv, TypeOK, CountsOK, EndsOK, EchoWhole, WriteResponse, Writes,
       clientVars, netVars
<1>8. DeathExplained'
  BY DEF EchoInv, TypeOK, InHandOK, CountsOK, ServerOK, EndsOK, DeathExplained,
       WriteResponse, Writes, clientVars, netVars
<1> QED BY <1>1, <1>2, <1>3, <1>4, <1>5, <1>6, <1>7, <1>8 DEF EchoInv

\* The server has closed the connection in its hands.
LEMMA EchoClose ==
  ASSUME EchoInv, Close
  PROVE  EchoInv'
<1>1. TypeOK'
  BY EchoAssumption DEF EchoInv, TypeOK, CountsOK, ServerOK, InHandOK,
       Connected, Close, clientVars
<1>2. QueueOK'
  BY SameQueue DEF EchoInv, TypeOK, InHandOK, Close, clientVars
<1>3. InHandOK'
  BY EchoAssumption DEF EchoInv, TypeOK, InHandOK, Close, clientVars
<1>4. CountsOK'
  BY EchoAssumption DEF EchoInv, TypeOK, InHandOK, ServerOK, CountsOK, Close,
       clientVars
<1>5. ServerOK'
  BY EchoAssumption DEF EchoInv, TypeOK, InHandOK, CountsOK, ServerOK, Close,
       clientVars
<1>6. EndsOK'
  BY EchoAssumption DEF EchoInv, TypeOK, InHandOK, CountsOK, ServerOK, EndsOK,
       Close, clientVars
<1>7. EchoWhole'
  BY DEF EchoInv, TypeOK, CountsOK, EndsOK, EchoWhole, Close, clientVars
<1>8. DeathExplained'
  BY DEF EchoInv, TypeOK, InHandOK, CountsOK, ServerOK, EndsOK, DeathExplained,
       Close, clientVars
<1> QED BY <1>1, <1>2, <1>3, <1>4, <1>5, <1>6, <1>7, <1>8 DEF EchoInv

\* The server ends over a connection that was reset.
LEMMA EchoDie ==
  ASSUME EchoInv, Die
  PROVE  EchoInv'
<1>1. TypeOK'
  <2>1. pending' \in Seq(Clients)
    BY EmptySeq DEF Die
  <2>2. srvEnd' \in [Clients -> {"none", "pending", "open", "closed"}]
    BY DEF EchoInv, TypeOK, Die
  <2>3. up' \in BOOLEAN /\ UNCHANGED <<demo, clientVars, cur, spc, nread, taken, put, rst, arrived>>
    BY DEF Die
  <2> QED BY <2>1, <2>2, <2>3 DEF EchoInv, TypeOK, clientVars
<1>2. QueueOK'
  <2>1. pending' = <<>> /\ Len(pending') = 0
    BY DEF Die
  <2>2. \A d \in Clients : cpc'[d] = "init" => srvEnd'[d] = "none"
    BY DEF EchoInv, QueueOK, Die, clientVars
  <2> QED BY <2>1, <2>2 DEF QueueOK
<1>3. InHandOK'
  BY EchoAssumption DEF EchoInv, TypeOK, InHandOK, Die, clientVars
<1>4. CountsOK'
  BY EchoAssumption DEF EchoInv, TypeOK, InHandOK, ServerOK, CountsOK, Die,
       clientVars
<1>5. ServerOK'
  BY EchoAssumption DEF EchoInv, TypeOK, InHandOK, CountsOK, ServerOK, Die,
       clientVars
<1>6. EndsOK'
  BY EchoAssumption DEF EchoInv, TypeOK, InHandOK, CountsOK, ServerOK, EndsOK,
       Die, clientVars
<1>7. EchoWhole'
  BY DEF EchoInv, TypeOK, CountsOK, EndsOK, EchoWhole, Die, clientVars
<1>8. DeathExplained'
  BY DEF EchoInv, TypeOK, InHandOK, CountsOK, ServerOK, EndsOK, DeathExplained,
       Die, clientVars
<1> QED BY <1>1, <1>2, <1>3, <1>4, <1>5, <1>6, <1>7, <1>8 DEF EchoInv
-----------------------------------------------------------------------------
(* The theorems *)

\* A step that changes nothing keeps the invariant.
LEMMA EchoStutter == EchoInv /\ UNCHANGED vars => EchoInv'
  BY DEF EchoInv, TypeOK, QueueOK, InHandOK, CountsOK, ServerOK, EndsOK, EchoWhole,
         DeathExplained, vars, clientVars, serverVars, netVars

\* Every step keeps the invariant.
LEMMA EchoNext == EchoInv /\ [Next]_vars => EchoInv'
<1> SUFFICES ASSUME EchoInv, [Next]_vars PROVE EchoInv'
  OBVIOUS
<1>1. CASE ServerStep
  BY <1>1, EchoAccept, EchoReadMsg, EchoReadLoop, EchoReadRequest, EchoReadEnds,
     EchoWriteHello, EchoWriteOnce, EchoWriteBack, EchoWriteResponse, EchoClose, EchoDie
     DEF ServerStep
<1>2. ASSUME NEW c \in Clients, ClientStep(c)
      PROVE  EchoInv'
  BY <1>2, EchoConnect, EchoRefused, EchoWriteMsg, EchoWriteRequest, EchoReadHello,
     EchoReadOnce, EchoReadN, EchoReadResponse DEF ClientStep
<1>3. ASSUME NEW c \in Clients, Deliver(c) \/ Vanish(c) \/ PeerReset(c)
      PROVE  EchoInv'
  BY <1>3, EchoDeliver, EchoVanish, EchoPeerReset
<1>4. CASE UNCHANGED vars
  BY <1>4, EchoStutter
<1> QED BY <1>1, <1>2, <1>3, <1>4 DEF Next

\* The invariant holds of every behavior.
LEMMA EchoAlways == Spec => []EchoInv
  BY EchoInit, EchoNext, PTL DEF Spec

\* Type correctness, for any number of clients and any length of the message.
THEOREM EchoTypeCorrect == Spec => []TypeOK
<1>1. EchoInv => TypeOK
  BY DEF EchoInv
<1> QED BY <1>1, EchoAlways, PTL

\* read_n and the NUL behind the message never leave the client's buffer, although
\* each read() asks for BUF_SZ bytes: no server writes more than it was sent.
THEOREM InBufferAlways == Spec => []InBuffer
<1>1. EchoInv => InBuffer
  <2> SUFFICES ASSUME EchoInv, NEW c \in Clients
               PROVE  put[c] < BufSz /\ (demo # "hello" => put[c] <= sent[c])
    BY DEF InBuffer
  <2>1. /\ put[c] \in 0 .. MsgLen /\ taken[c] \in 0 .. MsgLen
        /\ arrived[c] \in 0 .. MsgLen /\ sent[c] \in 0 .. MsgLen
        /\ MsgLen \in Nat /\ BufSz \in Nat /\ MsgLen < BufSz
    BY Lengths
  <2>2. taken[c] <= arrived[c] /\ arrived[c] <= sent[c] /\ (demo # "hello" => put[c] <= taken[c])
    BY DEF EchoInv, CountsOK
  <2> QED BY <2>1, <2>2
<1> QED BY <1>1, EchoAlways, PTL

\* With the loops of chapter05 a client of a running server shows the whole
\* message and nothing else, however the bytes arrive and whoever else is killed;
\* one that reads once shows a part of it or all, but for one whose server closed
\* with part of its message unread: the reset may have taken the echo away.
THEOREM EchoWholeAlways == Spec => []EchoWhole
<1>1. EchoInv => EchoWhole
  BY DEF EchoInv
<1> QED BY <1>1, EchoAlways, PTL

\* Only the server of the loop can end, over a client that was killed before it
\* had read all that was written for it.
THEOREM DeathExplainedAlways == Spec => []DeathExplained
<1>1. EchoInv => DeathExplained
  BY DEF EchoInv
<1> QED BY <1>1, EchoAlways, PTL

-----------------------------------------------------------------------------
(* The web server *)

USE DEF Fds, Threads, Failed, Stray, NoThread

\* What a number stands for, if it is an open descriptor, was accepted as the
\* k-th connection or later.
Late(fd, k) == fd \in Fds /\ conn[fd] # NoConn => nth[conn[fd]] >= k

\* No thread is older than the turn of the loop, and clnt_sock is as new as that.
TurnOK ==
  /\ turn <= accepts + 1
  /\ \A t \in Threads : since[t] <= turn
  /\ Late(clnt_sock, turn)

\* The inductive invariant.
WebInv == WebTypeOK /\ TurnOK /\ ClosesNoEarlier

\* The invariant holds before the first connection.
LEMMA InitWeb == WebInit => WebInv
<1> SUFFICES ASSUME WebInit PROVE WebInv
  OBVIOUS
<1>1. WebTypeOK
  <2>1. queue \in Seq(Browsers)
    BY EmptySeq DEF WebInit
  <2>2. Failed \in Fds \cup {Failed, Stray}
    OBVIOUS
  <2> QED BY <2>1, <2>2 DEF WebInit, WebTypeOK
<1>2. Failed \notin Fds
  BY WebAssumption
<1>3. TurnOK
  BY <1>2 DEF WebInit, TurnOK, Late
<1>4. ClosesNoEarlier
  BY DEF WebInit, ClosesNoEarlier
<1> QED BY <1>1, <1>3, <1>4 DEF WebInv

\* Every thread was started for a connection accepted by now, or the next one.
LEMMA SinceBounded ==
  ASSUME WebInv
  PROVE  \A t \in Threads : since[t] \in Nat /\ since[t] <= accepts + 1
<1> SUFFICES ASSUME NEW t \in Threads
             PROVE  since[t] \in Nat /\ since[t] <= accepts + 1
  OBVIOUS
<1>1. since[t] \in Nat /\ turn \in Nat /\ accepts \in Nat
  BY DEF WebInv, WebTypeOK
<1>2. since[t] <= turn /\ turn <= accepts + 1
  BY DEF WebInv, TurnOK
<1> HIDE DEF Threads
<1> QED BY <1>1, <1>2

\* accept() makes its descriptor stand for a connection later than all before.
LEMMA WebAccept ==
  ASSUME WebInv, AcceptNext
  PROVE  WebInv'
<1> DEFINE c == Head(queue)
<1>1. PICK fd \in FreeFds : clnt_sock' = fd /\ conn' = [conn EXCEPT ![fd] = c]
  BY DEF AcceptNext
<1>2. /\ queue # <<>> /\ queue' = Tail(queue) /\ pc' = "create"
      /\ accepts' = accepts + 1 /\ turn' = accepts + 1
      /\ nth' = [nth EXCEPT ![c] = accepts + 1]
      /\ overlapped' = (overlapped \/ ThreadWaits)
      /\ UNCHANGED <<asked, thread, since, strayed>>
  BY DEF AcceptNext
<1>3. c \in Browsers /\ queue' \in Seq(Browsers)
  BY <1>2, HeadTailProperties DEF WebInv, WebTypeOK
<1> HIDE DEF c
<1>4. fd \in Fds
  BY DEF FreeFds
<1>5. WebTypeOK'
  <2>1. overlapped' \in BOOLEAN
    BY <1>2 DEF WebInv, WebTypeOK, ThreadWaits
  <2> QED BY <1>1, <1>2, <1>3, <1>4, <2>1 DEF WebInv, WebTypeOK
<1>7. TurnOK'
  <2>1. turn' = accepts' /\ accepts' \in Nat
    BY <1>2 DEF WebInv, WebTypeOK
  <2>2. \A t \in Threads : since'[t] <= turn'
    BY <1>2, SinceBounded
  <2>3. Late(clnt_sock, turn)'
    BY <1>1, <1>2, <1>3, <1>4 DEF Late, WebInv, WebTypeOK
  <2> QED BY <1>2, <2>1, <2>2, <2>3 DEF WebInv, WebTypeOK, TurnOK
<1>8. ClosesNoEarlier'
  <2> SUFFICES ASSUME NEW t \in Threads, thread[t].at = "read", thread[t].fd \in Fds,
                      conn'[thread[t].fd] # NoConn
               PROVE  nth'[conn'[thread[t].fd]] >= since[t]
    BY <1>2 DEF ClosesNoEarlier
  <2> DEFINE g == thread[t].fd
             d == conn'[g]
  <2>1. since[t] \in Nat /\ accepts \in Nat /\ since[t] <= accepts + 1
    BY SinceBounded DEF WebInv, WebTypeOK
  <2>2. d \in Browsers /\ nth'[d] = IF d = c THEN accepts + 1 ELSE nth[d]
    BY <1>1, <1>2, <1>3, <1>4 DEF WebInv, WebTypeOK
  <2>3. CASE d = c
    BY <2>1, <2>2, <2>3
  <2>4. CASE d # c
    <3>1. conn[g] = d
      BY <1>1, <1>4, <2>4 DEF WebInv, WebTypeOK
    <3> QED BY <2>2, <2>4, <3>1 DEF WebInv, ClosesNoEarlier
  <2> QED BY <2>3, <2>4
<1> QED BY <1>5, <1>7, <1>8 DEF WebInv

\* A failing accept() begins a turn of its own.
LEMMA WebAcceptFails ==
  ASSUME WebInv, AcceptFails
  PROVE  WebInv'
<1>1. /\ clnt_sock' = Failed /\ pc' = "create" /\ turn' = accepts + 1
      /\ overlapped' = (overlapped \/ ThreadWaits)
      /\ UNCHANGED <<strayed, queue, asked, conn, nth, accepts, thread, since>>
  BY DEF AcceptFails, connVars
<1>2. overlapped' \in BOOLEAN
  BY <1>1 DEF WebInv, WebTypeOK, ThreadWaits
<1>3. Failed \in Fds \cup {Failed, Stray} /\ accepts + 1 \in Nat
  BY DEF WebInv, WebTypeOK
<1>4. WebTypeOK'
  BY <1>1, <1>2, <1>3 DEF WebInv, WebTypeOK
<1>5. TurnOK'
  <2>1. Failed \notin Fds
    BY WebAssumption
  <2> QED BY <1>1, <2>1 DEF WebInv, WebTypeOK, TurnOK, Late
<1>6. ClosesNoEarlier'
  BY <1>1 DEF WebInv, ClosesNoEarlier
<1> QED BY <1>4, <1>5, <1>6 DEF WebInv

\* A thread is started with the turn of the loop.
LEMMA WebCreate ==
  ASSUME WebInv, CreateThread
  PROVE  WebInv'
<1>1. PICK t \in FreeThreads :
        /\ thread' = [thread EXCEPT ![t] = [NoThread EXCEPT !.at = "new"]]
        /\ since' = [since EXCEPT ![t] = turn]
  BY DEF CreateThread
<1>2. /\ clnt_sock' \in {clnt_sock, Stray} /\ strayed' \in {strayed, TRUE} /\ pc' = "detach"
      /\ UNCHANGED <<queue, asked, conn, nth, accepts, turn, overlapped>>
  BY DEF CreateThread, connVars
<1>3. t \in Threads
  BY DEF FreeThreads
<1>4. WebTypeOK'
  BY <1>1, <1>2, <1>3, WebAssumption DEF WebInv, WebTypeOK
<1>5. TurnOK'
  BY <1>1, <1>2, <1>3, WebAssumption DEF WebInv, WebTypeOK, TurnOK, Late
<1>6. ClosesNoEarlier'
  BY <1>1, <1>2, <1>3 DEF WebInv, WebTypeOK, ClosesNoEarlier
<1> QED BY <1>4, <1>5, <1>6 DEF WebInv

\* After the end of the process nothing is open.
LEMMA WebEnds ==
  ASSUME WebInv, ProcessEnds
  PROVE  WebInv'
  BY EmptySeq DEF ProcessEnds, WebInv, WebTypeOK, TurnOK, ClosesNoEarlier, Late

\* A thread's copy of clnt_sock is as new as the loop, and closing a descriptor
\* makes no other stand for an earlier connection.
LEMMA WebThread ==
  ASSUME WebInv, NEW t \in Threads, ThreadStep(t)
  PROVE  WebInv'
<1>1. CASE ThreadReads(t)
  <2>1. /\ thread' = [thread EXCEPT ![t] = [at |-> "read", fd |-> clnt_sock]]
        /\ UNCHANGED <<pc, clnt_sock, strayed, queue, asked, conn, nth, accepts, turn,
                       since, overlapped>>
    BY <1>1 DEF ThreadReads, mainVars, connVars
  <2>2. WebTypeOK' /\ TurnOK'
    BY <2>1 DEF WebInv, WebTypeOK, TurnOK, Late
  <2>3. Late(clnt_sock, since[t])
    BY DEF WebInv, WebTypeOK, TurnOK, Late
  <2>4. ClosesNoEarlier'
    BY <2>1, <2>3 DEF WebInv, WebTypeOK, ClosesNoEarlier, Late
  <2> QED BY <2>2, <2>4 DEF WebInv
<1>2. CASE ThreadCloses(t)
  <2>1. /\ thread' = [thread EXCEPT ![t] = NoThread]
        /\ since' = [since EXCEPT ![t] = 0]
        /\ conn' = [fd \in Fds |-> IF fd = thread[t].fd THEN NoConn ELSE conn[fd]]
        /\ UNCHANGED <<pc, clnt_sock, strayed, queue, asked, nth, accepts, turn, overlapped>>
    BY <1>2 DEF ThreadCloses, mainVars
  <2>2. WebTypeOK' /\ TurnOK'
    BY <2>1 DEF WebInv, WebTypeOK, TurnOK, Late
  <2>3. ClosesNoEarlier'
    BY <2>1 DEF WebInv, WebTypeOK, ClosesNoEarlier
  <2> QED BY <2>2, <2>3 DEF WebInv
<1> QED BY <1>1, <1>2 DEF ThreadStep

\* Every step keeps the invariant.
LEMMA NextWeb == WebInv /\ [WebNext]_webVars => WebInv'
<1> SUFFICES ASSUME WebInv, [WebNext]_webVars PROVE WebInv'
  OBVIOUS
<1>1. CASE AcceptNext
  BY <1>1, WebAccept
<1>2. CASE AcceptFails
  BY <1>2, WebAcceptFails
<1>3. CASE CreateThread
  BY <1>3, WebCreate
<1>4. CASE CreateFails
  BY <1>4, WebEnds DEF CreateFails
<1>5. CASE Detach
  <2>1. CASE ProcessEnds
    BY <2>1, WebEnds
  <2>2. CASE ~ ProcessEnds
    <3>1. /\ pc' = "accept"
          /\ UNCHANGED <<clnt_sock, strayed, connVars, thread, turn, since, overlapped>>
      BY <1>5, <2>2 DEF Detach
    <3> QED BY <3>1 DEF connVars, WebInv, WebTypeOK, TurnOK, ClosesNoEarlier, Late
  <2> QED BY <2>1, <2>2
<1>6. ASSUME NEW t \in Threads, ThreadStep(t)
      PROVE  WebInv'
  BY <1>6, WebThread
<1>7. ASSUME NEW c \in Browsers, BrowserConnects(c)
      PROVE  WebInv'
  <2>1. queue' \in Seq(Browsers)
    BY <1>7, AppendProperties DEF BrowserConnects, WebInv, WebTypeOK
  <2> QED
    BY <1>7, <2>1
    DEF BrowserConnects, mainVars, WebInv, WebTypeOK, TurnOK, ClosesNoEarlier, Late
<1>8. CASE UNCHANGED webVars
  BY <1>8 DEF webVars, mainVars, connVars, WebInv, WebTypeOK, TurnOK, ClosesNoEarlier, Late
<1> QED BY <1>1, <1>2, <1>3, <1>4, <1>5, <1>6, <1>7, <1>8 DEF WebNext, MainStep

\* The types of the web server are right in every state.
THEOREM WebTypeCorrect == WebSpec => []WebTypeOK
<1>1. WebInv => WebTypeOK
  BY DEF WebInv
<1> QED BY <1>1, InitWeb, NextWeb, PTL DEF WebSpec

\* No thread ever closes a connection accepted before its own, however many of
\* them share clnt_sock and whatever pthread_create() stores over it.
THEOREM ClosesNoEarlierAlways == WebSpec => []ClosesNoEarlier
<1>1. WebInv => ClosesNoEarlier
  BY DEF WebInv
<1> QED BY <1>1, InitWeb, NextWeb, PTL DEF WebSpec
=============================================================================
