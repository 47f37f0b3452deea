------------------------------- MODULE UdpProofs -------------------------------
(***************************************************************************)
(* Proofs about the UDP programs: types, and that only what goes wrong on  *)
(* the way to the calculator mixes up the results of its clients.          *)
(***************************************************************************)
EXTENDS Udp, SequenceTheorems, TLAPS

(* Queues *)

\* What is left of a queue when its first datagram is taken.
LEMMA TailOf ==
  ASSUME NEW S, NEW q \in Seq(S), q # <<>>
  PROVE  /\ Len(q) \in Nat \ {0} /\ Head(q) = q[1] /\ Head(q) \in S
         /\ Tail(q) \in Seq(S) /\ Len(Tail(q)) = Len(q) - 1
         /\ \A k \in 1 .. Len(q) - 1 : Tail(q)[k] = q[k + 1]
         /\ Tail(q) # <<>> <=> Len(q) > 1
         /\ Tail(q) # <<>> => Tail(q)[1] = q[2] /\ Tail(q)[Len(Tail(q))] = q[Len(q)]
<1>1. Len(q) \in Nat \ {0} /\ Head(q) = q[1] /\ Head(q) \in S
  BY EmptySeq, HeadTailProperties
<1>2. /\ Tail(q) \in Seq(S) /\ Len(Tail(q)) = Len(q) - 1
      /\ \A k \in 1 .. Len(Tail(q)) : Tail(q)[k] = q[k + 1]
  BY HeadTailProperties
<1>3. \A k \in 1 .. Len(q) - 1 : Tail(q)[k] = q[k + 1]
  BY <1>2
<1> DEFINE l == Len(q)
           t == Tail(q)
<1>4. t # <<>> <=> l > 1
  <2>1. t = <<>> <=> Len(t) = 0
    BY <1>2, EmptySeq
  <2>2. Len(t) = l - 1
    BY <1>2
  <2>3. l \in Nat
    BY <1>1
  <2> HIDE DEF l
  <2> QED BY <2>1, <2>2, <2>3
<1>5. t # <<>> => t[1] = q[2] /\ t[l - 1] = q[l]
  <2> SUFFICES ASSUME l > 1 PROVE t[1] = q[2] /\ t[l - 1] = q[l]
    BY <1>4
  <2>1. l \in Nat /\ \A k \in 1 .. l - 1 : t[k] = q[k + 1]
    BY <1>1, <1>3
  <2> HIDE DEF l, t
  <2>2. 1 \in 1 .. l - 1 /\ l - 1 \in 1 .. l - 1 /\ (l - 1) + 1 = l /\ 1 + 1 = 2
    BY <2>1
  <2> QED BY <2>1, <2>2
<1> QED BY <1>1, <1>2, <1>3, <1>4, <1>5

\* A queue behind which a datagram is put.
LEMMA AppendOf ==
  ASSUME NEW S, NEW q \in Seq(S), NEW e \in S
  PROVE  /\ Append(q, e) \in Seq(S) /\ Append(q, e) # <<>>
         /\ Len(q) \in Nat /\ Len(Append(q, e)) = Len(q) + 1
         /\ \A k \in 1 .. Len(q) : Append(q, e)[k] = q[k]
         /\ Append(q, e)[Len(q) + 1] = e
         /\ q = <<>> => Append(q, e)[1] = e
         /\ q # <<>> => Len(q) \in 1 .. Len(q) /\ Append(q, e)[1] = q[1]
<1>1. /\ Append(q, e) \in Seq(S) /\ Append(q, e) # <<>>
      /\ Len(q) \in Nat /\ Len(Append(q, e)) = Len(q) + 1
      /\ \A k \in 1 .. Len(q) : Append(q, e)[k] = q[k]
      /\ Append(q, e)[Len(q) + 1] = e
  BY AppendProperties, LenProperties
<1>2. q = <<>> => Len(q) = 0
  BY EmptySeq
<1>3. q # <<>> => Len(q) \in Nat \ {0}
  BY EmptySeq
<1>4. q = <<>> => Append(q, e)[1] = e
  BY <1>1, <1>2
<1>5. q # <<>> => Len(q) \in 1 .. Len(q) /\ 1 \in 1 .. Len(q)
  <2> DEFINE l == Len(q)
  <2>1. q # <<>> => l \in Nat \ {0}
    BY <1>3
  <2> HIDE DEF l
  <2>2. q # <<>> => l \in 1 .. l /\ 1 \in 1 .. l
    BY <2>1
  <2> QED BY <2>2 DEF l
<1> QED BY <1>1, <1>4, <1>5

\* The network puts nothing into a queue that was not there.
LEMMA DisturbedStays ==
  ASSUME NEW S, NEW q \in Seq(S), NEW kind \in {"lose", "duplicate", "reorder"}
  PROVE  Disturbed(kind, q) \subseteq Seq(S)
<1>1. Len(q) \in Nat /\ \A k \in 1 .. Len(q) : q[k] \in S
  BY LenProperties, ElementOfSeq
<1>2. CASE kind = "lose"
  <2> SUFFICES ASSUME NEW k \in 1 .. Len(q) PROVE RemoveAt(q, k) \in Seq(S)
    BY <1>2 DEF Disturbed
  <2> DEFINE a == SubSeq(q, 1, k - 1)
             b == SubSeq(q, k + 1, Len(q))
  <2>1. a \in Seq(S)
    <3>1. \A j \in 1 .. k - 1 : q[j] \in S
      BY <1>1
    <3> QED BY <3>1, SubSeqProperties
  <2>2. b \in Seq(S)
    <3>1. \A j \in k + 1 .. Len(q) : q[j] \in S
      BY <1>1
    <3>2. Len(q) \in Int /\ k + 1 \in Int
      BY <1>1
    <3> QED BY <3>1, <3>2, SubSeqProperties
  <2> HIDE DEF a, b
  <2>3. a \o b \in Seq(S)
    BY <2>1, <2>2, ConcatProperties
  <2> QED BY <2>3 DEF RemoveAt, a, b
<1>3. CASE kind = "duplicate"
  <2> SUFFICES ASSUME NEW k \in 1 .. Len(q) PROVE Append(q, q[k]) \in Seq(S)
    BY <1>3 DEF Disturbed
  <2> QED BY <1>1, AppendProperties
<1>4. CASE kind = "reorder"
  <2> SUFFICES ASSUME NEW k \in 1 .. Len(q) - 1
               PROVE  ReplaceAt(ReplaceAt(q, k, q[k + 1]), k + 1, q[k]) \in Seq(S)
    BY <1>4 DEF Disturbed
  <2> DEFINE n == Len(q)
             x == q[k]
             y == q[k + 1]
             r == [[q EXCEPT ![k] = y] EXCEPT ![k + 1] = x]
  <2>1. x \in S /\ y \in S
    BY <1>1
  <2>2. n \in Nat /\ q \in [1 .. n -> S]
    BY LenProperties
  <2> HIDE DEF n, x, y
  <2>3. r \in [1 .. n -> S]
    BY <2>1, <2>2
  <2>4. r \in Seq(S)
    BY <2>2, <2>3, IsASeq
  <2> QED BY <2>4 DEF ReplaceAt, x, y
<1> QED BY <1>2, <1>3, <1>4

-----------------------------------------------------------------------------
(* The inductive invariant *)

\* A size that is announced is never zero.
SizesOK == spc \in {"sendHead", "sendBody"} => res.len \in Nat \ {0}

\* The echo: wherever a message is, it is whole and at its own client's address.
EchoMsgs == {[from |-> c, d |-> Body2(c, MsgSz)] : c \in Clients}

EchoInv ==
  /\ spc \in {"recvEcho", "sendEcho"}
  /\ cpc \in [Clients -> {"sendEcho", "recvEcho", "done", "gone"}]
  /\ inbox \in Seq(EchoMsgs)
  /\ \A c \in Clients : box[c] \in Seq({Body2(c, MsgSz)})
  /\ spc = "sendEcho" => peer \in Clients /\ req = peer
  /\ \A c \in Clients : shown[c] \in {None, c}

\* The calculator: the two datagrams of each request.
HeadMsg(c) == [from |-> c, d |-> Head2(c, ReqSz[c])]
BodyMsg(c) == [from |-> c, d |-> Body2(c, ReqSz[c])]

\* The server has taken the header of c and waits for its body.
Announced(c) == spc = "recvBody" /\ reqLen = ReqSz[c] /\ peer \in {c, None}

\* Headers and bodies alternate, each body behind the header of its client.
Paired ==
  /\ \A k \in 1 .. Len(inbox) : \E c \in Clients : inbox[k] \in {HeadMsg(c), BodyMsg(c)}
  /\ \A k \in 1 .. Len(inbox) - 1 : \A c \in Clients :
       /\ inbox[k] = HeadMsg(c) => inbox[k + 1] = BodyMsg(c)
       /\ inbox[k] = BodyMsg(c) => \E e \in Clients : inbox[k + 1] = HeadMsg(e)

\* The first datagram is the one the server waits for.
FirstOK ==
  inbox # <<>> =>
    IF spc = "recvBody"
    THEN \E c \in Clients : Announced(c) /\ inbox[1] = BodyMsg(c)
    ELSE \E c \in Clients : inbox[1] = HeadMsg(c)

\* A header is the last of all only while its client has yet to send the body.
LastOK ==
  up =>
    /\ \A c \in Clients :
         HalfSent(c) => IF inbox = <<>> THEN Announced(c) ELSE inbox[Len(inbox)] = HeadMsg(c)
    /\ \A c \in Clients : inbox # <<>> /\ inbox[Len(inbox)] = HeadMsg(c) => HalfSent(c)
    /\ inbox = <<>> /\ spc = "recvBody" => \E c \in Clients : HalfSent(c)

Alone == \A c, d \in Clients : HalfSent(c) /\ HalfSent(d) => c = d

DownOK == ~ up => inbox = <<>> /\ spc = "make"

\* The server computes the request of the client it answers.
CallOK ==
  /\ spc = "make" => req \in Clients /\ ~ cut /\ peer \in {req, None}
  /\ spc \in {"sendHead", "sendBody"} /\ peer # None => res = [of |-> peer, len |-> ResSz[peer]]

\* The answers to c alternate too; one header is without its body while the server
\* is between the two.
HeadRes(c) == Head2(c, ResSz[c])
BodyRes(c) == Body2(c, ResSz[c])
Pending(c) == IF box[c] = <<>> THEN cpc[c] = "recvBody" ELSE box[c][Len(box[c])] = HeadRes(c)

BoxOK(c) ==
  /\ box[c] \in Seq({HeadRes(c), BodyRes(c)})
  /\ \A k \in 1 .. Len(box[c]) - 1 : box[c][k] # box[c][k + 1]
  /\ box[c] # <<>> => box[c][1] = IF cpc[c] = "recvBody" THEN BodyRes(c) ELSE HeadRes(c)
  /\ cpc[c] = "recvBody" => resLen[c] = ResSz[c]
  /\ Pending(c) <=> spc = "sendBody" /\ peer = c

Tidy ==
  /\ Paired
  /\ FirstOK
  /\ LastOK
  /\ Alone
  /\ DownOK
  /\ CallOK
  /\ \A c \in Clients : cpc[c] \notin {"done", "gone"} => BoxOK(c)
  /\ \A c \in Clients : shown[c] \in {None, c}

CalcInv ==
  /\ spc \in {"recvHead", "recvBody", "make", "sendHead", "sendBody"}
  /\ cpc \in [Clients -> {"typing", "sendBody", "recvHead", "recvBody", "done", "gone"}]
  /\ mishaps \ {"unaddressed"} = {} => Tidy

UdpInv ==
  /\ TypeOK
  /\ SizesOK
  /\ EchoInv \/ CalcInv

-----------------------------------------------------------------------------
(* Types *)

USE DEF clientVars, callVars, serverVars

LEMMA Messages ==
  /\ \A o \in Owners, n \in Nat \ {0} : Head2(o, n) \in Datagrams /\ Body2(o, n) \in Datagrams
  /\ \A d \in Datagrams : MsgLen(d) \in Nat /\ d.of \in Owners
  /\ \A d \in Datagrams, n \in Nat : Parsed(n, d) \in Owners
  /\ Clients \subseteq Owners /\ Junk \in Owners
  /\ MsgSz \in Nat \ {0} /\ BufSz \in Nat /\ MsgSz <= BufSz
  /\ \A c \in Clients : ReqSz[c] \in Nat \ {0} /\ ResSz[c] \in Nat \ {0}
<1>1. \A o \in Owners, n \in Nat \ {0} : Head2(o, n) \in Datagrams /\ Body2(o, n) \in Datagrams
  BY DEF Datagrams, Head2, Body2
<1>2. \A d \in Datagrams : MsgLen(d) \in Nat /\ d.of \in Owners
  BY DEF Datagrams, MsgLen
<1>3. Clients \subseteq Owners /\ Junk \in Owners
  BY DEF Owners
<1>4. \A d \in Datagrams, n \in Nat : Parsed(n, d) \in Owners
  BY <1>2, <1>3 DEF Parsed
<1>5. \A c \in Clients : ReqSz[c] \in Nat \ {0} /\ ResSz[c] \in Nat \ {0}
  BY UdpAssumption
<1> QED BY <1>1, <1>2, <1>3, <1>4, <1>5 DEF MsgSz, BufSz

LEMMA TypeStart ==
  ASSUME Init
  PROVE  TypeOK /\ SizesOK
<1> USE DEF Init
<1>1. inbox \in Seq([from : Clients, d : Datagrams])
  BY EmptySeq
<1>2. box \in [Clients -> Seq(Datagrams)]
  BY EmptySeq
<1>3. Junk \in Owners /\ faults \in 0 .. MaxFaults
  BY Messages, UdpAssumption
<1> QED BY <1>1, <1>2, <1>3 DEF TypeOK, SizesOK, CalStarts, EchoStarts

\* sendto() the server.
LEMMA ToServerType ==
  ASSUME TypeOK, NEW c \in Clients, NEW d \in Datagrams, ToServer(c, d)
  PROVE  inbox' \in Seq([from : Clients, d : Datagrams])
<1>1. [from |-> c, d |-> d] \in [from : Clients, d : Datagrams]
  OBVIOUS
<1>2. Append(inbox, [from |-> c, d |-> d]) \in Seq([from : Clients, d : Datagrams])
  BY <1>1, AppendProperties DEF TypeOK
<1> QED BY <1>2 DEF ToServer, TypeOK

\* sendto() a client.
LEMMA ToPeerType ==
  ASSUME TypeOK, NEW d \in Datagrams, ToPeer(d)
  PROVE  box' \in [Clients -> Seq(Datagrams)]
<1>1. CASE box' = box
  BY <1>1 DEF TypeOK
<1>2. CASE box' # box
  <2>1. peer \in Clients /\ box' = [box EXCEPT ![peer] = Append(@, d)]
    BY <1>2 DEF ToPeer, TypeOK
  <2>2. box[peer] \in Seq(Datagrams) /\ box \in [Clients -> Seq(Datagrams)]
    BY <2>1 DEF TypeOK
  <2>3. Append(box[peer], d) \in Seq(Datagrams)
    BY <2>2, AppendProperties
  <2> QED BY <2>1, <2>2, <2>3
<1> QED BY <1>1, <1>2

\* The head of a queue is a datagram, and the rest are.
LEMMA BoxType ==
  ASSUME TypeOK, NEW c \in Clients, box[c] # <<>>
  PROVE  Head(box[c]) \in Datagrams /\ Tail(box[c]) \in Seq(Datagrams)
<1>1. box[c] \in Seq(Datagrams)
  BY DEF TypeOK
<1> QED BY <1>1, TailOf

LEMMA InboxType ==
  ASSUME TypeOK, inbox # <<>>
  PROVE  /\ Head(inbox).from \in Clients /\ Head(inbox).d \in Datagrams
         /\ Tail(inbox) \in Seq([from : Clients, d : Datagrams])
<1>1. /\ Head(inbox) \in [from : Clients, d : Datagrams]
      /\ Tail(inbox) \in Seq([from : Clients, d : Datagrams])
  BY TailOf DEF TypeOK
<1> QED BY <1>1

LEMMA TypeStep ==
  ASSUME TypeOK, SizesOK, [Next]_vars
  PROVE  TypeOK' /\ SizesOK'
<1> USE Messages
<1>1. ASSUME NEW c \in Clients, SendHead(c)
      PROVE  TypeOK' /\ SizesOK'
  <2>1. inbox' \in Seq([from : Clients, d : Datagrams])
    BY <1>1, ToServerType DEF SendHead
  <2> QED BY <1>1, <2>1 DEF SendHead, TypeOK, SizesOK
<1>2. ASSUME NEW c \in Clients, SendBody(c)
      PROVE  TypeOK' /\ SizesOK'
  <2>1. inbox' \in Seq([from : Clients, d : Datagrams])
    BY <1>2, ToServerType DEF SendBody
  <2> QED BY <1>2, <2>1 DEF SendBody, TypeOK, SizesOK
<1>3. ASSUME NEW c \in Clients, SendEcho(c)
      PROVE  TypeOK' /\ SizesOK'
  <2>1. inbox' \in Seq([from : Clients, d : Datagrams])
    BY <1>3, ToServerType DEF SendEcho
  <2> QED BY <1>3, <2>1 DEF SendEcho, TypeOK, SizesOK
<1>4. ASSUME NEW c \in Clients, RecvHead(c)
      PROVE  TypeOK' /\ SizesOK'
  <2>1. Head(box[c]) \in Datagrams /\ Tail(box[c]) \in Seq(Datagrams)
    BY <1>4, BoxType DEF RecvHead
  <2> QED BY <1>4, <2>1 DEF RecvHead, TypeOK, SizesOK
<1>5. ASSUME NEW c \in Clients, RecvBody(c)
      PROVE  TypeOK' /\ SizesOK'
  <2>1. Head(box[c]) \in Datagrams /\ <<>> \in Seq(Datagrams)
    BY <1>5, BoxType, EmptySeq DEF RecvBody
  <2>2. Parsed(resLen[c], Head(box[c])) \in Owners
    BY <2>1 DEF TypeOK
  <2> QED BY <1>5, <2>1, <2>2 DEF RecvBody, TypeOK, SizesOK
<1>6. ASSUME NEW c \in Clients, RecvEcho(c)
      PROVE  TypeOK' /\ SizesOK'
  <2>1. Head(box[c]) \in Datagrams /\ <<>> \in Seq(Datagrams)
    BY <1>6, BoxType, EmptySeq DEF RecvEcho
  <2>2. Parsed(BufSz, Head(box[c])) \in Owners
    BY <2>1
  <2> QED BY <1>6, <2>1, <2>2 DEF RecvEcho, TypeOK, SizesOK
<1>7. ASSUME NEW c \in Clients, Vanish(c)
      PROVE  TypeOK' /\ SizesOK'
  <2>1. <<>> \in Seq(Datagrams)
    BY EmptySeq
  <2> QED BY <1>7, <2>1 DEF Vanish, TypeOK, SizesOK
<1>8. ASSUME NetFault
      PROVE  TypeOK' /\ SizesOK'
  <2>1. PICK kind \in Faults :
          /\ \/ inbox' \in Disturbed(kind, inbox) /\ UNCHANGED box
             \/ /\ \E c \in Clients : \E q \in Disturbed(kind, box[c]) : box' = [box EXCEPT ![c] = q]
                /\ UNCHANGED inbox
          /\ mishaps' = mishaps \cup {kind}
    BY <1>8 DEF NetFault
  <2>2. kind \in {"lose", "duplicate", "reorder"}
    BY UdpAssumption
  <2>3. inbox' \in Seq([from : Clients, d : Datagrams])
    BY <2>1, <2>2, DisturbedStays DEF TypeOK
  <2>4. box' \in [Clients -> Seq(Datagrams)]
    <3>1. CASE UNCHANGED box
      BY <3>1 DEF TypeOK
    <3>2. ASSUME NEW c \in Clients, NEW q \in Disturbed(kind, box[c]), box' = [box EXCEPT ![c] = q]
          PROVE  box' \in [Clients -> Seq(Datagrams)]
      <4>1. box[c] \in Seq(Datagrams)
        BY DEF TypeOK
      <4>2. q \in Seq(Datagrams)
        BY <2>2, <4>1, DisturbedStays
      <4> QED BY <3>2, <4>2 DEF TypeOK
    <3> QED BY <2>1, <3>1, <3>2
  <2>5. faults' \in 0 .. MaxFaults
    BY <1>8, UdpAssumption DEF NetFault, TypeOK
  <2> QED BY <1>8, <2>1, <2>2, <2>3, <2>4, <2>5 DEF NetFault, TypeOK, SizesOK
<1>9. ASSUME ServerRecvHead
      PROVE  TypeOK' /\ SizesOK'
  <2>1. mishaps' \subseteq {"lose", "duplicate", "reorder", "interleave", "unaddressed"}
    BY <1>9 DEF ServerRecvHead, TypeOK
  <2>2. peer' \in Clients \cup {None} /\ reqLen' \in Nat
    BY <1>9, InboxType DEF ServerRecvHead
  <2> QED BY <1>9, <2>1, <2>2, InboxType DEF ServerRecvHead, TypeOK, SizesOK
<1>10. ASSUME ServerRecvBody
       PROVE  TypeOK' /\ SizesOK'
  <2>1. cut' \in BOOLEAN
    BY <1>10 DEF ServerRecvBody, Holds
  <2>2. req' \in Owners
    BY <1>10, InboxType DEF ServerRecvBody
  <2> QED BY <1>10, <2>1, <2>2, InboxType DEF ServerRecvBody, TypeOK, SizesOK
<1>11. ASSUME MakeRes
       PROVE  TypeOK' /\ SizesOK'
  <2>1. res' \in [of : Owners, len : Nat] /\ res'.len \in Nat \ {0}
    <3>1. CASE cut \/ req = Junk
      BY <1>11, <3>1, UdpAssumption DEF MakeRes
    <3>2. CASE ~ (cut \/ req = Junk)
      <4>1. req \in Clients /\ ResSz[req] \in Nat \ {0}
        BY <3>2 DEF TypeOK, Owners
      <4> QED BY <1>11, <3>2, <4>1 DEF MakeRes
    <3> QED BY <3>1, <3>2
  <2> QED BY <1>11, <2>1 DEF MakeRes, TypeOK, SizesOK
<1>12. ASSUME ServerSendHead
       PROVE  TypeOK' /\ SizesOK'
  <2>1. Head2(res.of, res.len) \in Datagrams
    BY <1>12 DEF ServerSendHead, TypeOK, SizesOK
  <2>2. box' \in [Clients -> Seq(Datagrams)]
    BY <1>12, <2>1, ToPeerType DEF ServerSendHead
  <2> QED BY <1>12, <2>2 DEF ServerSendHead, TypeOK, SizesOK
<1>13. ASSUME ServerSendBody
       PROVE  TypeOK' /\ SizesOK'
  <2>1. Body2(res.of, res.len) \in Datagrams
    BY <1>13 DEF ServerSendBody, TypeOK, SizesOK
  <2>2. box' \in [Clients -> Seq(Datagrams)]
    BY <1>13, <2>1, ToPeerType DEF ServerSendBody
  <2> QED BY <1>13, <2>2 DEF ServerSendBody, FreshCall, TypeOK, SizesOK
<1>14. ASSUME Die
       PROVE  TypeOK' /\ SizesOK'
  <2>1. inbox' \in Seq([from : Clients, d : Datagrams])
    BY <1>14, EmptySeq DEF Die
  <2> QED BY <1>14, <2>1 DEF Die, TypeOK, SizesOK
<1>15. ASSUME ServerRecvEcho
       PROVE  TypeOK' /\ SizesOK'
  BY <1>15, InboxType DEF ServerRecvEcho, TypeOK, SizesOK
<1>16. ASSUME ServerSendEcho
       PROVE  TypeOK' /\ SizesOK'
  <2>1. Body2(req, MsgSz) \in Datagrams
    BY DEF TypeOK
  <2>2. box' \in [Clients -> Seq(Datagrams)]
    BY <1>16, <2>1, ToPeerType DEF ServerSendEcho
  <2> QED BY <1>16, <2>2 DEF ServerSendEcho, FreshCall, TypeOK, SizesOK
<1>17. CASE UNCHANGED vars
  BY <1>17 DEF vars, TypeOK, SizesOK
<1> QED BY <1>1, <1>2, <1>3, <1>4, <1>5, <1>6, <1>7, <1>8, <1>9, <1>10, <1>11, <1>12, <1>13,
       <1>14, <1>15, <1>16, <1>17 DEF Next, ServerStep, ClientRuns

-----------------------------------------------------------------------------
(* The echo *)

\* The text of a message fits in the buffer it is read into.
LEMMA EchoParsed ==
  ASSUME NEW c \in Clients
  PROVE  Parsed(BufSz, Body2(c, MsgSz)) = c
BY DEF Parsed, Holds, Body2, BufSz, MsgSz

LEMMA EchoSend ==
  ASSUME EchoInv, NEW c \in Clients, ToServer(c, Body2(c, MsgSz))
  PROVE  inbox' \in Seq(EchoMsgs)
<1> DEFINE e == [from |-> c, d |-> Body2(c, MsgSz)]
<1>1. e \in EchoMsgs
  BY DEF EchoMsgs
<1> HIDE DEF e
<1>2. Append(inbox, e) \in Seq(EchoMsgs)
  BY <1>1, AppendProperties DEF EchoInv
<1> QED BY <1>2 DEF ToServer, EchoInv, e

LEMMA EchoStep ==
  ASSUME TypeOK, EchoInv, [Next]_vars
  PROVE  EchoInv'
<1>1. ASSUME NEW c \in Clients, SendEcho(c)
      PROVE  EchoInv'
  <2>1. inbox' \in Seq(EchoMsgs)
    BY <1>1, EchoSend DEF SendEcho
  <2> QED BY <1>1, <2>1 DEF SendEcho, EchoInv
<1>2. ASSUME NEW c \in Clients, RecvEcho(c)
      PROVE  EchoInv'
  <2>1. box[c] \in Seq({Body2(c, MsgSz)}) /\ box[c] # <<>>
    BY <1>2 DEF EchoInv, RecvEcho
  <2>2. Head(box[c]) = Body2(c, MsgSz)
    BY <2>1, TailOf
  <2>3. shown' = [shown EXCEPT ![c] = c]
    BY <1>2, <2>2, EchoParsed DEF RecvEcho
  <2>4. \A d \in Clients : shown'[d] \in {None, d}
    BY <2>3 DEF EchoInv, TypeOK
  <2>5. \A d \in Clients : box'[d] \in Seq({Body2(d, MsgSz)})
    <3>1. <<>> \in Seq({Body2(c, MsgSz)})
      BY EmptySeq
    <3> QED BY <1>2, <3>1 DEF RecvEcho, EchoInv, TypeOK
  <2> QED BY <1>2, <2>4, <2>5 DEF RecvEcho, EchoInv
<1>3. ASSUME NEW c \in Clients, Vanish(c)
      PROVE  EchoInv'
  <2>1. \A d \in Clients : box'[d] \in Seq({Body2(d, MsgSz)})
    <3>1. <<>> \in Seq({Body2(c, MsgSz)})
      BY EmptySeq
    <3> QED BY <1>3, <3>1 DEF Vanish, EchoInv, TypeOK
  <2> QED BY <1>3, <2>1 DEF Vanish, EchoInv
<1>4. ASSUME NetFault
      PROVE  EchoInv'
  <2>1. PICK kind \in Faults :
          \/ inbox' \in Disturbed(kind, inbox) /\ UNCHANGED box
          \/ /\ \E c \in Clients : \E q \in Disturbed(kind, box[c]) : box' = [box EXCEPT ![c] = q]
             /\ UNCHANGED inbox
    BY <1>4 DEF NetFault
  <2>2. kind \in {"lose", "duplicate", "reorder"}
    BY UdpAssumption
  <2>3. inbox' \in Seq(EchoMsgs)
    BY <2>1, <2>2, DisturbedStays DEF EchoInv
  <2>4. \A d \in Clients : box'[d] \in Seq({Body2(d, MsgSz)})
    <3>1. ASSUME NEW c \in Clients, NEW q \in Disturbed(kind, box[c]), box' = [box EXCEPT ![c] = q]
          PROVE  \A d \in Clients : box'[d] \in Seq({Body2(d, MsgSz)})
      <4>1. box[c] \in Seq({Body2(c, MsgSz)})
        BY DEF EchoInv
      <4>2. q \in Seq({Body2(c, MsgSz)})
        BY <2>2, <4>1, DisturbedStays
      <4> QED BY <3>1, <4>2 DEF EchoInv, TypeOK
    <3>2. CASE UNCHANGED box
      BY <3>2 DEF EchoInv
    <3> QED BY <2>1, <3>1, <3>2
  <2> QED BY <1>4, <2>3, <2>4 DEF NetFault, EchoInv
<1>5. ASSUME ServerRecvEcho
      PROVE  EchoInv'
  <2>1. Head(inbox) \in EchoMsgs /\ Tail(inbox) \in Seq(EchoMsgs)
    BY <1>5, TailOf DEF ServerRecvEcho, EchoInv
  <2>2. PICK c \in Clients : Head(inbox) = [from |-> c, d |-> Body2(c, MsgSz)]
    BY <2>1 DEF EchoMsgs
  <2>3. peer' = c /\ req' = c
    BY <1>5, <2>2, EchoParsed DEF ServerRecvEcho
  <2> QED BY <1>5, <2>1, <2>3 DEF ServerRecvEcho, EchoInv
<1>6. ASSUME ServerSendEcho
      PROVE  EchoInv'
  <2>1. peer \in Clients /\ req = peer
    BY <1>6 DEF ServerSendEcho, EchoInv
  <2>2. \A d \in Clients : box'[d] \in Seq({Body2(d, MsgSz)})
    <3> DEFINE e == Body2(peer, MsgSz)
    <3>1. box[peer] \in Seq({e}) /\ e \in {e}
      BY <2>1 DEF EchoInv
    <3> HIDE DEF e
    <3>2. Append(box[peer], e) \in Seq({e})
      BY <3>1, AppendProperties
    <3>3. box' = box \/ box' = [box EXCEPT ![peer] = Append(@, e)]
      BY <1>6, <2>1 DEF ServerSendEcho, ToPeer, e
    <3> QED BY <2>1, <3>2, <3>3 DEF EchoInv, TypeOK, e
  <2> QED BY <1>6, <2>2 DEF ServerSendEcho, EchoInv
<1>7. CASE UNCHANGED vars
  BY <1>7 DEF vars, EchoInv
<1>8. ASSUME NEW c \in Clients
      PROVE  ~ SendHead(c) /\ ~ SendBody(c) /\ ~ RecvHead(c) /\ ~ RecvBody(c)
  BY DEF SendHead, SendBody, RecvHead, RecvBody, EchoInv
<1>9. ~ ServerRecvHead /\ ~ ServerRecvBody /\ ~ MakeRes /\ ~ ServerSendHead /\ ~ ServerSendBody /\ ~ Die
  BY DEF ServerRecvHead, ServerRecvBody, MakeRes, ServerSendHead, ServerSendBody, Die, EchoInv
<1> QED BY <1>1, <1>2, <1>3, <1>4, <1>5, <1>6, <1>7, <1>8, <1>9 DEF Next, ServerStep, ClientRuns

-----------------------------------------------------------------------------
(* The calculator *)

Live(c) == cpc[c] \notin {"done", "gone"}

LEMMA RequestFacts ==
  ASSUME NEW c \in Clients
  PROVE  /\ HeadMsg(c) \in [from : Clients, d : Datagrams]
         /\ BodyMsg(c) \in [from : Clients, d : Datagrams]
         /\ HeadMsg(c).from = c /\ MsgLen(HeadMsg(c).d) = ReqSz[c]
         /\ BodyMsg(c).d.kind = "body" /\ BodyMsg(c).d.of = c
         /\ Holds(ReqSz[c], BodyMsg(c).d)
         /\ \A e \in Clients : HeadMsg(c) # BodyMsg(e)
         /\ \A e \in Clients : HeadMsg(c) = HeadMsg(e) => c = e
         /\ \A e \in Clients : BodyMsg(c) = BodyMsg(e) => c = e
<1>1. ReqSz[c] \in Nat \ {0} /\ Head2(c, ReqSz[c]) \in Datagrams /\ Body2(c, ReqSz[c]) \in Datagrams
  BY Messages
<1>2. HeadMsg(c) \in [from : Clients, d : Datagrams] /\ BodyMsg(c) \in [from : Clients, d : Datagrams]
  BY <1>1 DEF HeadMsg, BodyMsg
<1>3. /\ HeadMsg(c).from = c /\ HeadMsg(c).d = Head2(c, ReqSz[c])
      /\ BodyMsg(c).from = c /\ BodyMsg(c).d = Body2(c, ReqSz[c])
  BY DEF HeadMsg, BodyMsg
<1>4. /\ MsgLen(Head2(c, ReqSz[c])) = ReqSz[c]
      /\ Body2(c, ReqSz[c]).kind = "body" /\ Body2(c, ReqSz[c]).of = c
      /\ Holds(ReqSz[c], Body2(c, ReqSz[c]))
  BY <1>1 DEF MsgLen, Head2, Body2, Holds
<1>5. ASSUME NEW e \in Clients PROVE HeadMsg(c) # BodyMsg(e)
  BY DEF HeadMsg, BodyMsg, Head2, Body2
<1>6. ASSUME NEW e \in Clients, HeadMsg(c) = HeadMsg(e) PROVE c = e
  BY <1>6 DEF HeadMsg
<1>7. ASSUME NEW e \in Clients, BodyMsg(c) = BodyMsg(e) PROVE c = e
  BY <1>7 DEF BodyMsg
<1> QED BY <1>2, <1>3, <1>4, <1>5, <1>6, <1>7

LEMMA ResultFacts ==
  ASSUME NEW c \in Clients
  PROVE  /\ HeadRes(c) # BodyRes(c)
         /\ MsgLen(HeadRes(c)) = ResSz[c] /\ Parsed(ResSz[c], BodyRes(c)) = c
<1>1. ResSz[c] \in Nat \ {0}
  BY Messages
<1>2. HeadRes(c).kind = "head" /\ BodyRes(c).kind = "body"
  BY DEF HeadRes, BodyRes, Head2, Body2
<1>3. MsgLen(HeadRes(c)) = ResSz[c]
  BY DEF HeadRes, Head2, MsgLen
<1>4. Parsed(ResSz[c], BodyRes(c)) = c
  BY <1>1 DEF BodyRes, Body2, Parsed, Holds
<1> QED BY <1>2, <1>3, <1>4

\* Where the queue of the server is left alone.
LEMMA QueueStays ==
  ASSUME Paired, FirstOK, LastOK, Alone,
         inbox' = inbox, up' = up,
         \A c \in Clients : cpc'[c] = "sendBody" <=> cpc[c] = "sendBody",
         spc' = "recvBody" <=> spc = "recvBody",
         spc = "recvBody" => reqLen' = reqLen /\ peer' = peer
  PROVE  Paired' /\ FirstOK' /\ LastOK' /\ Alone'
<1>1. \A c \in Clients : HalfSent(c)' <=> HalfSent(c)
  BY DEF HalfSent
<1>2. \A c \in Clients : Announced(c)' <=> Announced(c)
  BY DEF Announced
<1>3. Paired'
  BY DEF Paired
<1>4. FirstOK'
  BY <1>2 DEF FirstOK
<1>5. LastOK'
  BY <1>1, <1>2 DEF LastOK
<1>6. Alone'
  BY <1>1 DEF Alone
<1> QED BY <1>3, <1>4, <1>5, <1>6

\* Where the queue of a client is left alone.
LEMMA BoxStays ==
  ASSUME NEW c \in Clients, BoxOK(c),
         box'[c] = box[c], resLen'[c] = resLen[c],
         cpc'[c] = "recvBody" <=> cpc[c] = "recvBody",
         (spc' = "sendBody" /\ peer' = c) <=> (spc = "sendBody" /\ peer = c)
  PROVE  BoxOK(c)'
<1>1. Pending(c)' <=> Pending(c)
  BY DEF Pending
<1> QED BY <1>1 DEF BoxOK

\* Where the queues of all clients are left alone.
LEMMA BoxesStay ==
  ASSUME \A c \in Clients : Live(c) => BoxOK(c),
         box' = box, resLen' = resLen,
         \A c \in Clients : Live(c)' => Live(c) /\ (cpc'[c] = "recvBody" <=> cpc[c] = "recvBody"),
         spc' = "sendBody" <=> spc = "sendBody",
         spc = "sendBody" => peer' = peer
  PROVE  \A c \in Clients : Live(c)' => BoxOK(c)'
BY BoxStays

LEMMA TidyParts ==
  Tidy <=> /\ Paired /\ FirstOK /\ LastOK /\ Alone /\ DownOK /\ CallOK
           /\ \A c \in Clients : Live(c) => BoxOK(c)
           /\ \A c \in Clients : shown[c] \in {None, c}
BY DEF Tidy, Live

\* The ways a client changes its state.
LEMMA Moves ==
  ASSUME CalcInv, NEW c \in Clients, NEW s, cpc' = [cpc EXCEPT ![c] = s]
  PROVE  cpc'[c] = s /\ \A e \in Clients : e # c => cpc'[e] = cpc[e]
BY DEF CalcInv

-----------------------------------------------------------------------------
(* The client of the calculator keeps it tidy *)

LEMMA SendHeadTidy ==
  ASSUME TypeOK, CalcInv, Tidy, NEW c \in Clients, SendHead(c),
         \A e \in Clients : ~ HalfSent(e)
  PROVE  Tidy'
<1> DEFINE D == [from : Clients, d : Datagrams]
           n == Len(inbox)
           m == HeadMsg(c)
<1>1. /\ Paired /\ FirstOK /\ LastOK /\ Alone /\ DownOK /\ CallOK
      /\ \A e \in Clients : Live(e) => BoxOK(e)
      /\ \A e \in Clients : shown[e] \in {None, e}
  BY TidyParts
<1>2. cpc[c] = "typing" /\ cpc'[c] = "sendBody" /\ \A e \in Clients : e # c => cpc'[e] = cpc[e]
  BY Moves DEF SendHead
<1>3. /\ up' = up /\ spc' = spc /\ peer' = peer /\ reqLen' = reqLen /\ req' = req /\ cut' = cut
      /\ res' = res /\ resLen' = resLen /\ box' = box /\ shown' = shown
      /\ inbox' = IF up THEN Append(inbox, m) ELSE inbox
  BY DEF SendHead, ToServer, HeadMsg
<1>4. \A e \in Clients : HalfSent(e)' <=> e = c
  BY <1>2 DEF HalfSent
<1>5. Alone'
  BY <1>4 DEF Alone
<1>6. CallOK' /\ \A e \in Clients : shown'[e] \in {None, e}
  BY <1>1, <1>3 DEF CallOK
<1>7. \A e \in Clients : Live(e)' => BoxOK(e)'
  <2>1. \A e \in Clients : Live(e)' => Live(e) /\ (cpc'[e] = "recvBody" <=> cpc[e] = "recvBody")
    BY <1>2 DEF Live
  <2> QED BY <1>1, <1>3, <2>1, BoxesStay
<1>8. CASE ~ up
  <2>1. inbox' = <<>> /\ spc' = "make" /\ ~ up'
    BY <1>1, <1>3, <1>8 DEF DownOK
  <2>2. Len(inbox') = 0
    BY <2>1, EmptySeq
  <2>3. Paired' /\ FirstOK' /\ LastOK' /\ DownOK'
    BY <2>1, <2>2 DEF Paired, FirstOK, LastOK, DownOK
  <2> QED BY <1>5, <1>6, <1>7, <2>3, TidyParts DEF Tidy, Live
<1>9. CASE up
  <2>1. inbox \in Seq(D) /\ m \in D
    BY RequestFacts DEF TypeOK
  <2>2. inbox' = Append(inbox, m)
    BY <1>3, <1>9
  <2>3. /\ n \in Nat /\ Len(inbox') = n + 1 /\ inbox' # <<>>
        /\ \A k \in 1 .. n : inbox'[k] = inbox[k]
        /\ inbox'[n + 1] = m
        /\ inbox = <<>> => inbox'[1] = m
        /\ inbox # <<>> => n \in 1 .. n /\ inbox'[1] = inbox[1]
    <3> HIDE DEF m, D
    <3> QED BY <2>1, <2>2, AppendOf
  <2>4. \A e \in Clients : inbox # <<>> => inbox[n] # HeadMsg(e)
    BY <1>1, <1>9 DEF LastOK
  <2>5. inbox = <<>> => spc # "recvBody"
    BY <1>1, <1>9 DEF LastOK
  <2>6. n # 0 => inbox # <<>>
    BY EmptySeq
  <2>7. Paired'
    <3>1. \A k \in 1 .. n + 1 : \E e \in Clients : inbox'[k] \in {HeadMsg(e), BodyMsg(e)}
      <4>1. \A k \in 1 .. n + 1 : k \in 1 .. n \/ k = n + 1
        BY <2>3
      <4> QED BY <1>1, <2>3, <4>1 DEF Paired
    <3>2. ASSUME NEW k \in 1 .. n, NEW e \in Clients
          PROVE  /\ inbox'[k] = HeadMsg(e) => inbox'[k + 1] = BodyMsg(e)
                 /\ inbox'[k] = BodyMsg(e) => \E f \in Clients : inbox'[k + 1] = HeadMsg(f)
      <4>1. CASE k = n
        <5>1. inbox'[k] # HeadMsg(e)
          BY <2>3, <2>4, <2>6, <4>1
        <5>2. inbox'[k + 1] = HeadMsg(c)
          BY <2>3, <4>1
        <5> QED BY <5>1, <5>2
      <4>2. CASE k # n
        <5>1. k \in 1 .. n - 1 /\ k + 1 \in 1 .. n
          BY <2>3, <4>2
        <5>2. inbox'[k] = inbox[k] /\ inbox'[k + 1] = inbox[k + 1]
          BY <2>3, <5>1
        <5> QED BY <1>1, <5>1, <5>2 DEF Paired
      <4> QED BY <4>1, <4>2
    <3>3. Len(inbox') - 1 = n
      BY <2>3
    <3> QED BY <2>3, <3>1, <3>2, <3>3 DEF Paired
  <2>8. FirstOK'
    <3>1. CASE inbox = <<>>
      BY <1>3, <2>3, <2>5, <3>1 DEF FirstOK
    <3>2. CASE inbox # <<>>
      <4>1. \A e \in Clients : Announced(e)' <=> Announced(e)
        BY <1>3 DEF Announced
      <4> QED BY <1>1, <1>3, <2>3, <3>2, <4>1 DEF FirstOK
    <3> QED BY <3>1, <3>2
  <2>9. LastOK'
    <3>1. inbox'[Len(inbox')] = HeadMsg(c)
      BY <2>3
    <3>2. \A e \in Clients : inbox'[Len(inbox')] = HeadMsg(e) => e = c
      BY <3>1, RequestFacts
    <3> QED BY <1>4, <2>3, <3>1, <3>2 DEF LastOK
  <2>10. DownOK'
    BY <1>3, <1>9 DEF DownOK
  <2> QED BY <1>5, <1>6, <1>7, <2>7, <2>8, <2>9, <2>10, TidyParts DEF Tidy, Live
<1> QED BY <1>8, <1>9

LEMMA SendBodyTidy ==
  ASSUME TypeOK, CalcInv, Tidy, NEW c \in Clients, SendBody(c)
  PROVE  Tidy'
<1> DEFINE D == [from : Clients, d : Datagrams]
           n == Len(inbox)
           m == BodyMsg(c)
<1>1. /\ Paired /\ FirstOK /\ LastOK /\ Alone /\ DownOK /\ CallOK
      /\ \A e \in Clients : Live(e) => BoxOK(e)
      /\ \A e \in Clients : shown[e] \in {None, e}
  BY TidyParts
<1>2. cpc[c] = "sendBody" /\ cpc'[c] = "recvHead" /\ \A e \in Clients : e # c => cpc'[e] = cpc[e]
  BY Moves DEF SendBody
<1>3. /\ up' = up /\ spc' = spc /\ peer' = peer /\ reqLen' = reqLen /\ req' = req /\ cut' = cut
      /\ res' = res /\ resLen' = resLen /\ box' = box /\ shown' = shown
      /\ inbox' = IF up THEN Append(inbox, m) ELSE inbox
  BY DEF SendBody, ToServer, BodyMsg
<1>4. \A e \in Clients : ~ HalfSent(e)'
  BY <1>1, <1>2 DEF HalfSent, Alone
<1>5. Alone'
  BY <1>4 DEF Alone
<1>6. CallOK' /\ \A e \in Clients : shown'[e] \in {None, e}
  BY <1>1, <1>3 DEF CallOK
<1>7. \A e \in Clients : Live(e)' => BoxOK(e)'
  <2>1. \A e \in Clients : Live(e)' => Live(e) /\ (cpc'[e] = "recvBody" <=> cpc[e] = "recvBody")
    BY <1>2 DEF Live
  <2> QED BY <1>1, <1>3, <2>1, BoxesStay
<1>8. CASE ~ up
  <2>1. inbox' = <<>> /\ spc' = "make" /\ ~ up'
    BY <1>1, <1>3, <1>8 DEF DownOK
  <2>2. Len(inbox') = 0
    BY <2>1, EmptySeq
  <2>3. Paired' /\ FirstOK' /\ LastOK' /\ DownOK'
    BY <2>1, <2>2 DEF Paired, FirstOK, LastOK, DownOK
  <2> QED BY <1>5, <1>6, <1>7, <2>3, TidyParts DEF Tidy, Live
<1>9. CASE up
  <2>1. inbox \in Seq(D) /\ m \in D
    BY RequestFacts DEF TypeOK
  <2>2. inbox' = Append(inbox, m)
    BY <1>3, <1>9
  <2>3. /\ n \in Nat /\ Len(inbox') = n + 1 /\ inbox' # <<>>
        /\ \A k \in 1 .. n : inbox'[k] = inbox[k]
        /\ inbox'[n + 1] = m
        /\ inbox = <<>> => inbox'[1] = m
        /\ inbox # <<>> => n \in 1 .. n /\ inbox'[1] = inbox[1]
    <3> HIDE DEF m, D
    <3> QED BY <2>1, <2>2, AppendOf
  <2>4. IF inbox = <<>> THEN Announced(c) ELSE inbox[n] = HeadMsg(c)
    BY <1>1, <1>2, <1>9 DEF LastOK, HalfSent
  <2>5. n # 0 => inbox # <<>>
    BY EmptySeq
  <2>6. Paired'
    <3>1. \A k \in 1 .. n + 1 : \E e \in Clients : inbox'[k] \in {HeadMsg(e), BodyMsg(e)}
      <4>1. \A k \in 1 .. n + 1 : k \in 1 .. n \/ k = n + 1
        BY <2>3
      <4> QED BY <1>1, <2>3, <4>1 DEF Paired
    <3>2. ASSUME NEW k \in 1 .. n, NEW e \in Clients
          PROVE  /\ inbox'[k] = HeadMsg(e) => inbox'[k + 1] = BodyMsg(e)
                 /\ inbox'[k] = BodyMsg(e) => \E f \in Clients : inbox'[k + 1] = HeadMsg(f)
      <4>1. CASE k = n
        <5>1. inbox'[k] = HeadMsg(c)
          BY <2>3, <2>4, <2>5, <4>1
        <5>2. inbox'[k + 1] = BodyMsg(c)
          BY <2>3, <4>1
        <5>3. inbox'[k] # BodyMsg(e) /\ (inbox'[k] = HeadMsg(e) => e = c)
          BY <5>1, RequestFacts
        <5> QED BY <5>2, <5>3
      <4>2. CASE k # n
        <5>1. k \in 1 .. n - 1 /\ k + 1 \in 1 .. n
          BY <2>3, <4>2
        <5>2. inbox'[k] = inbox[k] /\ inbox'[k + 1] = inbox[k + 1]
          BY <2>3, <5>1
        <5> QED BY <1>1, <5>1, <5>2 DEF Paired
      <4> QED BY <4>1, <4>2
    <3>3. Len(inbox') - 1 = n
      BY <2>3
    <3> QED BY <2>3, <3>1, <3>2, <3>3 DEF Paired
  <2>7. FirstOK'
    <3>1. \A e \in Clients : Announced(e)' <=> Announced(e)
      BY <1>3 DEF Announced
    <3>2. CASE inbox = <<>>
      <4>1. Announced(c)' /\ spc' = "recvBody"
        BY <1>3, <2>4, <3>1, <3>2 DEF Announced
      <4> QED BY <2>3, <3>2, <4>1 DEF FirstOK
    <3>3. CASE inbox # <<>>
      BY <1>1, <1>3, <2>3, <3>1, <3>3 DEF FirstOK
    <3> QED BY <3>2, <3>3
  <2>8. LastOK'
    <3>1. inbox'[Len(inbox')] = BodyMsg(c)
      BY <2>3
    <3>2. \A e \in Clients : inbox'[Len(inbox')] # HeadMsg(e)
      BY <3>1, RequestFacts
    <3> QED BY <1>4, <2>3, <3>2 DEF LastOK
  <2>9. DownOK'
    BY <1>3, <1>9 DEF DownOK
  <2> QED BY <1>5, <1>6, <1>7, <2>6, <2>7, <2>8, <2>9, TidyParts DEF Tidy, Live
<1> QED BY <1>8, <1>9

LEMMA RecvHeadTidy ==
  ASSUME TypeOK, CalcInv, Tidy, NEW c \in Clients, RecvHead(c)
  PROVE  Tidy'
<1> DEFINE q == box[c]
           S == {HeadRes(c), BodyRes(c)}
<1>1. /\ Paired /\ FirstOK /\ LastOK /\ Alone /\ DownOK /\ CallOK
      /\ \A e \in Clients : Live(e) => BoxOK(e)
      /\ \A e \in Clients : shown[e] \in {None, e}
  BY TidyParts
<1>2. cpc[c] = "recvHead" /\ cpc'[c] = "recvBody" /\ \A e \in Clients : e # c => cpc'[e] = cpc[e]
  BY Moves DEF RecvHead
<1>3. /\ up' = up /\ spc' = spc /\ peer' = peer /\ reqLen' = reqLen /\ req' = req /\ cut' = cut
      /\ res' = res /\ shown' = shown /\ inbox' = inbox
      /\ q # <<>> /\ box'[c] = Tail(q) /\ resLen'[c] = MsgLen(Head(q))
      /\ \A e \in Clients : e # c => box'[e] = box[e] /\ resLen'[e] = resLen[e]
  BY DEF RecvHead, TypeOK
<1>4. Paired' /\ FirstOK' /\ LastOK' /\ Alone'
  BY <1>1, <1>2, <1>3, QueueStays
<1>5. DownOK' /\ CallOK' /\ \A e \in Clients : shown'[e] \in {None, e}
  BY <1>1, <1>3 DEF DownOK, CallOK
<1>6. ASSUME NEW e \in Clients, e # c, Live(e)'
      PROVE  BoxOK(e)'
  <2>1. Live(e)
    BY <1>2, <1>6 DEF Live
  <2> QED BY <1>1, <1>2, <1>3, <1>6, <2>1, BoxStays
<1>7. BoxOK(c)'
  <2>1. /\ q \in Seq(S) /\ \A k \in 1 .. Len(q) - 1 : q[k] # q[k + 1]
        /\ q[1] = HeadRes(c) /\ (q[Len(q)] = HeadRes(c) <=> spc = "sendBody" /\ peer = c)
    <3>1. BoxOK(c)
      BY <1>1, <1>2 DEF Live
    <3> QED BY <1>2, <1>3, <3>1 DEF BoxOK, Pending
  <2> DEFINE n == Len(q)
             t == Tail(q)
  <2>2. /\ n \in Nat \ {0} /\ Head(q) = q[1] /\ t \in Seq(S) /\ Len(t) = n - 1
        /\ \A k \in 1 .. n - 1 : t[k] = q[k + 1]
        /\ t # <<>> <=> n > 1
        /\ t # <<>> => t[1] = q[2] /\ t[Len(t)] = q[n]
    <3> HIDE DEF q, S
    <3> QED BY <1>3, <2>1, TailOf
  <2>3. \A k \in 1 .. n : q[k] \in S
    BY <2>1, ElementOfSeq
  <2>4. ASSUME NEW k \in 1 .. Len(t) - 1
        PROVE  t[k] # t[k + 1]
    <3>1. k \in 1 .. n - 1 /\ k + 1 \in 1 .. n - 1
      BY <2>2
    <3> QED BY <2>1, <2>2, <3>1
  <2>5. t # <<>> => t[1] = BodyRes(c)
    <3> SUFFICES ASSUME n > 1 PROVE q[2] = BodyRes(c)
      BY <2>2
    <3>1. 1 \in 1 .. n - 1 /\ 2 \in 1 .. n /\ 1 + 1 = 2
      BY <2>2
    <3>2. q[1] # q[2] /\ q[2] \in S
      BY <2>1, <2>3, <3>1
    <3> QED BY <2>1, <3>2
  <2>6. t = <<>> => q[n] = HeadRes(c)
    <3>1. ~ (n > 1) => n = 1
      <4>1. n \in Nat \ {0}
        BY <2>2
      <4> HIDE DEF n
      <4> QED BY <4>1
    <3> QED BY <2>1, <2>2, <3>1
  <2>7. MsgLen(Head(q)) = ResSz[c]
    BY <2>1, <2>2, ResultFacts
  <2>8. Pending(c)' <=> spc' = "sendBody" /\ peer' = c
    BY <1>2, <1>3, <2>1, <2>2, <2>6 DEF Pending
  <2> HIDE DEF t, q
  <2>9. box'[c] = t
    BY <1>3 DEF t, q
  <2> QED BY <1>2, <1>3, <2>2, <2>4, <2>5, <2>7, <2>8, <2>9 DEF BoxOK
<1> QED BY <1>4, <1>5, <1>6, <1>7 DEF Tidy, Live

LEMMA RecvBodyTidy ==
  ASSUME TypeOK, CalcInv, Tidy, NEW c \in Clients, RecvBody(c)
  PROVE  Tidy'
<1>1. /\ Paired /\ FirstOK /\ LastOK /\ Alone /\ DownOK /\ CallOK
      /\ \A e \in Clients : Live(e) => BoxOK(e)
      /\ \A e \in Clients : shown[e] \in {None, e}
  BY TidyParts
<1>2. cpc[c] = "recvBody" /\ cpc'[c] = "done" /\ \A e \in Clients : e # c => cpc'[e] = cpc[e]
  BY Moves DEF RecvBody
<1>3. /\ up' = up /\ spc' = spc /\ peer' = peer /\ reqLen' = reqLen /\ req' = req /\ cut' = cut
      /\ res' = res /\ inbox' = inbox
      /\ box[c] # <<>> /\ shown'[c] = Parsed(resLen[c], Head(box[c]))
      /\ \A e \in Clients : e # c => box'[e] = box[e] /\ resLen'[e] = resLen[e] /\ shown'[e] = shown[e]
  BY DEF RecvBody, TypeOK
<1>4. Paired' /\ FirstOK' /\ LastOK' /\ Alone'
  BY <1>1, <1>2, <1>3, QueueStays
<1>5. DownOK' /\ CallOK'
  BY <1>1, <1>3 DEF DownOK, CallOK
<1>6. ASSUME NEW e \in Clients, Live(e)'
      PROVE  BoxOK(e)'
  <2>1. e # c /\ Live(e)
    BY <1>2, <1>6 DEF Live
  <2> QED BY <1>1, <1>2, <1>3, <2>1, BoxStays
<1>7. shown'[c] = c
  <2>1. BoxOK(c)
    BY <1>1, <1>2 DEF Live
  <2>2. resLen[c] = ResSz[c] /\ box[c][1] = BodyRes(c) /\ box[c] \in Seq({HeadRes(c), BodyRes(c)})
    BY <1>2, <1>3, <2>1 DEF BoxOK
  <2>3. Head(box[c]) = BodyRes(c)
    BY <1>3, <2>2, TailOf
  <2> QED BY <1>3, <2>2, <2>3, ResultFacts
<1>8. \A e \in Clients : shown'[e] \in {None, e}
  BY <1>1, <1>3, <1>7
<1> QED BY <1>4, <1>5, <1>6, <1>8 DEF Tidy, Live

LEMMA VanishTidy ==
  ASSUME TypeOK, CalcInv, Tidy, NEW c \in Clients, Vanish(c), ~ HalfSent(c)
  PROVE  Tidy'
<1>1. /\ Paired /\ FirstOK /\ LastOK /\ Alone /\ DownOK /\ CallOK
      /\ \A e \in Clients : Live(e) => BoxOK(e)
      /\ \A e \in Clients : shown[e] \in {None, e}
  BY TidyParts
<1>2. cpc[c] # "sendBody" /\ cpc'[c] = "gone" /\ \A e \in Clients : e # c => cpc'[e] = cpc[e]
  BY Moves DEF Vanish, HalfSent
<1>3. /\ up' = up /\ spc' = spc /\ peer' = peer /\ reqLen' = reqLen /\ req' = req /\ cut' = cut
      /\ res' = res /\ inbox' = inbox /\ shown' = shown
      /\ \A e \in Clients : e # c => box'[e] = box[e] /\ resLen'[e] = resLen[e]
  BY DEF Vanish, TypeOK
<1>4. Paired' /\ FirstOK' /\ LastOK' /\ Alone'
  BY <1>1, <1>2, <1>3, QueueStays
<1>5. DownOK' /\ CallOK' /\ \A e \in Clients : shown'[e] \in {None, e}
  BY <1>1, <1>3 DEF DownOK, CallOK
<1>6. ASSUME NEW e \in Clients, Live(e)'
      PROVE  BoxOK(e)'
  <2>1. e # c /\ Live(e)
    BY <1>2, <1>6 DEF Live
  <2> QED BY <1>1, <1>2, <1>3, <2>1, BoxStays
<1> QED BY <1>4, <1>5, <1>6 DEF Tidy, Live

-----------------------------------------------------------------------------
(* The server of the calculator keeps it tidy *)

\* What is left in the queue of the server when it takes a datagram.
LEMMA PairedTail ==
  ASSUME TypeOK, Paired, inbox # <<>>, inbox' = Tail(inbox)
  PROVE  Paired'
<1> DEFINE D == [from : Clients, d : Datagrams]
           n == Len(inbox)
<1>1. inbox \in Seq(D)
  BY DEF TypeOK
<1>2. /\ n \in Nat \ {0} /\ Len(inbox') = n - 1
      /\ \A k \in 1 .. n - 1 : inbox'[k] = inbox[k + 1]
  BY <1>1, TailOf
<1>3. \A k \in 1 .. n - 1 : k + 1 \in 1 .. n
  BY <1>2
<1>4. \A k \in 1 .. n - 1 : \E c \in Clients : inbox'[k] \in {HeadMsg(c), BodyMsg(c)}
  BY <1>2, <1>3 DEF Paired
<1>5. ASSUME NEW k \in 1 .. (n - 1) - 1, NEW c \in Clients
      PROVE  /\ inbox'[k] = HeadMsg(c) => inbox'[k + 1] = BodyMsg(c)
             /\ inbox'[k] = BodyMsg(c) => \E e \in Clients : inbox'[k + 1] = HeadMsg(e)
  <2>1. k \in 1 .. n - 1 /\ k + 1 \in 1 .. n - 1
    BY <1>2
  <2>2. inbox'[k] = inbox[k + 1] /\ inbox'[k + 1] = inbox[(k + 1) + 1]
    BY <1>2, <2>1
  <2> QED BY <2>1, <2>2 DEF Paired
<1> QED BY <1>2, <1>4, <1>5 DEF Paired

LEMMA ServerRecvHeadTidy ==
  ASSUME TypeOK, CalcInv, Tidy, ServerRecvHead
  PROVE  Tidy'
<1> DEFINE n == Len(inbox)
<1>1. /\ Paired /\ FirstOK /\ LastOK /\ Alone /\ DownOK /\ CallOK
      /\ \A e \in Clients : Live(e) => BoxOK(e)
      /\ \A e \in Clients : shown[e] \in {None, e}
  BY TidyParts
<1>2. /\ up /\ up' = up /\ spc = "recvHead" /\ spc' = "recvBody" /\ inbox # <<>>
      /\ reqLen' = MsgLen(Head(inbox).d) /\ inbox' = Tail(inbox)
      /\ peer' \in {Head(inbox).from, None}
      /\ cpc' = cpc /\ resLen' = resLen /\ shown' = shown /\ box' = box
  BY DEF ServerRecvHead
<1>3. PICK c \in Clients : inbox[1] = HeadMsg(c)
  BY <1>1, <1>2 DEF FirstOK
<1>4. /\ n \in Nat \ {0} /\ Head(inbox) = inbox[1]
      /\ inbox' # <<>> <=> n > 1
      /\ inbox' # <<>> => inbox'[1] = inbox[2] /\ inbox'[Len(inbox')] = inbox[n]
  <2>1. inbox \in Seq([from : Clients, d : Datagrams])
    BY DEF TypeOK
  <2> QED BY <1>2, <2>1, TailOf
<1>5. reqLen' = ReqSz[c] /\ peer' \in {c, None}
  BY <1>2, <1>3, <1>4, RequestFacts
<1>6. Announced(c)'
  BY <1>2, <1>5 DEF Announced
<1>7. \A e \in Clients : HalfSent(e)' <=> HalfSent(e)
  BY <1>2 DEF HalfSent
<1>8. Paired'
  BY <1>1, <1>2, PairedTail
<1>9. FirstOK'
  <2> SUFFICES ASSUME inbox' # <<>> PROVE inbox'[1] = BodyMsg(c)
    BY <1>2, <1>6 DEF FirstOK
  <2>1. 1 \in 1 .. n - 1 /\ 1 + 1 = 2
    BY <1>4
  <2>2. inbox[2] = BodyMsg(c)
    BY <1>1, <1>3, <2>1 DEF Paired
  <2> QED BY <1>4, <2>2
<1>10. LastOK'
  <2>1. ASSUME inbox' = <<>>
        PROVE  HalfSent(c) /\ \A e \in Clients : HalfSent(e) => e = c
    <3>1. n = 1
      <4>1. ~ (n > 1) /\ n \in Nat \ {0}
        BY <1>4, <2>1
      <4> HIDE DEF n
      <4> QED BY <4>1
    <3>2. HalfSent(c)
      BY <1>1, <1>2, <1>3, <3>1 DEF LastOK
    <3> QED BY <1>1, <3>2 DEF Alone
  <2>2. ASSUME inbox' # <<>>
        PROVE  \A e \in Clients : HalfSent(e) <=> inbox'[Len(inbox')] = HeadMsg(e)
    BY <1>1, <1>2, <1>4, <2>2 DEF LastOK
  <2> QED BY <1>2, <1>6, <1>7, <2>1, <2>2 DEF LastOK
<1>11. Alone'
  BY <1>1, <1>7 DEF Alone
<1>12. DownOK' /\ CallOK'
  BY <1>2 DEF DownOK, CallOK
<1>13. \A e \in Clients : Live(e)' => BoxOK(e)'
  BY <1>1, <1>2, BoxesStay DEF Live
<1> QED BY <1>1, <1>2, <1>8, <1>9, <1>10, <1>11, <1>12, <1>13 DEF Tidy, Live

LEMMA ServerRecvBodyTidy ==
  ASSUME TypeOK, CalcInv, Tidy, ServerRecvBody
  PROVE  Tidy'
<1> DEFINE n == Len(inbox)
<1>1. /\ Paired /\ FirstOK /\ LastOK /\ Alone /\ DownOK /\ CallOK
      /\ \A e \in Clients : Live(e) => BoxOK(e)
      /\ \A e \in Clients : shown[e] \in {None, e}
  BY TidyParts
<1>2. /\ up /\ up' = up /\ spc = "recvBody" /\ spc' = "make" /\ inbox # <<>>
      /\ inbox' = Tail(inbox) /\ peer' = peer /\ reqLen' = reqLen
      /\ req' = IF Head(inbox).d.kind = "body" /\ reqLen > 0 THEN Head(inbox).d.of ELSE Junk
      /\ cut' = ~ Holds(reqLen, Head(inbox).d)
      /\ cpc' = cpc /\ resLen' = resLen /\ shown' = shown /\ box' = box
  BY DEF ServerRecvBody
<1>3. PICK c \in Clients : Announced(c) /\ inbox[1] = BodyMsg(c)
  BY <1>1, <1>2 DEF FirstOK
<1>4. /\ n \in Nat \ {0} /\ Head(inbox) = inbox[1]
      /\ inbox' # <<>> <=> n > 1
      /\ inbox' # <<>> => inbox'[1] = inbox[2] /\ inbox'[Len(inbox')] = inbox[n]
  <2>1. inbox \in Seq([from : Clients, d : Datagrams])
    BY DEF TypeOK
  <2> QED BY <1>2, <2>1, TailOf
<1>5. reqLen = ReqSz[c] /\ reqLen > 0 /\ peer \in {c, None}
  BY <1>3, Messages DEF Announced
<1>6. req' = c /\ ~ cut'
  <2> DEFINE d == Head(inbox).d
  <2>1. d.kind = "body" /\ d.of = c /\ Holds(ReqSz[c], d)
    BY <1>3, <1>4, RequestFacts
  <2> HIDE DEF d
  <2>2. req' = IF d.kind = "body" /\ reqLen > 0 THEN d.of ELSE Junk
    BY <1>2 DEF d
  <2>3. cut' = ~ Holds(reqLen, d)
    BY <1>2 DEF d
  <2>4. req' = c
    BY <1>5, <2>1, <2>2
  <2>5. Holds(reqLen, d)
    BY <1>5, <2>1
  <2> QED BY <2>3, <2>4, <2>5
<1>7. \A e \in Clients : HalfSent(e)' <=> HalfSent(e)
  BY <1>2 DEF HalfSent
<1>8. Paired'
  BY <1>1, <1>2, PairedTail
<1>9. FirstOK'
  <2> SUFFICES ASSUME inbox' # <<>> PROVE \E e \in Clients : inbox'[1] = HeadMsg(e)
    BY <1>2 DEF FirstOK
  <2>1. 1 \in 1 .. n - 1 /\ 1 + 1 = 2
    BY <1>4
  <2> QED BY <1>1, <1>3, <1>4, <2>1 DEF Paired
<1>10. LastOK'
  <2>1. ASSUME inbox' = <<>>
        PROVE  \A e \in Clients : ~ HalfSent(e)
    <3>1. n = 1
      <4>1. ~ (n > 1) /\ n \in Nat \ {0}
        BY <1>4, <2>1
      <4> HIDE DEF n
      <4> QED BY <4>1
    <3>2. \A e \in Clients : inbox[n] # HeadMsg(e)
      BY <1>3, <3>1, RequestFacts
    <3> QED BY <1>1, <1>2, <3>2 DEF LastOK
  <2>2. ASSUME inbox' # <<>>
        PROVE  \A e \in Clients : HalfSent(e) <=> inbox'[Len(inbox')] = HeadMsg(e)
    BY <1>1, <1>2, <1>4, <2>2 DEF LastOK
  <2> QED BY <1>2, <1>7, <2>1, <2>2 DEF LastOK
<1>11. Alone'
  BY <1>1, <1>7 DEF Alone
<1>12. DownOK' /\ CallOK'
  BY <1>2, <1>5, <1>6 DEF DownOK, CallOK
<1>13. \A e \in Clients : Live(e)' => BoxOK(e)'
  BY <1>1, <1>2, BoxesStay DEF Live
<1> QED BY <1>1, <1>2, <1>8, <1>9, <1>10, <1>11, <1>12, <1>13 DEF Tidy, Live

LEMMA MakeResTidy ==
  ASSUME TypeOK, CalcInv, Tidy, MakeRes
  PROVE  Tidy'
<1>1. /\ Paired /\ FirstOK /\ LastOK /\ Alone /\ DownOK /\ CallOK
      /\ \A e \in Clients : Live(e) => BoxOK(e)
      /\ \A e \in Clients : shown[e] \in {None, e}
  BY TidyParts
<1>2. /\ up /\ up' = up /\ spc = "make" /\ spc' = "sendHead" /\ inbox' = inbox
      /\ peer' = peer /\ reqLen' = reqLen
      /\ cpc' = cpc /\ resLen' = resLen /\ shown' = shown /\ box' = box
  BY DEF MakeRes
<1>3. req \in Clients /\ ~ cut /\ peer \in {req, None} /\ req # Junk
  BY <1>1, <1>2, UdpAssumption DEF CallOK
<1>4. res' = [of |-> req, len |-> ResSz[req]]
  BY <1>3 DEF MakeRes
<1>5. CallOK' /\ DownOK'
  BY <1>2, <1>3, <1>4 DEF CallOK, DownOK
<1>6. Paired' /\ FirstOK' /\ LastOK' /\ Alone'
  BY <1>1, <1>2, QueueStays
<1>7. \A e \in Clients : Live(e)' => BoxOK(e)'
  BY <1>1, <1>2, BoxesStay DEF Live
<1> QED BY <1>1, <1>2, <1>5, <1>6, <1>7 DEF Tidy, Live

\* A datagram of the other kind is put behind the last one.
LEMMA AlternatesOn ==
  ASSUME NEW S, NEW q \in Seq(S), NEW e \in S,
         \A k \in 1 .. Len(q) - 1 : q[k] # q[k + 1],
         q # <<>> => q[Len(q)] # e
  PROVE  \A k \in 1 .. Len(Append(q, e)) - 1 : Append(q, e)[k] # Append(q, e)[k + 1]
<1> DEFINE n == Len(q)
           r == Append(q, e)
<1>1. /\ n \in Nat /\ Len(r) = n + 1
      /\ \A k \in 1 .. n : r[k] = q[k]
      /\ r[n + 1] = e
  BY AppendOf
<1>2. n # 0 => q # <<>>
  BY EmptySeq
<1>3. n # 0 => q[n] # e
  BY <1>2
<1>4. \A k \in 1 .. n - 1 : q[k] # q[k + 1]
  OBVIOUS
<1> HIDE DEF n, r
<1>5. ASSUME NEW k \in 1 .. n PROVE r[k] # r[k + 1]
  <2>1. CASE k = n
    BY <1>1, <1>3, <2>1
  <2>2. CASE k # n
    <3>1. k \in 1 .. n - 1 /\ k + 1 \in 1 .. n
      BY <1>1, <2>2
    <3> QED BY <1>1, <1>4, <3>1
  <2> QED BY <2>1, <2>2
<1>6. Len(r) - 1 = n
  BY <1>1
<1> QED BY <1>5, <1>6 DEF r

\* To whom the server sends.
LEMMA ToPeerFacts ==
  ASSUME TypeOK, NEW d, ToPeer(d)
  PROVE  /\ \A e \in Clients : e # peer \/ ~ Live(e) => box'[e] = box[e]
         /\ peer # None /\ Live(peer) => peer \in Clients /\ box'[peer] = Append(box[peer], d)
<1>1. peer # None => peer \in Clients
  BY DEF TypeOK
<1>2. CASE peer = None \/ ~ Live(peer)
  BY <1>2 DEF ToPeer, Live
<1>3. CASE peer # None /\ Live(peer)
  <2>1. box' = [box EXCEPT ![peer] = Append(@, d)] /\ box \in [Clients -> Seq(Datagrams)]
    BY <1>3 DEF ToPeer, Live, TypeOK
  <2> QED BY <1>1, <1>3, <2>1
<1> QED BY <1>2, <1>3

LEMMA ServerSendHeadTidy ==
  ASSUME TypeOK, CalcInv, Tidy, ServerSendHead
  PROVE  Tidy'
<1>1. /\ Paired /\ FirstOK /\ LastOK /\ Alone /\ DownOK /\ CallOK
      /\ \A e \in Clients : Live(e) => BoxOK(e)
      /\ \A e \in Clients : shown[e] \in {None, e}
  BY TidyParts
<1>2. /\ up /\ up' = up /\ spc = "sendHead" /\ spc' = "sendBody" /\ inbox' = inbox
      /\ peer' = peer /\ reqLen' = reqLen /\ res' = res
      /\ cpc' = cpc /\ resLen' = resLen /\ shown' = shown
      /\ ToPeer(Head2(res.of, res.len))
  BY DEF ServerSendHead
<1>3. CallOK' /\ DownOK'
  BY <1>1, <1>2 DEF CallOK, DownOK
<1>4. Paired' /\ FirstOK' /\ LastOK' /\ Alone'
  BY <1>1, <1>2, QueueStays
<1>5. ASSUME NEW e \in Clients, Live(e)', e # peer
      PROVE  BoxOK(e)'
  <2>1. box'[e] = box[e]
    BY <1>2, <1>5, ToPeerFacts
  <2> QED BY <1>1, <1>2, <1>5, <2>1, BoxStays DEF Live
<1>6. ASSUME NEW e \in Clients, Live(e)', e = peer
      PROVE  BoxOK(e)'
  <2> DEFINE q == box[e]
             h == HeadRes(e)
             S == {HeadRes(e), BodyRes(e)}
  <2>1. Live(e) /\ e # None
    BY <1>2, <1>6, UdpAssumption DEF Live
  <2>2. box'[e] = Append(q, h)
    <3>1. Head2(res.of, res.len) = h
      BY <1>1, <1>2, <1>6, <2>1 DEF CallOK, HeadRes
    <3> QED BY <1>2, <1>6, <2>1, <3>1, ToPeerFacts
  <2>3. /\ q \in Seq(S) /\ \A k \in 1 .. Len(q) - 1 : q[k] # q[k + 1]
        /\ q # <<>> => q[1] = IF cpc[e] = "recvBody" THEN BodyRes(e) ELSE h
        /\ cpc[e] = "recvBody" => resLen[e] = ResSz[e]
        /\ q = <<>> => cpc[e] # "recvBody"
        /\ q # <<>> => q[Len(q)] # h
    <3>1. BoxOK(e) /\ ~ Pending(e)
      BY <1>1, <1>2, <2>1 DEF BoxOK
    <3> QED BY <3>1 DEF BoxOK, Pending
  <2>4. h \in S
    OBVIOUS
  <2> HIDE DEF q, h, S
  <2>5. \A k \in 1 .. Len(Append(q, h)) - 1 : Append(q, h)[k] # Append(q, h)[k + 1]
    BY <2>3, <2>4, AlternatesOn
  <2>6. /\ Append(q, h) \in Seq(S) /\ Append(q, h) # <<>>
        /\ Append(q, h)[Len(Append(q, h))] = h
        /\ q = <<>> => Append(q, h)[1] = h
        /\ q # <<>> => Append(q, h)[1] = q[1]
    BY <2>3, <2>4, AppendOf
  <2>7. Append(q, h)[1] = IF cpc'[e] = "recvBody" THEN BodyRes(e) ELSE h
    BY <1>2, <2>3, <2>6
  <2>8. Pending(e)'
    BY <2>2, <2>6 DEF Pending, h
  <2> QED BY <1>2, <1>6, <2>2, <2>3, <2>5, <2>6, <2>7, <2>8 DEF BoxOK, S, h
<1> QED BY <1>1, <1>2, <1>3, <1>4, <1>5, <1>6 DEF Tidy, Live

LEMMA ServerSendBodyTidy ==
  ASSUME TypeOK, CalcInv, Tidy, ServerSendBody
  PROVE  Tidy'
<1>1. /\ Paired /\ FirstOK /\ LastOK /\ Alone /\ DownOK /\ CallOK
      /\ \A e \in Clients : Live(e) => BoxOK(e)
      /\ \A e \in Clients : shown[e] \in {None, e}
  BY TidyParts
<1>2. /\ up /\ up' = up /\ spc = "sendBody" /\ spc' = "recvHead" /\ inbox' = inbox
      /\ cpc' = cpc /\ resLen' = resLen /\ shown' = shown
      /\ ToPeer(Body2(res.of, res.len))
  BY DEF ServerSendBody
<1>3. CallOK' /\ DownOK'
  BY <1>2 DEF CallOK, DownOK
<1>4. Paired' /\ FirstOK' /\ LastOK' /\ Alone'
  BY <1>1, <1>2, QueueStays
<1>5. ASSUME NEW e \in Clients, Live(e)', e # peer
      PROVE  BoxOK(e)'
  <2>1. box'[e] = box[e]
    BY <1>2, <1>5, ToPeerFacts
  <2> QED BY <1>1, <1>2, <1>5, <2>1, BoxStays DEF Live
<1>6. ASSUME NEW e \in Clients, Live(e)', e = peer
      PROVE  BoxOK(e)'
  <2> DEFINE q == box[e]
             b == BodyRes(e)
             S == {HeadRes(e), BodyRes(e)}
  <2>1. Live(e) /\ e # None
    BY <1>2, <1>6, UdpAssumption DEF Live
  <2>2. box'[e] = Append(q, b)
    <3>1. Body2(res.of, res.len) = b
      BY <1>1, <1>2, <1>6, <2>1 DEF CallOK, BodyRes
    <3> QED BY <1>2, <1>6, <2>1, <3>1, ToPeerFacts
  <2>3. /\ q \in Seq(S) /\ \A k \in 1 .. Len(q) - 1 : q[k] # q[k + 1]
        /\ q # <<>> => q[1] = IF cpc[e] = "recvBody" THEN b ELSE HeadRes(e)
        /\ cpc[e] = "recvBody" => resLen[e] = ResSz[e]
        /\ q = <<>> => cpc[e] = "recvBody"
        /\ q # <<>> => q[Len(q)] # b
    <3>1. BoxOK(e) /\ Pending(e)
      BY <1>1, <1>2, <1>6, <2>1 DEF BoxOK
    <3> QED BY <3>1, ResultFacts DEF BoxOK, Pending
  <2>4. b \in S
    OBVIOUS
  <2> HIDE DEF q, b, S
  <2>5. \A k \in 1 .. Len(Append(q, b)) - 1 : Append(q, b)[k] # Append(q, b)[k + 1]
    BY <2>3, <2>4, AlternatesOn
  <2>6. /\ Append(q, b) \in Seq(S) /\ Append(q, b) # <<>>
        /\ Append(q, b)[Len(Append(q, b))] = b
        /\ q = <<>> => Append(q, b)[1] = b
        /\ q # <<>> => Append(q, b)[1] = q[1]
    BY <2>3, <2>4, AppendOf
  <2>7. Append(q, b)[1] = IF cpc'[e] = "recvBody" THEN b ELSE HeadRes(e)
    BY <1>2, <2>3, <2>6
  <2>8. ~ Pending(e)'
    <3>1. b # HeadRes(e)
      BY ResultFacts DEF b
    <3> QED BY <2>2, <2>6, <3>1 DEF Pending
  <2> QED BY <1>2, <2>2, <2>3, <2>5, <2>6, <2>7, <2>8 DEF BoxOK, S, b
<1> QED BY <1>1, <1>2, <1>3, <1>4, <1>5, <1>6 DEF Tidy, Live

LEMMA DieTidy ==
  ASSUME TypeOK, CalcInv, Tidy, Die
  PROVE  Tidy'
<1>1. /\ Alone /\ CallOK
      /\ \A e \in Clients : Live(e) => BoxOK(e)
      /\ \A e \in Clients : shown[e] \in {None, e}
  BY TidyParts
<1>2. /\ ~ up' /\ spc = "make" /\ spc' = "make" /\ inbox' = <<>>
      /\ peer' = peer /\ req' = req /\ cut' = cut
      /\ cpc' = cpc /\ resLen' = resLen /\ shown' = shown /\ box' = box
  BY DEF Die
<1>3. Len(inbox') = 0
  BY <1>2, EmptySeq
<1>4. Paired' /\ FirstOK' /\ LastOK' /\ DownOK'
  BY <1>2, <1>3 DEF Paired, FirstOK, LastOK, DownOK
<1>5. Alone' /\ CallOK'
  BY <1>1, <1>2 DEF Alone, HalfSent, CallOK
<1>6. \A e \in Clients : Live(e)' => BoxOK(e)'
  BY <1>1, <1>2, BoxesStay DEF Live
<1> QED BY <1>1, <1>2, <1>4, <1>5, <1>6 DEF Tidy, Live

\* Every step of the calculator keeps it tidy, or is a mishap.
LEMMA CalcStep ==
  ASSUME TypeOK, CalcInv, [Next]_vars
  PROVE  CalcInv'
<1> DEFINE Fine == mishaps \ {"unaddressed"} = {}
           Modes == /\ spc' \in {"recvHead", "recvBody", "make", "sendHead", "sendBody"}
                    /\ cpc' \in [Clients -> {"typing", "sendBody", "recvHead", "recvBody", "done", "gone"}]
<1>1. ASSUME NEW c \in Clients, SendHead(c)
      PROVE  CalcInv'
  <2>1. Modes
    BY <1>1 DEF SendHead, CalcInv
  <2>2. Fine' => Fine /\ \A e \in Clients : ~ HalfSent(e)
    BY <1>1 DEF SendHead
  <2>3. Fine' => Tidy'
    BY <1>1, <2>2, SendHeadTidy DEF CalcInv
  <2> QED BY <2>1, <2>3 DEF CalcInv
<1>2. ASSUME NEW c \in Clients, SendBody(c)
      PROVE  CalcInv'
  <2>1. Modes /\ (Fine' => Fine)
    BY <1>2 DEF SendBody, CalcInv
  <2>2. Fine' => Tidy'
    BY <1>2, <2>1, SendBodyTidy DEF CalcInv
  <2> QED BY <2>1, <2>2 DEF CalcInv
<1>3. ASSUME NEW c \in Clients, RecvHead(c)
      PROVE  CalcInv'
  <2>1. Modes /\ (Fine' => Fine)
    BY <1>3 DEF RecvHead, CalcInv
  <2>2. Fine' => Tidy'
    BY <1>3, <2>1, RecvHeadTidy DEF CalcInv
  <2> QED BY <2>1, <2>2 DEF CalcInv
<1>4. ASSUME NEW c \in Clients, RecvBody(c)
      PROVE  CalcInv'
  <2>1. Modes /\ (Fine' => Fine)
    BY <1>4 DEF RecvBody, CalcInv
  <2>2. Fine' => Tidy'
    BY <1>4, <2>1, RecvBodyTidy DEF CalcInv
  <2> QED BY <2>1, <2>2 DEF CalcInv
<1>5. ASSUME NEW c \in Clients, Vanish(c)
      PROVE  CalcInv'
  <2>1. Modes
    BY <1>5 DEF Vanish, CalcInv
  <2>2. Fine' => Fine /\ ~ HalfSent(c)
    BY <1>5 DEF Vanish
  <2>3. Fine' => Tidy'
    BY <1>5, <2>2, VanishTidy DEF CalcInv
  <2> QED BY <2>1, <2>3 DEF CalcInv
<1>6. ASSUME NetFault
      PROVE  CalcInv'
  <2>1. Modes
    BY <1>6 DEF NetFault, CalcInv
  <2>2. PICK kind \in Faults : mishaps' = mishaps \cup {kind}
    BY <1>6 DEF NetFault
  <2>3. kind # "unaddressed"
    BY UdpAssumption
  <2>4. ~ Fine'
    BY <2>2, <2>3
  <2> QED BY <2>1, <2>4 DEF CalcInv
<1>7. ASSUME ServerRecvHead
      PROVE  CalcInv'
  <2>1. Modes /\ (Fine' => Fine)
    BY <1>7 DEF ServerRecvHead, CalcInv
  <2>2. Fine' => Tidy'
    BY <1>7, <2>1, ServerRecvHeadTidy DEF CalcInv
  <2> QED BY <2>1, <2>2 DEF CalcInv
<1>8. ASSUME ServerRecvBody
      PROVE  CalcInv'
  <2>1. Modes /\ (Fine' => Fine)
    BY <1>8 DEF ServerRecvBody, CalcInv
  <2>2. Fine' => Tidy'
    BY <1>8, <2>1, ServerRecvBodyTidy DEF CalcInv
  <2> QED BY <2>1, <2>2 DEF CalcInv
<1>9. ASSUME MakeRes
      PROVE  CalcInv'
  <2>1. Modes /\ (Fine' => Fine)
    BY <1>9 DEF MakeRes, CalcInv
  <2>2. Fine' => Tidy'
    BY <1>9, <2>1, MakeResTidy DEF CalcInv
  <2> QED BY <2>1, <2>2 DEF CalcInv
<1>10. ASSUME ServerSendHead
       PROVE  CalcInv'
  <2>1. Modes /\ (Fine' => Fine)
    BY <1>10 DEF ServerSendHead, CalcInv
  <2>2. Fine' => Tidy'
    BY <1>10, <2>1, ServerSendHeadTidy DEF CalcInv
  <2> QED BY <2>1, <2>2 DEF CalcInv
<1>11. ASSUME ServerSendBody
       PROVE  CalcInv'
  <2>1. Modes /\ (Fine' => Fine)
    BY <1>11 DEF ServerSendBody, CalcInv
  <2>2. Fine' => Tidy'
    BY <1>11, <2>1, ServerSendBodyTidy DEF CalcInv
  <2> QED BY <2>1, <2>2 DEF CalcInv
<1>12. ASSUME Die
       PROVE  CalcInv'
  <2>1. Modes /\ (Fine' => Fine)
    BY <1>12 DEF Die, CalcInv
  <2>2. Fine' => Tidy'
    BY <1>12, <2>1, DieTidy DEF CalcInv
  <2> QED BY <2>1, <2>2 DEF CalcInv
<1>13. CASE UNCHANGED vars
  <2>1. Modes /\ mishaps' = mishaps
    BY <1>13 DEF vars, CalcInv
  <2>2. Tidy => Tidy'
    <3> SUFFICES ASSUME Tidy PROVE Tidy'
      OBVIOUS
    <3>1. /\ inbox' = inbox /\ up' = up /\ cpc' = cpc /\ spc' = spc /\ reqLen' = reqLen
          /\ peer' = peer /\ req' = req /\ cut' = cut /\ res' = res
          /\ box' = box /\ resLen' = resLen /\ shown' = shown
      BY <1>13 DEF vars
    <3>2. Paired' /\ FirstOK' /\ LastOK' /\ Alone'
      BY <3>1, TidyParts, QueueStays
    <3>3. DownOK' /\ CallOK'
      BY <3>1, TidyParts DEF DownOK, CallOK
    <3>4. \A e \in Clients : Live(e)' => BoxOK(e)'
      BY <3>1, TidyParts, BoxesStay DEF Live
    <3> QED BY <3>1, <3>2, <3>3, <3>4 DEF Tidy, Live
  <2> QED BY <2>1, <2>2 DEF CalcInv
<1>14. ASSUME NEW c \in Clients
       PROVE  ~ SendEcho(c) /\ ~ RecvEcho(c)
  BY DEF SendEcho, RecvEcho, CalcInv
<1>15. ~ ServerRecvEcho /\ ~ ServerSendEcho
  BY DEF ServerRecvEcho, ServerSendEcho, CalcInv
<1> QED BY <1>1, <1>2, <1>3, <1>4, <1>5, <1>6, <1>7, <1>8, <1>9, <1>10, <1>11, <1>12, <1>13,
       <1>14, <1>15 DEF Next, ServerStep, ClientRuns

-----------------------------------------------------------------------------
(* The theorems *)

LEMMA UdpStart ==
  ASSUME Init
  PROVE  UdpInv
<1>1. TypeOK /\ SizesOK
  BY TypeStart
<1>2. inbox = <<>> /\ Len(inbox) = 0 /\ up /\ mishaps = {}
  BY EmptySeq DEF Init
<1>3. ASSUME EchoStarts
      PROVE  EchoInv
  <2>1. inbox \in Seq(EchoMsgs)
    BY <1>2, EmptySeq
  <2>2. \A c \in Clients : box[c] \in Seq({Body2(c, MsgSz)})
    BY EmptySeq DEF Init
  <2> QED BY <1>3, <2>1, <2>2 DEF Init, EchoStarts, EchoInv
<1>4. ASSUME CalStarts
      PROVE  CalcInv
  <2>1. spc = "recvHead" /\ \A c \in Clients : cpc[c] = "typing" /\ box[c] = <<>> /\ shown[c] = None
    BY <1>4 DEF Init, CalStarts
  <2>2. Paired /\ FirstOK /\ LastOK /\ Alone /\ DownOK /\ CallOK
    BY <1>2, <2>1 DEF Paired, FirstOK, LastOK, Alone, HalfSent, DownOK, CallOK
  <2>3. ASSUME NEW c \in Clients
        PROVE  BoxOK(c)
    <3>1. box[c] \in Seq({HeadRes(c), BodyRes(c)}) /\ Len(box[c]) = 0
      BY <2>1, EmptySeq
    <3> QED BY <2>1, <3>1 DEF BoxOK, Pending
  <2>4. Tidy
    BY <2>1, <2>2, <2>3 DEF Tidy
  <2> QED BY <1>4, <2>4 DEF CalcInv, CalStarts
<1> QED BY <1>1, <1>3, <1>4 DEF Init, UdpInv

LEMMA UdpInvariant == Spec => []UdpInv
<1>1. Init => UdpInv
  BY UdpStart
<1>2. ASSUME UdpInv, [Next]_vars
      PROVE  UdpInv'
  BY <1>2, TypeStep, EchoStep, CalcStep DEF UdpInv
<1> QED BY <1>1, <1>2, PTL DEF Spec

\* Whatever the network does, every datagram has a sender and a size, and no header
\* announces an empty result (RecvReq, SendRes, EchoServer::HandleIoEvent).
THEOREM TypeCorrect == Spec => []TypeOK
<1>1. UdpInv => TypeOK
  BY DEF UdpInv
<1> QED BY <1>1, UdpInvariant, PTL

\* For any number of clients and any sizes of their requests and results: a client of
\* the calculator is shown another result than its own only after two have sent at
\* once, one was killed between its two datagrams, or the network lost, duplicated or
\* reordered one; a client of the echo never is (SendReq, RecvReq, RecvRes).
THEOREM MixExplainedAlways == Spec => []MixExplained
<1>1. UdpInv => MixExplained
  <2>1. EchoInv => MixExplained
    BY DEF EchoInv, MixExplained
  <2>2. CalcInv => MixExplained
    BY DEF CalcInv, Tidy, MixExplained
  <2> QED BY <2>1, <2>2 DEF UdpInv
<1> QED BY <1>1, UdpInvariant, PTL
=============================================================================
