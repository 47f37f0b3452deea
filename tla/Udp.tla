---------------------------------- MODULE Udp ----------------------------------
(***************************************************************************)
(* The UDP programs of chapter06: the echo of demo-01 and the calculator   *)
(* of demo-02, one server socket and one client process per member of      *)
(* Clients.  An echo is one datagram each way.  A message of the           *)
(* calculator is two datagrams, a header that announces the length of the  *)
(* body and the body.  The server takes a datagram as a header and         *)
(* remembers who sent it, takes the next one as the body without asking    *)
(* who sent that, and answers the first sender.                            *)
(*                                                                         *)
(* A body is named by the client whose message or request it is, or whose  *)
(* result; Junk is a request parsed from other bytes, and what is computed *)
(* of it.  Which program runs is chosen in the initial state and shows in  *)
(* the states of its processes.                                            *)
(***************************************************************************)
EXTENDS Integers, Sequences, SequencesExt

CONSTANTS
  Clients,    \* the client processes, one call each
  ReqSz,      \* size of the serialized CalReq of each client
  ResSz,      \* size of the serialized CalRes that answers it
  JunkSzs,    \* sizes a CalRes for a junk request may have
  Trapping,   \* clients whose request makes the division raise SIGFPE
  MayVanish,  \* clients that may be killed during their call
  Faults,     \* what the network may do: "lose", "duplicate", "reorder"
  MaxFaults,  \* bound: how many times it does
  AddrLens,   \* what clnt_addr_len, never written before recvfrom() reads it,
              \* may hold: TRUE if enough for an address
  Junk,
  None        \* no client

ASSUME UdpAssumption ==
  /\ ReqSz \in [Clients -> Nat \ {0}]
  /\ ResSz \in [Clients -> Nat \ {0}]
  /\ JunkSzs \subseteq Nat \ {0}
  /\ Trapping \subseteq Clients
  /\ MayVanish \subseteq Clients
  /\ Faults \subseteq {"lose", "duplicate", "reorder"}
  /\ MaxFaults \in Nat
  /\ AddrLens \subseteq BOOLEAN
  /\ Junk \notin Clients /\ None \notin Clients /\ Junk # None

VARIABLES
  up,      \* the server process runs
  inbox,   \* datagrams on their way to the server, with their senders
  box,     \* datagrams on their way to each client
  cpc,     \* where each client is in its call
  resLen,  \* res_len of each client
  shown,   \* whose result ShowRes printed
  spc,     \* where the server is in HandleIoEvent
  peer,    \* clnt_addr of the server, None when nothing was stored there
  reqLen,  \* req_len of the server
  req,     \* whose request it parsed
  cut,     \* the request did not fit in req_len bytes
  res,     \* whose result MakeRes computed, and its size
  faults,  \* how often the network has done something
  mishaps  \* what kinds of things have gone wrong so far; the code does not
           \* have this variable and nothing depends on it

clientVars == <<cpc, resLen, shown>>
callVars == <<peer, reqLen, req, cut, res>> \* the locals of HandleIoEvent
serverVars == <<up, spc, callVars>>
vars == <<clientVars, serverVars, inbox, box, faults, mishaps>>

Owners == Clients \cup {Junk}
Datagrams == [kind : {"head", "body"}, of : Owners, len : Nat \ {0}]

TypeOK ==
  /\ up \in BOOLEAN
  /\ inbox \in Seq([from : Clients, d : Datagrams])
  /\ box \in [Clients -> Seq(Datagrams)]
  /\ cpc \in [Clients -> {"typing", "sendBody", "recvHead", "recvBody",
                          "sendEcho", "recvEcho", "done", "gone"}]
  /\ resLen \in [Clients -> Nat]
  /\ shown \in [Clients -> Owners \cup {None}]
  /\ spc \in {"recvHead", "recvBody", "make", "sendHead", "sendBody",
              "recvEcho", "sendEcho"}
  /\ peer \in Clients \cup {None}
  /\ reqLen \in Nat
  /\ req \in Owners
  /\ cut \in BOOLEAN
  /\ res \in [of : Owners, len : Nat]
  /\ faults \in 0 .. MaxFaults
  /\ mishaps \subseteq {"lose", "duplicate", "reorder", "interleave", "unaddressed"}

\* The calculator or the echo: either server has bound its port.
CalStarts ==
  /\ cpc = [c \in Clients |-> "typing"]
  /\ spc = "recvHead"

EchoStarts ==
  /\ cpc = [c \in Clients |-> "sendEcho"]
  /\ spc = "recvEcho"

Init ==
  /\ up = TRUE
  /\ inbox = <<>>
  /\ box = [c \in Clients |-> <<>>]
  /\ CalStarts \/ EchoStarts
  /\ resLen = [c \in Clients |-> 0]
  /\ shown = [c \in Clients |-> None]
  /\ peer = None
  /\ reqLen = 0
  /\ req = Junk
  /\ cut = FALSE
  /\ res = [of |-> Junk, len |-> 0]
  /\ faults = 0
  /\ mishaps = {}

-----------------------------------------------------------------------------
(* Reading a datagram *)

\* Faulty variant of MsgLen: -1 stands for a header that did not parse.
MsgLenOrError(d) == IF d.kind = "head" THEN d.len ELSE -1

\* msg_len as parsed from the first HEADER_LEN bytes of a datagram.  The bytes
\* of a CalReq or CalRes have no field a CalHeader knows: its default, zero.
MsgLen(d) == IF d.kind = "head" THEN d.len ELSE 0

\* A buffer of n bytes holds the whole message the datagram carries.
Holds(n, d) == d.kind = "body" /\ d.len <= n

\* What is parsed from a buffer of n bytes that took the datagram.  A shorter
\* body leaves zeros behind it, which end the parse after the last field.
Parsed(n, d) == IF Holds(n, d) THEN d.of ELSE Junk

Head2(of, len) == [kind |-> "head", of |-> of, len |-> len]
Body2(of, len) == [kind |-> "body", of |-> of, len |-> len]

\* The length of msg, and BUF_SZ of the echo programs.
MsgSz == 37
BufSz == 128

-----------------------------------------------------------------------------
(* The client of the calculator *)

\* sendto() the server; when nobody has bound the port the datagram is lost
\* and the client is not told.
ToServer(c, d) == inbox' = IF up THEN Append(inbox, [from |-> c, d |-> d]) ELSE inbox

\* Between the two datagrams of c those of another client are not expected.
HalfSent(c) == cpc[c] = "sendBody"

\* MakeReq has read the request; SendReq's first sendto().
SendHead(c) ==
  /\ cpc[c] = "typing"
  /\ ToServer(c, Head2(c, ReqSz[c]))
  /\ cpc' = [cpc EXCEPT ![c] = "sendBody"]
  /\ mishaps' = IF \E d \in Clients : HalfSent(d) THEN mishaps \cup {"interleave"} ELSE mishaps
  /\ UNCHANGED <<resLen, shown, serverVars, box, faults>>

\* SendReq's second sendto().
SendBody(c) ==
  /\ cpc[c] = "sendBody"
  /\ ToServer(c, Body2(c, ReqSz[c]))
  /\ cpc' = [cpc EXCEPT ![c] = "recvHead"]
  /\ UNCHANGED <<resLen, shown, serverVars, box, faults, mishaps>>

\* RecvRes's first recvfrom(), of HEADER_LEN bytes.
RecvHead(c) ==
  /\ cpc[c] = "recvHead"
  /\ box[c] # <<>>
  /\ resLen' = [resLen EXCEPT ![c] = MsgLen(Head(box[c]))]
  /\ box' = [box EXCEPT ![c] = Tail(@)]
  /\ cpc' = [cpc EXCEPT ![c] = "recvBody"]
  /\ UNCHANGED <<shown, serverVars, inbox, faults, mishaps>>

\* RecvRes's second recvfrom(), then ShowRes; the client ends, and what else
\* comes to its socket is dropped.
RecvBody(c) ==
  /\ cpc[c] = "recvBody"
  /\ box[c] # <<>>
  /\ shown' = [shown EXCEPT ![c] = Parsed(resLen[c], Head(box[c]))]
  /\ resLen' = [resLen EXCEPT ![c] = 0]
  /\ box' = [box EXCEPT ![c] = <<>>]
  /\ cpc' = [cpc EXCEPT ![c] = "done"]
  /\ UNCHANGED <<serverVars, inbox, faults, mishaps>>

\* The user kills the client.  A header without a body stays behind: whoever
\* sends next does so into the middle of this call.
Vanish(c) ==
  /\ c \in MayVanish
  /\ cpc[c] \in {"sendBody", "recvHead", "recvBody", "recvEcho"}
  /\ cpc' = [cpc EXCEPT ![c] = "gone"]
  /\ mishaps' = IF HalfSent(c) THEN mishaps \cup {"interleave"} ELSE mishaps
  /\ resLen' = [resLen EXCEPT ![c] = 0]
  /\ box' = [box EXCEPT ![c] = <<>>]
  /\ UNCHANGED <<shown, serverVars, inbox, faults>>

-----------------------------------------------------------------------------
(* The client of the echo *)

\* The one sendto().
SendEcho(c) ==
  /\ cpc[c] = "sendEcho"
  /\ ToServer(c, Body2(c, MsgSz))
  /\ cpc' = [cpc EXCEPT ![c] = "recvEcho"]
  /\ UNCHANGED <<resLen, shown, serverVars, box, faults, mishaps>>

\* recvfrom() into the whole buffer, and the text is printed.
RecvEcho(c) ==
  /\ cpc[c] = "recvEcho"
  /\ box[c] # <<>>
  /\ shown' = [shown EXCEPT ![c] = Parsed(BufSz, Head(box[c]))]
  /\ box' = [box EXCEPT ![c] = <<>>]
  /\ cpc' = [cpc EXCEPT ![c] = "done"]
  /\ UNCHANGED <<resLen, serverVars, inbox, faults, mishaps>>

-----------------------------------------------------------------------------
(* The network *)

\* What becomes of a queue when the network does one thing to it.
Disturbed(kind, q) ==
  CASE kind = "lose" -> {RemoveAt(q, k) : k \in 1 .. Len(q)}
    [] kind = "duplicate" -> {Append(q, q[k]) : k \in 1 .. Len(q)}
    [] kind = "reorder" -> {ReplaceAt(ReplaceAt(q, k, q[k + 1]), k + 1, q[k]) :
                              k \in 1 .. Len(q) - 1}

NetFault ==
  /\ faults < MaxFaults
  /\ faults' = faults + 1
  /\ \E kind \in Faults :
       /\ \/ /\ inbox' \in Disturbed(kind, inbox)
             /\ UNCHANGED box
          \/ /\ \E c \in Clients : \E q \in Disturbed(kind, box[c]) :
                  box' = [box EXCEPT ![c] = q]
             /\ UNCHANGED inbox
       /\ mishaps' = mishaps \cup {kind}
  /\ UNCHANGED <<clientVars, serverVars>>

-----------------------------------------------------------------------------
(* CalServer::HandleIoEvent, EchoServer::HandleIoEvent *)

\* RecvReq's first recvfrom().  When clnt_addr_len holds less than the size of
\* an address the sender's is not stored, or not whole; clnt_addr is zero where
\* nothing is stored.  A port without its IP address makes the answer go to the
\* server's own host: to the client if it is there, as with the whole address,
\* or to nobody, as with none.
ServerRecvHead ==
  /\ up
  /\ spc = "recvHead"
  /\ inbox # <<>>
  /\ \E roomy \in AddrLens :
       /\ peer' = IF roomy THEN Head(inbox).from ELSE None
       /\ mishaps' = IF roomy THEN mishaps ELSE mishaps \cup {"unaddressed"}
  /\ reqLen' = MsgLen(Head(inbox).d)
  /\ inbox' = Tail(inbox)
  /\ spc' = "recvBody"
  /\ UNCHANGED <<clientVars, up, req, cut, res, box, faults>>

\* RecvReq's second recvfrom(), whoever sent it.
ServerRecvBody ==
  /\ up
  /\ spc = "recvBody"
  /\ inbox # <<>>
  /\ LET d == Head(inbox).d
     IN /\ req' = IF d.kind = "body" /\ reqLen > 0 THEN d.of ELSE Junk
        /\ cut' = ~ Holds(reqLen, d)
  /\ inbox' = Tail(inbox)
  /\ spc' = "make"
  /\ UNCHANGED <<clientVars, up, peer, reqLen, res, box, faults, mishaps>>

\* A request of which the end is missing has fewer operands.
MakeRes ==
  /\ up
  /\ spc = "make"
  /\ cut \/ req \notin Trapping
  /\ IF cut \/ req = Junk
     THEN \E n \in JunkSzs : res' = [of |-> Junk, len |-> n]
     ELSE res' = [of |-> req, len |-> ResSz[req]]
  /\ spc' = "sendHead"
  /\ UNCHANGED <<clientVars, up, peer, reqLen, req, cut, inbox, box, faults, mishaps>>

\* sendto() the address remembered; without one it fails with EINVAL.  Nobody
\* receives what is sent to a client that has ended.
ToPeer(d) ==
  box' = IF peer = None \/ cpc[peer] \in {"done", "gone"}
         THEN box
         ELSE [box EXCEPT ![peer] = Append(@, d)]

\* Faulty variant of ServerSendHead: one byte less is announced.
ServerSendHeadLess ==
  /\ up
  /\ spc = "sendHead"
  /\ ToPeer(Head2(res.of, res.len - 1))
  /\ spc' = "sendBody"
  /\ UNCHANGED <<clientVars, up, callVars, inbox, faults, mishaps>>

\* SendRes's first sendto().
ServerSendHead ==
  /\ up
  /\ spc = "sendHead"
  /\ ToPeer(Head2(res.of, res.len))
  /\ spc' = "sendBody"
  /\ UNCHANGED <<clientVars, up, callVars, inbox, faults, mishaps>>

\* HandleIoEvent returns; nothing is left in its locals for the next call.
FreshCall ==
  /\ peer' = None
  /\ reqLen' = 0
  /\ req' = Junk
  /\ cut' = FALSE
  /\ res' = [of |-> Junk, len |-> 0]

\* Faulty variant of ServerSendBody: the loop goes on with the body of a call.
ServerSendBodyStays ==
  /\ up
  /\ spc = "sendBody"
  /\ ToPeer(Body2(res.of, res.len))
  /\ spc' = "recvBody"
  /\ UNCHANGED <<clientVars, up, callVars, inbox, faults, mishaps>>

\* SendRes's second sendto(); EventLoop calls HandleIoEvent again.
ServerSendBody ==
  /\ up
  /\ spc = "sendBody"
  /\ ToPeer(Body2(res.of, res.len))
  /\ spc' = "recvHead"
  /\ FreshCall
  /\ UNCHANGED <<clientVars, up, inbox, faults, mishaps>>

\* SIGFPE ends the server; datagrams nobody has read are dropped.
Die ==
  /\ up
  /\ spc = "make"
  /\ req \in Trapping
  /\ up' = FALSE
  /\ inbox' = <<>>
  /\ UNCHANGED <<clientVars, spc, callVars, box, faults, mishaps>>

\* The echo's recvfrom(), with room for an address.
ServerRecvEcho ==
  /\ spc = "recvEcho"
  /\ inbox # <<>>
  /\ peer' = Head(inbox).from
  /\ req' = Parsed(BufSz, Head(inbox).d)
  /\ inbox' = Tail(inbox)
  /\ spc' = "sendEcho"
  /\ UNCHANGED <<clientVars, up, reqLen, cut, res, box, faults, mishaps>>

\* The same bytes go back to where they came from.
ServerSendEcho ==
  /\ spc = "sendEcho"
  /\ ToPeer(Body2(req, MsgSz))
  /\ spc' = "recvEcho"
  /\ FreshCall
  /\ UNCHANGED <<clientVars, up, inbox, faults, mishaps>>

ServerStep ==
  \/ ServerRecvHead
  \/ ServerRecvBody
  \/ MakeRes
  \/ ServerSendHead
  \/ ServerSendBody
  \/ ServerRecvEcho
  \/ ServerSendEcho
  \/ Die

\* What a client does without its user.
ClientRuns(c) ==
  \/ SendBody(c)
  \/ RecvHead(c)
  \/ RecvBody(c)
  \/ RecvEcho(c)

Next ==
  \/ ServerStep
  \/ NetFault
  \/ \E c \in Clients : SendHead(c) \/ SendEcho(c) \/ ClientRuns(c) \/ Vanish(c)

Spec == Init /\ [][Next]_vars

\* The server and the clients run when they can.
FairSpec == Spec /\ WF_vars(ServerStep) /\ \A c \in Clients : WF_vars(ClientRuns(c))

-----------------------------------------------------------------------------
(* Properties *)

\* A client of the calculator that shows anything but its own result has been
\* mixed up with another one that sent between its two datagrams, or a datagram
\* was lost, duplicated or overtaken, at any time before: the framing by two
\* datagrams and a length is right as long as every pair arrives as it was sent.
\* A client of the echo never shows anything but the answer to its own message,
\* whatever the network does: there each datagram carries all the server needs.
MixExplained ==
  \A c \in Clients :
    shown[c] \notin {None, c} =>
      /\ mishaps \ {"unaddressed"} # {}
      /\ spc \notin {"recvEcho", "sendEcho"}

\* A request that arrived as it was sent is answered, unless its client is
\* killed or a division by zero has ended the server.  A message to the echo is
\* answered unless it or its answer is lost: that others send at the same time,
\* duplicates and reordering do not keep it from it.
SenderServed ==
  \A c \in Clients :
    /\ cpc[c] = "sendBody" ~> \/ shown[c] = c
                              \/ cpc[c] = "gone"
                              \/ mishaps # {}
                              \/ ~ up
    /\ cpc[c] = "recvEcho" ~> \/ shown[c] = c
                              \/ cpc[c] = "gone"
                              \/ "lose" \in mishaps

\* The README of chapter06 says that recvfrom() gets the sender's address only
\* if its length is initialised to the size of the structure, and that the
\* sendto() that follows fails otherwise.  Were it done here as it is in the
\* echo, a calculator client whose datagrams the network left alone, and which
\* nobody sent between, would have its own result.
AnsweredUnlessMixed ==
  \A c \in Clients :
    cpc[c] = "sendBody" ~> \/ shown[c] = c
                           \/ cpc[c] = "gone"
                           \/ mishaps \ {"unaddressed"} # {}
                           \/ ~ up
=============================================================================
