------------------------------ MODULE EchoStream ------------------------------
(***************************************************************************)
(* The byte-stream demos before the calculator.  An iterative server and   *)
(* clients that each make one connection; what is sent is one message of   *)
(* MsgLen bytes, written with one write().  The demos differ in how the    *)
(* two ends read:                                                          *)
(*   "hello"  chapter01/demo-01: the server writes and closes, the client  *)
(*            reads once                                                   *)
(*   "once"   chapter04/demo-01 and demo-02: server and client read once   *)
(*   "loop"   chapter05/demo-01 and old-demo/demo-01 to demo-03: the       *)
(*            server echoes until its read ends, the client reads until it *)
(*            has the whole message                                        *)
(*   "call"   old-demo/demo-05 and demo-05-a: the message is a request for *)
(*            3 * 4, the server reads once and answers if the request is   *)
(*            whole, the client reads once                                 *)
(* Streams are counters, as in CalConn: the position of a byte is its      *)
(* content.                                                                *)
(***************************************************************************)
EXTENDS Integers, Sequences

CONSTANTS
  Clients,
  MsgLen,     \* length of the message
  BufSz,      \* BUF_SZ of the client
  Backlog,    \* second argument of listen()
  MayVanish,  \* clients that may be killed while connected
  Demos,      \* which of the demos
  None        \* no connection

ASSUME EchoAssumption ==
  /\ MsgLen \in Nat \ {0}
  /\ BufSz \in Nat /\ MsgLen < BufSz
  /\ Backlog \in Nat
  /\ MayVanish \subseteq Clients
  /\ Demos \subseteq {"hello", "once", "loop", "call"}
  /\ None \notin Clients

VARIABLES
  demo,     \* which demo this is
  up,       \* the server process runs
  pending,  \* accept queue
  cur,      \* clnt_sfd of the server
  spc,      \* where the server is
  nread,    \* what its last read() returned
  cpc,      \* where each client is
  shown,    \* what it printed: the "whole" message, a "part", "junk", or
            \* that the response is "invalid"
  srvEnd,   \* the server's end of each connection
  rst,      \* the server's end has received a reset
  sent,     \* bytes the client has written
  arrived,  \* of those, bytes that have arrived
  taken,    \* of those, bytes the server has read
  put,      \* bytes the server has written
  got       \* of those, bytes the client has read

clientVars == <<cpc, shown, sent, got>>
serverVars == <<up, cur, spc, nread, taken, put>>
netVars == <<pending, srvEnd, rst, arrived>>
vars == <<demo, clientVars, serverVars, netVars>>

Connected == {"write", "read"}

TypeOK ==
  /\ demo \in Demos
  /\ up \in BOOLEAN
  /\ pending \in Seq(Clients)
  /\ cur \in Clients \cup {None}
  /\ spc \in {"accept", "read", "write", "close"}
  /\ nread \in 0 .. MsgLen
  /\ cpc \in [Clients -> {"init", "done", "gone", "failed"} \cup Connected]
  /\ shown \in [Clients -> {"none", "whole", "part", "junk", "invalid"}]
  /\ srvEnd \in [Clients -> {"none", "pending", "open", "closed"}]
  /\ rst \in [Clients -> BOOLEAN]
  /\ sent \in [Clients -> {0, MsgLen}]
  /\ arrived \in [Clients -> 0 .. MsgLen]
  /\ taken \in [Clients -> 0 .. MsgLen]
  /\ put \in [Clients -> 0 .. MsgLen]
  /\ got \in [Clients -> 0 .. MsgLen]

\* The server has bound and listened.
Init ==
  /\ demo \in Demos
  /\ up = TRUE
  /\ pending = <<>>
  /\ cur = None
  /\ spc = "accept"
  /\ nread = 0
  /\ cpc = [c \in Clients |-> "init"]
  /\ shown = [c \in Clients |-> "none"]
  /\ srvEnd = [c \in Clients |-> "none"]
  /\ rst = [c \in Clients |-> FALSE]
  /\ sent = [c \in Clients |-> 0]
  /\ arrived = [c \in Clients |-> 0]
  /\ taken = [c \in Clients |-> 0]
  /\ put = [c \in Clients |-> 0]
  /\ got = [c \in Clients |-> 0]

-----------------------------------------------------------------------------
(* The client *)

\* connect() returns when the kernel has queued the connection.
Connect(c) ==
  /\ cpc[c] = "init"
  /\ up
  /\ Len(pending) <= Backlog
  /\ pending' = Append(pending, c)
  /\ srvEnd' = [srvEnd EXCEPT ![c] = "pending"]
  /\ cpc' = [cpc EXCEPT ![c] = IF demo = "hello" THEN "read" ELSE "write"]
  /\ UNCHANGED <<demo, shown, sent, got, serverVars, rst, arrived>>

\* Nobody listens: perr_handling ends the client.
ConnectRefused(c) ==
  /\ cpc[c] = "init"
  /\ ~ up
  /\ cpc' = [cpc EXCEPT ![c] = "failed"]
  /\ UNCHANGED <<demo, shown, sent, got, serverVars, netVars>>

\* once, loop: the one write() of do_io_event.
WriteMsg(c) ==
  /\ demo # "call"
  /\ cpc[c] = "write"
  /\ sent' = [sent EXCEPT ![c] = MsgLen]
  /\ cpc' = [cpc EXCEPT ![c] = "read"]
  /\ UNCHANGED <<demo, shown, got, serverVars, netVars>>

\* call: 3 * 4, with all its fields, in one write().
WriteRequest(c) ==
  /\ demo = "call"
  /\ cpc[c] = "write"
  /\ sent' = [sent EXCEPT ![c] = MsgLen]
  /\ cpc' = [cpc EXCEPT ![c] = "read"]
  /\ UNCHANGED <<demo, shown, got, serverVars, netVars>>

\* What read() finds at the client: n bytes, the end of the stream, or -1.  A
\* server that closed with some of what the client wrote unread, or still on
\* its way, has reset the connection, which may take bytes with it that the
\* client has not read yet.
Takes(c, n) == n \in 1 .. put[c] - got[c]
AtEnd(c) == got[c] = put[c] /\ srvEnd[c] = "closed"
Aborted(c) == srvEnd[c] = "closed" /\ taken[c] < sent[c]

Shows(c, what) ==
  /\ shown' = [shown EXCEPT ![c] = what]
  /\ cpc' = [cpc EXCEPT ![c] = "done"]

\* hello: printf() of a buffer whose terminating NUL may not have come.
ReadHello(c) ==
  /\ demo = "hello"
  /\ cpc[c] = "read"
  /\ \/ \E n \in 1 .. MsgLen :
          /\ Takes(c, n)
          /\ got' = [got EXCEPT ![c] = n]
          /\ Shows(c, IF n = MsgLen THEN "whole" ELSE "junk")
     \/ AtEnd(c) /\ Shows(c, "junk") /\ UNCHANGED got
  /\ UNCHANGED <<demo, sent, serverVars, netVars>>

\* once: what one read() returned is printed, nothing if that is the end.  For
\* -1 the NUL goes before the buffer, and what was in it is printed.
ReadOnce(c) ==
  /\ demo = "once"
  /\ cpc[c] = "read"
  /\ \/ \E n \in 1 .. MsgLen :
          /\ Takes(c, n)
          /\ got' = [got EXCEPT ![c] = n]
          /\ Shows(c, IF n = MsgLen THEN "whole" ELSE "part")
     \/ (AtEnd(c) \/ Aborted(c)) /\ Shows(c, "junk") /\ UNCHANGED got
  /\ UNCHANGED <<demo, sent, serverVars, netVars>>

\* Faulty variant of ReadN: reads until the server closes.
ReadToEnd(c) ==
  /\ demo = "loop"
  /\ cpc[c] = "read"
  /\ \/ \E n \in 1 .. MsgLen :
          /\ Takes(c, n)
          /\ got' = [got EXCEPT ![c] = @ + n]
          /\ UNCHANGED <<cpc, shown>>
     \/ AtEnd(c) /\ Shows(c, "whole") /\ UNCHANGED got
  /\ UNCHANGED <<demo, sent, serverVars, netVars>>

\* Faulty variant of ReadN: a single read.
ReadNOnce(c) ==
  /\ demo = "loop"
  /\ cpc[c] = "read"
  /\ \/ \E n \in 1 .. BufSz :
          /\ Takes(c, n)
          /\ got' = [got EXCEPT ![c] = n]
          /\ Shows(c, "whole")
     \/ AtEnd(c) /\ Shows(c, "junk") /\ UNCHANGED got
  /\ UNCHANGED <<demo, sent, serverVars, netVars>>

\* loop: one read() of read_n, which asks for BUF_SZ bytes whatever is left of
\* the buffer; with the last byte of the message the loop ends and it is
\* printed.  At the end of the stream, or for -1, read_n returns early without
\* saying so.
ReadN(c) ==
  /\ demo = "loop"
  /\ cpc[c] = "read"
  /\ \/ \E n \in 1 .. BufSz :
          /\ Takes(c, n)
          /\ got' = [got EXCEPT ![c] = @ + n]
          /\ IF got[c] + n >= MsgLen
             THEN Shows(c, "whole")
             ELSE UNCHANGED <<cpc, shown>>
     \/ (AtEnd(c) \/ Aborted(c)) /\ Shows(c, "junk") /\ UNCHANGED got
  /\ UNCHANGED <<demo, sent, serverVars, netVars>>

\* call: a response that lacks a field is refused; -1 is no length to parse.
ReadResponse(c) ==
  /\ demo = "call"
  /\ cpc[c] = "read"
  /\ \/ \E n \in 1 .. MsgLen :
          /\ Takes(c, n)
          /\ got' = [got EXCEPT ![c] = n]
          /\ Shows(c, IF n = MsgLen THEN "whole" ELSE "invalid")
     \/ AtEnd(c) /\ Shows(c, "invalid") /\ UNCHANGED got
     \/ /\ Aborted(c)
        /\ cpc' = [cpc EXCEPT ![c] = "failed"]
        /\ UNCHANGED <<shown, got>>
  /\ UNCHANGED <<demo, sent, serverVars, netVars>>

-----------------------------------------------------------------------------
(* The kernel and the network *)

Deliver(c) ==
  /\ srvEnd[c] \in {"pending", "open"}
  /\ ~ rst[c]
  /\ \E n \in 1 .. sent[c] - arrived[c] :
       arrived' = [arrived EXCEPT ![c] = @ + n]
  /\ UNCHANGED <<demo, clientVars, serverVars, pending, srvEnd, rst>>

\* A client is killed.
Vanish(c) ==
  /\ c \in MayVanish
  /\ cpc[c] \in Connected
  /\ cpc' = [cpc EXCEPT ![c] = "gone"]
  /\ UNCHANGED <<demo, shown, sent, got, serverVars, netVars>>

\* Bytes that a client which has ended did not read are answered with a reset.
PeerReset(c) ==
  /\ cpc[c] \in {"done", "gone"}
  /\ srvEnd[c] = "open"
  /\ got[c] < put[c]
  /\ ~ rst[c]
  /\ rst' = [rst EXCEPT ![c] = TRUE]
  /\ UNCHANGED <<demo, clientVars, serverVars, pending, srvEnd, arrived>>

\* The server's read() returns 0, or -1 after a reset.
EndOfInput(c) ==
  \/ rst[c]
  \/ cpc[c] \in {"done", "gone"} /\ arrived[c] = sent[c] /\ taken[c] = arrived[c]

-----------------------------------------------------------------------------
(* The server *)

Accept ==
  /\ up
  /\ spc = "accept"
  /\ pending # <<>>
  /\ cur' = Head(pending)
  /\ pending' = Tail(pending)
  /\ srvEnd' = [srvEnd EXCEPT ![Head(pending)] = "open"]
  /\ spc' = IF demo = "hello" THEN "write" ELSE "read"
  /\ nread' = 0
  /\ UNCHANGED <<demo, clientVars, up, taken, put, rst, arrived>>

\* read() returns what has arrived.
Reads ==
  /\ up
  /\ spc = "read"
  /\ taken[cur] < arrived[cur]
  /\ taken' = [taken EXCEPT ![cur] = arrived[cur]]
  /\ UNCHANGED <<demo, clientVars, up, cur, put, netVars>>

\* once: the one read() of do_io_event.
ReadMsg ==
  /\ demo = "once"
  /\ Reads
  /\ nread' = arrived[cur] - taken[cur]
  /\ spc' = "write"

\* loop: one read() of the loop in do_io_event.
ReadLoop ==
  /\ demo = "loop"
  /\ Reads
  /\ nread' = arrived[cur] - taken[cur]
  /\ spc' = "write"

\* call: a request that lacks a field is refused.
ReadRequest ==
  /\ demo = "call"
  /\ Reads
  /\ spc' = IF arrived[cur] = MsgLen THEN "write" ELSE "close"
  /\ UNCHANGED nread

\* read() returns 0 or -1, and nothing is written: a write() of -1 bytes
\* fails, and where the loop goes on after -1 the next read() returns 0.
ReadEnds ==
  /\ up
  /\ spc = "read"
  /\ EndOfInput(cur)
  /\ spc' = "close"
  /\ UNCHANGED <<demo, clientVars, up, cur, nread, taken, put, netVars>>

\* write() of n bytes, and where the server goes from there.
Writes(n, next) ==
  /\ up
  /\ spc = "write"
  /\ put' = [put EXCEPT ![cur] = @ + n]
  /\ nread' = 0
  /\ spc' = next
  /\ UNCHANGED <<demo, clientVars, up, cur, taken, netVars>>

\* hello: the message, as soon as accept() has returned.
WriteHello == demo = "hello" /\ Writes(MsgLen, "close")

\* once: what was read, and do_io_event returns.
WriteOnce == demo = "once" /\ Writes(nread, "close")

\* Faulty variant of WriteBack: the buffer is written, not what was read.
WriteBuffer == demo = "loop" /\ Writes(BufSz, "read")

\* Faulty variant of WriteBack: the loop ends after one round.
WriteNoLoop == demo = "loop" /\ Writes(nread, "close")

\* loop: what was read, and the loop reads again.
WriteBack == demo = "loop" /\ Writes(nread, "read")

\* call: do_cal computes 12, and a response is as long as a request.
WriteResponse == demo = "call" /\ Writes(MsgLen, "close")

\* do_io_event returns: close(clnt_sfd).
Close ==
  /\ up
  /\ spc = "close"
  /\ srvEnd' = [srvEnd EXCEPT ![cur] = "closed"]
  /\ cur' = None
  /\ spc' = "accept"
  /\ UNCHANGED <<demo, clientVars, up, nread, taken, put, pending, rst, arrived>>

\* SIGPIPE: the write is on a connection that was reset.  The kernel closes
\* every connection of the process.
Die ==
  /\ up
  /\ spc = "write"
  /\ rst[cur]
  /\ up' = FALSE
  /\ pending' = <<>>
  /\ srvEnd' = [c \in Clients |-> IF srvEnd[c] = "none" THEN "none" ELSE "closed"]
  /\ UNCHANGED <<demo, clientVars, cur, spc, nread, taken, put, rst, arrived>>

ServerStep ==
  \/ Accept
  \/ ReadMsg
  \/ ReadLoop
  \/ ReadRequest
  \/ ReadEnds
  \/ WriteHello
  \/ WriteOnce
  \/ WriteBack
  \/ WriteResponse
  \/ Close
  \/ Die

ClientStep(c) ==
  \/ Connect(c)
  \/ ConnectRefused(c)
  \/ WriteMsg(c)
  \/ WriteRequest(c)
  \/ ReadHello(c)
  \/ ReadOnce(c)
  \/ ReadN(c)
  \/ ReadResponse(c)

Next ==
  \/ ServerStep
  \/ \E c \in Clients : ClientStep(c) \/ Deliver(c) \/ Vanish(c) \/ PeerReset(c)

Spec == Init /\ [][Next]_vars

\* Nobody waits for a user here: clients, server and network go on.
FairSpec ==
  /\ Spec
  /\ WF_vars(ServerStep)
  /\ \A c \in Clients : WF_vars(ClientStep(c)) /\ WF_vars(Deliver(c))

-----------------------------------------------------------------------------
(* Properties *)

\* read_n asks for BUF_SZ bytes at an offset into a buffer of BUF_SZ, and the
\* client then writes a NUL behind the message: it stays in the buffer only
\* because no more comes back than was sent.
InBuffer ==
  \A c \in Clients : put[c] < BufSz /\ (demo # "hello" => put[c] <= sent[c])

\* With the loops of chapter05 a client shows the whole message and nothing
\* else, as long as the server runs, however the bytes arrive.  Of the demo that
\* reads once it shows at least the first part, unless the message itself came
\* in parts and the server closed with some of them unread: nothing but that
\* makes its one read() fail.  The first calculator shows its result or says
\* that it has none.
EchoWhole ==
  up => \A c \in Clients :
          CASE demo = "loop" -> shown[c] \in {"none", "whole"}
            [] demo = "once" -> \/ shown[c] \in {"none", "part", "whole"}
                                \/ shown[c] = "junk" /\ Aborted(c)
            [] demo = "call" -> shown[c] \in {"none", "invalid", "whole"}
            [] OTHER -> TRUE

\* The two ends of the loop do not wait for each other for ever, the server
\* for the client's end and the client for the server's bytes: every client
\* that connects gets its message, whoever else is killed in the middle.  A
\* call ends, with its result or without.
AllServed ==
  \A c \in Clients :
    (demo \in {"loop", "call"} /\ cpc[c] = "init")
      ~> \/ shown[c] = "whole" \/ cpc[c] = "gone" \/ ~ up
         \/ demo = "call" /\ (shown[c] = "invalid" \/ cpc[c] = "failed")

\* Only the server of the loop can end, over a client that was killed before
\* it had read all: a client that goes through its own loop leaves nothing
\* unread, and a server that writes once is not told.
DeathExplained ==
  ~ up => demo = "loop" /\ \E c \in Clients : rst[c] /\ cpc[c] = "gone"
=============================================================================
