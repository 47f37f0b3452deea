------------------------------- MODULE CalConn -------------------------------
(***************************************************************************)
(* The framed calculator protocol over TCP, as every TCP server of the     *)
(* repository since chapter05/demo-04 speaks it.  One CalClient process    *)
(* per member of Clients makes one call: connect, let the user type the    *)
(* request, write a header of MSG_HEAD_SZ bytes and then the body, read a  *)
(* header and a body back, show the result, close.  The server side of a   *)
(* call is CalServer::HandleIoEvent.  This module has the state and the    *)
(* actions of both ends and of the kernel between them; a server module    *)
(* EXTENDS it and adds its event loop.                                     *)
(*                                                                         *)
(* Bytes are counted, not named: a position in a stream of one request or  *)
(* one response determines its content.                                    *)
(***************************************************************************)
EXTENDS Integers, Sequences, FiniteSets

CONSTANTS
  Clients,    \* the client processes, one connection each
  HeadSz,     \* MSG_HEAD_SZ, the size of a serialized CalHeader
  ReqSz,      \* size of a serialized CalReq
  ResSz,      \* size of a serialized CalRes
  Backlog,    \* second argument of listen()
  Trapping,   \* clients whose request makes DoCal's division raise SIGFPE
  MayVanish,  \* clients that may be killed while connected: the peer sees FIN
  MayReset,   \* clients that may abort their connection: the peer sees RST
  DropAborted \* TRUE: the kernel takes an aborted connection out of the
              \* accept queue (Berkeley); FALSE: accept still returns it

ASSUME ConnAssumption ==
  /\ HeadSz \in Nat \ {0}
  /\ ReqSz \in Nat \ {0}
  /\ ResSz \in Nat \ {0}
  /\ Backlog \in Nat
  /\ Trapping \subseteq Clients
  /\ MayVanish \subseteq Clients
  /\ MayReset \subseteq Clients
  /\ DropAborted \in BOOLEAN

VARIABLES
  up,       \* a process that accepts on the listening socket is running
  dropped,  \* the clients whose call no process of the server will serve
  pending,  \* accept queue of the listening socket
  cpc,      \* where each client is in its call
  shown,    \* what ShowRes printed: "own" result, "junk", or nothing yet
  sent,     \* bytes of the request each client has written
  arrived,  \* of those, bytes in the receive buffer of the server's socket
  taken,    \* of those, bytes the server has read
  rst,      \* the server's socket has received a reset
  srvEnd,   \* state of the server's end of the connection
  hpc,      \* where HandleIoEvent is for this connection
  req,      \* what RecvReq parsed: the "whole" request, or "junk"
  reply,    \* what DoCal computed: the client's "own" result, or "junk"
  put,      \* bytes of the response the server has written
  got       \* of those, bytes the client has read

serverVars == <<up, dropped>>
clientVars == <<cpc, shown, sent, got>>
netVars == <<arrived, rst>>
handlerVars == <<taken, hpc, req, reply, put>>
connVars == <<serverVars, pending, clientVars, netVars, srvEnd, handlerVars>>

\* Client states in which the client's socket is connected and not closed.
Connected == {"typing", "sendBody", "recvHead", "recvBody"}
\* Client states in which the client's process has ended.
Ended == {"done", "gone", "killed", "failed"}

ConnTypeOK ==
  /\ up \in BOOLEAN
  /\ dropped \subseteq Clients
  /\ pending \in Seq(Clients)
  /\ cpc \in [Clients -> {"init"} \cup Connected \cup Ended]
  /\ shown \in [Clients -> {"none", "own", "junk"}]
  /\ sent \in [Clients -> 0 .. HeadSz + ReqSz]
  /\ arrived \in [Clients -> 0 .. HeadSz + ReqSz]
  /\ taken \in [Clients -> 0 .. HeadSz + ReqSz]
  /\ rst \in [Clients -> BOOLEAN]
  /\ srvEnd \in [Clients -> {"none", "pending", "open", "closed"}]
  /\ hpc \in [Clients -> {"idle", "recvHead", "recvBody", "cal",
                          "sendHead", "sendBody", "close", "closed"}]
  /\ req \in [Clients -> {"none", "whole", "junk"}]
  /\ reply \in [Clients -> {"none", "own", "junk"}]
  /\ put \in [Clients -> 0 .. HeadSz + ResSz]
  /\ got \in [Clients -> 0 .. HeadSz + ResSz]

\* The server has bound and listened; no client has connected yet.
ConnInit ==
  /\ up = TRUE
  /\ dropped = {}
  /\ pending = <<>>
  /\ cpc = [c \in Clients |-> "init"]
  /\ shown = [c \in Clients |-> "none"]
  /\ sent = [c \in Clients |-> 0]
  /\ arrived = [c \in Clients |-> 0]
  /\ taken = [c \in Clients |-> 0]
  /\ rst = [c \in Clients |-> FALSE]
  /\ srvEnd = [c \in Clients |-> "none"]
  /\ hpc = [c \in Clients |-> "idle"]
  /\ req = [c \in Clients |-> "none"]
  /\ reply = [c \in Clients |-> "none"]
  /\ put = [c \in Clients |-> 0]
  /\ got = [c \in Clients |-> 0]

-----------------------------------------------------------------------------
(* The client *)

\* connect() succeeds as soon as the kernel has queued the connection: the
\* server need not have accepted it.  A full queue leaves the client blocked.
Connect(c) ==
  /\ cpc[c] = "init"
  /\ up
  /\ Len(pending) <= Backlog
  /\ cpc' = [cpc EXCEPT ![c] = "typing"]
  /\ srvEnd' = [srvEnd EXCEPT ![c] = "pending"]
  /\ pending' = Append(pending, c)
  /\ UNCHANGED <<serverVars, shown, sent, got, netVars, handlerVars>>

\* connect() fails when nobody listens; err_handling exits.
ConnectRefused(c) ==
  /\ cpc[c] = "init"
  /\ ~ up
  /\ cpc' = [cpc EXCEPT ![c] = "failed"]
  /\ UNCHANGED <<serverVars, pending, shown, sent, got, netVars, srvEnd, handlerVars>>

\* MakeReq has read the request from std::cin; SendReq writes the header.
SendHead(c) ==
  /\ cpc[c] = "typing"
  /\ cpc' = [cpc EXCEPT ![c] = "sendBody"]
  /\ sent' = [sent EXCEPT ![c] = HeadSz]
  /\ UNCHANGED <<serverVars, pending, shown, got, netVars, srvEnd, handlerVars>>

\* SendReq's second write.  When the server's end is closed the header may
\* already have been answered with a reset, and the write raises SIGPIPE.
SendBody(c) ==
  /\ cpc[c] = "sendBody"
  /\ \/ /\ cpc' = [cpc EXCEPT ![c] = "recvHead"]
        /\ sent' = [sent EXCEPT ![c] = HeadSz + ReqSz]
     \/ /\ srvEnd[c] = "closed"
        /\ cpc' = [cpc EXCEPT ![c] = "killed"]
        /\ UNCHANGED sent
  /\ UNCHANGED <<serverVars, pending, shown, got, netVars, srvEnd, handlerVars>>

\* One read() of RecvRes's first io_read_n: whatever has arrived, at most
\* what is still missing of the header.
RecvHead(c) ==
  /\ cpc[c] = "recvHead"
  /\ \E n \in 1 .. HeadSz - got[c] :
       /\ got[c] + n <= put[c]
       /\ got' = [got EXCEPT ![c] = @ + n]
       /\ cpc' = [cpc EXCEPT ![c] = IF got[c] + n = HeadSz THEN "recvBody" ELSE @]
  /\ UNCHANGED <<serverVars, pending, shown, sent, netVars, srvEnd, handlerVars>>

\* One read() of RecvRes's second io_read_n.  With the last byte io_read_n
\* returns, ShowRes prints the result and the client ends.
RecvBody(c) ==
  /\ cpc[c] = "recvBody"
  /\ \E n \in 1 .. HeadSz + ResSz - got[c] :
       /\ got[c] + n <= put[c]
       /\ got' = [got EXCEPT ![c] = @ + n]
       /\ IF got[c] + n = HeadSz + ResSz
          THEN /\ cpc' = [cpc EXCEPT ![c] = "done"]
               /\ shown' = [shown EXCEPT ![c] = reply[c]]
          ELSE UNCHANGED <<cpc, shown>>
  /\ UNCHANGED <<serverVars, pending, sent, netVars, srvEnd, handlerVars>>

\* Faulty variant of RecvShort: io_read_n gives up when nothing has arrived yet.
RecvShortEarly(c) ==
  /\ cpc[c] \in {"recvHead", "recvBody"}
  /\ got[c] = put[c]
  /\ cpc' = [cpc EXCEPT ![c] = "done"]
  /\ shown' = [shown EXCEPT ![c] = "junk"]
  /\ UNCHANGED <<serverVars, pending, sent, got, netVars, srvEnd, handlerVars>>

\* read() returns 0 or -1 because the server's end is closed.  io_read_n
\* returns without saying so: RecvRes parses what it has and ShowRes prints
\* a result all the same, unless the length parsed from an incomplete header
\* is one that std::string cannot allocate.
RecvShort(c) ==
  /\ cpc[c] \in {"recvHead", "recvBody"}
  /\ srvEnd[c] = "closed"
  /\ got[c] = put[c]
  /\ \/ /\ cpc' = [cpc EXCEPT ![c] = "done"]
        /\ shown' = [shown EXCEPT ![c] = "junk"]
     \/ /\ cpc[c] = "recvHead"
        /\ cpc' = [cpc EXCEPT ![c] = "killed"]
        /\ UNCHANGED shown
  /\ UNCHANGED <<serverVars, pending, sent, got, netVars, srvEnd, handlerVars>>

-----------------------------------------------------------------------------
(* The kernel and the network *)

\* A segment arrives: TCP keeps the order of the bytes and no boundary.
Deliver(c) ==
  /\ srvEnd[c] \in {"pending", "open"}
  /\ ~ rst[c]
  /\ \E n \in 1 .. sent[c] - arrived[c] :
       arrived' = [arrived EXCEPT ![c] = @ + n]
  /\ UNCHANGED <<serverVars, pending, clientVars, rst, srvEnd, handlerVars>>

\* The client's process is killed; what it wrote still arrives, then FIN.
Vanish(c) ==
  /\ c \in MayVanish
  /\ cpc[c] \in Connected
  /\ cpc' = [cpc EXCEPT ![c] = "gone"]
  /\ UNCHANGED <<serverVars, pending, shown, sent, got, netVars, srvEnd, handlerVars>>

\* The kernel takes an aborted connection out of the accept queue.
LeaveQueue(c) ==
  \E k \in 1 .. Len(pending) :
    /\ pending[k] = c
    /\ pending' = SubSeq(pending, 1, k - 1) \o SubSeq(pending, k + 1, Len(pending))

\* The client's end aborts the connection: unread bytes are lost at the
\* server.  A connection still in the accept queue may leave it.
Reset(c) ==
  /\ c \in MayReset
  /\ cpc[c] \in Connected
  /\ srvEnd[c] \in {"pending", "open"}
  /\ cpc' = [cpc EXCEPT ![c] = "gone"]
  /\ rst' = [rst EXCEPT ![c] = TRUE]
  /\ arrived' = [arrived EXCEPT ![c] = taken[c]]
  /\ IF DropAborted /\ srvEnd[c] = "pending"
     THEN /\ LeaveQueue(c)
          /\ srvEnd' = [srvEnd EXCEPT ![c] = "closed"]
     ELSE UNCHANGED <<pending, srvEnd>>
  /\ UNCHANGED <<serverVars, shown, sent, got, handlerVars>>

\* The response was written to a client that has gone: a reset comes back.
PeerReset(c) ==
  /\ cpc[c] = "gone"
  /\ srvEnd[c] = "open"
  /\ got[c] < put[c]
  /\ ~ rst[c]
  /\ rst' = [rst EXCEPT ![c] = TRUE]
  /\ UNCHANGED <<serverVars, pending, clientVars, arrived, srvEnd, handlerVars>>

\* read() on the server's end returns 0 or -1.
Eof(c) ==
  \/ rst[c]
  \/ cpc[c] \in Ended /\ arrived[c] = sent[c] /\ taken[c] = arrived[c]

\* select() and poll() find the server's end readable.
Readable(c) == taken[c] < arrived[c] \/ Eof(c)

-----------------------------------------------------------------------------
(* CalServer::HandleIoEvent for the connection of client c *)

\* One read() of RecvReq's first io_read_n.
ReadHead(c) ==
  /\ hpc[c] = "recvHead"
  /\ taken[c] < arrived[c]
  /\ LET n == IF arrived[c] < HeadSz THEN arrived[c] ELSE HeadSz
     IN /\ taken' = [taken EXCEPT ![c] = n]
        /\ hpc' = [hpc EXCEPT ![c] = IF n = HeadSz THEN "recvBody" ELSE @]
  /\ UNCHANGED <<serverVars, pending, clientVars, netVars, srvEnd, req, reply, put>>

\* Faulty variant of ReadBody: waits for one byte more than was announced.
ReadBodyOver(c) ==
  /\ hpc[c] = "recvBody"
  /\ taken[c] < arrived[c]
  /\ taken' = [taken EXCEPT ![c] = arrived[c]]
  /\ UNCHANGED <<serverVars, pending, clientVars, netVars, srvEnd, hpc, req, reply, put>>

\* One read() of RecvReq's second io_read_n, for as many bytes as the header
\* announced.
ReadBody(c) ==
  /\ hpc[c] = "recvBody"
  /\ taken[c] < arrived[c]
  /\ taken' = [taken EXCEPT ![c] = arrived[c]]
  /\ IF arrived[c] = HeadSz + ReqSz
     THEN /\ hpc' = [hpc EXCEPT ![c] = "cal"]
          /\ req' = [req EXCEPT ![c] = "whole"]
     ELSE UNCHANGED <<hpc, req>>
  /\ UNCHANGED <<serverVars, pending, clientVars, netVars, srvEnd, reply, put>>

\* Faulty variant of ReadShort: a single read() in place of io_read_n.
ReadShortEarly(c) ==
  /\ hpc[c] \in {"recvHead", "recvBody"}
  /\ taken[c] = arrived[c]
  /\ hpc' = [hpc EXCEPT ![c] = "cal"]
  /\ req' = [req EXCEPT ![c] = "junk"]
  /\ UNCHANGED <<serverVars, pending, clientVars, netVars, srvEnd, taken, reply, put>>

\* io_read_n returns early, silently.  Whichever of the two calls it was, the
\* other one has nothing to read either, and the request is parsed from bytes
\* that were never received.
ReadShort(c) ==
  /\ hpc[c] \in {"recvHead", "recvBody"}
  /\ Eof(c)
  /\ hpc' = [hpc EXCEPT ![c] = "cal"]
  /\ req' = [req EXCEPT ![c] = "junk"]
  /\ UNCHANGED <<serverVars, pending, clientVars, netVars, srvEnd, taken, reply, put>>

DoCal(c) ==
  /\ hpc[c] = "cal"
  /\ req[c] = "whole" => c \notin Trapping
  /\ hpc' = [hpc EXCEPT ![c] = "sendHead"]
  /\ reply' = [reply EXCEPT ![c] = IF req[c] = "whole" THEN "own" ELSE "junk"]
  /\ UNCHANGED <<serverVars, pending, clientVars, netVars, srvEnd, taken, req, put>>

\* Faulty variant of WriteHead: SendRes returns after the header.
WriteHeadOnly(c) ==
  /\ hpc[c] = "sendHead"
  /\ hpc' = [hpc EXCEPT ![c] = "close"]
  /\ put' = [put EXCEPT ![c] = HeadSz]
  /\ UNCHANGED <<serverVars, pending, clientVars, netVars, srvEnd, taken, req, reply>>

\* SendRes's first write.
WriteHead(c) ==
  /\ hpc[c] = "sendHead"
  /\ hpc' = [hpc EXCEPT ![c] = "sendBody"]
  /\ put' = [put EXCEPT ![c] = HeadSz]
  /\ UNCHANGED <<serverVars, pending, clientVars, netVars, srvEnd, taken, req, reply>>

\* Faulty variant of WriteBody: the terminating NUL is sent too.
WriteBodyNul(c) ==
  /\ hpc[c] = "sendBody"
  /\ hpc' = [hpc EXCEPT ![c] = "close"]
  /\ put' = [put EXCEPT ![c] = HeadSz + ResSz + 1]
  /\ UNCHANGED <<serverVars, pending, clientVars, netVars, srvEnd, taken, req, reply>>

\* SendRes's second write; HandleIoEvent returns.
WriteBody(c) ==
  /\ hpc[c] = "sendBody"
  /\ hpc' = [hpc EXCEPT ![c] = "close"]
  /\ put' = [put EXCEPT ![c] = HeadSz + ResSz]
  /\ UNCHANGED <<serverVars, pending, clientVars, netVars, srvEnd, taken, req, reply>>

\* The next step of the handler can end its process: std::string throws on a
\* length parsed from an incomplete header, DoCal divides by zero (with what
\* was received of such a request it may do so too), or a write on a reset
\* connection raises SIGPIPE.
Dies(c) ==
  \/ hpc[c] = "recvHead" /\ Eof(c)
  \/ hpc[c] = "cal" /\ c \in Trapping
  \/ hpc[c] \in {"sendHead", "sendBody"} /\ rst[c]

HandlerStep(c) ==
  \/ ReadHead(c)
  \/ ReadBody(c)
  \/ ReadShort(c)
  \/ DoCal(c)
  \/ WriteHead(c)
  \/ WriteBody(c)

\* The single process of an iterative or multiplexing server ends: the kernel
\* closes the listening socket and every connection, queued or accepted.
ProcessEnds ==
  /\ up' = FALSE
  /\ dropped' = Clients
  /\ pending' = <<>>
  /\ srvEnd' = [c \in Clients |-> IF srvEnd[c] = "none" THEN "none" ELSE "closed"]
  /\ UNCHANGED <<clientVars, netVars, handlerVars>>

ClientStep(c) ==
  \/ Connect(c)
  \/ ConnectRefused(c)
  \/ SendHead(c)
  \/ SendBody(c)
  \/ RecvHead(c)
  \/ RecvBody(c)
  \/ RecvShort(c)

NetStep(c) ==
  \/ Deliver(c)
  \/ Vanish(c)
  \/ Reset(c)
  \/ PeerReset(c)

-----------------------------------------------------------------------------
(* What every server built on this module should make of a call *)

CallState(c) ==
  CASE cpc[c] \in {"init", "typing"} -> "idle"
    [] cpc[c] \in {"sendBody", "recvHead", "recvBody"} -> "asking"
    [] cpc[c] = "gone" -> "gone"
    [] cpc[c] = "done" /\ shown[c] = "own" -> "answered"
    [] OTHER -> "lost"

Abstract == INSTANCE CalService WITH
  alive <- Clients \ dropped,
  call <- [c \in Clients |-> CallState(c)],
  computed <- {c \in Clients : reply[c] = "own"}

\* Every behaviour of the clients, the kernel and a server is a behaviour of
\* the service: own results only, computed for a call that was made and not
\* yet dropped, and no client left without one whose call was not.
ImplementsService == Abstract!Service

\* A client that ended without its own result was not failed by a process
\* that still serves it: io_read_n's silent return and the closing of
\* connections by the event loop give a waiting client junk only after the
\* end of the process that had its call.
LostOnlyByCrash ==
  \A c \in Clients :
    cpc[c] \in {"killed", "failed"} \/ shown[c] = "junk" => c \in dropped
=============================================================================
