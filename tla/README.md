# Verification of the socket-programming servers

The repository is a course in socket programming: each chapter is a demo, and
one program runs through most of them, a calculator that is called over the
network. Its server is rewritten from chapter to chapter:

    chapter05/demo-03   iterative, TCP, one procedure
    chapter05/demo-04   iterative, TCP, client and server as classes
    chapter06/demo-02   iterative, UDP (demo-01 is an echo)
    chapter09/demo-01   iterative, TCP, with SO_REUSEADDR
    chapter10/demo-03   one process per connection
    chapter12/demo-01   one process, select()
    chapter12/demo-02   one process, poll()

The client, the wire protocol and the handler of a call
(`CalServer::HandleIoEvent`) are the same text in the TCP versions since
chapter05/demo-04; what changes is the event loop around them. The models are
cut the same way. Before the calculator come demos that send one message over a
byte stream (chapters 01, 04, 05 and old-demo), which have a model of their own,
and after it the beginning of a web server with threads (chapter24). The
repository has no tests.

## Inventory

| component | state | operations | what is hard |
|---|---|---|---|
| calculator client: `client/src/cal_client.cc`, `common/tcp_client.cc` | its socket, how far it is in its call | connect, type the request, write header, write body, read header, read body, show | blocks on its user and on the server; a short read is shown as a result |
| handler: `server/src/cal_server.cc`, `common/io_aux.cc` | per call: bytes read, the parsed request, the result, bytes written | `RecvReq`, `DoCal`, `SendRes` | partial reads, a peer that goes away, signals that kill the process |
| select loop: `chapter12/demo-01/common/tcp_server.cc` | `reads`, `cpy_reads`, `max_sfd`, `sfd`; descriptors | select, timeout, scan, accept, handle, close | stale readiness, order of closes, blocking inside the scan, descriptor limit |
| poll loop: `chapter12/demo-02/common/tcp_server.cc` | `pfd_arr` as memory, `fd_sz`, `fd_cap`, `i` | poll, timeout, loop, `AddfdToPoll`, `RemovefdFromPoll` | off-by-one, stale and uninitialised entries, removal during the loop |
| iterative loop: `chapter09/demo-01/common/tcp_server.cc` (`chapter05/demo-04` is the same without SO_REUSEADDR, `chapter05/demo-03` without classes), `start.sh`, `stop.sh` | the connection in hand; connections a process leaves in the kernel | start (bind, listen), accept, handle, close, stop | one idle client holds everybody; a restart while the port is still in use |
| multi-process loop: `chapter10/demo-03/common/tcp_server.cc` | children, zombies, pending SIGCHLD | accept, fork, child, reap | coalesced signals, EINTR, fork failure |
| process demos: `chapter10/demo-01`, `demo-02` | one child | `fork`, `wait`, handler | nothing that the multi-process loop has not |
| UDP calculator and echo: `chapter06` | datagrams in flight, the server's place in a call | recvfrom, sendto | loss, reordering, two clients mixed up |
| web server: `chapter24/web-server` | `clnt_sock`, `tid`, threads, descriptors | accept, pthread_create, pthread_detach, read of the argument, close | the argument is shared with the accept loop; neither `accept` nor the size of `tid` is checked |
| echo servers: `chapter01/demo-01`, `chapter04`, `chapter05/demo-01`, `old-demo/demo-01` to `demo-03` | two byte streams | read, write | a stream has no message boundary |
| calculator with a fixed layout: `chapter05/demo-02` | one buffer at each end | type, read head, read operands, calculate, write | a length that comes from the user, `int` arithmetic |
| earliest calculators: `old-demo/demo-05`, `demo-05-a` | one buffer | read once, calculate, write | a request or response of which a part is read |

The pieces interact through the kernel only: a listening socket with its accept
queue, connected sockets with a byte stream in each direction, and, in
chapter10, fork and SIGCHLD. There is no shared memory but in chapter24.

What makes each piece correct: a call is taken from the stream neither short
nor long, computed once and answered with its own result; the bookkeeping of an
event loop follows the set of open connections; a loop blocks on nothing but
its multiplexer; everybody who is connected, or has sent, gets a turn; the
process ends for a reason that can be named; children are reaped.

## Modules

    CalService            what a calculator service promises
    CalConn               clients, kernel, HandleIoEvent           INSTANCE CalService
      IterServer          chapter05/demo-03, -04, chapter09/demo-01
      ForkServer          chapter10/demo-03          MCFork
      Descriptors         descriptor table of a multiplexing server
        SelectServer      chapter12/demo-01
        PollServer        chapter12/demo-02          MCPoll
    Udp                   chapter06/demo-01, -02     MCUdp
    EchoStream            chapter01, 04, 05/demo-01, old-demo
    Calculation           chapter05/demo-02, and DoCal of all others   MCCalculation
    WebServer             chapter24

    CalConnProofs         CalConn, CalService, Descriptors
    IterServerProofs, ForkServerProofs, SelectServerProofs, PollServerProofs
    DemoProofs            EchoStream, WebServer
    CalculationProofs     Calculation
    UdpProofs             Udp

An arrow of EXTENDS goes down each level: a server module is `CalConn` with its
event loop added, as the server class is `HandleIoEvent` with the loop of
`TcpServer` around it. Some modules hold, before an action, a faulty variant of
it that no specification uses; each is a bug the code could plausibly have and a
property below would find.

**CalConn.** One client per member of `Clients`, one call each. Streams are
counters: `sent`, `arrived` and `taken` are the bytes of the request the client
has written, the kernel has delivered and the server has read; `put` and `got`
are written and read bytes of the response. The content of a position is
determined by the position, so a counter is the whole stream. `hpc[c]` is the
place in `HandleIoEvent` of the call of `c`; an action is one blocking system
call and what follows it up to the next one. Every `read` of `io_read_n` is an
action, and so is each of the two writes of a request and of a response.

 - A short read is silent, as in `io_read_n`: `ReadShort` and `RecvShort` go on
   with `"junk"`. When the header itself is incomplete the length parsed from it
   is an uninitialised value, and either the parse goes on or `std::string`
   throws: both outcomes are there.
 - `connect` succeeds when the kernel queues the connection (`Backlog` + 1, as
   Linux counts), not when the server accepts it.
 - `Vanish` is a killed client (everything it wrote arrives, then FIN); `Reset`
   an aborted connection (unread bytes are lost); `PeerReset` the answer to a
   response sent to a client that has gone. `DropAborted` chooses between
   kernels that take an aborted connection out of the accept queue and kernels
   that leave it there, the two cases the README of chapter12 discusses
   (src/chapter12/README.md, "accept").
 - The process of the server ends by SIGFPE in `DoCal`, SIGPIPE in `SendRes`, an
   exception in `RecvReq` (`Dies`), or `perr_handling` after `accept`. The kernel
   then closes every connection (`ProcessEnds`).
 - `dropped` is the set of clients whose call no process will serve: everybody
   when the one process of a server ends, one call when a child does.

Left out: what is typed and printed, the protobuf encoding of a message whose
bytes all arrived, interrupted reads (no handler is installed in these
programs), failures of `socket`, `bind`, `listen`, `select`, `poll` and memory
allocation, all of which end the process at once. A request is shorter than the
socket buffer, so a client's write does not block.

**Descriptors.** Which connection each descriptor stands for; `accept` gives
the lowest free one. `MaxFd` is the descriptor limit.

**SelectServer.** `reads`, `ready` (`cpy_reads`), `max_sfd` and `sfd` are the
variables of `EventLoop`. `pc` is `"select"` before `select()`, `"scan"` in the
`for` loop and `"handle"` inside `HandleIoEvent`. `ComesTo(fd)` is the scan
arriving at a set bit: the bits it skips change nothing. `Accept` and
`FinishIo` contain the updates of `reads` and `max_sfd` that follow `accept` and
`close`.

**PollServer.** `slots` is the memory of `pfd_arr`, one entry more than can be
in use included, because the loop reads it. A `revents` is `"none"`, `"in"`
(exactly POLLIN), `"other"` or `"unset"` (never written since `malloc`; with
`DirtyHeap` it may read as POLLIN). `AddfdToPoll` leaves it as it was, as the
code does. The `fd` of an entry never written is taken for no open descriptor
(`BadFd`); by chance it could be the number of one. `i` runs to `fd_sz` inclusive. `HandleNothing` and `DieOfNothing` are
`HandleIoEvent` on a descriptor that is not open.

**IterServer.** `cur` is `clnt_sfd`, `pc` the place in the loop, or how the
process ended. `Stop` is `stop.sh` (killall), possible wherever the server is;
`Start` and `StartRefused` are `start.sh`, which finds the port free or not.
`lingering` holds the connections whose FIN the server's kernel sends when the
process closes them: they go to TIME_WAIT and keep the port until `LingerEnds`,
unless `Init` sets SO_REUSEADDR (`ReuseAddr`). A connection that was reset, or that
is closed with bytes nobody read (`close` then resets it), does not linger
(`Parting`). Only `bind` looks at `lingering`, so `ReuseAddr` needs no run of its own:
what the program does with it is what it does without it when `LingerEnds` comes
first. A new process has nothing of the old one: calls that were connected
when the old one ended stay dropped, clients that had not connected find the new
one. In the abstract service that is `Restart`. `MaxStarts` bounds the starts.

**ForkServer.** `pc` and `cur` are the parent's place in `EventLoop` and its
`clnt_sfd`. `child[c]` is the process forked for the connection of `c`: running
(in `HandleIoEvent`), exiting (its descriptor is closed), a zombie, or reaped.
Each child is a process of its own and moves between any two steps of the
parent. A connection is closed when the later of the two descriptors for it is,
the parent's (`ParentCloses`) or the child's (`ChildCloses`, `ChildDies`).
`sigchld` is one bit, because SIGCHLD does not queue; `SignalArrives` interrupts
the parent wherever it is but in the handler, where the signal is blocked and stays
pending; `Waitpid` is the one `waitpid(-1, WNOHANG)` of
`child_handler`. `accept` interrupted by the signal fails with EINTR and the
loop goes round, which changes nothing. `MaxChildren` is the limit on processes;
zombies count. `merged`, which no step depends on, counts the SIGCHLDs that came while
one was pending (`SignalParent`).

**Udp.** `Init` chooses the echo (`EchoStarts`) or the calculator (`CalStarts`).
An echo is one datagram each way. A message of the calculator is two, a header
that announces a length and a body; a datagram is a record of its kind, the
client whose request or result it carries and that length. `inbox` and `box[c]`
are the sockets' queues with what is still on its way. The server takes a
datagram for a header and stores its sender (`peer`), takes the next one for the
body without asking who sent it, and answers `peer`. What is parsed from bytes
that are not the expected ones is `Junk`: a body parsed as a header announces
zero bytes, a body that is longer than announced is cut. `clnt_addr_len` of the
calculator is read by the first `recvfrom` and never written before; `AddrLens` has the two
things that can mean, the address is stored or it is not, and then the answer is
sent nowhere. (A value from 4 to 7 stores the port and leaves the host as it was: 0.0.0.0 is
the server's own host, so the answer arrives or not, as with the other values.) `NetFault` loses, duplicates or reorders, at most `MaxFaults`
times. `mishaps` records which kinds of things have gone wrong; the code does not
have it, nothing depends on it, and the properties are stated with it.

**EchoStream.** `demo`, chosen in `Init`, says how the two ends read, and each
way is an action of its own: `"hello"` (`WriteHello`, `ReadHello`: the server
writes, the client reads once), `"once"` (`ReadMsg`, `WriteOnce`, `ReadOnce`: both
read once), `"loop"` (`ReadLoop`, `WriteBack`, `ReadN`: the server echoes until
its read ends, the client reads until it has the whole message) and `"call"`
(`ReadRequest`, `WriteResponse`, `ReadResponse`: the first calculator; both read
once, the server answers a whole request only, the client refuses a response
that is not whole). Streams are counters as in `CalConn`. A client that ends with bytes
unread answers them with a reset (`PeerReset`), and the server's next write on it
raises SIGPIPE (`Die`). The other way round, a server that
closes with part of a message unread resets the connection (`Aborted`), and what it had
written may be lost: the `read` of -1 fails the call of the first calculator, and a client
that reads once prints a buffer nobody wrote. The server's loop does not stop at a `read` of -1: it
writes -1 bytes, which fails, and its next `read` returns 0; `ReadEnds` stands
for all of this, as none of it changes anything else.

**Calculation.** One call from the keyboard to the printed result, for three
`program`s: `"fixed"` is chapter05/demo-02, whose client types into a buffer with
the layout of `common/cal_protocol.h`; `"pb"` is every protobuf calculator over TCP,
`"udp"` the one of chapter06. An `int` is `WordSz` bytes of `Base` values, least
significant first. In `"fixed"` the operands are typed into the buffer behind
the count that bounds the loop (`Bound`), and the server reads the head, then as
many bytes as the count announces; `buf` and `wire` are these bytes. For the other
programs `wire` is the message, and how it is cut is left to `CalConn` and
`Udp`. Each round of the loop of `DoCal` is an action (`Step`), which wraps,
rounds toward zero, or traps (`Die`). Signed overflow is undefined in C++; the
wrapping is that of the instructions the programs are built to, and a trap is what
`idiv` does. `"pb"` leaves the result unset for an operator it does not know, the
others return the first operand. When a client is killed before it has sent the
head, the server goes on with what its stack held, and either dies or not
(`ReadGarbage`). A count whose operands do not fit the 128 bytes of the buffer
is left out.

**WebServer.** `pc` is the main thread's place: before `accept`, before
`pthread_create`, before `pthread_detach`. `clnt_sock` is the one variable whose
address every thread gets; `thread[t]` is started, has copied it (`ThreadReads`),
or has closed what it copied and returned (`ThreadCloses`): the request handler
does nothing else yet. `accept` fails with -1 when the descriptors are used up,
and the loop starts a thread for that too (`AcceptFails`). `pthread_create` stores
the identifier, eight bytes, in the four of `int tid`; what lies behind `tid` is
up to the compiler, and one possibility is `clnt_sock`, which then holds a number
that is no descriptor (`Stray`). `pthread_detach` of half an identifier either
works or faults (`Detach`). `overlapped`, `strayed`, `turn`, `since` and `nth` are
history the properties are stated with; no step depends on them.

**CalService.** Each client asks once. An answer is the client's own result,
computed after it asked and while its call was alive; a client that asked is
left without it only after its call was dropped. `Crash(S)` drops the calls of
a set: all of them, or one; `Restart(S)` takes back those that nobody had made.
`CalConn!Abstract` is the refinement mapping,
`ImplementsService` the property.

## Runs

| run | instance | shows |
|---|---|---|
| `select_all` | 3 clients, 2 descriptors; one divides by zero, one may be killed or reset, also in the accept queue; fairness | `TypeOK`, `WatchesOpen`, `ScanReady`, `NeverHoldsIdle`, `LostOnlyByCrash`, `DeathExplained`, `ImplementsService`, `SenderServed`, `GoneClosed` |
| `iter_all` | 2 clients, header and body of 2 bytes, all faults, 3 starts without SO_REUSEADDR, fairness | `TypeOK`, `DeathExplained`, `ClosedInFull`, `ImplementsService`, `ServedUnlessHeld` |
| `poll_faults` | 3 clients, 2 descriptors, dirty heap, a reset, a division by zero, an array that grows from 2 to 4 | `TypeOK`, `ArrayInBounds`, `ImplementsService` |
| `poll_live` | 2 clients that may be killed or reset, one may divide by zero, dirty heap, fairness | `ServedUnlessLost`, `GoneClosed` |
| `poll_lost` | 3 clients | `PollsOpen` is violated |
| `fork_all` | 3 clients, 2 processes; one divides by zero, one may be killed, fairness | `TypeOK`, `OpenWhileHandled`, `DropExplained`, `SignalsCounted`, `ImplementsService`, `SenderServed` |
| `fork_zombie` | 2 clients | `NoZombies` is violated |
| `udp_faults` | echo and calculator; 2 clients, two network faults of any kind, one client is killed or divides by zero, fairness | `TypeOK`, `MixExplained`, `SenderServed` |
| `udp_unaddressed` | 2 clients, a perfect network, any `clnt_addr_len`, fairness | `AnsweredUnlessMixed` is violated |
| `echo_all` | 3 clients, one may be killed, a message of 3 bytes, fairness | `TypeOK`, `InBuffer`, `EchoWhole`, `DeathExplained`, `AllServed` |
| `calculation` | three programs, up to 3 operands of 7 values, counts -2 to 3, five operators, one client may be killed, fairness | `TypeOK`, `OwnResult`, `TrapExplained`, `CallEnds` |
| `web` | 3 connections, 2 descriptors, 2 threads, fairness | `WebTypeOK`, `ClosesNoEarlier`, `ClosedUnlessOverlapped` |

The properties stand at the end of each module, each with the behaviour it is
about.

**Bounds.** A header, a request or a response of one byte cannot arrive in
parts; two bytes can, which is all the code distinguishes, so `iter_all` uses
two for what the server reads. Three connections give a descriptor below, at and
above the one being closed, a descriptor reused during a scan, and one growth of
the array of the poll server; with two descriptors for three clients the limit is
met. `Backlog = 1` queues two connections and makes a third wait in `connect`;
`poll_faults` and `poll_lost` use 2 so that all three can be queued while the loop
handles one. `poll_live` is a smaller instance because liveness is: two clients are enough for an entry
that moves, a descriptor used again and a stale entry past the end. In `iter_all`
three starts allow a refused one between two that succeed, and two clients one
call that lingers while the other is served by the next process. Two children are
enough for two that end together, and three clients with two processes for a
`fork` that fails while children run or zombies are left; a reset is left to the
theorems about `ForkServer`, which hold for every choice of faulty clients. In
`Udp` one fault is enough to shift the pairing of every datagram behind it and a
second to shift it back; the sizes differ between clients so that a body can be
too long for the length another one announced. In `EchoStream` three bytes arrive
in up to three parts, with one byte of the buffer left for the NUL. In
`Calculation` an `int` is two bytes of four values, -8 to 7: it overflows upward
and downward, in the first round and in the second, both ends of the range and
every sign are among the operands, and three operands make two rounds, the fewest
in which rounding or wrapping twice could differ from doing it once (`MaxOpnds` = 3). In `web` the
third connection finds descriptors and threads used up, or takes the descriptor
of the first while a thread still has its number. Each client calls once; a
program that calls again is a new process and a new connection, and is another
member of `Clients`. `ClientSymmetry` is used in `poll_lost` and `fork_zombie`,
which check safety with equal clients, never with liveness.

**Fairness.** Each fair specification is weakly fair to the steps of the server
(one thread, or each process by itself in `ForkServer` and each thread in
`WebServer`: the scheduler runs what is able to run), to delivery (TCP retransmits
until the bytes arrive) and to the steps of a client whose user is done. It is
not fair to `Connect` and `SendHead`, nor to the typing in `Calculation`: nothing
makes a user start the program or type. Nor is it to `Stop` and `Start`, which
somebody types too, nor to `LingerEnds`. In `EchoStream` nobody waits for a user and all client
steps are fair. In `Udp` nothing is said of the network: a datagram is in the
socket's queue until it is read or lost. `SelectTimeout` and `PollTimeout` change
nothing and are no progress.

With a kernel that drops an aborted connection (`DropAborted`) the select and poll
servers can block in `accept` after `poll` or `select` has reported the listening
socket, for as long as nobody connects; `select_all` and the poll runs are of
Linux, where the connection stays in the queue.

**Deadlock** is checked in `poll_lost`, where the timeout keeps a live loop going
round. It is off where the server may end, or may wait in `accept` or `recvfrom`
for ever with everyone served; that nobody waits for ever who should not is
what the liveness properties say.

## What the violations show

 - `poll_lost`. The loop examines one entry past the last. If its stale
   `revents` is POLLIN it is handled, and removing "it" removes the last live
   entry: an open connection is no longer polled. The stale value is there
   because neither `AddfdToPoll` nor `RemovefdFromPoll` clears one.
 - `fork_zombie`. The README of chapter10 (src/chapter10/README.md:124) says the
   parent need not care for its children once it has this handler. Two children
   that end before the handler has run are one SIGCHLD, and the handler waits
   for one of them.
 - `udp_unaddressed`. The README of chapter06 (src/chapter06/README.md:61, :67) says
   that the length of the address has to be initialised before `recvfrom`, or the
   `sendto` that follows fails. The echo does so, the calculator does not: a client
   whose datagrams came alone and in order may be answered nowhere, and waits for ever.

The select server has nothing like the first: `ScanReady` and `WatchesOpen` hold,
and are proved. `SignalsCounted` is what does hold of the handler of chapter10: no signal is lost
but one that comes while another is pending.

Some passing properties name what does not work. `CallEnds` excepts a negative count
of operands in chapter05/demo-02: the client sends `1 + 4 + 4 * count` bytes, fewer
than the five the server waits for, and waits for the result; neither goes on until
the client is killed. The protobuf programs take such a count for none.
`ServedUnlessLost` and `GoneClosed` of the poll server except the lost entry and the
stale one, and a reset connection, whose `revents` never equals POLLIN.
`ClosedUnlessOverlapped` excepts the three ways in which the web server leaks a
connection. `NeverHoldsIdle` says what the multiplexed loop does promise: the
handler may block in a `read`, because header and body are two writes, but only on
a client that has begun to send; `SenderServed` adds that this ends.
`MixExplained` says when a UDP client can be shown another one's result; two clients
that send at once are enough, as `ServerRecvBody` takes anybody's datagram for the body.
`EchoWhole` excepts a client that reads once from a server that closed with part of its
message unread.

## Theorems

For every set of clients, every limit on descriptors and processes, every
backlog and message size, under the ASSUMEs of `CalConn` (`ConnAssumption`),
`Descriptors` (`FdAssumption`), `IterServer` (`IterAssumption`), `ForkServer`
(`ForkAssumption`: finitely many clients, so that the children can be counted) and
`PollServer` (`PollAssumption`: the same, so that the entries can).
Each is about `Spec` of its module (`WebSpec` of `WebServer`).

| theorem | `SelectServerProofs` | `IterServerProofs` | `ForkServerProofs` | `PollServerProofs` |
|---|---|---|---|---|
| `TypeCorrect`: `[]TypeOK` | yes | yes | yes | yes |
| `Implementation`: `ImplementsService` | yes | yes | yes | yes |
| `DeathExplainedAlways`: `[]DeathExplained` | yes | yes | | |
| `LostOnlyByCrashAlways`: `[]LostOnlyByCrash` | yes | yes | yes | yes |
| `WatchesOpenAlways`: `[]WatchesOpen` | yes | | | |
| `ScanConnReadyAlways`: `[]ScanConnReady` | yes | | | |
| `ScanReadyAlways`: `[]ScanReady`, if `DropAborted` is false | yes | | | |
| `NeverHoldsIdleAlways`: `[]NeverHoldsIdle` | yes | | | |
| `ClosedInFullAlways`: `[]ClosedInFull` | | yes | | |
| `OpenWhileHandledAlways`: `[]OpenWhileHandled` | | | yes | |
| `DropExplainedAlways`: `[]DropExplained` | | | yes | |
| `SignalsCountedAlways`: `[]SignalsCounted` | | | yes | |
| `ArrayInBoundsAlways`: `[]ArrayInBounds` | | | | yes |

`DemoProofs`, about `EchoStream` under `EchoAssumption`, which takes the message to
be shorter than the buffer: `EchoTypeCorrect`, `InBufferAlways`, `EchoWholeAlways`,
`DeathExplainedAlways`; about `WebServer` under `WebAssumption`: `WebTypeCorrect`,
`ClosesNoEarlierAlways`.

`UdpProofs`, for any number of clients, any sizes and any number of faults, under
`UdpAssumption`: `TypeCorrect`, `MixExplainedAlways`.

`CalculationProofs`, for every size of an `int` and of the buffer, any operands and
any number of rounds of `DoCal` up to `MaxOpnds`, under `CalculationAssumption`: `TypeCorrect`, `OwnResultAlways`, `TrapExplainedAlways`,
`HangsOnNegativeAlways`. The assumption has two parts that the code does not enforce:
nobody announces more operands than fit the buffer (`MaxOpnds`; beyond it
chapter05/demo-02 writes past its buffer, the protobuf programs have no such bound), and what is typed is an `int`.

**What the servers share** is proved in `CalConnProofs`, once. `QueueOK`: the
accept queue holds exactly the pending connections, each once. `CallsOK` is the
state of a single call from its first byte to its end: counters of one side
never pass those of the other, the place in the handler determines what has been
read, parsed and written, and a client that ended without its own result did so
after its call was dropped. There is a lemma for each step of client, network
and handler, and for the end of a process. Each server has only to show that it
calls the handler for open connections and closes them after it. The refinement
is proved the same way: each step of `CalConn` maps to a step of `CalService` or
to a stutter. So is what the steps of `CalConn` leave alone in the descriptor table of
the select and poll servers (`TableOK`).

**SelectServer.** `WatchInv` is `TypeOK` strengthened until it is inductive: the
descriptor table holds exactly the open connections, each once (`TableOK`);
`reads` is the listening descriptor and the open descriptors, and none of those
is above `max_sfd` (`WatchOK`); while a call is handled its descriptor is open
(`HandlingOK`); the process is up exactly while the loop has not died
(`AliveOK`). `TypeOK` alone is not inductive: `max_sfd - 1` stays at or above the
listening descriptor only because the descriptor that is closed is above it, and
is open. `NeverHoldsIdle` needs that a connection whose user types has nothing to
read, so that the scan does not come to it. `ScanInv` adds that what is still to be scanned was reported, is open
and is readable. A readable connection stays so until the handler reads from it,
because bytes, FIN and RST do not go away; the listening socket stays readable
unless the kernel removes an aborted connection from its queue, which is why
`ScanReady` needs `~DropAborted`. `CallInv` adds `OneCall` (the one thread is in
at most one handler) and `CallsOK`.

**IterServer.** `IterInv`: the connection in hand is the only open one, and the
only one whose handler has begun and not ended, and a new process does not touch the
calls of an old one. `ClosedInFull` follows from `CallsOK`: a handler that came to its
end has read to the end of the request, and a client that waits resets nothing.

**ForkServer.** `ForkInv`: a connection is open exactly when the parent has it
in hand or its child runs, and the handler runs only in a child (`ParentOK`,
`ChildOK`). Closing the one descriptor therefore closes the connection exactly
when the other one is closed, and a child that ends takes with it its own call
only. Every step keeps `SignalsCounted` (`CountedNext`): a child that ends adds one
zombie and one signal, pending or swallowed; `SignalArrives` moves the pending one into the
handler; and `waitpid` finds a zombie, since the signal it answers counts one.

**PollServer.** `PollInv`: there are no more entries than `accept` has returned
connections (`CountOK`), which is why they fit the model's memory; the listening
socket has entry 0 alone, and no entry past the block holds a POLLIN (`ArrayOK`).
That this survives a removal is the subtle part, because the loop looks one past the
last entry and removing "that" entry copies the last one there. An entry is removed
only while there are two (`LoopOK`): with one entry, the loop goes round only because
of the listening socket, and the accept adds the second. And the loop comes to the
end of the block only after it has passed over the last entry in it, or accepted and
so made the block larger, so that what is copied past the block is no POLLIN. With
`DirtyHeap` an entry never written may still be handled: the theorem is about what
`poll` itself reported. `CallInv` adds `OneCall` and `CallsOK`, as for the select
server: lost and duplicate entries may leave a call unserved, but never mix or repeat one.

**EchoStream.** `EchoInv`: bytes arrive, are read and come back in that order, so
no counter passes the one before it (`CountsOK`); what the server holds between its
read and its write is not yet written (`ServerOK`); and a running server closes a
connection of the loop only after the client has ended, one that reads once only
after it has written (`EndsOK`). The last is why a client never finds the end of
the stream too early, and needs that a reset is an answer to bytes that a client
which has *ended* did not read.

**WebServer.** `WebInv`: no thread is older than the loop's turn, and `clnt_sock`,
whoever reads it, stands for a connection of this turn or a later one (`TurnOK`).
A descriptor used again stands for a connection accepted later still.

**Udp.** `UdpInv` is `TypeOK` and `EchoInv`, every message at its own client's address, or
`CalcInv`, which says something only while nothing has gone wrong but an answer that
was sent nowhere (`Tidy`). Then each body in the server's queue follows its own
header (`Paired`); the first datagram is a header exactly when the server waits for
one (`FirstOK`); the last is a body unless its sender is half-way (`LastOK`), of
which there is one at most (`Alone`); and header and body of an answer arrive at a
client in the order in which it waits for them (`CallOK`, `BoxOK`). A client that
begins while another one is half-way is a mishap, which is what `MixExplained`
names. That a client puts its body behind its own header is `Alone` and `LastOK`
together, so neither can be left out.

**Calculation.** `CalcInv`: nothing is sent before all is typed (`TypingOK`); the
buffer holds what was typed, although the bound of the loop is read from the same
buffer in every round (`BufferOK`); what is sent is what was typed (`WireOK`), and
what the server parses as well (`ServerOK`); in the k-th round `res` is the wrapped sum
or product of k operands, or their quotient (`Partial`). A round keeps this for three
reasons, each a lemma: wrapping twice is wrapping once (`WrapOnce`), a rounded
quotient divided and rounded again is the quotient by the product, whatever the signs
(`QuotientTwice`, from `DivDiv`), and the bytes of an `int` make the `int` again
(`IntOfBytes`). A quotient never leaves the `int`s but for the one that traps
(`QuotientInt`). Sums, products, powers and the value of bytes are recursive
functions; that there is such a function, and so that they unfold, is proved by
induction on its domain (`Recursion`). Where numbers are induced on, the statement is about a set of numbers
with 0 and successors in it (`Induction`, from the least number outside), since the provers cannot use a theorem
whose parameter is an operator. `HeldOK` gives the hanging call: a server leaves
`recvHead` only when the head is there, and the head is there exactly when the count
is not negative; so `HangsOnNegative` is the exception of `CallEnds`, both ways.

**Only model-checked:** the liveness properties (`SenderServed`, `GoneClosed`,
`ServedUnlessHeld`, `ServedUnlessLost`, `AllServed`, `CallEnds`,
`ClosedUnlessOverlapped`), which need fairness and `ENABLED`, out of the reach of the
prover. Every invariant that a run checks is the subject of a theorem.

## Not modelled

 - chapter10/demo-01 and demo-02 fork one child and wait for it once, by `wait`, by
   `waitpid` or in a handler: no order of steps makes a difference. The handler is
   the `child_handler` of demo-03, which `ForkServer` has.
 - chapter12/demo-03 is unfinished: its loop finds the listening socket ready and
   does not accept, so no connection reaches the rest, and `OnSocketRead` and
   `OnSocketWrite` are empty.
 - What the web server does with a request: there is no code for it yet.
 - In chapter05/demo-02 a count whose operands do not fit the buffers.
 - Straight-line programs that print one value or copy one file (chapter01/demo-02,
   chapter03), wording of errors and logs, build files, protobuf and gflags.

## What is left

Of proofs: what the liveness properties rest on and a step can break, as
`HangsOnNegative` is for `CallEnds`: in the select and poll servers that a
connection which is readable and watched is reported by the next `select` or `poll`,
in the web server that a thread closes what it copied. Of modules: the request handling of the
web server and the loop of chapter12/demo-03, when they are written.
