------------------------------- MODULE WebServer -------------------------------
(***************************************************************************)
(* The web server of chapter24: accept a connection, start a thread for    *)
(* it, detach the thread, go round; the thread closes the connection.      *)
(* The thread is given the address of clnt_sock, which the next accept()   *)
(* overwrites, and pthread_create() stores the thread's identifier, eight  *)
(* bytes on a 64-bit build, in the four bytes of tid.                      *)
(***************************************************************************)
EXTENDS Integers, Sequences, FiniteSets

CONSTANTS
  Browsers,      \* the clients, one connection each: browsers
  ListenBacklog, \* second argument of listen()
  MaxFd,         \* how many descriptors the process may have for connections
  MaxThreads,    \* how many threads it may have besides the main one
  NoConn         \* a descriptor that is not open

ASSUME WebAssumption ==
  /\ ListenBacklog \in Nat
  /\ MaxFd \in Nat \ {0}
  /\ MaxThreads \in Nat \ {0}
  /\ NoConn \notin Browsers

\* Numbered from the first one after the listening socket's.
Fds == 1 .. MaxFd
Threads == 1 .. MaxThreads

\* What accept() returns when it fails.
Failed == -1

\* What clnt_sock holds when the upper half of a thread's identifier has been
\* stored over it: no descriptor of the process.
Stray == MaxFd + 1

\* A thread that is not there, or not any more.
NoThread == [at |-> "none", fd |-> Failed]

VARIABLES
  pc,         \* where the loop of the main thread is
  clnt_sock,  \* the variable the threads are given the address of
  queue,      \* accept queue of the listening socket
  asked,      \* the clients that have connected
  conn,       \* the connection of each descriptor
  nth,        \* the rank in which each connection was accepted, 0 if it was not
  accepts,    \* how many were accepted
  thread,     \* where each thread is, and its local clnt_sock
  turn,       \* the first connection accept() can have returned, or can still
              \* return, when it returned last
  since,      \* turn, for each thread, when the thread was started
  overlapped, \* accept() returned before a thread had read clnt_sock
  strayed     \* clnt_sock was overwritten by pthread_create()

mainVars == <<pc, clnt_sock, strayed>>
connVars == <<queue, asked, conn, nth, accepts>>
webVars == <<mainVars, connVars, thread, turn, since, overlapped>>

WebTypeOK ==
  /\ pc \in {"accept", "create", "detach", "dead"}
  /\ clnt_sock \in Fds \cup {Failed, Stray}
  /\ queue \in Seq(Browsers)
  /\ asked \subseteq Browsers
  /\ conn \in [Fds -> Browsers \cup {NoConn}]
  /\ nth \in [Browsers -> Nat]
  /\ accepts \in Nat
  /\ thread \in [Threads -> [at : {"none", "new", "read"}, fd : Fds \cup {Failed, Stray}]]
  /\ turn \in Nat
  /\ since \in [Threads -> Nat]
  /\ overlapped \in BOOLEAN
  /\ strayed \in BOOLEAN

WebInit ==
  /\ pc = "accept"
  /\ clnt_sock = Failed
  /\ queue = <<>>
  /\ asked = {}
  /\ conn = [fd \in Fds |-> NoConn]
  /\ nth = [c \in Browsers |-> 0]
  /\ accepts = 0
  /\ thread = [t \in Threads |-> NoThread]
  /\ turn = 0
  /\ since = [t \in Threads |-> 0]
  /\ overlapped = FALSE
  /\ strayed = FALSE

FreeFds == {fd \in Fds : conn[fd] = NoConn}
FreeThreads == {t \in Threads : thread[t].at = "none"}

\* A thread has been started and has not looked at clnt_sock yet.
ThreadWaits == \E t \in Threads : thread[t].at = "new"

\* A client connects; the kernel queues the connection.
BrowserConnects(c) ==
  /\ pc # "dead"
  /\ c \notin asked
  /\ Len(queue) <= ListenBacklog
  /\ asked' = asked \cup {c}
  /\ queue' = Append(queue, c)
  /\ UNCHANGED <<mainVars, conn, nth, accepts, thread, turn, since, overlapped>>

\* accept() returns the first connection of the queue on the lowest free
\* descriptor, or blocks.
AcceptNext ==
  /\ pc = "accept"
  /\ queue # <<>>
  /\ \E fd \in FreeFds :
       /\ \A g \in FreeFds : fd <= g
       /\ clnt_sock' = fd
       /\ conn' = [conn EXCEPT ![fd] = Head(queue)]
  /\ queue' = Tail(queue)
  /\ accepts' = accepts + 1
  /\ nth' = [nth EXCEPT ![Head(queue)] = accepts + 1]
  /\ turn' = accepts + 1
  /\ overlapped' = (overlapped \/ ThreadWaits)
  /\ pc' = "create"
  /\ UNCHANGED <<asked, thread, since, strayed>>

\* Faulty variant of AcceptFails: clnt_sock is assigned only what is valid.
AcceptFailsKeeps ==
  /\ pc = "accept"
  /\ FreeFds = {}
  /\ turn' = accepts + 1
  /\ overlapped' = (overlapped \/ ThreadWaits)
  /\ pc' = "create"
  /\ UNCHANGED <<clnt_sock, strayed, connVars, thread, since>>

\* Faulty variant of AcceptFails: accept() returns the negated error number.
AcceptFailsErrno ==
  /\ pc = "accept"
  /\ FreeFds = {}
  /\ clnt_sock' = -24
  /\ turn' = accepts + 1
  /\ overlapped' = (overlapped \/ ThreadWaits)
  /\ pc' = "create"
  /\ UNCHANGED <<strayed, connVars, thread, since>>

\* EMFILE: the kernel looks for a descriptor before it looks at the queue.
\* Nobody looks at the result.
AcceptFails ==
  /\ pc = "accept"
  /\ FreeFds = {}
  /\ clnt_sock' = Failed
  /\ turn' = accepts + 1
  /\ overlapped' = (overlapped \/ ThreadWaits)
  /\ pc' = "create"
  /\ UNCHANGED <<strayed, connVars, thread, since>>

\* pthread_create() starts a thread with &clnt_sock.  The identifier does not
\* fit into tid; what lies behind tid may be clnt_sock.
CreateThread ==
  /\ pc = "create"
  /\ \E t \in FreeThreads :
       /\ \A u \in FreeThreads : t <= u
       /\ thread' = [thread EXCEPT ![t] = [NoThread EXCEPT !.at = "new"]]
       /\ since' = [since EXCEPT ![t] = turn]
  /\ \/ UNCHANGED <<clnt_sock, strayed>>
     \/ /\ clnt_sock' = Stray
        /\ strayed' = TRUE
  /\ pc' = "detach"
  /\ UNCHANGED <<connVars, turn, overlapped>>

\* The process ends; the kernel closes what it had open.
ProcessEnds ==
  /\ pc' = "dead"
  /\ queue' = <<>>
  /\ conn' = [fd \in Fds |-> NoConn]
  /\ thread' = [t \in Threads |-> NoThread]
  /\ since' = [t \in Threads |-> 0]
  /\ UNCHANGED <<clnt_sock, strayed, asked, nth, accepts, turn, overlapped>>

\* EAGAIN: error_handler exits, with every connection in progress.
CreateFails ==
  /\ pc = "create"
  /\ FreeThreads = {}
  /\ ProcessEnds

\* pthread_detach(tid): with an identifier of 32 bits it detaches the thread;
\* with half of one of 64 bits it may read memory that is not there.
Detach ==
  /\ pc = "detach"
  /\ \/ /\ pc' = "accept"
        /\ UNCHANGED <<clnt_sock, strayed, connVars, thread, turn, since, overlapped>>
     \/ ProcessEnds

\* request_handler takes its copy of clnt_sock.
ThreadReads(t) ==
  /\ thread[t].at = "new"
  /\ thread' = [thread EXCEPT ![t] = [at |-> "read", fd |-> clnt_sock]]
  /\ UNCHANGED <<mainVars, connVars, turn, since, overlapped>>

\* Faulty variant of ThreadCloses: the connection is not closed.
ThreadReturns(t) ==
  /\ thread[t].at = "read"
  /\ thread' = [thread EXCEPT ![t] = NoThread]
  /\ since' = [since EXCEPT ![t] = 0]
  /\ UNCHANGED <<mainVars, connVars, turn, overlapped>>

\* close(), which does nothing to a number that is no open descriptor, and the
\* end of the thread.
ThreadCloses(t) ==
  /\ thread[t].at = "read"
  /\ conn' = [fd \in Fds |-> IF fd = thread[t].fd THEN NoConn ELSE conn[fd]]
  /\ thread' = [thread EXCEPT ![t] = NoThread]
  /\ since' = [since EXCEPT ![t] = 0]
  /\ UNCHANGED <<mainVars, queue, asked, nth, accepts, turn, overlapped>>

MainStep == AcceptNext \/ AcceptFails \/ CreateThread \/ CreateFails \/ Detach

ThreadStep(t) == ThreadReads(t) \/ ThreadCloses(t)

WebNext ==
  \/ MainStep
  \/ \E t \in Threads : ThreadStep(t)
  \/ \E c \in Browsers : BrowserConnects(c)

WebSpec == WebInit /\ [][WebNext]_webVars

\* Every thread of the process runs.
WebFairSpec ==
  /\ WebSpec
  /\ WF_webVars(MainStep)
  /\ \A t \in Threads : WF_webVars(ThreadStep(t))

-----------------------------------------------------------------------------
(* Properties *)

\* Whatever the threads do to each other, and whatever the number in a
\* thread's hands has come to stand for, the connection it is about to close is
\* the one it was started for or one accepted after it, never an earlier one.
ClosesNoEarlier ==
  \A t \in Threads :
    /\ thread[t].at = "read"
    /\ thread[t].fd \in Fds
    /\ conn[thread[t].fd] # NoConn
    => nth[conn[thread[t].fd]] >= since[t]

\* Every client that connects has its connection accepted and closed, unless
\* an accept() has overtaken a thread, pthread_create() has overwritten
\* clnt_sock, or the process has ended: these are the only ways to leak one.
ClosedUnlessOverlapped ==
  \A c \in Browsers :
    c \in asked ~>
      \/ nth[c] > 0 /\ \A fd \in Fds : conn[fd] # c
      \/ overlapped
      \/ strayed
      \/ pc = "dead"
=============================================================================
