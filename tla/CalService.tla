------------------------------ MODULE CalService ------------------------------
(***************************************************************************)
(* What the calculator service promises, whatever server implements it.    *)
(* Each client asks once.  An answer is the client's own result, computed  *)
(* by the service after the client asked.  A client that asked is left     *)
(* without its result only when the service has dropped its call, which is *)
(* what a crash does to every call in progress and to those that come, and *)
(* nothing is computed for a call that was dropped.                        *)
(***************************************************************************)
CONSTANT Clients

VARIABLES
  alive,    \* the clients whose calls are or will be served
  call,     \* where each call is
  computed  \* the clients whose result the service has computed

serviceVars == <<alive, call, computed>>

ServiceInit ==
  /\ alive = Clients
  /\ call = [c \in Clients |-> "idle"]
  /\ computed = {}

Ask(c) ==
  /\ call[c] = "idle"
  /\ call' = [call EXCEPT ![c] = "asking"]
  /\ UNCHANGED <<alive, computed>>

\* The client ends without waiting for an answer.
GiveUp(c) ==
  /\ call[c] \in {"idle", "asking"}
  /\ call' = [call EXCEPT ![c] = "gone"]
  /\ UNCHANGED <<alive, computed>>

\* The result of a call that was made, once.
Compute(c) ==
  /\ c \in alive
  /\ call[c] \in {"asking", "gone"}
  /\ c \notin computed
  /\ computed' = computed \cup {c}
  /\ UNCHANGED <<alive, call>>

Answer(c) ==
  /\ call[c] = "asking"
  /\ c \in computed
  /\ call' = [call EXCEPT ![c] = "answered"]
  /\ UNCHANGED <<alive, computed>>

\* No answer, or an answer that is not the result: only to a dropped call.
Lose(c) ==
  /\ c \notin alive
  /\ call[c] \in {"idle", "asking"}
  /\ call' = [call EXCEPT ![c] = "lost"]
  /\ UNCHANGED <<alive, computed>>

\* The end of a process takes the calls it was to serve with it.
Crash(S) ==
  /\ S \cap alive # {}
  /\ alive' = alive \ S
  /\ UNCHANGED <<call, computed>>

\* A new process takes the calls that have not been made; those that had been
\* when the one before ended stay dropped.
Restart(S) ==
  /\ S \cap alive = {}
  /\ \A c \in S : call[c] = "idle"
  /\ alive' = alive \cup S
  /\ UNCHANGED <<call, computed>>

ServiceNext ==
  \/ \E S \in SUBSET Clients : Crash(S) \/ Restart(S)
  \/ \E c \in Clients :
       Ask(c) \/ GiveUp(c) \/ Compute(c) \/ Answer(c) \/ Lose(c)

Service == ServiceInit /\ [][ServiceNext]_serviceVars
=============================================================================
