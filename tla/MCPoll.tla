-------------------------------- MODULE MCPoll --------------------------------
(***************************************************************************)
(* Model-checking instances of PollServer.                                 *)
(***************************************************************************)
EXTENDS PollServer, TLC

\* Clients of equal roles are interchangeable.
ClientSymmetry == Permutations(Clients)
=============================================================================
