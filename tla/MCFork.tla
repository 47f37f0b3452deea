-------------------------------- MODULE MCFork --------------------------------
(***************************************************************************)
(* Model-checking instances of ForkServer.                                 *)
(***************************************************************************)
EXTENDS ForkServer, TLC

\* Clients of equal roles are interchangeable.
ClientSymmetry == Permutations(Clients)
=============================================================================
