-------------------------------- MODULE MCUdp --------------------------------
(***************************************************************************)
(* Model-checking instances of Udp.                                        *)
(***************************************************************************)
EXTENDS Udp

CONSTANT c1

\* A request is larger than a result, and the sizes of the clients differ, so
\* that a body can be too long for the length another one announced.
MCReqSz == [c \in Clients |-> IF c = c1 THEN 8 ELSE 10]
MCResSz == [c \in Clients |-> IF c = c1 THEN 7 ELSE 8]
=============================================================================
