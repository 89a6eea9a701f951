---------------------------- MODULE MCIpmonSystem ----------------------------
(***************************************************************************)
(* IpmonSystem with two clients and a buffer of one datagram.              *)
(***************************************************************************)
EXTENDS IpmonSystem

CONSTANTS a1, a2, p1, p2

\* The first client may come back under the other name.
SharedNames == [a \in Address |-> IF a = a1 THEN {p1, p2} ELSE {p2}]

=============================================================================
