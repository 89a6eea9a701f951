--------------------------- MODULE MCIpmonSession ---------------------------
(***************************************************************************)
(* IpmonSession with one or two clients and two places.                    *)
(***************************************************************************)
EXTENDS IpmonSession

CONSTANTS a1, a2, p1, p2

\* Each client has a name of its own.
OwnNames == [a \in Address |-> IF a = a1 THEN {p1} ELSE {p2}]

\* The first client may come back under the other name.
SharedNames == [a \in Address |-> IF a = a1 THEN {p1, p2} ELSE {p2}]

=============================================================================
