-------------------------- MODULE MCServerRegistry --------------------------
(***************************************************************************)
(* ServerRegistry with two client addresses that send any datagram of the  *)
(* protocol in any order.  Three names, so that both addresses can have    *)
(* several entries in any order; two places; a timeout of one second.      *)
(***************************************************************************)
EXTENDS ServerRegistry, TLC

CONSTANTS a1, a2, p1, p2, p3

Symmetry == Permutations({a1, a2}) \cup Permutations({p1, p2, p3})

=============================================================================
