----------------------------- MODULE Datagrams -----------------------------
(***************************************************************************)
(* UDP, as clients and server use it: the datagrams under way, a bag.  It  *)
(* keeps no order.  A datagram that is sent gets no copy (it is lost, or   *)
(* refused by the full ring buffer), one or two.                           *)
(***************************************************************************)
EXTENDS Integers, FiniteSets, Bags

Copies == 0..2

With(net, m, copies) ==
  IF copies = 0 THEN net ELSE net (+) [x \in {m} |-> copies]
Without(net, m) == net (-) SetToBag({m})

\* Every copy under way, told from its like by a number.
Each(net) == UNION {{m} \X (1..net[m]) : m \in BagToSet(net)}
UnderWay(net) == Cardinality(Each(net))

=============================================================================
