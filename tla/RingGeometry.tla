---------------------------- MODULE RingGeometry ----------------------------
(***************************************************************************)
(* The nodes createCircularBuf (Common/src/circular_buffer.c) allocates    *)
(* and the way it links them.  A header, node 0, is linked to Capacity     *)
(* further nodes, and the last of them is closed on the FIRST of these,    *)
(* not on the header: the header holds the first datagram only, after that *)
(* the ring is 1, 2, ..., Capacity, 1, ...                                 *)
(***************************************************************************)
EXTENDS Integers, Sequences

CONSTANTS Capacity,  \* capacity given to createCircularBuf
          Datagram,  \* payload and sender address, copied together
          Null       \* the NULL data pointer

ASSUME CapacityAssumption == Capacity \in Nat \ {0}
ASSUME NullAssumption == Null \notin Datagram

ERR_NOERROR         == 0
CIRCULAR_BUFF_FULL  == 1
CIRCULAR_BUFF_EMPTY == 2
Code == {ERR_NOERROR, CIRCULAR_BUFF_FULL, CIRCULAR_BUFF_EMPTY}

Node == 0..Capacity

\* Deviation: the last node is closed on the header.
NextNodeThroughHeader(i) == IF i = Capacity THEN 0 ELSE i + 1

(***************************************************************************)
(* The field next of node i, as the loop of createCircularBuf links it.    *)
(***************************************************************************)
NextNode(i) == IF i = Capacity THEN 1 ELSE i + 1

(***************************************************************************)
(* The node reached from node h in k steps, for k at most Capacity.        *)
(***************************************************************************)
NodeAt(h, k) == IF h + k <= Capacity THEN h + k ELSE h + k - Capacity

(***************************************************************************)
(* The n datagrams found in contents walking from node h.                  *)
(***************************************************************************)
Walk(contents, h, n) == [k \in 1..n |-> contents[NodeAt(h, k - 1)]]

(***************************************************************************)
(* Exactly the n nodes from h on hold a datagram in contents.              *)
(***************************************************************************)
HoldsExactly(contents, h, n) ==
  \A i \in Node :
    (contents[i] # Null) <=> (\E k \in 0..(n - 1) : i = NodeAt(h, k))

=============================================================================
