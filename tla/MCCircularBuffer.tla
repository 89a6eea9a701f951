-------------------------- MODULE MCCircularBuffer --------------------------
(***************************************************************************)
(* CircularBuffer on a ring of three nodes and its header: enough for the  *)
(* header to be used and left, for the tail to wrap while the head has     *)
(* not, and for both to wrap.                                              *)
(***************************************************************************)
EXTENDS CircularBuffer, TLC

Symmetry == Permutations(Datagram)

=============================================================================
