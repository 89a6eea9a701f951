------------------------- MODULE MCServerReception -------------------------
(***************************************************************************)
(* ServerReception with a ring of two nodes and its header, two ordinary   *)
(* datagrams and one that ends the loop: the buffer is full, empty and     *)
(* half full at every step of the other thread, and wraps.                 *)
(***************************************************************************)
EXTENDS ServerReception

=============================================================================
