---------------------------- MODULE BoundedFifo ----------------------------
(***************************************************************************)
(* What the datagram buffer of the server promises to its two users: a     *)
(* first-in first-out queue of at most Capacity datagrams.  A Put on a     *)
(* full queue is refused and changes nothing (the newest datagram is the   *)
(* one that is lost); a Take on an empty queue is refused and changes      *)
(* nothing.  Both the sequential buffer (CircularBuffer) and the buffer    *)
(* shared by the two threads of the server (ServerReception) are shown to  *)
(* implement this specification.                                           *)
(***************************************************************************)
EXTENDS Naturals, Sequences

CONSTANTS Capacity,  \* createCircularBuf(64) in the server
          Datagram,  \* a datagram with the address it came from
          Null       \* no datagram

VARIABLES queue,     \* the datagrams waiting, oldest first
          accepted,  \* did the last Put succeed?
          taken      \* what the last successful Take returned

fifoVars == <<queue, accepted, taken>>

Init ==
  /\ queue = << >>
  /\ accepted = TRUE
  /\ taken = Null

Put(d) ==
  /\ Len(queue) < Capacity
  /\ queue' = Append(queue, d)
  /\ accepted' = TRUE
  /\ UNCHANGED taken

Refuse ==
  /\ Len(queue) = Capacity
  /\ accepted' = FALSE
  /\ UNCHANGED <<queue, taken>>

Take ==
  /\ queue # << >>
  /\ taken' = Head(queue)
  /\ queue' = Tail(queue)
  /\ UNCHANGED accepted

Next ==
  \/ \E d \in Datagram : Put(d)
  \/ Refuse
  \/ Take

Spec == Init /\ [][Next]_fifoVars

=============================================================================
