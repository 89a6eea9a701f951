--------------------------- MODULE CircularBuffer ---------------------------
(***************************************************************************)
(* The circular buffer of Common/src/circular_buffer.c, called by one      *)
(* thread at a time: one action per function that changes its state.       *)
(***************************************************************************)
EXTENDS RingGeometry

VARIABLES head,   \* q->head: node of the oldest datagram
          tail,   \* q->tail: node the next datagram goes to
          size,   \* q->size
          data,   \* data[i]: what node i holds, with its cliaddr
          nodes,  \* nodes malloc'ed by createCircularBuf and not freed
          putCode,  \* what the last circularBufPut returned
          readCode, \* what the last circularBufRead returned
          item    \* *item as set by the last successful circularBufRead

ring == <<head, tail, size, data>>
vars == <<head, tail, size, data, nodes, putCode, readCode, item>>

Init ==
  /\ head = 0 /\ tail = 0 /\ size = 0
  /\ data = [i \in Node |-> Null]
  /\ nodes = Node
  /\ putCode = ERR_NOERROR /\ readCode = ERR_NOERROR
  /\ item = Null

circularBufEmpty == IF size = 0 THEN CIRCULAR_BUFF_EMPTY ELSE ERR_NOERROR

circularBufFull == IF size = Capacity THEN CIRCULAR_BUFF_FULL ELSE ERR_NOERROR

circularBufPut(d) ==
  /\ nodes = Node
  /\ \/ /\ circularBufFull = CIRCULAR_BUFF_FULL
        /\ putCode' = CIRCULAR_BUFF_FULL
        /\ UNCHANGED ring
     \/ /\ circularBufFull # CIRCULAR_BUFF_FULL
        /\ data' = [data EXCEPT ![tail] = d]
        /\ tail' = NextNode(tail)
        /\ size' = size + 1
        /\ putCode' = ERR_NOERROR
        /\ UNCHANGED head
  /\ UNCHANGED <<nodes, readCode, item>>

\* Deviation: the datagram is copied out but its node keeps the pointer.
circularBufReadKeepsData ==
  /\ nodes = Node
  /\ circularBufEmpty # CIRCULAR_BUFF_EMPTY
  /\ item' = data[head]
  /\ head' = NextNode(head)
  /\ size' = size - 1
  /\ readCode' = ERR_NOERROR
  /\ UNCHANGED <<tail, data, nodes, putCode>>

(***************************************************************************)
(* circularBufRead.  An empty ring returns CIRCULAR_BUFF_FULL: that is     *)
(* what the code says.                                                     *)
(***************************************************************************)
circularBufRead ==
  /\ nodes = Node
  /\ \/ /\ circularBufEmpty = CIRCULAR_BUFF_EMPTY
        /\ readCode' = CIRCULAR_BUFF_FULL
        /\ UNCHANGED <<head, tail, size, data, item>>
     \/ /\ circularBufEmpty # CIRCULAR_BUFF_EMPTY
        /\ item' = data[head]
        /\ data' = [data EXCEPT ![head] = Null]
        /\ head' = NextNode(head)
        /\ size' = size - 1
        /\ readCode' = ERR_NOERROR
        /\ UNCHANGED tail
  /\ UNCHANGED <<nodes, putCode>>

(***************************************************************************)
(* freeCircularBuf frees the header and the data of the header; the other  *)
(* nodes of the ring are not visited.  No other call can follow.           *)
(***************************************************************************)
freeCircularBuf ==
  /\ nodes = Node
  /\ nodes' = nodes \ {0}
  /\ UNCHANGED <<head, tail, size, data, putCode, readCode, item>>

Next ==
  \/ \E d \in Datagram : circularBufPut(d)
  \/ circularBufRead
  \/ freeCircularBuf

Spec == Init /\ [][Next]_vars

-----------------------------------------------------------------------------

TypeOK ==
  /\ head \in Node /\ tail \in Node
  /\ size \in 0..Capacity
  /\ data \in [Node -> Datagram \cup {Null}]
  /\ nodes \in SUBSET Node
  /\ putCode \in Code /\ readCode \in Code
  /\ item \in Datagram \cup {Null}

(***************************************************************************)
(* The buffer never loses its place in the ring, although the header is    *)
(* left for good after one round: the tail is size nodes after the head,   *)
(* and exactly the nodes between them hold a datagram.  So circularBufPut  *)
(* never overwrites (and leaks) a datagram nobody has read, and            *)
(* circularBufRead never reads a node that holds none.                     *)
(***************************************************************************)
RingWhole ==
  /\ tail = NodeAt(head, size)
  /\ HoldsExactly(data, head, size)

RingInv == TypeOK /\ RingWhole

(***************************************************************************)
(* The datagrams the buffer holds, in the order circularBufRead returns    *)
(* them, and the promise they keep: the buffer is a bounded queue.         *)
(***************************************************************************)
Contents == Walk(data, head, size)

Fifo == INSTANCE BoundedFifo
          WITH queue <- Contents,
               accepted <- (putCode = ERR_NOERROR),
               taken <- item

ImplementsFifo == Fifo!Spec

=============================================================================
