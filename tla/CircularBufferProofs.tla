------------------------ MODULE CircularBufferProofs ------------------------
(***************************************************************************)
(* Proofs about CircularBuffer for every capacity and every set of         *)
(* datagrams.  RingInv is inductive; the refinement of BoundedFifo follows *)
(* from it.                                                                *)
(***************************************************************************)
EXTENDS CircularBuffer, RingGeometryProofs

USE CapacityAssumption, NullAssumption

-----------------------------------------------------------------------------
(* The inductive invariant.                                                *)

LEMMA RingInit == Init => RingInv
BY DEF Init, RingInv, TypeOK, RingWhole, HoldsExactly, Node, NodeAt, Code,
       ERR_NOERROR

(***************************************************************************)
(* A successful circularBufPut fills the node after the occupied stretch.  *)
(***************************************************************************)
LEMMA PutKeepsRing ==
  ASSUME RingInv, NEW d \in Datagram, circularBufPut(d)
  PROVE  RingInv'
<1>. USE DEF RingInv
<1>1. CASE circularBufFull = CIRCULAR_BUFF_FULL
  <2>1. /\ UNCHANGED ring /\ UNCHANGED <<nodes, readCode, item>>
        /\ putCode' \in Code
    BY <1>1 DEF circularBufPut, Code
  <2>. QED
    BY <2>1 DEF ring, TypeOK, RingWhole
<1>2. CASE circularBufFull # CIRCULAR_BUFF_FULL
  <2>1. /\ data' = [data EXCEPT ![tail] = d]
        /\ tail' = NextNode(tail)
        /\ size' = size + 1
        /\ putCode' = ERR_NOERROR
        /\ UNCHANGED <<head, nodes, readCode, item>>
    BY <1>2 DEF circularBufPut
  <2>2. size # Capacity
    BY <1>2 DEF circularBufFull
  <2>3. /\ size \in 0..(Capacity - 1)
        /\ head \in Node /\ tail \in Node
        /\ data \in [Node -> Datagram \cup {Null}]
        /\ tail = NodeAt(head, size)
        /\ HoldsExactly(data, head, size)
    BY <2>2 DEF TypeOK, RingWhole
  <2>4. tail' = NodeAt(head, size + 1) /\ tail' \in Node
    BY <2>1, <2>3, NodeAtStep
  <2>5. HoldsExactly(data', head, size + 1)
    BY <2>1, <2>3, FillNext
  <2>6. TypeOK'
    BY <2>1, <2>3, <2>4 DEF TypeOK, Code
  <2>7. RingWhole'
    BY <2>1, <2>4, <2>5 DEF RingWhole
  <2>. QED
    BY <2>6, <2>7
<1>. QED
  BY <1>1, <1>2

(***************************************************************************)
(* A successful circularBufRead empties the first node of the stretch.     *)
(***************************************************************************)
LEMMA ReadKeepsRing ==
  ASSUME RingInv, circularBufRead
  PROVE  RingInv'
<1>. USE DEF RingInv
<1>1. CASE circularBufEmpty = CIRCULAR_BUFF_EMPTY
  <2>1. /\ UNCHANGED <<head, tail, size, data, item, nodes, putCode>>
        /\ readCode' \in Code
    BY <1>1 DEF circularBufRead, Code
  <2>. QED
    BY <2>1 DEF TypeOK, RingWhole
<1>2. CASE circularBufEmpty # CIRCULAR_BUFF_EMPTY
  <2>1. /\ item' = data[head]
        /\ data' = [data EXCEPT ![head] = Null]
        /\ head' = NextNode(head)
        /\ size' = size - 1
        /\ readCode' = ERR_NOERROR
        /\ UNCHANGED <<tail, nodes, putCode>>
    BY <1>2 DEF circularBufRead
  <2>2. size # 0
    BY <1>2 DEF circularBufEmpty
  <2>3. /\ size \in 1..Capacity /\ size - 1 \in 0..(Capacity - 1)
        /\ head \in Node /\ tail \in Node
        /\ data \in [Node -> Datagram \cup {Null}]
        /\ tail = NodeAt(head, size)
        /\ HoldsExactly(data, head, size)
    BY <2>2 DEF TypeOK, RingWhole
  <2>4. /\ head' \in Node
        /\ NodeAt(head', size - 1) = tail
    BY <2>1, <2>3, NodeAtShift
  <2>5. HoldsExactly(data', head', size - 1)
    BY <2>1, <2>3, EmptyFirst
  <2>6. TypeOK'
    BY <2>1, <2>3, <2>4 DEF TypeOK, Code
  <2>7. RingWhole'
    BY <2>1, <2>4, <2>5 DEF RingWhole
  <2>. QED
    BY <2>6, <2>7
<1>. QED
  BY <1>1, <1>2

LEMMA FreeKeepsRing == RingInv /\ freeCircularBuf => RingInv'
BY DEF RingInv, TypeOK, RingWhole, freeCircularBuf

LEMMA RingStep == RingInv /\ [Next]_vars => RingInv'
<1>. SUFFICES ASSUME RingInv, [Next]_vars PROVE RingInv'
  OBVIOUS
<1>1. ASSUME NEW d \in Datagram, circularBufPut(d) PROVE RingInv'
  BY <1>1, PutKeepsRing
<1>2. CASE circularBufRead
  BY <1>2, ReadKeepsRing
<1>3. CASE freeCircularBuf
  BY <1>3, FreeKeepsRing
<1>4. CASE UNCHANGED vars
  BY <1>4 DEF vars, RingInv, TypeOK, RingWhole
<1>. QED
  BY <1>1, <1>2, <1>3, <1>4 DEF Next

(***************************************************************************)
(* RingInv holds in every reachable state.                                 *)
(***************************************************************************)
THEOREM RingInvariance == Spec => []RingInv
BY RingInit, RingStep, PTL DEF Spec

(***************************************************************************)
(* The type invariant of circular_buffer.c's state, for every capacity.    *)
(***************************************************************************)
THEOREM TypeCorrect == Spec => []TypeOK
BY RingInvariance, PTL DEF RingInv

(***************************************************************************)
(* The occupied nodes are exactly those between head and tail: no datagram *)
(* is overwritten, none is read twice.                                     *)
(***************************************************************************)
THEOREM RingStaysWhole == Spec => []RingWhole
BY RingInvariance, PTL DEF RingInv

-----------------------------------------------------------------------------
(* The refinement of BoundedFifo.                                          *)

LEMMA ContentsFilled == RingInv => Filled(data, head, size)
BY HoldsExactlyFills DEF RingInv, RingWhole, TypeOK

(***************************************************************************)
(* circularBufPut is an accepted or a refused put of the queue.            *)
(***************************************************************************)
LEMMA PutRefines ==
  ASSUME RingInv, NEW d \in Datagram, circularBufPut(d)
  PROVE  [Fifo!Next]_(Fifo!fifoVars)
<1>1. CASE circularBufFull = CIRCULAR_BUFF_FULL
  <2>1. /\ UNCHANGED ring /\ UNCHANGED item
        /\ putCode' = CIRCULAR_BUFF_FULL
        /\ size = Capacity
    BY <1>1 DEF circularBufPut, circularBufFull, ERR_NOERROR,
                CIRCULAR_BUFF_FULL
  <2>2. Len(Contents) = Capacity
    BY <2>1, ContentsFilled, WalkIsSeq DEF Contents, RingInv, TypeOK
  <2>3. Fifo!Refuse
    BY <2>1, <2>2
       DEF Fifo!Refuse, ring, Contents, ERR_NOERROR, CIRCULAR_BUFF_FULL
  <2>. QED
    BY <2>3 DEF Fifo!Next
<1>2. CASE circularBufFull # CIRCULAR_BUFF_FULL
  <2>1. /\ data' = [data EXCEPT ![tail] = d]
        /\ size' = size + 1
        /\ putCode' = ERR_NOERROR
        /\ UNCHANGED <<head, item>>
    BY <1>2 DEF circularBufPut
  <2>2. size # Capacity
    BY <1>2 DEF circularBufFull
  <2>3. /\ size \in 0..(Capacity - 1)
        /\ head \in Node
        /\ data \in [Node -> Datagram \cup {Null}]
        /\ tail = NodeAt(head, size)
    BY <2>2 DEF RingInv, TypeOK, RingWhole
  <2>4. /\ Contents' = Append(Contents, d)
        /\ Len(Contents) = size
    <3>1. Filled(data, head, size)
      BY ContentsFilled
    <3>2. Walk([data EXCEPT ![NodeAt(head, size)] = d], head, size + 1)
            = Append(Walk(data, head, size), d)
      BY <3>1, <2>3, WalkAppend
    <3>3. Len(Walk(data, head, size)) = size
      BY <3>1, <2>3, WalkIsSeq
    <3>. QED
      BY <3>2, <3>3, <2>1, <2>3 DEF Contents
  <2>5. Fifo!Put(d)
    BY <2>1, <2>3, <2>4 DEF Fifo!Put
  <2>. QED
    BY <2>5 DEF Fifo!Next
<1>. QED
  BY <1>1, <1>2

(***************************************************************************)
(* circularBufRead is a take, or leaves the queue alone when it is empty.  *)
(***************************************************************************)
LEMMA ReadRefines ==
  ASSUME RingInv, circularBufRead
  PROVE  [Fifo!Next]_(Fifo!fifoVars)
<1>1. CASE circularBufEmpty = CIRCULAR_BUFF_EMPTY
  BY <1>1 DEF circularBufRead, Fifo!fifoVars, Contents
<1>2. CASE circularBufEmpty # CIRCULAR_BUFF_EMPTY
  <2>1. /\ item' = data[head]
        /\ data' = [data EXCEPT ![head] = Null]
        /\ head' = NextNode(head)
        /\ size' = size - 1
        /\ UNCHANGED putCode
    BY <1>2 DEF circularBufRead
  <2>2. size # 0
    BY <1>2 DEF circularBufEmpty
  <2>3. /\ size \in 1..Capacity
        /\ head \in Node
        /\ data \in [Node -> Datagram \cup {Null}]
    BY <2>2 DEF RingInv, TypeOK
  <2>4. /\ Contents # << >> /\ Head(Contents) = data[head]
        /\ Contents' = Tail(Contents)
    BY <2>1, <2>3, ContentsFilled, WalkTail DEF Contents
  <2>5. Fifo!Take
    BY <2>1, <2>4 DEF Fifo!Take
  <2>. QED
    BY <2>5 DEF Fifo!Next
<1>. QED
  BY <1>1, <1>2

LEMMA StepRefines ==
  ASSUME RingInv, [Next]_vars
  PROVE  [Fifo!Next]_(Fifo!fifoVars)
<1>1. ASSUME NEW d \in Datagram, circularBufPut(d)
      PROVE  [Fifo!Next]_(Fifo!fifoVars)
  BY <1>1, PutRefines
<1>2. CASE circularBufRead
  BY <1>2, ReadRefines
<1>3. CASE freeCircularBuf
  BY <1>3 DEF freeCircularBuf, Fifo!fifoVars, Contents
<1>4. CASE UNCHANGED vars
  BY <1>4 DEF vars, Fifo!fifoVars, Contents
<1>. QED
  BY <1>1, <1>2, <1>3, <1>4 DEF Next

LEMMA InitRefines == Init => Fifo!Init
BY DEF Init, Fifo!Init, Contents, Walk, ERR_NOERROR

(***************************************************************************)
(* circular_buffer.c implements a bounded first-in first-out queue, for    *)
(* every capacity: the datagrams come out in the order they went in, and   *)
(* only the newest is refused when the ring is full.                       *)
(***************************************************************************)
THEOREM RingImplementsFifo == Spec => ImplementsFifo
BY InitRefines, StepRefines, RingInvariance, PTL
   DEF Spec, ImplementsFifo, Fifo!Spec

=============================================================================
