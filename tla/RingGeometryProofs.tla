------------------------- MODULE RingGeometryProofs -------------------------
(***************************************************************************)
(* Lemmas about walks in the ring, for every capacity, cited by the proofs *)
(* of CircularBuffer and of ServerReception.                               *)
(***************************************************************************)
EXTENDS RingGeometry, SequenceTheorems, TLAPS

USE CapacityAssumption, NullAssumption

(***************************************************************************)
(* Walking at most Capacity nodes stays in the ring, and one more step is  *)
(* what the next pointers of createCircularBuf do.                         *)
(***************************************************************************)
LEMMA NodeAtStep ==
  ASSUME NEW h \in Node, NEW k \in 0..(Capacity - 1)
  PROVE  /\ NodeAt(h, k) \in Node
         /\ NodeAt(h, k + 1) \in Node
         /\ NextNode(NodeAt(h, k)) = NodeAt(h, k + 1)
BY DEF Node, NodeAt, NextNode

(***************************************************************************)
(* The walk from the node after h is the walk from h without its first     *)
(* node, also when h is the header.                                        *)
(***************************************************************************)
LEMMA NodeAtShift ==
  ASSUME NEW h \in Node, NEW k \in 0..(Capacity - 1)
  PROVE  /\ NextNode(h) \in Node
         /\ NodeAt(NextNode(h), k) = NodeAt(h, k + 1)
BY DEF Node, NodeAt, NextNode

(***************************************************************************)
(* Two walks of different length, both shorter than Capacity, end on two   *)
(* different nodes: Capacity datagrams fit without meeting.                *)
(***************************************************************************)
LEMMA NodeAtInjective ==
  ASSUME NEW h \in Node,
         NEW j \in 0..(Capacity - 1), NEW k \in 0..(Capacity - 1),
         NodeAt(h, j) = NodeAt(h, k)
  PROVE  j = k
BY DEF Node, NodeAt

LEMMA NodeAtZero == \A h \in Node : NodeAt(h, 0) = h
BY DEF Node, NodeAt

(***************************************************************************)
(* The stretch of n nodes from h holds datagrams only.                     *)
(***************************************************************************)
Filled(c, h, n) == \A k \in 0..(n - 1) : c[NodeAt(h, k)] # Null

(***************************************************************************)
(* A walk over a filled stretch is a sequence of datagrams.                *)
(***************************************************************************)
LEMMA WalkIsSeq ==
  ASSUME NEW c \in [Node -> Datagram \cup {Null}], NEW h \in Node,
         NEW n \in 0..Capacity, Filled(c, h, n)
  PROVE  /\ Walk(c, h, n) \in Seq(Datagram)
         /\ Len(Walk(c, h, n)) = n
         /\ \A k \in 1..n : Walk(c, h, n)[k] = c[NodeAt(h, k - 1)]
<1>1. ASSUME NEW k \in 1..n
      PROVE  c[NodeAt(h, k - 1)] \in Datagram
  <2>1. k - 1 \in 0..(n - 1) /\ k - 1 \in 0..(Capacity - 1)
    OBVIOUS
  <2>2. c[NodeAt(h, k - 1)] # Null
    BY <2>1 DEF Filled
  <2>. QED
    BY <2>1, <2>2, NodeAtStep
<1>2. Walk(c, h, n) = [k \in 1..n |-> c[NodeAt(h, k - 1)]]
  BY DEF Walk
<1>3. [k \in 1..n |-> c[NodeAt(h, k - 1)]] \in [1..n -> Datagram]
  BY <1>1
<1>4. Walk(c, h, n) \in [1..n -> Datagram]
  BY <1>2, <1>3
<1>. QED
  BY <1>2, <1>4

(***************************************************************************)
(* Filling the node after a walk appends to the walk.                      *)
(***************************************************************************)
LEMMA WalkAppend ==
  ASSUME NEW c \in [Node -> Datagram \cup {Null}], NEW h \in Node,
         NEW n \in 0..(Capacity - 1), NEW d \in Datagram, Filled(c, h, n)
  PROVE  Walk([c EXCEPT ![NodeAt(h, n)] = d], h, n + 1)
           = Append(Walk(c, h, n), d)
<1>. DEFINE c2 == [c EXCEPT ![NodeAt(h, n)] = d]
<1>1. c2 \in [Node -> Datagram \cup {Null}] /\ c2[NodeAt(h, n)] = d
  BY NodeAtStep
<1>2. ASSUME NEW k \in 0..(n - 1)
      PROVE  c2[NodeAt(h, k)] = c[NodeAt(h, k)]
  BY NodeAtStep, NodeAtInjective
<1>3. Filled(c2, h, n + 1)
  <2>1. ASSUME NEW k \in 0..n PROVE c2[NodeAt(h, k)] # Null
    <3>1. CASE k = n
      BY <3>1, <1>1
    <3>2. CASE k # n
      BY <3>2, <1>2 DEF Filled
    <3>. QED
      BY <3>1, <3>2
  <2>. QED
    BY <2>1 DEF Filled
<1>. HIDE DEF c2
<1>4. /\ Walk(c, h, n) \in Seq(Datagram) /\ Len(Walk(c, h, n)) = n
      /\ \A k \in 1..n : Walk(c, h, n)[k] = c[NodeAt(h, k - 1)]
  BY WalkIsSeq
<1>5. /\ Walk(c2, h, n + 1) \in Seq(Datagram)
      /\ Len(Walk(c2, h, n + 1)) = n + 1
      /\ \A k \in 1..(n + 1) : Walk(c2, h, n + 1)[k] = c2[NodeAt(h, k - 1)]
  BY <1>1, <1>3, WalkIsSeq
<1>6. ASSUME NEW k \in 1..n PROVE Walk(c2, h, n + 1)[k] = Walk(c, h, n)[k]
  <2>1. k - 1 \in 0..(n - 1) /\ k \in 1..(n + 1)
    OBVIOUS
  <2>. QED
    BY <2>1, <1>2, <1>4, <1>5
<1>7. Walk(c2, h, n + 1)[n + 1] = d
  BY <1>1, <1>5
<1>8. Walk(c2, h, n + 1) = Append(Walk(c, h, n), d)
  BY <1>4, <1>5, <1>6, <1>7
<1>. QED
  BY <1>8 DEF c2

(***************************************************************************)
(* Emptying the first node of a walk and starting from the next one drops  *)
(* the head of the walk.                                                   *)
(***************************************************************************)
LEMMA WalkTail ==
  ASSUME NEW c \in [Node -> Datagram \cup {Null}], NEW h \in Node,
         NEW n \in 1..Capacity, Filled(c, h, n)
  PROVE  /\ Walk(c, h, n) # << >>
         /\ Head(Walk(c, h, n)) = c[h]
         /\ Walk([c EXCEPT ![h] = Null], NextNode(h), n - 1)
              = Tail(Walk(c, h, n))
<1>. DEFINE c2 == [c EXCEPT ![h] = Null]
            g  == NextNode(h)
<1>1. c2 \in [Node -> Datagram \cup {Null}] /\ g \in Node
  BY NodeAtShift
<1>2. ASSUME NEW k \in 0..(n - 2)
      PROVE  /\ c2[NodeAt(g, k)] = c[NodeAt(h, k + 1)]
             /\ c[NodeAt(h, k + 1)] # Null
  <2>1. /\ k \in 0..(Capacity - 1) /\ k + 1 \in 0..(Capacity - 1)
        /\ k + 1 \in 0..(n - 1) /\ k + 1 # 0
    OBVIOUS
  <2>2. /\ NodeAt(g, k) = NodeAt(h, k + 1)
        /\ NodeAt(h, k + 1) \in Node /\ NodeAt(h, k + 1) # h
    BY <2>1, NodeAtShift, NodeAtStep, NodeAtInjective, NodeAtZero
  <2>. QED
    BY <2>1, <2>2 DEF Filled
<1>3. Filled(c2, g, n - 1)
  BY <1>2 DEF Filled
<1>. HIDE DEF c2, g
<1>4. /\ Walk(c, h, n) \in Seq(Datagram) /\ Len(Walk(c, h, n)) = n
      /\ \A k \in 1..n : Walk(c, h, n)[k] = c[NodeAt(h, k - 1)]
  BY WalkIsSeq
<1>5. /\ Walk(c2, g, n - 1) \in Seq(Datagram)
      /\ Len(Walk(c2, g, n - 1)) = n - 1
      /\ \A k \in 1..(n - 1) : Walk(c2, g, n - 1)[k] = c2[NodeAt(g, k - 1)]
  BY <1>1, <1>3, WalkIsSeq
<1>6. ASSUME NEW k \in 1..(n - 1)
      PROVE  Walk(c2, g, n - 1)[k] = Walk(c, h, n)[k + 1]
  BY <1>2, <1>4, <1>5
<1>7. Walk(c2, g, n - 1) = Tail(Walk(c, h, n))
  BY <1>4, <1>5, <1>6
<1>8. Walk(c, h, n) # << >> /\ Head(Walk(c, h, n)) = c[h]
  BY <1>4, NodeAtZero
<1>. QED
  BY <1>7, <1>8 DEF c2, g

(***************************************************************************)
(* Filling the node after the n occupied ones: n + 1 are occupied, and the *)
(* node that is filled was empty.                                          *)
(***************************************************************************)
LEMMA FillNext ==
  ASSUME NEW c \in [Node -> Datagram \cup {Null}], NEW h \in Node,
         NEW n \in 0..(Capacity - 1), NEW d \in Datagram,
         HoldsExactly(c, h, n)
  PROVE  /\ c[NodeAt(h, n)] = Null
         /\ HoldsExactly([c EXCEPT ![NodeAt(h, n)] = d], h, n + 1)
<1>. DEFINE c2 == [c EXCEPT ![NodeAt(h, n)] = d]
<1>1. NodeAt(h, n) \in Node
  BY NodeAtStep
<1>2. \A k \in 0..(n - 1) : NodeAt(h, k) # NodeAt(h, n)
  BY NodeAtInjective
<1>3. c[NodeAt(h, n)] = Null
  BY <1>1, <1>2 DEF HoldsExactly
<1>4. ASSUME NEW i \in Node
      PROVE  (c2[i] # Null) <=> (\E k \in 0..n : i = NodeAt(h, k))
  <2>1. CASE i = NodeAt(h, n)
    BY <2>1, <1>1
  <2>2. CASE i # NodeAt(h, n)
    <3>1. c2[i] = c[i]
      BY <2>2
    <3>2. (\E k \in 0..n : i = NodeAt(h, k))
            <=> (\E k \in 0..(n - 1) : i = NodeAt(h, k))
      BY <2>2
    <3>. QED
      BY <3>1, <3>2 DEF HoldsExactly
  <2>. QED
    BY <2>1, <2>2
<1>5. HoldsExactly(c2, h, n + 1)
  BY <1>4 DEF HoldsExactly
<1>. QED
  BY <1>3, <1>5

(***************************************************************************)
(* Emptying the first of the n occupied nodes: the n - 1 others are.       *)
(***************************************************************************)
LEMMA EmptyFirst ==
  ASSUME NEW c \in [Node -> Datagram \cup {Null}], NEW h \in Node,
         NEW n \in 1..Capacity, HoldsExactly(c, h, n)
  PROVE  /\ c[h] \in Datagram
         /\ HoldsExactly([c EXCEPT ![h] = Null], NextNode(h), n - 1)
<1>. DEFINE c2 == [c EXCEPT ![h] = Null]
<1>1. NodeAt(h, 0) = h /\ 0 \in 0..(n - 1)
  BY NodeAtZero
<1>2. c[h] \in Datagram
  BY <1>1 DEF HoldsExactly
<1>3. \A k \in 0..(n - 2) : /\ NodeAt(NextNode(h), k) = NodeAt(h, k + 1)
                            /\ NodeAt(h, k + 1) # h
  <2>1. ASSUME NEW k \in 0..(n - 2)
        PROVE  /\ NodeAt(NextNode(h), k) = NodeAt(h, k + 1)
               /\ NodeAt(h, k + 1) # h
    <3>1. /\ k \in 0..(Capacity - 1) /\ k + 1 \in 0..(Capacity - 1)
          /\ k + 1 # 0 /\ 0 \in 0..(Capacity - 1)
      OBVIOUS
    <3>. QED
      BY <3>1, <1>1, NodeAtShift, NodeAtInjective
  <2>. QED
    BY <2>1
<1>4. ASSUME NEW i \in Node
      PROVE  (c2[i] # Null)
               <=> (\E k \in 0..(n - 2) : i = NodeAt(NextNode(h), k))
  <2>1. CASE i = h
    BY <2>1, <1>3
  <2>2. CASE i # h
    <3>1. c2[i] = c[i]
      BY <2>2
    <3>2. ASSUME NEW k \in 0..(n - 1), i = NodeAt(h, k)
          PROVE  k - 1 \in 0..(n - 2) /\ i = NodeAt(NextNode(h), k - 1)
      <4>1. k # 0
        BY <3>2, <2>2, <1>1
      <4>2. k - 1 \in 0..(n - 2) /\ (k - 1) + 1 = k
        BY <4>1
      <4>. QED
        BY <4>2, <3>2, <1>3
    <3>3. ASSUME NEW k \in 0..(n - 2), i = NodeAt(NextNode(h), k)
          PROVE  k + 1 \in 0..(n - 1) /\ i = NodeAt(h, k + 1)
      BY <3>3, <1>3
    <3>. QED
      BY <3>1, <3>2, <3>3 DEF HoldsExactly
  <2>. QED
    BY <2>1, <2>2
<1>5. HoldsExactly(c2, NextNode(h), n - 1)
  BY <1>4 DEF HoldsExactly
<1>. QED
  BY <1>2, <1>5

(***************************************************************************)
(* The nodes that hold exactly the stretch are a filled stretch.           *)
(***************************************************************************)
LEMMA HoldsExactlyFills ==
  ASSUME NEW c, NEW h \in Node, NEW n \in 0..Capacity,
         HoldsExactly(c, h, n)
  PROVE  Filled(c, h, n)
<1>1. ASSUME NEW k \in 0..(n - 1) PROVE c[NodeAt(h, k)] # Null
  <2>1. k \in 0..(Capacity - 1)
    OBVIOUS
  <2>2. NodeAt(h, k) \in Node
    BY <2>1, NodeAtStep
  <2>. QED
    BY <2>2 DEF HoldsExactly
<1>. QED
  BY <1>1 DEF Filled

=============================================================================
