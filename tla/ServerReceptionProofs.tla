----------------------- MODULE ServerReceptionProofs -----------------------
(***************************************************************************)
(* Proofs about the two threads of the server for every capacity, every    *)
(* set of datagrams and every limit of empty datagrams: the safety         *)
(* properties ServerReception states, from one inductive invariant, and    *)
(* the refinement of BoundedFifo.                                          *)
(***************************************************************************)
EXTENDS ServerReception, RingGeometryProofs

USE CapacityAssumption, NullAssumption, ShortAssumption, NoDataAssumption

(***************************************************************************)
(* What makes the invariants inductive: what each thread carries from one  *)
(* step to the next.  The main thread may rely on the answer of its test   *)
(* until it reads, because only it takes datagrams out.                    *)
(***************************************************************************)
Carried ==
  /\ dpc \in {"lock", "full?", "load", "inc", "unlock"} => buffer \in Datagram
  /\ (mpc = "unlockTest" /\ answer = ERR_NOERROR) => size > 0
  /\ mpc \in {"load", "dec"} => size > 0
  /\ mpc \in {"load", "dec", "unlockRead", "handle"} => message \in Datagram
  /\ dpc # "end" => noData < NoDataLimit

IInv ==
  /\ TypeOK
  /\ MutexProtectsBuffer
  /\ ReadFindsDatagram
  /\ RingWhole
  /\ Carried

-----------------------------------------------------------------------------

LEMMA ReceptionInit == Init => IInv
<1>. SUFFICES ASSUME Init PROVE IInv
  OBVIOUS
<1>1. TypeOK
  BY DEF Init, TypeOK, Node, Thread, Free, DownloadPc, MainPc, Code
<1>2. RingWhole
  <2>1. Stored = 0 /\ 0 \in 0..Capacity
    BY DEF Init, Stored
  <2>2. tail = NodeAt(head, 0) /\ HoldsExactly(data, head, 0)
    BY DEF Init, NodeAt, HoldsExactly, Node
  <2>. QED
    BY <2>1, <2>2 DEF Init, RingWhole
<1>3. MutexProtectsBuffer /\ ReadFindsDatagram /\ Carried
  BY DEF Init, MutexProtectsBuffer, InPut, InTest, InRead, ReadFindsDatagram,
         Carried
<1>. QED
  BY <1>1, <1>2, <1>3 DEF IInv

(***************************************************************************)
(* The steps that leave the ring alone, or only load size.                 *)
(***************************************************************************)
LEMMA DownloadStep ==
  ASSUME IInv,
         \/ \E d \in Datagram : Receive(d)
         \/ ReceiveNothing \/ LockPut \/ PutFull \/ PutLoad \/ UnlockPut
  PROVE  IInv'
<1>. USE DEF IInv, TypeOK, MutexProtectsBuffer, InPut, InTest, InRead,
             ReadFindsDatagram, RingWhole, Stored, Carried,
             Thread, Free, DownloadPc, MainPc, Code, ring, main
<1>1. ASSUME NEW d \in Datagram, Receive(d) PROVE IInv'
  BY <1>1 DEF Receive
<1>2. CASE ReceiveNothing
  BY <1>2 DEF ReceiveNothing
<1>3. CASE LockPut
  BY <1>3 DEF LockPut
<1>4. CASE PutFull
  BY <1>4 DEF PutFull
<1>5. CASE PutLoad
  BY <1>5 DEF PutLoad
<1>6. CASE UnlockPut
  BY <1>6 DEF UnlockPut
<1>. QED
  BY <1>1, <1>2, <1>3, <1>4, <1>5, <1>6

LEMMA MainStep ==
  ASSUME IInv,
         \/ LockTest \/ TestEmpty \/ UnlockTest \/ LockRead
         \/ ReadLoad \/ UnlockRead \/ Handle \/ Check
  PROVE  IInv'
<1>. USE DEF IInv, TypeOK, MutexProtectsBuffer, InPut, InTest, InRead,
             ReadFindsDatagram, RingWhole, Stored, Carried,
             Thread, Free, DownloadPc, MainPc, Code, ERR_NOERROR,
             CIRCULAR_BUFF_EMPTY, ring, download
<1>1. CASE LockTest
  BY <1>1 DEF LockTest
<1>2. CASE TestEmpty
  BY <1>2 DEF TestEmpty
<1>3. CASE UnlockTest
  BY <1>3 DEF UnlockTest
<1>4. CASE LockRead
  BY <1>4 DEF LockRead
<1>5. CASE ReadLoad
  BY <1>5 DEF ReadLoad
<1>6. CASE UnlockRead
  BY <1>6 DEF UnlockRead
<1>7. CASE Handle
  BY <1>7 DEF Handle
<1>8. CASE Check
  BY <1>8 DEF Check
<1>. QED
  BY <1>1, <1>2, <1>3, <1>4, <1>5, <1>6, <1>7, <1>8

(***************************************************************************)
(* q->tail->data = item; q->tail = q->tail->next: the main thread is out   *)
(* of the buffer, so size is the number of stored datagrams.               *)
(***************************************************************************)
LEMMA PutStoreStep ==
  ASSUME IInv, PutStore
  PROVE  IInv'
<1>1. /\ Running /\ dpc = "full?" /\ size # Capacity
      /\ data' = [data EXCEPT ![tail] = buffer]
      /\ tail' = NextNode(tail)
      /\ dpc' = "load"
      /\ UNCHANGED <<head, size, mutex, buffer, dsize, err, noData, main>>
  BY DEF PutStore
<1>2. /\ mutex = "download"
      /\ mpc \notin {"empty?", "unlockTest", "read", "load", "dec", "unlockRead"}
      /\ buffer \in Datagram
  BY <1>1 DEF IInv, MutexProtectsBuffer, InPut, InTest, InRead, Carried
<1>3. Stored = size /\ Stored' = size + 1 /\ size \in 0..(Capacity - 1)
  BY <1>1, <1>2 DEF IInv, TypeOK, Stored, main
<1>4. /\ head \in Node /\ data \in [Node -> Datagram \cup {Null}]
      /\ tail = NodeAt(head, size) /\ HoldsExactly(data, head, size)
  BY <1>3 DEF IInv, TypeOK, RingWhole
<1>5. /\ tail' = NodeAt(head, size + 1) /\ tail' \in Node
      /\ HoldsExactly(data', head, size + 1)
  BY <1>1, <1>2, <1>3, <1>4, NodeAtStep, FillNext
<1>6. TypeOK'
  BY <1>1, <1>2, <1>4, <1>5 DEF IInv, TypeOK, DownloadPc, main
<1>7. RingWhole'
  BY <1>1, <1>2, <1>3, <1>5 DEF RingWhole, main
<1>8. MutexProtectsBuffer' /\ ReadFindsDatagram' /\ Carried'
  BY <1>1, <1>2 DEF IInv, MutexProtectsBuffer, InPut, InTest, InRead,
                    ReadFindsDatagram, Carried, main
<1>. QED
  BY <1>6, <1>7, <1>8 DEF IInv

LEMMA PutIncStep ==
  ASSUME IInv, PutInc
  PROVE  IInv'
<1>1. /\ dpc = "inc" /\ dpc' = "unlock"
      /\ size' = dsize + 1
      /\ err' = ERR_NOERROR
      /\ UNCHANGED <<head, tail, data, mutex, buffer, dsize, noData, main>>
  BY DEF PutInc
<1>2. /\ mutex = "download"
      /\ mpc \notin {"empty?", "unlockTest", "read", "load", "dec", "unlockRead"}
      /\ dsize = size
  BY <1>1 DEF IInv, MutexProtectsBuffer, InPut, InTest, InRead, RingWhole
<1>3. Stored = size + 1 /\ Stored' = Stored /\ size' = Stored
  BY <1>1, <1>2 DEF IInv, TypeOK, Stored, main
<1>4. TypeOK'
  BY <1>1, <1>2, <1>3 DEF IInv, TypeOK, RingWhole, DownloadPc, Code, main
<1>5. RingWhole'
  BY <1>1, <1>2, <1>3 DEF IInv, RingWhole, main
<1>6. MutexProtectsBuffer' /\ ReadFindsDatagram' /\ Carried'
  BY <1>1, <1>2 DEF IInv, TypeOK, MutexProtectsBuffer, InPut, InTest, InRead,
                    ReadFindsDatagram, Carried, main
<1>. QED
  BY <1>4, <1>5, <1>6 DEF IInv

(***************************************************************************)
(* circularBufRead takes the first datagram: the invariant says there is   *)
(* one, and that threadDownload is out of the buffer.                      *)
(***************************************************************************)
LEMMA ReadTakeFacts ==
  ASSUME IInv, ReadTake
  PROVE  /\ mpc = "read" /\ mpc' = "load"
         /\ message' = data[head] /\ lastRead' = data[head]
         /\ data' = [data EXCEPT ![head] = Null]
         /\ head' = NextNode(head)
         /\ UNCHANGED <<tail, size, mutex, download, answer, msize>>
         /\ mutex = "main"
         /\ dpc \notin {"full?", "load", "inc", "unlock"}
         /\ Stored = size /\ size \in 1..Capacity
         /\ head \in Node /\ data \in [Node -> Datagram \cup {Null}]
         /\ tail = NodeAt(head, size) /\ HoldsExactly(data, head, size)
<1>1. /\ mpc = "read" /\ size \in 1..Capacity /\ mutex = "main"
      /\ dpc \notin {"full?", "load", "inc", "unlock"}
  BY DEF ReadTake, IInv, TypeOK, MutexProtectsBuffer, InPut, InTest, InRead,
         ReadFindsDatagram
<1>2. Stored = size
  BY <1>1 DEF Stored
<1>3. /\ mpc' = "load"
      /\ message' = data[head] /\ lastRead' = data[head]
      /\ data' = [data EXCEPT ![head] = Null]
      /\ head' = NextNode(head)
      /\ UNCHANGED <<tail, size, mutex, download, answer, msize>>
  BY <1>1 DEF ReadTake
<1>. QED
  BY <1>1, <1>2, <1>3 DEF IInv, TypeOK, RingWhole

LEMMA ReadTakeStep ==
  ASSUME IInv, ReadTake
  PROVE  IInv'
<1>1. /\ data[head] \in Datagram
      /\ HoldsExactly(data', head', size - 1)
  <2>1. HoldsExactly([data EXCEPT ![head] = Null], NextNode(head), size - 1)
        /\ data[head] \in Datagram
    BY ReadTakeFacts, EmptyFirst
  <2>. QED
    BY <2>1, ReadTakeFacts
<1>2. head' \in Node /\ tail = NodeAt(head', size - 1)
  <2>1. size - 1 \in 0..(Capacity - 1) /\ (size - 1) + 1 = size
    BY ReadTakeFacts
  <2>. QED
    BY <2>1, ReadTakeFacts, NodeAtShift
<1>3. Stored' = size - 1
  BY ReadTakeFacts DEF Stored, download
<1>4. TypeOK'
  BY <1>1, <1>2, ReadTakeFacts DEF IInv, TypeOK, MainPc, download
<1>5. RingWhole'
  BY <1>1, <1>2, <1>3, ReadTakeFacts DEF IInv, RingWhole, download
<1>6. MutexProtectsBuffer' /\ ReadFindsDatagram' /\ Carried'
  BY <1>1, ReadTakeFacts DEF IInv, MutexProtectsBuffer, InPut, InTest, InRead,
                             ReadFindsDatagram, Carried, download
<1>. QED
  BY <1>4, <1>5, <1>6 DEF IInv

LEMMA ReadDecStep ==
  ASSUME IInv, ReadDec
  PROVE  IInv'
<1>1. /\ mpc = "dec" /\ mpc' = "unlockRead"
      /\ size' = msize - 1
      /\ UNCHANGED <<head, tail, data, mutex, download, answer, message,
                     msize, lastRead>>
  BY DEF ReadDec
<1>2. /\ mutex = "main" /\ dpc \notin {"full?", "load", "inc", "unlock"}
      /\ msize = size /\ size \in 1..Capacity
  BY <1>1 DEF IInv, TypeOK, MutexProtectsBuffer, InPut, InTest, InRead,
              RingWhole, Carried
<1>3. Stored = size - 1 /\ Stored' = Stored
  BY <1>1, <1>2 DEF Stored, download
<1>4. TypeOK'
  BY <1>1, <1>2 DEF IInv, TypeOK, MainPc, download
<1>5. RingWhole'
  BY <1>1, <1>2, <1>3 DEF IInv, RingWhole, download
<1>6. MutexProtectsBuffer' /\ ReadFindsDatagram' /\ Carried'
  BY <1>1, <1>2 DEF IInv, MutexProtectsBuffer, InPut, InTest, InRead,
                    ReadFindsDatagram, Carried, download
<1>. QED
  BY <1>4, <1>5, <1>6 DEF IInv

LEMMA ReceptionStep == IInv /\ [Next]_vars => IInv'
<1>. SUFFICES ASSUME IInv, [Next]_vars PROVE IInv'
  OBVIOUS
<1>1. CASE \/ \E d \in Datagram : Receive(d)
           \/ ReceiveNothing \/ LockPut \/ PutFull \/ PutLoad \/ UnlockPut
  BY <1>1, DownloadStep
<1>2. CASE \/ LockTest \/ TestEmpty \/ UnlockTest \/ LockRead
           \/ ReadLoad \/ UnlockRead \/ Handle \/ Check
  BY <1>2, MainStep
<1>3. CASE PutStore
  BY <1>3, PutStoreStep
<1>4. CASE PutInc
  BY <1>4, PutIncStep
<1>5. CASE ReadTake
  BY <1>5, ReadTakeStep
<1>6. CASE ReadDec
  BY <1>6, ReadDecStep
<1>7. CASE UNCHANGED vars
  BY <1>7 DEF vars, ring, download, main, IInv, TypeOK, MutexProtectsBuffer,
              InPut, InTest, InRead, ReadFindsDatagram, RingWhole, Stored,
              Carried
<1>. QED
  BY <1>1, <1>2, <1>3, <1>4, <1>5, <1>6, <1>7
     DEF Next, PutSteps, ReadSteps, LoopSteps

(***************************************************************************)
(* IInv holds in every reachable state.                                    *)
(***************************************************************************)
THEOREM ReceptionInvariance == Spec => []IInv
BY ReceptionInit, ReceptionStep, PTL DEF Spec

(***************************************************************************)
(* The type invariant of the two threads, for every capacity.              *)
(***************************************************************************)
THEOREM ReceptionTypeCorrect == Spec => []TypeOK
BY ReceptionInvariance, PTL DEF IInv

(***************************************************************************)
(* Only the owner of circBufferMutex is inside the code of the buffer.     *)
(***************************************************************************)
THEOREM MutualExclusion == Spec => []MutexProtectsBuffer
BY ReceptionInvariance, PTL DEF IInv

(***************************************************************************)
(* The read after a test that found the buffer not empty delivers.         *)
(***************************************************************************)
THEOREM ReadNeverEmpty == Spec => []ReadFindsDatagram
BY ReceptionInvariance, PTL DEF IInv

(***************************************************************************)
(* The ring is whole at every step of either thread.                       *)
(***************************************************************************)
THEOREM SharedRingStaysWhole == Spec => []RingWhole
BY ReceptionInvariance, PTL DEF IInv

-----------------------------------------------------------------------------
(* The refinement of BoundedFifo.                                          *)

LEMMA InitRefines == Init => Fifo!Init
BY DEF Init, Fifo!Init, Waiting, Walk, ERR_NOERROR

(***************************************************************************)
(* size++ is the instant the datagram enters the queue.                    *)
(***************************************************************************)
LEMMA PutIncRefines ==
  ASSUME IInv, PutInc
  PROVE  Fifo!Next
<1>1. /\ dpc = "inc"
      /\ size' = dsize + 1
      /\ err' = ERR_NOERROR
      /\ UNCHANGED <<head, tail, data, main>>
  BY DEF PutInc
<1>2. mpc \notin {"load", "dec"} /\ mpc' = mpc /\ dsize = size
  BY <1>1 DEF IInv, MutexProtectsBuffer, InPut, InRead, RingWhole, main
<1>3. Stored = size + 1 /\ size \in 0..(Capacity - 1)
  BY <1>1, <1>2 DEF IInv, TypeOK, RingWhole, Stored
<1>4. /\ head \in Node /\ data \in [Node -> Datagram \cup {Null}]
      /\ HoldsExactly(data, head, size + 1)
  BY <1>3 DEF IInv, TypeOK, RingWhole
<1>5. Filled(data, head, size + 1)
  BY <1>3, <1>4, HoldsExactlyFills
<1>6. Filled(data, head, size)
  BY <1>3, <1>5 DEF Filled
<1>. DEFINE d == data[NodeAt(head, size)]
<1>7. d \in Datagram
  BY <1>3, <1>4, <1>5, NodeAtStep DEF Filled
<1>8. [data EXCEPT ![NodeAt(head, size)] = d] = data
  BY <1>4
<1>9. Walk(data, head, size + 1) = Append(Walk(data, head, size), d)
  <2>. HIDE DEF d
  <2>. QED
    BY <1>3, <1>4, <1>6, <1>7, <1>8, WalkAppend
<1>10. Waiting = Walk(data, head, size) /\ Waiting' = Walk(data, head, size + 1)
  BY <1>1, <1>2, <1>3 DEF Waiting
<1>11. Len(Waiting) = size
  BY <1>3, <1>4, <1>6, <1>10, WalkIsSeq
<1>12. Fifo!Put(d)
  BY <1>1, <1>3, <1>9, <1>10, <1>11 DEF Fifo!Put, main
<1>. QED
  BY <1>7, <1>12 DEF Fifo!Next

(***************************************************************************)
(* Moving the head is the instant the datagram leaves the queue.           *)
(***************************************************************************)
LEMMA ReadTakeRefines ==
  ASSUME IInv, ReadTake
  PROVE  Fifo!Next
<1>1. Waiting = Walk(data, head, size) /\ Waiting' = Walk(data', head', size - 1)
  BY ReadTakeFacts DEF Waiting
<1>2. Filled(data, head, size)
  BY ReadTakeFacts, HoldsExactlyFills
<1>3. /\ Waiting # << >> /\ Head(Waiting) = data[head]
      /\ Waiting' = Tail(Waiting)
  <2>1. /\ Walk(data, head, size) # << >>
        /\ Head(Walk(data, head, size)) = data[head]
        /\ Walk([data EXCEPT ![head] = Null], NextNode(head), size - 1)
             = Tail(Walk(data, head, size))
    BY <1>2, ReadTakeFacts, WalkTail
  <2>. QED
    BY <2>1, <1>1, ReadTakeFacts
<1>4. Fifo!Take
  BY <1>3, ReadTakeFacts DEF Fifo!Take, download
<1>. QED
  BY <1>4 DEF Fifo!Next

(***************************************************************************)
(* The refusal of a full buffer.                                           *)
(***************************************************************************)
LEMMA PutFullRefines ==
  ASSUME IInv, PutFull
  PROVE  Fifo!Next
<1>1. /\ dpc = "full?" /\ size = Capacity /\ err' = CIRCULAR_BUFF_FULL
      /\ UNCHANGED <<ring, main>>
  BY DEF PutFull
<1>2. mpc \notin {"load", "dec"} /\ Stored = size
  BY <1>1 DEF IInv, TypeOK, MutexProtectsBuffer, InPut, InRead, Stored
<1>3. /\ head \in Node /\ data \in [Node -> Datagram \cup {Null}]
      /\ Filled(data, head, size) /\ size \in 0..Capacity
  BY <1>2, HoldsExactlyFills DEF IInv, TypeOK, RingWhole
<1>4. Waiting = Walk(data, head, size) /\ Waiting' = Waiting
  BY <1>1, <1>2, <1>3 DEF Waiting, ring, main
<1>5. Len(Waiting) = Capacity
  BY <1>1, <1>3, <1>4, WalkIsSeq
<1>6. Fifo!Refuse
  BY <1>1, <1>4, <1>5
     DEF Fifo!Refuse, main, ERR_NOERROR, CIRCULAR_BUFF_FULL
<1>. QED
  BY <1>6 DEF Fifo!Next

(***************************************************************************)
(* Every other step leaves the queue as it is.                             *)
(***************************************************************************)
LEMMA StoreRefines ==
  ASSUME IInv, PutStore
  PROVE  UNCHANGED Fifo!fifoVars
<1>1. /\ data' = [data EXCEPT ![tail] = buffer]
      /\ UNCHANGED <<head, size, err, main>>
      /\ dpc = "full?" /\ size # Capacity
  BY DEF PutStore
<1>2. mpc \notin {"load", "dec"} /\ mpc' = mpc /\ Stored = size
      /\ lastRead' = lastRead
  BY <1>1 DEF IInv, TypeOK, MutexProtectsBuffer, InPut, InRead, Stored, main
<1>3. /\ head \in Node /\ data \in [Node -> Datagram \cup {Null}]
      /\ size \in 0..(Capacity - 1) /\ tail = NodeAt(head, size)
  BY <1>1, <1>2 DEF IInv, TypeOK, RingWhole
<1>4. ASSUME NEW k \in 1..size
      PROVE  data'[NodeAt(head, k - 1)] = data[NodeAt(head, k - 1)]
  <2>1. k - 1 \in 0..(Capacity - 1) /\ k - 1 # size
    BY <1>3
  <2>. QED
    BY <2>1, <1>1, <1>3, NodeAtStep, NodeAtInjective
<1>5. Walk(data', head, size) = Walk(data, head, size)
  BY <1>4 DEF Walk
<1>6. Waiting' = Waiting
  BY <1>1, <1>2, <1>3, <1>5 DEF Waiting
<1>. QED
  BY <1>1, <1>2, <1>6 DEF Fifo!fifoVars

LEMMA DecRefines ==
  ASSUME IInv, ReadDec
  PROVE  UNCHANGED Fifo!fifoVars
<1>1. /\ mpc = "dec" /\ mpc' = "unlockRead" /\ size' = msize - 1
      /\ UNCHANGED <<head, data, download, lastRead>>
  BY DEF ReadDec
<1>2. msize = size /\ size \in Nat
  BY <1>1 DEF IInv, TypeOK, RingWhole
<1>3. Waiting' = Waiting
  BY <1>1, <1>2 DEF Waiting
<1>. QED
  BY <1>1, <1>3 DEF Fifo!fifoVars, download

LEMMA OtherStepsRefine ==
  ASSUME IInv,
         \/ \E d \in Datagram : Receive(d)
         \/ ReceiveNothing \/ LockPut \/ PutLoad \/ UnlockPut
         \/ LockTest \/ TestEmpty \/ UnlockTest \/ LockRead
         \/ ReadLoad \/ UnlockRead \/ Handle \/ Check
         \/ UNCHANGED vars
  PROVE  UNCHANGED Fifo!fifoVars
<1>1. /\ UNCHANGED <<ring, err, lastRead>>
      /\ (mpc \in {"load", "dec"}) <=> (mpc' \in {"load", "dec"})
  BY DEF Receive, ReceiveNothing, LockPut, PutLoad, UnlockPut, LockTest,
         TestEmpty, UnlockTest, LockRead, ReadLoad, UnlockRead, Handle, Check,
         vars, download, main
<1>. QED
  BY <1>1 DEF Fifo!fifoVars, Waiting, ring

LEMMA StepRefines ==
  ASSUME IInv, [Next]_vars
  PROVE  [Fifo!Next]_(Fifo!fifoVars)
BY PutIncRefines, ReadTakeRefines, PutFullRefines, StoreRefines, DecRefines,
   OtherStepsRefine
   DEF Next, PutSteps, ReadSteps, LoopSteps

(***************************************************************************)
(* The two threads and their mutex implement one bounded first-in          *)
(* first-out queue, for every capacity.                                    *)
(***************************************************************************)
THEOREM ReceptionImplementsFifo == Spec => ImplementsFifo
BY InitRefines, StepRefines, ReceptionInvariance, PTL
   DEF Spec, ImplementsFifo, Fifo!Spec

=============================================================================
