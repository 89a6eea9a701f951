-------------------------- MODULE ServerReception --------------------------
(***************************************************************************)
(* The two threads of the server (Serv_ipmon/src/server_main.c) and the    *)
(* circular buffer they share under circBufferMutex.  threadDownload       *)
(* receives datagrams and puts them in the buffer; the main thread, in     *)
(* processItemsInCircularBuffer, tests the buffer, reads one datagram and  *)
(* handles it.  The test and the read are two separate critical sections.  *)
(* The assignments of circularBufPut and circularBufRead are single steps, *)
(* size++ and size-- being a load and a store, so that what the mutex      *)
(* prevents could happen if it were not taken.                             *)
(*                                                                         *)
(* What the main thread does with a datagram is ServerRegistry; here it    *)
(* only matters whether handling it leaves the loop, which a               *)
(* NEW_COORDINATES without its y or its map does.                          *)
(***************************************************************************)
EXTENDS RingGeometry

CONSTANTS ShortCoordinates, \* datagrams whose handling breaks the loop
          NoDataLimit       \* 1000 consecutive empty datagrams

ASSUME ShortAssumption == ShortCoordinates \subseteq Datagram
ASSUME NoDataAssumption == NoDataLimit \in Nat \ {0}

VARIABLES
  head, tail, size, data,  \* the CircularBuf
  mutex,      \* owner of circBufferMutex
  dpc,        \* where threadDownload is
  buffer,     \* the datagram threadDownload received
  dsize,      \* size as loaded by q->size++
  err,        \* what circularBufPut returned
  noData,     \* counterNoData
  mpc,        \* where the main thread is
  answer,     \* what circularBufEmpty returned (err in the code)
  message,    \* the datagram being handled
  msize,      \* size as loaded by q->size--
  lastRead    \* history: the last datagram circularBufRead delivered

ring == <<head, tail, size, data>>
download == <<dpc, buffer, dsize, err, noData>>
main == <<mpc, answer, message, msize, lastRead>>
vars == <<ring, mutex, download, main>>

Thread == {"download", "main"}
Free == "free"

DownloadPc == {"recv", "lock", "full?", "load", "inc", "unlock", "end"}
MainPc == {"lockTest", "empty?", "unlockTest", "lockRead", "read", "load",
           "dec", "unlockRead", "handle", "check", "exit"}

Init ==
  /\ head = 0 /\ tail = 0 /\ size = 0
  /\ data = [i \in Node |-> Null]
  /\ mutex = Free
  /\ dpc = "recv" /\ buffer = Null /\ dsize = 0 /\ err = ERR_NOERROR
  /\ noData = 0
  /\ mpc = "lockTest" /\ answer = CIRCULAR_BUFF_EMPTY /\ message = Null /\ msize = 0
  /\ lastRead = Null

\* exit(EXIT_SUCCESS) at the end of main ends both threads; nothing
\* threadDownload still does between the break and the exit is seen again.
Running == mpc # "exit"

-----------------------------------------------------------------------------
(* threadDownload                                                          *)

\* recvfrom returns n > 0.
Receive(d) ==
  /\ Running /\ dpc = "recv"
  /\ buffer' = d
  /\ noData' = 0
  /\ dpc' = "lock"
  /\ UNCHANGED <<ring, mutex, dsize, err, main>>

\* recvfrom returns 0: an empty datagram.
ReceiveNothing ==
  /\ Running /\ dpc = "recv"
  /\ noData' = noData + 1
  /\ dpc' = IF noData' < NoDataLimit THEN "recv" ELSE "end"
  /\ UNCHANGED <<ring, mutex, buffer, dsize, err, main>>

\* Deviation: the put does not take the mutex.
LockPutWithoutMutex ==
  /\ Running /\ dpc = "lock"
  /\ dpc' = "full?"
  /\ UNCHANGED <<ring, mutex, buffer, dsize, err, noData, main>>
LockPut ==
  /\ Running /\ dpc = "lock" /\ mutex = Free
  /\ mutex' = "download"
  /\ dpc' = "full?"
  /\ UNCHANGED <<ring, buffer, dsize, err, noData, main>>

\* Deviation: a full buffer drops its oldest datagram instead.
PutFullDropsOldest ==
  /\ Running /\ dpc = "full?" /\ size = Capacity
  /\ data' = [data EXCEPT ![head] = Null]
  /\ head' = NextNode(head)
  /\ size' = size - 1
  /\ UNCHANGED <<tail, mutex, download, main>>
\* Deviation: the refusal of a full buffer returns without the unlock.
PutFullKeepsMutex ==
  /\ Running /\ dpc = "full?" /\ size = Capacity
  /\ err' = CIRCULAR_BUFF_FULL
  /\ buffer' = Null
  /\ dpc' = "recv"
  /\ UNCHANGED <<ring, mutex, dsize, noData, main>>
PutFull ==
  /\ Running /\ dpc = "full?" /\ size = Capacity
  /\ err' = CIRCULAR_BUFF_FULL
  /\ dpc' = "unlock"
  /\ UNCHANGED <<ring, mutex, buffer, dsize, noData, main>>

PutStore ==
  /\ Running /\ dpc = "full?" /\ size # Capacity
  /\ data' = [data EXCEPT ![tail] = buffer]
  /\ tail' = NextNode(tail)
  /\ dpc' = "load"
  /\ UNCHANGED <<head, size, mutex, buffer, dsize, err, noData, main>>

PutLoad ==
  /\ Running /\ dpc = "load"
  /\ dsize' = size
  /\ dpc' = "inc"
  /\ UNCHANGED <<ring, mutex, buffer, err, noData, main>>

PutInc ==
  /\ Running /\ dpc = "inc"
  /\ size' = dsize + 1
  /\ err' = ERR_NOERROR
  /\ dpc' = "unlock"
  /\ UNCHANGED <<head, tail, data, mutex, buffer, dsize, noData, main>>

UnlockPut ==
  /\ Running /\ dpc = "unlock"
  /\ mutex' = Free
  /\ buffer' = Null
  /\ dpc' = "recv"
  /\ UNCHANGED <<ring, dsize, err, noData, main>>

-----------------------------------------------------------------------------
(* The main thread: processItemsInCircularBuffer                           *)

LockTest ==
  /\ mpc = "lockTest" /\ mutex = Free
  /\ mutex' = "main"
  /\ mpc' = "empty?"
  /\ UNCHANGED <<ring, download, answer, message, msize, lastRead>>

TestEmpty ==
  /\ mpc = "empty?"
  /\ answer' = IF size = 0 THEN CIRCULAR_BUFF_EMPTY ELSE ERR_NOERROR
  /\ mpc' = "unlockTest"
  /\ UNCHANGED <<ring, mutex, download, message, msize, lastRead>>

\* Deviation: the answer of circularBufEmpty is ignored.
UnlockTestIgnoresAnswer ==
  /\ mpc = "unlockTest"
  /\ mutex' = Free
  /\ mpc' = "lockRead"
  /\ UNCHANGED <<ring, download, answer, message, msize, lastRead>>
UnlockTest ==
  /\ mpc = "unlockTest"
  /\ mutex' = Free
  /\ mpc' = IF answer = ERR_NOERROR THEN "lockRead" ELSE "check"
  /\ UNCHANGED <<ring, download, answer, message, msize, lastRead>>

\* Deviation: the read relies on the critical section of the test.
LockReadWithoutMutex ==
  /\ mpc = "lockRead"
  /\ mpc' = "read"
  /\ UNCHANGED <<ring, mutex, download, answer, message, msize, lastRead>>
LockRead ==
  /\ mpc = "lockRead" /\ mutex = Free
  /\ mutex' = "main"
  /\ mpc' = "read"
  /\ UNCHANGED <<ring, download, answer, message, msize, lastRead>>

\* circularBufRead tests for an empty buffer again; it would then return
\* without setting message.
ReadTake ==
  /\ mpc = "read"
  /\ IF size = 0
       THEN /\ mpc' = "unlockRead"
            /\ UNCHANGED <<head, data, message, lastRead>>
       ELSE /\ message' = data[head] /\ lastRead' = data[head]
            /\ data' = [data EXCEPT ![head] = Null]
            /\ head' = NextNode(head)
            /\ mpc' = "load"
  /\ UNCHANGED <<tail, size, mutex, download, answer, msize>>

ReadLoad ==
  /\ mpc = "load"
  /\ msize' = size
  /\ mpc' = "dec"
  /\ UNCHANGED <<ring, mutex, download, answer, message, lastRead>>

ReadDec ==
  /\ mpc = "dec"
  /\ size' = msize - 1
  /\ mpc' = "unlockRead"
  /\ UNCHANGED <<head, tail, data, mutex, download, answer, message, msize,
                 lastRead>>

\* Deviation: the read forgets the unlock.
UnlockReadKeepsMutex ==
  /\ mpc = "unlockRead"
  /\ mpc' = "handle"
  /\ UNCHANGED <<ring, mutex, download, answer, message, msize, lastRead>>
UnlockRead ==
  /\ mpc = "unlockRead"
  /\ mutex' = Free
  /\ mpc' = "handle"
  /\ UNCHANGED <<ring, download, answer, message, msize, lastRead>>

\* The datagram is handled; a short NEW_COORDINATES breaks out of the loop,
\* and main closes the socket and exits.
Handle ==
  /\ mpc = "handle"
  /\ message' = Null
  /\ mpc' = IF message \in ShortCoordinates THEN "exit" ELSE "check"
  /\ UNCHANGED <<ring, mutex, download, answer, msize, lastRead>>

\* checkConnectionOfPlayers, then the next turn of the loop.
Check ==
  /\ mpc = "check"
  /\ mpc' = "lockTest"
  /\ UNCHANGED <<ring, mutex, download, answer, message, msize, lastRead>>

-----------------------------------------------------------------------------

PutSteps == PutFull \/ PutStore \/ PutLoad \/ PutInc \/ UnlockPut
ReadSteps == ReadTake \/ ReadLoad \/ ReadDec \/ UnlockRead
LoopSteps == TestEmpty \/ UnlockTest \/ Handle \/ Check

Next ==
  \/ \E d \in Datagram : Receive(d)
  \/ ReceiveNothing
  \/ LockPut \/ PutSteps
  \/ LockTest \/ LockRead \/ ReadSteps \/ LoopSteps

(***************************************************************************)
(* A thread that can take a step is eventually scheduled.  A thread        *)
(* waiting for the mutex gets it if it is free again and again: the other  *)
(* thread sleeps or blocks in recvfrom between two critical sections.      *)
(* Nothing is assumed about the arrival of datagrams.                      *)
(***************************************************************************)
Fairness ==
  /\ WF_vars(PutSteps) /\ SF_vars(LockPut)
  /\ WF_vars(ReadSteps \/ LoopSteps)
  /\ SF_vars(LockTest) /\ SF_vars(LockRead)

Spec == Init /\ [][Next]_vars
FairSpec == Spec /\ Fairness

-----------------------------------------------------------------------------

TypeOK ==
  /\ head \in Node /\ tail \in Node
  /\ size \in 0..Capacity
  /\ data \in [Node -> Datagram \cup {Null}]
  /\ mutex \in Thread \cup {Free}
  /\ dpc \in DownloadPc /\ mpc \in MainPc
  /\ buffer \in Datagram \cup {Null} /\ message \in Datagram \cup {Null}
  /\ dsize \in 0..Capacity /\ msize \in 0..Capacity
  /\ err \in Code /\ answer \in Code
  /\ noData \in 0..NoDataLimit
  /\ lastRead \in Datagram \cup {Null}

InPut == dpc \in {"full?", "load", "inc", "unlock"}
InTest == mpc \in {"empty?", "unlockTest"}
InRead == mpc \in {"read", "load", "dec", "unlockRead"}

(***************************************************************************)
(* circBufferMutex does its work: only the thread that owns it is inside   *)
(* the code of the buffer.                                                 *)
(***************************************************************************)
MutexProtectsBuffer ==
  /\ InPut => mutex = "download"
  /\ (InTest \/ InRead) => mutex = "main"

(***************************************************************************)
(* Between the critical section that found the buffer not empty and the    *)
(* one that reads it, the buffer cannot become empty: circularBufRead,     *)
(* whose return value the main thread ignores, always delivers a datagram. *)
(***************************************************************************)
ReadFindsDatagram ==
  /\ mpc \in {"lockRead", "read"} => size > 0
  /\ mpc = "handle" => message # Null

(***************************************************************************)
(* The nodes whose datagram has been put and not taken.                    *)
(***************************************************************************)
Stored ==
  size + (IF dpc \in {"load", "inc"} THEN 1 ELSE 0)
       - (IF mpc \in {"load", "dec"} THEN 1 ELSE 0)

(***************************************************************************)
(* The ring is whole at every step of either thread: the tail follows the  *)
(* head by the number of stored datagrams, exactly the nodes between them  *)
(* hold one, and a loaded size is not stale when it is stored back.        *)
(***************************************************************************)
RingWhole ==
  /\ Stored \in 0..Capacity
  /\ tail = NodeAt(head, Stored)
  /\ HoldsExactly(data, head, Stored)
  /\ dpc = "inc" => dsize = size
  /\ mpc = "dec" => msize = size

(***************************************************************************)
(* The queue the two threads share.  A put takes effect when size grows, a *)
(* read when the head moves.                                               *)
(***************************************************************************)
Waiting == Walk(data, head, size - (IF mpc \in {"load", "dec"} THEN 1 ELSE 0))

Fifo == INSTANCE BoundedFifo
          WITH queue <- Waiting,
               accepted <- (err = ERR_NOERROR),
               taken <- lastRead

(***************************************************************************)
(* The buffer shared by the two threads behaves as one bounded queue: no   *)
(* datagram is lost, doubled or reordered between recvfrom and the main    *)
(* loop, except the newest when the queue is full.                         *)
(***************************************************************************)
ImplementsFifo == Fifo!Spec

(***************************************************************************)
(* Every datagram put in the buffer is handled, unless the server ends.    *)
(***************************************************************************)
BufferedIsHandled ==
  \A d \in Datagram :
    (\E k \in DOMAIN Waiting : Waiting[k] = d)
      ~> (mpc = "exit" \/ (mpc = "handle" /\ message = d))

(***************************************************************************)
(* The main thread cannot keep threadDownload waiting for the mutex for    *)
(* ever: it gets back to recvfrom, unless the server ends.                 *)
(***************************************************************************)
DownloadComesBack == (dpc = "lock") ~> (mpc = "exit" \/ dpc = "recv")

=============================================================================
