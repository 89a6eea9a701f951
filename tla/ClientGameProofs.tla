-------------------------- MODULE ClientGameProofs --------------------------
(***************************************************************************)
(* Proofs about the threads of a client, for every map, every number of    *)
(* players and all durations the assumptions of ClientGame allow.          *)
(***************************************************************************)
EXTENDS ClientGame, TLAPS

-----------------------------------------------------------------------------
(* The invariant.                                                          *)

\* Who is between lock and unlock owns the mutex, and nobody else does.
Owners ==
  /\ gpc \in {"writeY", "writeX", "unlockPosition"} <=> mutexNewPosition = "gui"
  /\ spc \in {"readX", "readY", "unlock"} <=> mutexNewPosition = "sender"
  /\ gpc = "draw" <=> mutexListOfPlayer = "gui"
  /\ rpc \in {"free", "link", "unlock"} <=> mutexListOfPlayer = "receiver"

\* What of a position is already written, or read.
Halves ==
  /\ gpc = "writeX" => xyPlayer.y = perso.y
  /\ gpc = "unlockPosition" => xyPlayer = perso
  /\ spc \in {"readY", "unlock", "send"} => buf \in Position
  /\ spc \notin {"readY", "unlock", "send"} => buf = Nothing
  /\ spc = "readY" => buf.x = xyPlayer.x
  /\ spc = "unlock" => buf = xyPlayer

\* A list belongs to the GUI's walk, to listOfPlayer or to the receiver.
Lists ==
  /\ drawn # Nothing =>
       gpc = "draw" /\ listOfPlayer # Nothing /\ drawn.id = listOfPlayer.id
  /\ listOfPlayer # Nothing => listOfPlayer.id \in allocated
  /\ newList # Nothing => rpc \in {"lock", "free", "link"}
  /\ newList # Nothing => newList.id \in allocated
  /\ (newList # Nothing /\ listOfPlayer # Nothing) => newList.id # listOfPlayer.id
  /\ rpc = "link" => listOfPlayer = Nothing
  /\ \A id \in allocated :
       \/ listOfPlayer # Nothing /\ id = listOfPlayer.id
       \/ newList # Nothing /\ id = newList.id

\* A thread that has not ended has waited ever since the game was closed.
Clocks ==
  /\ stopThread <=> gpc \in {"sleep", "returned"}
  /\ ~stopThread => slept = 0
  /\ gpc = "returned" => slept = SleepTime
  /\ spc # "end" => waited["sender"] = slept
  /\ rpc # "end" => waited["receiver"] = slept

\* The frame that is being drawn.
Framed == gpc \in {"lockList", "draw"} => scroll = FocusScrollCenter(perso)

IInv ==
  TypeOK /\ Libre(perso) /\ Owners /\ Halves /\ Lists /\ Clocks /\ Framed

-----------------------------------------------------------------------------
(* Where a step leads.                                                     *)

USE StepAssumption

LEMMA DivNat ==
  ASSUME NEW a \in Nat, NEW b \in Nat \ {0}
  PROVE  a \div b \in Nat
  OBVIOUS

LEMMA DivPositive ==
  ASSUME NEW a \in Nat, NEW b \in Nat \ {0}, b <= a
  PROVE  a \div b >= 1
  OBVIOUS

LEMMA NotBeforeEdge ==
  ASSUME NEW a \in Int, ~(Quotient(a - Tile - 1, Tile) < 0)
  PROVE  a \in Nat
<1>. SUFFICES ASSUME a < 0 PROVE FALSE
  OBVIOUS
<1>1. /\ -(a - Tile - 1) \in Nat /\ Tile <= -(a - Tile - 1)
      /\ ~(a - Tile - 1 >= 0)
  OBVIOUS
<1>2. (-(a - Tile - 1)) \div Tile >= 1
  BY <1>1, DivPositive
<1>3. (-(a - Tile - 1)) \div Tile \in Nat
  BY <1>1, DivNat
<1>4. Quotient(a - Tile - 1, Tile) = -((-(a - Tile - 1)) \div Tile)
  BY <1>1 DEF Quotient
<1>. QED
  BY <1>2, <1>3, <1>4

(***************************************************************************)
(* CollisionDecor refuses what is not on the map.                          *)
(***************************************************************************)
LEMMA OnMapIfFree ==
  ASSUME NEW p \in Position, ~OffMap(p)
  PROVE  /\ p.x \in Nat /\ p.y \in Nat
         /\ Covered(p) \subseteq (0..(Width - 1)) \X (0..(Height - 1))
<1>. USE MapAssumption
<1>1. ASSUME NEW a \in Nat, NEW n \in Nat,
             ~(Quotient(a + Tile - 1, Tile) >= n)
      PROVE  (Quotient(a, Tile) .. Quotient(a + Tile - 1, Tile)) \subseteq 0..(n - 1)
  <2>1. Quotient(a, Tile) = a \div Tile /\ a \div Tile \in Nat
    BY DivNat DEF Quotient
  <2>2. /\ Quotient(a + Tile - 1, Tile) = (a + Tile - 1) \div Tile
        /\ (a + Tile - 1) \div Tile \in Nat
    BY DivNat DEF Quotient
  <2>. QED
    BY <1>1, <2>1, <2>2
<1>2. p.x \in Nat /\ p.y \in Nat
  BY NotBeforeEdge DEF OffMap, Position
<1>. QED
  BY <1>1, <1>2 DEF OffMap, Covered

LEMMA FreeIsOnMap ==
  ASSUME NEW p \in Position, Libre(p)
  PROVE  /\ p.x \in Nat /\ p.y \in Nat
         /\ Covered(p) \subseteq (0..(Width - 1)) \X (0..(Height - 1))
  BY OnMapIfFree DEF Libre, CollisionDecor

(***************************************************************************)
(* A player covers one or two columns, and one or two rows.                *)
(***************************************************************************)
LEMMA DivNext ==
  ASSUME NEW a \in Nat, NEW b \in Nat \ {0}
  PROVE  /\ a \div b <= (a + b - 1) \div b
         /\ (a + b - 1) \div b <= (a \div b) + 1
  OBVIOUS

LEMMA TwoValues ==
  ASSUME NEW a \in Nat, NEW b \in {a, a + 1}
  PROVE  a .. b \subseteq {a, a + 1}
  OBVIOUS

LEMMA AtMostTwo ==
  ASSUME NEW a \in Nat
  PROVE  /\ Quotient(a, Tile) \in Nat
         /\ Quotient(a + Tile - 1, Tile) \in
              {Quotient(a, Tile), Quotient(a, Tile) + 1}
<1>1. Quotient(a, Tile) = a \div Tile /\ a \div Tile \in Nat
  BY DivNat DEF Quotient
<1>2. /\ Quotient(a + Tile - 1, Tile) = (a + Tile - 1) \div Tile
      /\ (a + Tile - 1) \div Tile \in Nat
  BY DivNat DEF Quotient
<1>3. /\ a \div Tile <= (a + Tile - 1) \div Tile
      /\ (a + Tile - 1) \div Tile <= (a \div Tile) + 1
  BY DivNext
<1>. QED
  BY <1>1, <1>2, <1>3

(***************************************************************************)
(* The first tile of the scan exists, so a wall that does not stop the     *)
(* player comes after grass.                                               *)
(***************************************************************************)
LEMMA FreeOnWallHasGrass ==
  ASSUME NEW p \in Position, Libre(p), OnWall(p)
  PROVE  OnGrass(p)
<1>. DEFINE c == Quotient(p.x, Tile)
            r == Quotient(p.y, Tile)
            S == Special(p)
<1>1. ~FirstIsWall(p)
  BY DEF Libre, CollisionDecor
<1>2. p.x \in Nat /\ p.y \in Nat
  BY FreeIsOnMap
<1>3. /\ c \in Nat /\ Quotient(p.x + Tile - 1, Tile) \in {c, c + 1}
      /\ r \in Nat /\ Quotient(p.y + Tile - 1, Tile) \in {r, r + 1}
  BY <1>2, AtMostTwo
<1>4. Covered(p) \subseteq {c, c + 1} \X {r, r + 1}
  <2>1. Quotient(p.x, Tile) .. Quotient(p.x + Tile - 1, Tile) \subseteq {c, c + 1}
    BY <1>3, TwoValues
  <2>2. Quotient(p.y, Tile) .. Quotient(p.y + Tile - 1, Tile) \subseteq {r, r + 1}
    BY <1>3, TwoValues
  <2>. QED
    BY <2>1, <2>2 DEF Covered
<1>. HIDE DEF c, r
<1>5. SUFFICES ASSUME S \cap Grass = {} PROVE FALSE
  BY DEF OnGrass, Special
<1>6. S # {} /\ S \subseteq Wall /\ S \subseteq {c, c + 1} \X {r, r + 1}
  BY <1>4, <1>5 DEF OnWall, Special
<1>. HIDE DEF S
<1>7. PICK t \in S : \A u \in S : Before(t, u)
  <2>1. CASE <<c, r>> \in S
    BY <1>3, <1>6, <2>1 DEF Before
  <2>2. CASE <<c, r>> \notin S /\ <<c, r + 1>> \in S
    BY <1>3, <1>6, <2>2 DEF Before
  <2>3. CASE <<c, r>> \notin S /\ <<c, r + 1>> \notin S /\ <<c + 1, r>> \in S
    BY <1>3, <1>6, <2>3 DEF Before
  <2>4. CASE /\ <<c, r>> \notin S /\ <<c, r + 1>> \notin S
             /\ <<c + 1, r>> \notin S
    BY <1>3, <1>6, <2>4 DEF Before
  <2>. QED
    BY <2>1, <2>2, <2>3, <2>4
<1>. QED
  BY <1>1, <1>6, <1>7 DEF FirstIsWall, S

HIDE StepAssumption

LEMMA GlisseFree ==
  ASSUME NEW p \in Position, Libre(p),
         NEW dx \in Int, NEW dy \in Int, NEW n \in Nat,
         NEW q \in Glisse(p, dx, dy, n)
  PROVE  q \in Position /\ Libre(q)
<1>1. PICK k \in 0..n : /\ \A i \in 1..k : Libre(At(p, i * dx, i * dy))
                        /\ q = At(p, k * dx, k * dy)
  BY DEF Glisse
<1>2. CASE k = 0
  <2>1. At(p, k * dx, k * dy) = p
    BY <1>2 DEF At, Position
  <2>. QED
    BY <1>1, <2>1
<1>3. CASE k # 0
  <2>1. Libre(At(p, k * dx, k * dy))
    BY <1>1, <1>3
  <2>2. k * dx \in Int /\ k * dy \in Int
    OBVIOUS
  <2>. QED
    BY <1>1, <2>1, <2>2 DEF At, Position
<1>. QED
  BY <1>2, <1>3

LEMMA DeplaceFree ==
  ASSUME NEW p \in Position, Libre(p), NEW vx \in Int, NEW vy \in Int,
         NEW q \in Deplace(p, vx, vy)
  PROVE  q \in Position /\ Libre(q)
<1>1. CASE Libre(At(p, vx, vy))
  BY <1>1 DEF Deplace, At, Position
<1>2. CASE ~Libre(At(p, vx, vy))
  <2>1. PICK r \in Glisse(p, SGN(vx), 0, ABS2(vx)) :
               q \in Glisse(r, 0, SGN(vy), ABS2(vy))
    BY <1>2 DEF Deplace
  <2>2. /\ SGN(vx) \in Int /\ SGN(vy) \in Int
        /\ ABS2(vx) \in Nat /\ ABS2(vy) \in Nat
    BY DEF SGN, ABS2
  <2>3. r \in Position /\ Libre(r)
    BY <2>1, <2>2, GlisseFree
  <2>. QED
    BY <2>1, <2>2, <2>3, GlisseFree
<1>. QED
  BY <1>1, <1>2

LEMMA ScrollType ==
  ASSUME NEW p \in Position
  PROVE  FocusScrollCenter(p) \in Position
<1>. USE StepAssumption, MapAssumption
<1>1. Tile \div 2 \in Int /\ Window \div 2 \in Int /\ Width * Tile \in Int /\ Height * Tile \in Int
  OBVIOUS
<1>. QED
  BY <1>1 DEF FocusScrollCenter, ClampScroll, Position

-----------------------------------------------------------------------------
(* The invariant is inductive: one lemma for each thread.                  *)

USE NothingAssumption, StartIsFree, SleepAssumption

LEMMA ClientInit == Init => IInv
<1>. SUFFICES ASSUME Init PROVE IInv
  OBVIOUS
<1>1. TypeOK
  <2>1. v \in Vecteur /\ gpc \in GuiPc
    BY DEF Init, Vecteur, GuiPc
  <2>2. /\ waited \in [Blocked -> Nat]
        /\ waited["sender"] <= NapTime /\ waited["receiver"] <= RecvTimeout
        /\ slept \in 0..SleepTime
    BY DEF Init, Blocked
  <2>3. /\ perso \in Position /\ xyPlayer \in Position /\ scroll \in Position
    BY DEF Init, Position
  <2>. QED
    BY <2>1, <2>2, <2>3 DEF Init, TypeOK, Free
<1>2. Libre(perso) /\ Owners /\ Halves /\ Lists /\ Clocks /\ Framed
  BY DEF Init, Framed, Owners, Halves, Lists, Clocks, Free, Blocked
<1>. QED
  BY <1>1, <1>2 DEF IInv

LEMMA SenderStep ==
  ASSUME IInv, Sender
  PROVE  IInv'
<1>. USE DEF Position, Free, Blocked
<1>1. TypeOK'
  <2>1. CASE SenderStop
    BY <2>1 DEF SenderStop, IInv, TypeOK, gui, receiver, lists
  <2>2. CASE Wake
    BY <2>2 DEF Wake, IInv, TypeOK, gui, receiver, lists, time
  <2>3. CASE SenderLock
    BY <2>3 DEF SenderLock, IInv, TypeOK, gui, receiver, lists, time
  <2>4. CASE ReadX
    BY <2>4 DEF ReadX, IInv, TypeOK, gui, receiver, lists, time
  <2>5. CASE ReadY
    BY <2>5 DEF ReadY, IInv, TypeOK, Halves, gui, receiver, lists, time
  <2>6. CASE SenderUnlock
    BY <2>6 DEF SenderUnlock, IInv, TypeOK, gui, receiver, lists, time
  <2>7. CASE SendPosition
    BY <2>7 DEF SendPosition, IInv, TypeOK, gui, receiver, lists, time
  <2>. QED
    BY <2>1, <2>2, <2>3, <2>4, <2>5, <2>6, <2>7 DEF Sender
<1>2. Libre(perso)' /\ Lists' /\ Framed'
  BY DEF Framed, Sender, SenderStop, Wake, SenderLock, ReadX, ReadY, SenderUnlock,
         SendPosition, IInv, Lists, gui, receiver, lists
<1>3. Owners'
  BY DEF Sender, SenderStop, Wake, SenderLock, ReadX, ReadY, SenderUnlock,
         SendPosition, IInv, Owners, TypeOK, gui, receiver
<1>4. Halves'
  BY DEF Sender, SenderStop, Wake, SenderLock, ReadX, ReadY, SenderUnlock,
         SendPosition, IInv, Owners, Halves, TypeOK, gui, receiver
<1>5. Clocks'
  BY DEF Sender, SenderStop, Wake, SenderLock, ReadX, ReadY, SenderUnlock,
         SendPosition, IInv, Clocks, TypeOK, gui, receiver, time
<1>. QED
  BY <1>1, <1>2, <1>3, <1>4, <1>5 DEF IInv

LEMMA ReceiverStep ==
  ASSUME IInv, Receiver
  PROVE  IInv'
<1>. USE DEF Free, Blocked
<1>1. TypeOK'
  <2>1. CASE ReceiverStop
    BY <2>1 DEF ReceiverStop, IInv, TypeOK, gui, sender, lists
  <2>2. CASE ReceiveList
    BY <2>2 DEF ReceiveList, IInv, TypeOK, List, gui, sender, time
  <2>3. CASE ReceiveTimeout
    BY <2>3 DEF ReceiveTimeout, IInv, TypeOK, gui, sender, lists, time
  <2>4. CASE ReceiverLock
    BY <2>4 DEF ReceiverLock, IInv, TypeOK, gui, sender, lists, time
  <2>5. CASE FreeList
    BY <2>5 DEF FreeList, IInv, TypeOK, gui, sender, time
  <2>6. CASE LinkList
    BY <2>6 DEF LinkList, IInv, TypeOK, gui, sender, time
  <2>7. CASE ReceiverUnlock
    BY <2>7 DEF ReceiverUnlock, IInv, TypeOK, gui, sender, lists, time
  <2>. QED
    BY <2>1, <2>2, <2>3, <2>4, <2>5, <2>6, <2>7 DEF Receiver
<1>2. Libre(perso)' /\ Halves' /\ Framed'
  BY DEF Framed, Receiver, ReceiverStop, ReceiveList, ReceiveTimeout, ReceiverLock,
         FreeList, LinkList, ReceiverUnlock, IInv, Halves, gui, sender
<1>3. Owners'
  BY DEF Receiver, ReceiverStop, ReceiveList, ReceiveTimeout, ReceiverLock,
         FreeList, LinkList, ReceiverUnlock, IInv, Owners, TypeOK, gui, sender
<1>4. Lists'
  <2>1. CASE ReceiverStop \/ ReceiveTimeout
    BY <2>1 DEF ReceiverStop, ReceiveTimeout, IInv, Lists, TypeOK, gui, lists
  <2>2. CASE ReceiveList
    <3>. SUFFICES ASSUME NEW id \in ListId \ allocated, NEW n \in ListLength,
                         newList' = [id |-> id, left |-> n],
                         allocated' = allocated \cup {id}
                  PROVE  Lists'
      BY <2>2 DEF ReceiveList, IInv, Lists, gui
    <3>1. newList' # Nothing /\ newList'.id = id /\ newList = Nothing
      BY <2>2, NothingAssumption DEF ReceiveList, IInv, Lists
    <3>. QED
      BY <2>2, <3>1 DEF ReceiveList, IInv, Lists, TypeOK, List, gui
  <2>3. CASE ReceiverLock
    BY <2>3 DEF ReceiverLock, IInv, Lists, Owners, TypeOK, gui, lists
  <2>4. CASE FreeList
    BY <2>4 DEF FreeList, IInv, Lists, Owners, TypeOK, List, gui
  <2>5. CASE LinkList
    BY <2>5 DEF LinkList, IInv, Lists, Owners, TypeOK, List, gui
  <2>6. CASE ReceiverUnlock
    BY <2>6 DEF ReceiverUnlock, IInv, Lists, TypeOK, gui, lists
  <2>. QED
    BY <2>1, <2>2, <2>3, <2>4, <2>5, <2>6 DEF Receiver
<1>5. Clocks'
  BY DEF Receiver, ReceiverStop, ReceiveList, ReceiveTimeout, ReceiverLock,
         FreeList, LinkList, ReceiverUnlock, IInv, Clocks, TypeOK, gui, sender,
         time
<1>. QED
  BY <1>1, <1>2, <1>3, <1>4, <1>5 DEF IInv

LEMMA TimeStep ==
  ASSUME IInv, Tick
  PROVE  IInv'
<1>1. UNCHANGED <<gui, sender, receiver, xyPlayer, lists, stopThread,
                  mutexNewPosition, mutexListOfPlayer>>
  BY DEF Tick
<1>2. Libre(perso)' /\ Owners' /\ Halves' /\ Lists' /\ Framed'
  BY <1>1 DEF IInv, Framed, Owners, Halves, Lists, gui, sender, receiver, lists
<1>3. /\ slept' \in 0..SleepTime /\ waited' \in [Blocked -> Nat]
      /\ waited'["sender"] <= NapTime /\ waited'["receiver"] <= RecvTimeout
  BY DEF Tick, NapMayWait, RecvMayWait, IInv, TypeOK, Blocked
<1>4. TypeOK'
  BY <1>1, <1>3 DEF IInv, TypeOK, gui, sender, receiver, lists
<1>5. Clocks'
  BY <1>1 DEF Tick, NapMayWait, RecvMayWait, IInv, Clocks, TypeOK, Blocked,
              gui, sender, receiver
<1>. QED
  BY <1>2, <1>4, <1>5 DEF IInv

LEMMA GuiStep ==
  ASSUME IInv, Gui
  PROVE  IInv'
<1>. USE DEF Free
<1>1. CASE Head
  <2>1. TypeOK'
    <3>1. gpc' \in GuiPc /\ stopThread' \in BOOLEAN
      BY <1>1 DEF Head, IInv, TypeOK, GuiPc
    <3>. QED
      BY <1>1, <3>1 DEF Head, IInv, TypeOK, sender, receiver, lists, time
  <2>2. Libre(perso)' /\ Owners' /\ Halves' /\ Lists' /\ Clocks' /\ Framed'
    BY <1>1 DEF Head, IInv, TypeOK, Owners, Halves, Lists, Clocks, Framed, sender,
                receiver, lists, time
  <2>. QED
    BY <2>1, <2>2 DEF IInv
<1>2. CASE LockPosition \/ UnlockPosition
  <2>1. TypeOK'
    BY <1>2 DEF LockPosition, UnlockPosition, IInv, TypeOK, GuiPc, sender,
                receiver, lists, time
  <2>2. Libre(perso)' /\ Owners' /\ Halves' /\ Lists' /\ Clocks' /\ Framed'
    BY <1>2 DEF LockPosition, UnlockPosition, IInv, TypeOK, Owners, Halves,
                Lists, Clocks, Framed, sender, receiver, lists, time
  <2>. QED
    BY <2>1, <2>2 DEF IInv
<1>3. CASE WriteY \/ WriteX
  <2>1. TypeOK'
    BY <1>3 DEF WriteY, WriteX, IInv, TypeOK, GuiPc, Position, sender,
                receiver, lists, time
  <2>2. Libre(perso)' /\ Owners' /\ Lists' /\ Clocks' /\ Framed'
    BY <1>3 DEF WriteY, WriteX, IInv, TypeOK, Owners, Lists, Clocks, Framed, sender,
                receiver, lists, time
  <2>3. Halves'
    BY <1>3 DEF WriteY, WriteX, IInv, TypeOK, Owners, Halves, Position, sender
  <2>. QED
    BY <2>1, <2>2, <2>3 DEF IInv
<1>4. CASE Move
  <2>1. perso' \in Position /\ Libre(perso') /\ scroll' \in Position
    <3>1. v[1] \in Int /\ v[2] \in Int
      BY StepAssumption DEF IInv, TypeOK, Vecteur
    <3>. QED
      BY <1>4, <3>1, DeplaceFree, ScrollType DEF Move, IInv, TypeOK
  <2>2. TypeOK'
    BY <1>4, <2>1 DEF Move, IInv, TypeOK, GuiPc, sender, receiver, lists, time
  <2>3. Owners' /\ Halves' /\ Lists' /\ Clocks' /\ Framed'
    BY <1>4 DEF Move, IInv, TypeOK, Owners, Halves, Lists, Clocks, Framed, sender,
                receiver, lists, time
  <2>. QED
    BY <2>1, <2>2, <2>3 DEF IInv
<1>5. CASE LockList \/ DrawPlayer \/ UnlockListAndReadKeys
  <2>1. TypeOK'
    BY <1>5 DEF LockList, DrawPlayer, UnlockListAndReadKeys, IInv, TypeOK,
                List, GuiPc, sender, receiver, lists, time
  <2>2. Libre(perso)' /\ Owners' /\ Halves' /\ Clocks' /\ Framed'
    BY <1>5 DEF LockList, DrawPlayer, UnlockListAndReadKeys, IInv, TypeOK,
                Owners, Halves, Clocks, Framed, sender, receiver, lists, time
  <2>3. Lists'
    BY <1>5 DEF LockList, DrawPlayer, UnlockListAndReadKeys, IInv, TypeOK,
                List, Lists, receiver, lists
  <2>. QED
    BY <2>1, <2>2, <2>3 DEF IInv
<1>6. CASE Return
  <2>1. TypeOK'
    BY <1>6 DEF Return, IInv, TypeOK, GuiPc, sender, receiver, lists, time
  <2>2. Libre(perso)' /\ Owners' /\ Halves' /\ Lists' /\ Clocks' /\ Framed'
    BY <1>6 DEF Return, IInv, TypeOK, Owners, Halves, Lists, Clocks, Framed, sender,
                receiver, lists, time
  <2>. QED
    BY <2>1, <2>2 DEF IInv
<1>. QED
  BY <1>1, <1>2, <1>3, <1>4, <1>5, <1>6 DEF Gui

LEMMA Stutter ==
  ASSUME IInv, UNCHANGED vars
  PROVE  IInv'
  BY DEF IInv, TypeOK, Owners, Halves, Lists, Clocks, Framed, vars, gui, sender,
         receiver, lists, time

LEMMA ClientStep ==
  ASSUME IInv, [Next]_vars
  PROVE  IInv'
<1>1. CASE Gui \/ Sender \/ Receiver \/ Tick
  BY <1>1, GuiStep, SenderStep, ReceiverStep, TimeStep
<1>2. CASE Over \/ UNCHANGED vars
  BY <1>2, Stutter DEF Over
<1>. QED
  BY <1>1, <1>2 DEF Next

(***************************************************************************)
(* The invariant holds of every behaviour.                                 *)
(***************************************************************************)
THEOREM ClientInvariance == Spec => []IInv
<1>. QED
  BY ClientInit, ClientStep, PTL DEF Spec

-----------------------------------------------------------------------------
(* What follows from it.                                                   *)

(***************************************************************************)
(* Every variable keeps its type; in particular neither usleep nor         *)
(* recvfrom is ever late, whatever the other threads do.                   *)
(***************************************************************************)
THEOREM ClientTypeCorrect == Spec => []TypeOK
<1>1. IInv => TypeOK
  BY DEF IInv
<1>. QED
  BY <1>1, ClientInvariance, PTL

(***************************************************************************)
(* On every map CollisionDecor reads no tile beyond an edge for a position *)
(* the player takes.                                                       *)
(***************************************************************************)
THEOREM PlayerStaysOnMap == Spec => []PlayerOnMap
<1>1. IInv => PlayerOnMap
  BY FreeIsOnMap DEF IInv, TypeOK, PlayerOnMap
<1>. QED
  BY <1>1, ClientInvariance, PTL

(***************************************************************************)
(* On every map the player only ever enters a wall through grass.          *)
(***************************************************************************)
THEOREM WallsHoldWithoutGrass == Spec => []OnWallOnlyFromGrass
<1>1. IInv => OnWallOnlyFromGrass
  BY FreeOnWallHasGrass DEF IInv, TypeOK, OnWallOnlyFromGrass
<1>. QED
  BY <1>1, ClientInvariance, PTL

(***************************************************************************)
(* No list is used after vider_dresseur_liste freed it.                    *)
(***************************************************************************)
THEOREM ListsStayAlive == Spec => []ListsAreAlive
<1>1. IInv => ListsAreAlive
  BY DEF IInv, Lists, ListsAreAlive
<1>. QED
  BY <1>1, ClientInvariance, PTL

(***************************************************************************)
(* No list is lost without being freed.                                    *)
(***************************************************************************)
THEOREM ListsDoNotLeak == Spec => []NoListLeaks
<1>1. IInv => NoListLeaks
  BY DEF IInv, Lists, NoListLeaks
<1>. QED
  BY <1>1, ClientInvariance, PTL

(***************************************************************************)
(* Both detached threads have ended when mainLoop returns, if a second is  *)
(* longer than either may block.                                           *)
(***************************************************************************)
THEOREM ContextIsAlive == Spec => []ContextOutlivesThreads
<1>1. IInv => ContextOutlivesThreads
  BY DEF IInv, TypeOK, Clocks, ContextOutlivesThreads
<1>. QED
  BY <1>1, ClientInvariance, PTL

(***************************************************************************)
(* The two coordinates, written and read one by one under their mutex,     *)
(* are a register of whole positions.                                      *)
(***************************************************************************)
THEOREM PositionsImplementRegister == Spec => ImplementsRegister
<1>1. Init => Register!Init
  BY DEF Init, Register!Init
<1>. DEFINE posted == IF gpc \in {"writeY", "writeX"} THEN perso ELSE xyPlayer
            taken == IF spc \in {"readX", "readY"} THEN xyPlayer ELSE buf
<1>2. ASSUME IInv, [Next]_vars
      PROVE  [Register!Post \/ Register!Take \/ Register!Done]_<<posted, taken>>
  <2>. USE <1>2 DEF Free
  <2>1. CASE Head \/ UnlockPosition \/ Move
    BY <2>1 DEF Head, UnlockPosition, Move, sender
  <2>2. CASE LockPosition
    BY <2>2 DEF LockPosition, Register!Post, IInv, Owners, TypeOK, sender
  <2>3. CASE WriteY
    BY <2>3 DEF WriteY, IInv, Owners, TypeOK, sender
  <2>4. CASE WriteX
    <3>1. xyPlayer' = perso
      BY <2>4 DEF WriteX, IInv, Halves, TypeOK, Position
    <3>. QED
      BY <2>4, <3>1 DEF WriteX, IInv, Owners, TypeOK, sender
  <2>5. CASE LockList \/ DrawPlayer \/ UnlockListAndReadKeys \/ Return
    BY <2>5 DEF LockList, DrawPlayer, UnlockListAndReadKeys, Return, sender
  <2>6. CASE SenderStop \/ Wake \/ SenderUnlock
    BY <2>6 DEF SenderStop, Wake, SenderUnlock, gui
  <2>7. CASE SenderLock
    BY <2>7 DEF SenderLock, Register!Take, IInv, Owners, Halves, gui
  <2>8. CASE ReadX
    BY <2>8 DEF ReadX, gui
  <2>9. CASE ReadY
    <3>1. buf' = xyPlayer
      BY <2>9 DEF ReadY, IInv, Halves, TypeOK, Position
    <3>. QED
      BY <2>9, <3>1 DEF ReadY, gui
  <2>10. CASE SendPosition
    BY <2>10 DEF SendPosition, Register!Done, IInv, Halves, gui
  <2>11. CASE Receiver
    BY <2>11 DEF Receiver, ReceiverStop, ReceiveList, ReceiveTimeout,
                 ReceiverLock, FreeList, LinkList, ReceiverUnlock, gui, sender
  <2>12. CASE Tick \/ Over \/ UNCHANGED vars
    BY <2>12 DEF Tick, Over, vars, gui, sender
  <2>. QED
    BY <2>1, <2>2, <2>3, <2>4, <2>5, <2>6, <2>7, <2>8, <2>9, <2>10, <2>11,
       <2>12 DEF Next, Gui, Sender
<1>. QED
  BY <1>1, <1>2, ClientInvariance, PTL DEF Spec, ImplementsRegister, Register!Spec

(***************************************************************************)
(* The list is freed and linked under its mutex, and the GUI walks it      *)
(* under the same: it is a register of whole lists.                        *)
(***************************************************************************)
THEOREM ListsAreARegister == Spec => ListsImplementRegister
<1>1. Init => ListRegister!Init
  BY DEF Init, ListRegister!Init
<1>. DEFINE posted == {IF rpc \in {"free", "link"} THEN newList ELSE listOfPlayer}
            taken == IF gpc = "draw" THEN {listOfPlayer} ELSE {}
<1>2. ASSUME IInv, [Next]_vars
      PROVE  [ListRegister!Post \/ ListRegister!Take \/ ListRegister!Done]_<<posted, taken>>
  <2>. USE <1>2 DEF Free
  <2>1. CASE Head \/ LockPosition \/ WriteY \/ WriteX \/ UnlockPosition \/ Move
             \/ Return
    BY <2>1 DEF Head, LockPosition, WriteY, WriteX, UnlockPosition, Move, Return,
                receiver, lists
  <2>2. CASE LockList
    BY <2>2 DEF LockList, ListRegister!Take, IInv, Owners, receiver, lists
  <2>3. CASE DrawPlayer
    BY <2>3 DEF DrawPlayer, receiver, lists
  <2>4. CASE UnlockListAndReadKeys
    BY <2>4 DEF UnlockListAndReadKeys, ListRegister!Done, receiver, lists
  <2>5. CASE Sender \/ Tick \/ Over \/ UNCHANGED vars
    BY <2>5 DEF Sender, SenderStop, Wake, SenderLock, ReadX, ReadY, SenderUnlock,
                SendPosition, Tick, Over, vars, gui, receiver, lists
  <2>6. CASE ReceiverStop \/ ReceiveList \/ ReceiveTimeout \/ ReceiverUnlock
    BY <2>6 DEF ReceiverStop, ReceiveList, ReceiveTimeout, ReceiverUnlock, gui, lists
  <2>7. CASE ReceiverLock
    BY <2>7 DEF ReceiverLock, ListRegister!Post, IInv, TypeOK, Owners, gui, lists
  <2>8. CASE FreeList
    BY <2>8 DEF FreeList, IInv, Owners, gui
  <2>9. CASE LinkList
    BY <2>9 DEF LinkList, IInv, Owners, gui
  <2>. QED
    BY <2>1, <2>2, <2>3, <2>4, <2>5, <2>6, <2>7, <2>8, <2>9
       DEF Next, Gui, Receiver
<1>. QED
  BY <1>1, <1>2, ClientInvariance, PTL
     DEF Spec, ListsImplementRegister, ListRegister!Spec

-----------------------------------------------------------------------------
(* Where the player stops and what the window shows.                       *)

LEMMA GlisseStops ==
  ASSUME NEW p \in Position, NEW dx \in Int, NEW dy \in Int, NEW n \in Nat,
         NEW q \in Glisse(p, dx, dy, n)
  PROVE  q = At(p, n * dx, n * dy) \/ ~Libre(At(q, dx, dy))
<1>1. PICK k \in 0..n : /\ q = At(p, k * dx, k * dy)
                        /\ k < n => ~Libre(At(p, (k + 1) * dx, (k + 1) * dy))
  BY DEF Glisse
<1>2. At(q, dx, dy) = At(p, (k + 1) * dx, (k + 1) * dy)
  <2>1. (k + 1) * dx = k * dx + dx /\ (k + 1) * dy = k * dy + dy
    OBVIOUS
  <2>2. k * dx \in Int /\ k * dy \in Int
    OBVIOUS
  <2>. QED
    BY <1>1, <2>1, <2>2 DEF At, Position
<1>. QED
  BY <1>1, <1>2

LEMMA GlisseNothing ==
  ASSUME NEW p \in Position, NEW q \in Glisse(p, 0, 0, 0)
  PROVE  q = p
  BY DEF Glisse, At, Position

(***************************************************************************)
(* A step that is not made in full ends where the next pixel is refused.   *)
(***************************************************************************)
THEOREM StepsGoAsFarAsTheyCan == Spec => GoesAsFarAsItCan
<1>1. ASSUME IInv, Move, v # <<0, 0>>
      PROVE  \/ perso' = At(perso, v[1], v[2])
             \/ ~Libre(At(perso', SGN(v[1]), SGN(v[2])))
  <2>. DEFINE p == perso
              q == perso'
  <2>1. p \in Position /\ v \in Vecteur /\ q \in Deplace(p, v[1], v[2])
    BY <1>1 DEF IInv, TypeOK, Move
  <2>2. SUFFICES ASSUME ~Libre(At(p, v[1], v[2])), q # At(p, v[1], v[2])
                 PROVE  ~Libre(At(q, SGN(v[1]), SGN(v[2])))
    BY <2>1 DEF Deplace
  <2>. HIDE DEF p, q
  <2>3. PICK r \in Glisse(p, SGN(v[1]), 0, ABS2(v[1])) :
               q \in Glisse(r, 0, SGN(v[2]), ABS2(v[2]))
    BY <2>1, <2>2 DEF Deplace
  <2>4. CASE v[1] = 0 /\ v[2] \in {-Speed, Speed}
    <3>1. SGN(v[1]) = 0 /\ ABS2(v[1]) = 0
      BY <2>4 DEF SGN, ABS2
    <3>2. r = p
      BY <2>1, <2>3, <3>1, GlisseNothing
    <3>3. /\ SGN(v[2]) \in Int /\ ABS2(v[2]) \in Nat
          /\ ABS2(v[2]) * SGN(v[2]) = v[2] /\ ABS2(v[2]) * 0 = v[1]
      BY <2>4, StepAssumption DEF SGN, ABS2
    <3>. QED
      BY <2>1, <2>2, <2>3, <3>1, <3>2, <3>3, GlisseStops
  <2>5. CASE v[2] = 0 /\ v[1] \in {-Speed, Speed}
    <3>1. SGN(v[2]) = 0 /\ ABS2(v[2]) = 0
      BY <2>5 DEF SGN, ABS2
    <3>2. /\ SGN(v[1]) \in Int /\ ABS2(v[1]) \in Nat
          /\ ABS2(v[1]) * SGN(v[1]) = v[1] /\ ABS2(v[1]) * 0 = v[2]
      BY <2>5, StepAssumption DEF SGN, ABS2
    <3>3. r \in Position
      <4>1. PICK k \in 0..ABS2(v[1]) : r = At(p, k * SGN(v[1]), k * 0)
        BY <2>3 DEF Glisse
      <4>2. k * SGN(v[1]) \in Int /\ k * 0 \in Int
        BY <3>2
      <4>. QED
        BY <2>1, <4>1, <4>2 DEF At, Position
    <3>4. q = r
      BY <2>3, <3>1, <3>3, GlisseNothing
    <3>. QED
      BY <2>1, <2>2, <2>3, <3>1, <3>2, <3>4, GlisseStops
  <2>. QED
    BY <1>1, <2>1, <2>4, <2>5 DEF Vecteur
<1>2. ASSUME IInv
      PROVE  [(Move /\ v # <<0, 0>>)
               => \/ perso' = At(perso, v[1], v[2])
                  \/ ~Libre(At(perso', SGN(v[1]), SGN(v[2])))]_vars
  BY <1>1, <1>2
<1>. QED
  BY <1>2, ClientInvariance, PTL DEF GoesAsFarAsItCan

HIDE NothingAssumption
HIDE StartIsFree
HIDE SleepAssumption
USE StepAssumption, MapAssumption

LEMMA DivBelow ==
  ASSUME NEW a \in Nat, NEW b \in Nat \ {0}, NEW n \in Nat, a \div b < n
  PROVE  a < n * b
<1>1. a < b * ((a \div b) + 1) /\ a \div b \in Nat
  OBVIOUS
<1>2. b * ((a \div b) + 1) <= b * n
  BY <1>1
<1>. QED
  BY <1>1, <1>2

LEMMA DivPart ==
  ASSUME NEW a \in Nat, NEW b \in Nat \ {0}
  PROVE  /\ a \div b \in Nat
         /\ (a \div b) * b <= a
         /\ a <= (a \div b) * b + b - 1
  OBVIOUS

LEMMA DivMonotone ==
  ASSUME NEW a \in Nat, NEW b \in Nat \ {0}, NEW c \in Nat, a <= c
  PROVE  a \div b <= c \div b
<1>. DEFINE i == a \div b  j == c \div b
<1>1. i \in Nat /\ j \in Nat /\ i * b <= a /\ c <= j * b + b - 1
  BY DivPart
<1>. HIDE DEF i, j
<1>2. i * b < (j + 1) * b
  BY <1>1
<1>3. i < j + 1
  BY <1>1, <1>2
<1>. QED
  BY <1>1, <1>3 DEF i, j

LEMMA DivUnder ==
  ASSUME NEW a \in Nat, NEW b \in Nat \ {0}, NEW n \in Nat, a < n * b
  PROVE  a \div b < n
<1>. DEFINE i == a \div b
<1>1. i \in Nat /\ i * b <= a
  BY DivPart
<1>. HIDE DEF i
<1>2. i * b < n * b
  BY <1>1
<1>3. i < n
  BY <1>1, <1>2
<1>. QED
  BY <1>3 DEF i

(***************************************************************************)
(* A scroll that keeps the window on the map leaves no pixel without the   *)
(* column, or row, of a tile.                                              *)
(***************************************************************************)
LEMMA PixelHasTile ==
  ASSUME NEW n \in Nat, NEW s \in 0..(n * Tile - Window), Window < n * Tile,
         NEW x \in 0..(Window - 1)
  PROVE  \E i \in (Quotient(s, Tile) .. Quotient(s + Window, Tile))
                    \cap (0..(n - 1)) : x \in Rect_dest(i, s)
<1>. DEFINE i == (s + x) \div Tile
<1>1. /\ n * Tile \in Nat
      /\ s \in Nat /\ s + x \in Nat /\ s + Window \in Nat
      /\ s <= s + x /\ s + x <= s + Window /\ s + x < n * Tile
  OBVIOUS
<1>2. Quotient(s, Tile) = s \div Tile /\ Quotient(s + Window, Tile) = (s + Window) \div Tile
  BY <1>1 DEF Quotient
<1>3. s \div Tile \in Nat /\ (s + Window) \div Tile \in Nat /\ i \in Nat
  BY <1>1, DivNat
<1>4. s \div Tile <= i /\ i <= (s + Window) \div Tile
  BY <1>1, DivMonotone
<1>5. i < n
  BY <1>1, DivUnder
<1>6. i * Tile <= s + x /\ s + x <= i * Tile + Tile - 1
  BY <1>1, DivPart
<1>. HIDE DEF i
<1>7. i * Tile \in Nat
  BY <1>3
<1>8. x \in Rect_dest(i, s)
  BY <1>1, <1>6, <1>7 DEF Rect_dest
<1>. QED
  BY <1>2, <1>3, <1>4, <1>5, <1>8

(***************************************************************************)
(* Whatever the map, every pixel of the window shows a tile of it, and the *)
(* player is in the window but for one column and one row of pixels.       *)
(***************************************************************************)
THEOREM PlayerStaysInWindow == Spec => []WindowShowsPlayer
<1>1. ASSUME NEW a \in Nat, NEW n \in Nat, Window < n * Tile,
             ~(Quotient(a + Tile - 1, Tile) >= n)
      PROVE  LET s == ClampScroll(a + Tile \div 2 - Window \div 2, n)
             IN  s \in 0..(n * Tile - Window) /\ a - s \in 0..(Window - Tile + 1)
  <2>. DEFINE e == n * Tile  t == Tile \div 2  w == Window \div 2
  <2>1. e \in Nat /\ a + Tile <= e
    <3>1. a + Tile - 1 \in Nat
      OBVIOUS
    <3>2. Quotient(a + Tile - 1, Tile) = (a + Tile - 1) \div Tile
      BY <3>1 DEF Quotient
    <3>3. (a + Tile - 1) \div Tile \in Nat
      BY <3>1, DivNat
    <3>4. a + Tile - 1 < n * Tile
      BY <1>1, <3>1, <3>2, <3>3, DivBelow
    <3>. QED
      BY <3>4
  <2>2. t \in Nat /\ w \in Nat /\ t <= w /\ w - t <= Window - Tile + 1
    OBVIOUS
  <2>3. Window < e
    BY <1>1
  <2>. HIDE DEF e, t, w
  <2>4. LET last == e - Window - 1
            low == IF a + t - w < 0 THEN 0 ELSE a + t - w
            s == IF low > last THEN last ELSE low
        IN  s \in 0..(e - Window) /\ a - s \in 0..(Window - Tile + 1)
    BY <2>1, <2>2, <2>3
  <2>. QED
    BY <2>4 DEF ClampScroll, e, t, w
<1>2. IInv => WindowShowsPlayer
  <2>. SUFFICES ASSUME IInv, gpc \in {"lockList", "draw"}
                PROVE  WindowShowsPlayer
    BY DEF WindowShowsPlayer
  <2>1. /\ ~OffMap(perso) /\ perso.x \in Nat /\ perso.y \in Nat
        /\ scroll = FocusScrollCenter(perso)
    BY FreeIsOnMap DEF IInv, TypeOK, Framed, Libre, CollisionDecor
  <2>2. LET s == ClampScroll(perso.x + Tile \div 2 - Window \div 2, Width)
        IN  s \in 0..(Width * Tile - Window) /\ perso.x - s \in 0..(Window - Tile + 1)
    BY <1>1, <2>1 DEF OffMap
  <2>3. LET s == ClampScroll(perso.y + Tile \div 2 - Window \div 2, Height)
        IN  s \in 0..(Height * Tile - Window) /\ perso.y - s \in 0..(Window - Tile + 1)
    BY <1>1, <2>1 DEF OffMap
  <2>4. /\ scroll.x \in 0..(Width * Tile - Window)
        /\ scroll.y \in 0..(Height * Tile - Window)
        /\ perso.x - scroll.x \in 0..(Window - Tile + 1)
        /\ perso.y - scroll.y \in 0..(Window - Tile + 1)
    BY <2>1, <2>2, <2>3 DEF FocusScrollCenter
  <2>5. ASSUME NEW x \in 0..(Window - 1), NEW y \in 0..(Window - 1)
        PROVE  \E t \in AfficherMap(scroll) :
                 x \in Rect_dest(t[1], scroll.x) /\ y \in Rect_dest(t[2], scroll.y)
    <3>1. PICK i \in (Quotient(scroll.x, Tile) .. Quotient(scroll.x + Window, Tile))
                       \cap (0..(Width - 1)) : x \in Rect_dest(i, scroll.x)
      BY <2>4, PixelHasTile
    <3>2. PICK j \in (Quotient(scroll.y, Tile) .. Quotient(scroll.y + Window, Tile))
                       \cap (0..(Height - 1)) : y \in Rect_dest(j, scroll.y)
      BY <2>4, PixelHasTile
    <3>3. <<i, j>> \in AfficherMap(scroll)
      BY <3>1, <3>2 DEF AfficherMap
    <3>. QED
      BY <3>1, <3>2, <3>3
  <2>. QED
    BY <2>4, <2>5 DEF WindowShowsPlayer
<1>. QED
  BY <1>2, ClientInvariance, PTL

=============================================================================
