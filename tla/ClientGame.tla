----------------------------- MODULE ClientGame -----------------------------
(***************************************************************************)
(* The three threads of a client that plays, and what they share through   *)
(* ClientContext: mainLoop (Clt_ipmon/src/GUI_ipmon.c), which moves the    *)
(* player and draws, threadSendPosition and                                *)
(* threadUpdatePositionAndListOfPlayer (jeu.c).  Each access to shared     *)
(* state is a step of its own.  Where the player may go is Movement.       *)
(*                                                                         *)
(* Time only matters when the game is closed.  mainLoop then sleeps for a  *)
(* second and returns, and ClientContext is on its stack.  From there on   *)
(* a tick lets time pass while every thread is blocked, for no longer than *)
(* its blocking call may take: a thread that can run, runs.                *)
(***************************************************************************)
EXTENDS Movement

CONSTANTS
  Start,        \* where ACCEPT puts the player
  ListId,       \* the addresses malloc gives to lists
  ListLength,   \* how many players a list may hold
  Nothing,      \* the empty text, the null pointer
  SleepTime,    \* sleep(1)
  RecvTimeout,  \* SO_RCVTIMEO, 100 ms
  NapTime       \* usleep(10000)

ASSUME NothingAssumption ==
  /\ Nothing \notin Position /\ Nothing \notin [id : ListId, left : Nat]
  /\ ListLength \subseteq Nat \ {0}
ASSUME StartIsFree == Start \in Position /\ Libre(Start) /\ ~OnWall(Start)
ASSUME SleepAssumption ==
  /\ {SleepTime, RecvTimeout, NapTime} \subseteq Nat
  /\ RecvTimeout < SleepTime /\ NapTime < SleepTime

VARIABLES
  gpc,          \* where mainLoop is
  perso, v,     \* the player, and the vector of its next step
  scroll,       \* xscroll and yscroll of the map
  drawn,        \* ptrListPlayers, the rest of the list being drawn
  spc, buf,     \* threadSendPosition and the text it sends
  rpc, newList, \* the receiving thread and the list it built
  xyPlayer,     \* persoAvant, shared
  listOfPlayer, \* shared
  allocated,    \* the lists that are not freed
  stopThread,   \* shared
  mutexNewPosition, mutexListOfPlayer,  \* their owners
  slept, waited \* time since the game was closed, in sleep and in each call

gui == <<gpc, perso, v, scroll, drawn>>
sender == <<spc, buf>>
receiver == <<rpc, newList>>
lists == <<listOfPlayer, allocated>>
time == <<slept, waited>>
vars == <<gui, sender, receiver, xyPlayer, lists, stopThread,
          mutexNewPosition, mutexListOfPlayer, time>>

Free == "free"
Blocked == {"sender", "receiver"}

\* The keys give one direction, or none.
Vecteur == {<<0, -Speed>>, <<0, Speed>>, <<-Speed, 0>>, <<Speed, 0>>, <<0, 0>>}

Init ==
  /\ gpc = "head" /\ perso = Start /\ v = <<0, 0>>
  /\ scroll = [x |-> 0, y |-> 0] /\ drawn = Nothing
  /\ spc = "stop?" /\ buf = Nothing
  /\ rpc = "stop?" /\ newList = Nothing
  /\ xyPlayer = Start
  /\ listOfPlayer = Nothing /\ allocated = {}
  /\ stopThread = FALSE
  /\ mutexNewPosition = Free /\ mutexListOfPlayer = Free
  /\ slept = 0 /\ waited = [t \in Blocked |-> 0]

-----------------------------------------------------------------------------
(* mainLoop.                                                               *)

\* The loop is left on ESCAPE.
Head ==
  /\ gpc = "head"
  /\ \/ gpc' = (IF perso = xyPlayer THEN "move" ELSE "lockPosition")
        /\ UNCHANGED stopThread
     \/ gpc' = "sleep" /\ stopThread' = TRUE
  /\ UNCHANGED <<perso, v, scroll, drawn, sender, receiver, xyPlayer, lists,
                 mutexNewPosition, mutexListOfPlayer, time>>

(* jeuDeplacement. *)

LockPosition ==
  /\ gpc = "lockPosition" /\ mutexNewPosition = Free
  /\ mutexNewPosition' = "gui" /\ gpc' = "writeY"
  /\ UNCHANGED <<perso, v, scroll, drawn, sender, receiver, xyPlayer, lists,
                 stopThread, mutexListOfPlayer, time>>
WriteY ==
  /\ gpc = "writeY"
  /\ xyPlayer' = [xyPlayer EXCEPT !.y = perso.y] /\ gpc' = "writeX"
  /\ UNCHANGED <<perso, v, scroll, drawn, sender, receiver, lists, stopThread,
                 mutexNewPosition, mutexListOfPlayer, time>>
WriteX ==
  /\ gpc = "writeX"
  /\ xyPlayer' = [xyPlayer EXCEPT !.x = perso.x] /\ gpc' = "unlockPosition"
  /\ UNCHANGED <<perso, v, scroll, drawn, sender, receiver, lists, stopThread,
                 mutexNewPosition, mutexListOfPlayer, time>>
UnlockPosition ==
  /\ gpc = "unlockPosition"
  /\ mutexNewPosition' = Free /\ gpc' = "move"
  /\ UNCHANGED <<perso, v, scroll, drawn, sender, receiver, xyPlayer, lists,
                 stopThread, mutexListOfPlayer, time>>

\* Deplace, FocusScrollCenter and AfficherMap only touch what is the GUI's.
Move ==
  /\ gpc = "move"
  /\ perso' \in Deplace(perso, v[1], v[2])
  /\ scroll' = FocusScrollCenter(perso')
  /\ gpc' = "lockList"
  /\ UNCHANGED <<v, drawn, sender, receiver, xyPlayer, lists, stopThread,
                 mutexNewPosition, mutexListOfPlayer, time>>

(* DeplacerVecteur. *)

LockList ==
  /\ gpc = "lockList" /\ mutexListOfPlayer = Free
  /\ mutexListOfPlayer' = "gui"
  /\ drawn' = listOfPlayer
  /\ gpc' = "draw"
  /\ UNCHANGED <<perso, v, scroll, sender, receiver, xyPlayer, lists,
                 stopThread, mutexNewPosition, time>>
DrawPlayer ==
  /\ gpc = "draw" /\ drawn # Nothing
  /\ drawn' = (IF drawn.left = 1 THEN Nothing ELSE [drawn EXCEPT !.left = @ - 1])
  /\ UNCHANGED <<gpc, perso, v, scroll, sender, receiver, xyPlayer, lists,
                 stopThread, mutexNewPosition, mutexListOfPlayer, time>>
\* The mutex is given back; then the keys set the vector of the next turn.
UnlockListAndReadKeys ==
  /\ gpc = "draw" /\ drawn = Nothing
  /\ mutexListOfPlayer' = Free
  /\ v' \in Vecteur
  /\ gpc' = "head"
  /\ UNCHANGED <<perso, scroll, drawn, sender, receiver, xyPlayer, lists,
                 stopThread, mutexNewPosition, time>>

\* After sleep(1) the map is freed, and mainLoop returns.
Return ==
  /\ gpc = "sleep" /\ slept = SleepTime
  /\ gpc' = "returned"
  /\ UNCHANGED <<perso, v, scroll, drawn, sender, receiver, xyPlayer, lists,
                 stopThread, mutexNewPosition, mutexListOfPlayer, time>>

Gui ==
  \/ Head \/ LockPosition \/ WriteY \/ WriteX \/ UnlockPosition
  \/ Move \/ LockList \/ DrawPlayer \/ UnlockListAndReadKeys \/ Return

-----------------------------------------------------------------------------
(* threadSendPosition.                                                     *)

\* Deviation: the thread never looks at stopThread.
SenderStopNever ==
  /\ spc = "stop?" /\ spc' = "nap"
  /\ waited' = [waited EXCEPT !["sender"] = 0]
  /\ UNCHANGED <<gui, buf, receiver, xyPlayer, lists, stopThread,
                 mutexNewPosition, mutexListOfPlayer, slept>>
SenderStop ==
  /\ spc = "stop?"
  /\ spc' = (IF stopThread THEN "end" ELSE "nap")
  /\ waited' = [waited EXCEPT !["sender"] = 0]
  /\ UNCHANGED <<gui, buf, receiver, xyPlayer, lists, stopThread,
                 mutexNewPosition, mutexListOfPlayer, slept>>
Wake ==
  /\ spc = "nap" /\ spc' = "lock"
  /\ UNCHANGED <<gui, buf, receiver, xyPlayer, lists, stopThread,
                 mutexNewPosition, mutexListOfPlayer, time>>
\* Deviation: the position is read without its mutex.
SenderLockNot ==
  /\ spc = "lock" /\ spc' = "readX"
  /\ UNCHANGED <<gui, buf, receiver, xyPlayer, lists, stopThread,
                 mutexNewPosition, mutexListOfPlayer, time>>
SenderLock ==
  /\ spc = "lock" /\ mutexNewPosition = Free
  /\ mutexNewPosition' = "sender" /\ spc' = "readX"
  /\ UNCHANGED <<gui, buf, receiver, xyPlayer, lists, stopThread,
                 mutexListOfPlayer, time>>
\* sprintf; the y is not there yet.
ReadX ==
  /\ spc = "readX"
  /\ buf' = [x |-> xyPlayer.x, y |-> 0] /\ spc' = "readY"
  /\ UNCHANGED <<gui, receiver, xyPlayer, lists, stopThread,
                 mutexNewPosition, mutexListOfPlayer, time>>
ReadY ==
  /\ spc = "readY"
  /\ buf' = [buf EXCEPT !.y = xyPlayer.y] /\ spc' = "unlock"
  /\ UNCHANGED <<gui, receiver, xyPlayer, lists, stopThread,
                 mutexNewPosition, mutexListOfPlayer, time>>
\* Deviation: the sender keeps the mutex.
SenderUnlockNot ==
  /\ spc = "unlock" /\ spc' = "send"
  /\ UNCHANGED <<gui, buf, receiver, xyPlayer, lists, stopThread,
                 mutexNewPosition, mutexListOfPlayer, time>>
SenderUnlock ==
  /\ spc = "unlock"
  /\ mutexNewPosition' = Free /\ spc' = "send"
  /\ UNCHANGED <<gui, buf, receiver, xyPlayer, lists, stopThread,
                 mutexListOfPlayer, time>>
SendPosition ==
  /\ spc = "send"
  /\ buf' = Nothing /\ spc' = "stop?"
  /\ UNCHANGED <<gui, receiver, xyPlayer, lists, stopThread,
                 mutexNewPosition, mutexListOfPlayer, time>>

Sender ==
  \/ SenderStop \/ Wake \/ SenderLock \/ ReadX \/ ReadY \/ SenderUnlock
  \/ SendPosition

-----------------------------------------------------------------------------
(* threadUpdatePositionAndListOfPlayer.                                    *)

ReceiverStop ==
  /\ rpc = "stop?"
  /\ rpc' = (IF stopThread THEN "end" ELSE "recv")
  /\ waited' = [waited EXCEPT !["receiver"] = 0]
  /\ UNCHANGED <<gui, sender, newList, xyPlayer, lists, stopThread,
                 mutexNewPosition, mutexListOfPlayer, slept>>
\* A datagram, of which setListOfPlayers builds a list of its own, NULL if
\* it can read no player.
ReceiveList ==
  /\ rpc = "recv"
  /\ \/ \E id \in ListId \ allocated, n \in ListLength :
          /\ newList' = [id |-> id, left |-> n]
          /\ allocated' = allocated \cup {id}
     \/ UNCHANGED <<newList, allocated>>
  /\ rpc' = "lock"
  /\ UNCHANGED <<gui, sender, xyPlayer, listOfPlayer, stopThread,
                 mutexNewPosition, mutexListOfPlayer, time>>
ReceiveTimeout ==
  /\ rpc = "recv" /\ rpc' = "stop?"
  /\ UNCHANGED <<gui, sender, newList, xyPlayer, lists, stopThread,
                 mutexNewPosition, mutexListOfPlayer, time>>
\* Deviation: the list is replaced without its mutex.
ReceiverLockNot ==
  /\ rpc = "lock" /\ rpc' = "free"
  /\ UNCHANGED <<gui, sender, newList, xyPlayer, lists, stopThread,
                 mutexNewPosition, mutexListOfPlayer, time>>
ReceiverLock ==
  /\ rpc = "lock" /\ mutexListOfPlayer = Free
  /\ mutexListOfPlayer' = "receiver" /\ rpc' = "free"
  /\ UNCHANGED <<gui, sender, newList, xyPlayer, lists, stopThread,
                 mutexNewPosition, time>>
\* Deviation: the old list is dropped, not freed.
FreeListNot ==
  /\ rpc = "free" /\ listOfPlayer' = Nothing /\ rpc' = "link"
  /\ UNCHANGED <<gui, sender, newList, xyPlayer, allocated, stopThread,
                 mutexNewPosition, mutexListOfPlayer, time>>
\* vider_dresseur_liste, which returns NULL.
FreeList ==
  /\ rpc = "free"
  /\ allocated' = (IF listOfPlayer = Nothing
                     THEN allocated ELSE allocated \ {listOfPlayer.id})
  /\ listOfPlayer' = Nothing /\ rpc' = "link"
  /\ UNCHANGED <<gui, sender, newList, xyPlayer, stopThread,
                 mutexNewPosition, mutexListOfPlayer, time>>
LinkList ==
  /\ rpc = "link"
  /\ listOfPlayer' = newList /\ newList' = Nothing /\ rpc' = "unlock"
  /\ UNCHANGED <<gui, sender, xyPlayer, allocated, stopThread,
                 mutexNewPosition, mutexListOfPlayer, time>>
ReceiverUnlock ==
  /\ rpc = "unlock"
  /\ mutexListOfPlayer' = Free /\ rpc' = "stop?"
  /\ UNCHANGED <<gui, sender, newList, xyPlayer, lists, stopThread,
                 mutexNewPosition, time>>

Receiver ==
  \/ ReceiverStop \/ ReceiveList \/ ReceiveTimeout \/ ReceiverLock
  \/ FreeList \/ LinkList \/ ReceiverUnlock

-----------------------------------------------------------------------------
(* Time while mainLoop sleeps.                                             *)

\* Deviation: recvfrom has no timeout.
RecvMayWaitForever == rpc = "recv"
RecvMayWait == rpc = "recv" /\ waited["receiver"] < RecvTimeout
NapMayWait == spc = "nap" /\ waited["sender"] < NapTime

\* A thread that can run does so before time passes.
Tick ==
  /\ gpc = "sleep" /\ slept < SleepTime
  /\ spc = "end" \/ NapMayWait
  /\ rpc = "end" \/ RecvMayWait
  /\ slept' = slept + 1
  /\ waited' = [t \in Blocked |->
       IF (t = "sender" /\ spc = "nap") \/ (t = "receiver" /\ rpc = "recv")
         THEN waited[t] + 1 ELSE waited[t]]
  /\ UNCHANGED <<gui, sender, receiver, xyPlayer, lists, stopThread,
                 mutexNewPosition, mutexListOfPlayer>>

-----------------------------------------------------------------------------

Over == gpc = "returned" /\ spc = "end" /\ rpc = "end" /\ UNCHANGED vars

Next == Gui \/ Sender \/ Receiver \/ Tick \/ Over

Spec == Init /\ [][Next]_vars

(***************************************************************************)
(* Threads run on.  A thread that waits for a mutex that is given back     *)
(* over and over gets it once: between two critical sections every thread  *)
(* blocks, in SDL_Delay, usleep or recvfrom.                               *)
(***************************************************************************)
Fairness ==
  /\ WF_vars(Gui) /\ SF_vars(LockPosition) /\ SF_vars(LockList)
  /\ WF_vars(Sender) /\ SF_vars(SenderLock)
  /\ WF_vars(Receiver) /\ SF_vars(ReceiverLock)
  /\ WF_vars(Tick)

FairSpec == Spec /\ Fairness

-----------------------------------------------------------------------------

List == [id : ListId, left : ListLength]
GuiPc == {"head", "lockPosition", "writeY", "writeX", "unlockPosition", "move",
          "lockList", "draw", "sleep", "returned"}

TypeOK ==
  /\ gpc \in GuiPc /\ perso \in Position /\ xyPlayer \in Position
  /\ v \in Vecteur /\ scroll \in Position
  /\ drawn \in [id : ListId, left : Nat \ {0}] \cup {Nothing}
  /\ spc \in {"stop?", "nap", "lock", "readX", "readY", "unlock", "send", "end"}
  /\ buf \in Position \cup {Nothing}
  /\ rpc \in {"stop?", "recv", "lock", "free", "link", "unlock", "end"}
  /\ newList \in List \cup {Nothing} /\ listOfPlayer \in List \cup {Nothing}
  /\ allocated \subseteq ListId
  /\ stopThread \in BOOLEAN
  /\ mutexNewPosition \in {Free, "gui", "sender"}
  /\ mutexListOfPlayer \in {Free, "gui", "receiver"}
  /\ slept \in 0..SleepTime
  /\ waited \in [Blocked -> Nat]
  /\ waited["sender"] <= NapTime /\ waited["receiver"] <= RecvTimeout

(***************************************************************************)
(* The tiles under the player are on the map: CollisionDecor, which reads  *)
(* schema[i][j] without a test of its own, never lets it past an edge.     *)
(***************************************************************************)
PlayerOnMap == Covered(perso) \subseteq (0..(Width - 1)) \X (0..(Height - 1))

(***************************************************************************)
(* CollisionDecor answers 2 at the first tile of grass without looking on, *)
(* so a wall does not always stop the player.  It does where there is no   *)
(* grass: who stands on a wall has a foot on grass.                        *)
(***************************************************************************)
OnWallOnlyFromGrass == OnWall(perso) => OnGrass(perso)

(***************************************************************************)
(* "Renvoie 1 si collission" says EssaiDeplacement of CollisionDecor, and  *)
(* refuses the step in that case: the player never stands on a wall.       *)
(***************************************************************************)
NeverOnWall == ~OnWall(perso)

(***************************************************************************)
(* A player who is stopped stands right at the obstacle: a step is made in *)
(* full, or its next single pixel is refused.                              *)
(***************************************************************************)
GoesAsFarAsItCan ==
  [][(Move /\ v # <<0, 0>>)
       => \/ perso' = At(perso, v[1], v[2])
          \/ ~Libre(At(perso', SGN(v[1]), SGN(v[2])))]_vars

(***************************************************************************)
(* Once a frame is drawn every pixel of the window shows a tile of the     *)
(* map, and the player is in the window but for one column and row of      *)
(* pixels: ClampScroll stops one pixel before the right and lower edges.   *)
(***************************************************************************)
WindowShowsPlayer ==
  gpc \in {"lockList", "draw"} =>
    /\ \A x, y \in 0..(Window - 1) : \E t \in AfficherMap(scroll) :
         x \in Rect_dest(t[1], scroll.x) /\ y \in Rect_dest(t[2], scroll.y)
    /\ perso.x - scroll.x \in 0..(Window - Tile + 1)
    /\ perso.y - scroll.y \in 0..(Window - Tile + 1)

(***************************************************************************)
(* While a list is drawn it is not freed, and the pointer the threads      *)
(* share never leads to a list that is.                                    *)
(***************************************************************************)
ListsAreAlive ==
  /\ drawn # Nothing => drawn.id \in allocated
  /\ listOfPlayer # Nothing => listOfPlayer.id \in allocated

(***************************************************************************)
(* No list is lost: whatever is allocated is shown or about to be.         *)
(***************************************************************************)
NoListLeaks ==
  allocated \subseteq {l.id : l \in {listOfPlayer, newList} \ {Nothing}}

(***************************************************************************)
(* The threads are detached and nobody waits for them, but the second that *)
(* mainLoop sleeps is enough for both to see stopThread: when mainLoop     *)
(* returns, and ClientContext with it, neither will look at it again.      *)
(***************************************************************************)
ContextOutlivesThreads ==
  gpc = "returned" => spc = "end" /\ rpc = "end"

(***************************************************************************)
(* What is sent is a position the player had as a whole, and the latest    *)
(* the GUI gave out when it was read: the two fields implement a register. *)
(* A position counts as posted once mutexNewPosition is taken to write it, *)
(* and as taken once the mutex is taken to read it.                        *)
(***************************************************************************)
Register == INSTANCE SharedValue WITH
  Value <- Position,
  posted <- IF gpc \in {"writeY", "writeX"} THEN perso ELSE xyPlayer,
  taken <- IF spc \in {"readX", "readY"} THEN xyPlayer ELSE buf

ImplementsRegister == Register!Spec

(***************************************************************************)
(* What is drawn is the latest list as a whole: the GUI never meets the    *)
(* NULL that vider_dresseur_liste leaves until the new list is linked, and *)
(* no list takes the place of the one it is drawing.                       *)
(***************************************************************************)
ListRegister == INSTANCE SharedValue WITH
  Value <- {{l} : l \in List \cup {Nothing}},
  Nothing <- {},
  posted <- {IF rpc \in {"free", "link"} THEN newList ELSE listOfPlayer},
  taken <- IF gpc = "draw" THEN {listOfPlayer} ELSE {}

ListsImplementRegister == ListRegister!Spec

(***************************************************************************)
(* A player who stands still is reported: when perso no longer changes and *)
(* the game goes on, that position is sent again and again.                *)
(***************************************************************************)
StandingIsSent ==
  (<>[](gpc \notin {"sleep", "returned"}) /\ <>[][UNCHANGED perso]_vars)
    => []<>(spc = "send" /\ buf = perso)

(***************************************************************************)
(* After ESCAPE all three threads come to their end.                       *)
(***************************************************************************)
GameCloses ==
  gpc = "sleep" ~> (gpc = "returned" /\ spc = "end" /\ rpc = "end")

=============================================================================
