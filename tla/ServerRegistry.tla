--------------------------- MODULE ServerRegistry ---------------------------
(***************************************************************************)
(* The list of connected players the main loop of the server keeps         *)
(* (processItemsInCircularBuffer, Serv_ipmon/src/server_main.c, built      *)
(* without MySQL).  A turn of the loop handles at most one datagram and    *)
(* then calls checkConnectionOfPlayers.  The clock is read by both, and    *)
(* may advance between them.                                               *)
(*                                                                         *)
(* A player's timeOfLastMessage is kept as age, the difference between the *)
(* clock and timeOfLastMessage; every use of it in the code is that        *)
(* difference.  age stops at TIMEOUT_PLAYER + 1, from where it can only be *)
(* told to be too large.                                                   *)
(***************************************************************************)
EXTENDS Integers, SequencesExt

CONSTANTS
  Address,         \* sin_addr and sin_port of a client
  Pseudo,          \* names of players
  Place,           \* coordinates
  StartPlace,      \* 300:150
  Map,             \* names of maps
  StartMap,        \* tilesetIPMON.txt
  TIMEOUT_PLAYER,  \* 3 seconds
  MaxSlip,         \* how far the clock may be set back, in seconds
  Wrap             \* 2^64: currentTime and timeOfLastMessage are unsigned

ASSUME StartAssumption == StartPlace \in Place /\ StartMap \in Map
ASSUME ClockAssumption ==
  /\ TIMEOUT_PLAYER \in Nat /\ MaxSlip \in Nat /\ Wrap \in Nat
  /\ Wrap > TIMEOUT_PLAYER + 1 + MaxSlip

VARIABLES
  dresseursList,   \* the players, in the order of the linked list
  loop,            \* the loop is about to "serve", to "check", or has "left"
  sent             \* the datagrams the last step of the loop sent

registryVars == <<dresseursList, loop, sent>>

-----------------------------------------------------------------------------
(* Datagrams.                                                              *)

(***************************************************************************)
(* What a client can send.  NEW_COORDINATES may come without its map or    *)
(* without its map and y; "other" is any datagram with another code or     *)
(* without a colon (CLOSE_CLIENT is one), which the parser ignores.        *)
(***************************************************************************)
ClientDatagram ==
  [kind : {"connect"}, pseudo : Pseudo]
    \cup [kind : {"coordinates"}, place : Place, map : Map]
    \cup [kind : {"coordinates without map"}, place : Place]
    \cup [kind : {"coordinates without y", "register", "other"}]

Entry ==
  [pseudo : Pseudo, addr : Address, place : Place, map : Map,
   age : (-MaxSlip)..(TIMEOUT_PLAYER + 1),
   silence : 0..(TIMEOUT_PLAYER + 1)]  \* history: seconds since heard of

-----------------------------------------------------------------------------
(* The functions of server_main.c on the list.                             *)

searchDresseurPseudo(list, p) == \E i \in DOMAIN list : list[i].pseudo = p

\* Deviation: a player who connects again is moved to the new address.
addPlayerMovesAddress(list, a, p, place, map) ==
  IF searchDresseurPseudo(list, p)
    THEN [i \in DOMAIN list |->
            IF list[i].pseudo = p THEN [list[i] EXCEPT !.addr = a] ELSE list[i]]
    ELSE Append(list, [pseudo |-> p, addr |-> a, place |-> place,
                       map |-> map, age |-> 0, silence |-> 0])
\* Deviation: the name is not searched for.
addPlayerAlways(list, a, p, place, map) ==
  Append(list, [pseudo |-> p, addr |-> a, place |-> place, map |-> map,
                age |-> 0, silence |-> 0])
\* Deviation: timeOfLastMessage is left at 0, ages ago for time(NULL).
addPlayerWithoutTime(list, a, p, place, map) ==
  IF searchDresseurPseudo(list, p)
    THEN list
    ELSE Append(list, [pseudo |-> p, addr |-> a, place |-> place,
                       map |-> map, age |-> Wrap - 1, silence |-> 0])
addPlayer(list, a, p, place, map) ==
  IF searchDresseurPseudo(list, p)
    THEN list
    ELSE Append(list, [pseudo |-> p, addr |-> a, place |-> place,
                       map |-> map, age |-> 0, silence |-> 0])

FirstAt(list, i, a) ==
  list[i].addr = a /\ \A j \in 1..(i - 1) : list[j].addr # a

\* Deviation: the loop goes on after the first entry of the address.
newPositionOfEveryEntry(list, a, place) ==
  [i \in DOMAIN list |->
     IF list[i].addr = a
       THEN [list[i] EXCEPT !.place = place, !.age = 0, !.silence = 0]
       ELSE list[i]]
(***************************************************************************)
(* newPositionOfPlayer stops at the first entry with the sender's address. *)
(***************************************************************************)
newPositionOfPlayer(list, a, place) ==
  [i \in DOMAIN list |->
     IF FirstAt(list, i, a)
       THEN [list[i] EXCEPT !.place = place, !.age = 0, !.silence = 0]
       ELSE list[i]]

(***************************************************************************)
(* What sendPlayers tells address a: the players of that map with another  *)
(* address.  Nothing is sent when there is none.                           *)
(***************************************************************************)
PlayersFor(list, a, map) ==
  {[pseudo |-> list[i].pseudo, place |-> list[i].place] :
     i \in {j \in DOMAIN list : list[j].map = map /\ list[j].addr # a}}

\* Deviation: an empty list is sent too.
sendPlayersEvenNone(list, a, map) ==
  {[to |-> a, kind |-> "players", players |-> PlayersFor(list, a, map)]}
sendPlayers(list, a, map) ==
  IF PlayersFor(list, a, map) = {}
    THEN {}
    ELSE {[to |-> a, kind |-> "players",
           players |-> PlayersFor(list, a, map)]}

accept(a) ==
  {[to |-> a, kind |-> "accept", place |-> StartPlace, map |-> StartMap]}

(***************************************************************************)
(* currentTime - timeOfLastMessage, on unsigned long.                      *)
(***************************************************************************)
Elapsed(e) == e.age % Wrap

Expired(list) == {i \in DOMAIN list : Elapsed(list[i]) > TIMEOUT_PLAYER}

\* Deviation: only the head of the list is looked at.
checkHeadOnly(list) ==
  IF 1 \in Expired(list) THEN Tail(list) ELSE list
(***************************************************************************)
(* checkConnectionOfPlayers removes the first player that timed out, and   *)
(* stops there.                                                            *)
(***************************************************************************)
checkConnectionOfPlayers(list) ==
  IF Expired(list) = {}
    THEN list
    ELSE RemoveAt(list, CHOOSE i \in Expired(list) :
                          \A j \in Expired(list) : i <= j)

-----------------------------------------------------------------------------
(* The loop.                                                               *)

RegistryInit ==
  /\ dresseursList = << >>
  /\ loop = "serve"
  /\ sent = {}

connectToIPMON(a, p) ==
  /\ dresseursList' = addPlayer(dresseursList, a, p, StartPlace, StartMap)
  /\ sent' = accept(a)
  /\ loop' = "check"

NewCoordinates(a, place, map) ==
  /\ dresseursList' = newPositionOfPlayer(dresseursList, a, place)
  /\ sent' = sendPlayers(dresseursList', a, map)
  /\ loop' = "check"

\* The position is taken over before the missing map is noticed.
CoordinatesWithoutMap(a, place) ==
  /\ dresseursList' = newPositionOfPlayer(dresseursList, a, place)
  /\ sent' = {}
  /\ loop' = "left"

CoordinatesWithoutY ==
  /\ loop' = "left"
  /\ sent' = {}
  /\ UNCHANGED dresseursList

IgnoredDatagram ==
  /\ loop' = "check"
  /\ sent' = {}
  /\ UNCHANGED dresseursList

(***************************************************************************)
(* The first half of a turn, when the buffer gave datagram d from a.       *)
(***************************************************************************)
Serve(a, d) ==
  /\ loop = "serve"
  /\ CASE d.kind = "connect" -> connectToIPMON(a, d.pseudo)
       [] d.kind = "coordinates" -> NewCoordinates(a, d.place, d.map)
       [] d.kind = "coordinates without map" ->
            CoordinatesWithoutMap(a, d.place)
       [] d.kind = "coordinates without y" -> CoordinatesWithoutY
       [] OTHER -> IgnoredDatagram

\* Deviation: an empty buffer makes the loop start over before the check.
ServeNothingSkipsCheck == loop = "serve" /\ UNCHANGED registryVars
\* The first half of a turn, when the buffer was empty.
ServeNothing == loop = "serve" /\ IgnoredDatagram

\* The second half of a turn.
Check ==
  /\ loop = "check"
  /\ dresseursList' = checkConnectionOfPlayers(dresseursList)
  /\ loop' = "serve"
  /\ sent' = {}

-----------------------------------------------------------------------------
(* The clock, time(NULL), in seconds.                                      *)

Older(n) == IF n > TIMEOUT_PLAYER THEN n ELSE n + 1

ClockTick ==
  /\ loop # "left"
  /\ dresseursList' = [i \in DOMAIN dresseursList |->
       [dresseursList[i] EXCEPT !.age = Older(@), !.silence = Older(@)]]
  /\ UNCHANGED <<loop, sent>>

(***************************************************************************)
(* The clock of the machine is set back by a second.  An age that is too   *)
(* large may stay so.                                                      *)
(***************************************************************************)
ClockSlip ==
  /\ loop # "left"
  /\ \A i \in DOMAIN dresseursList : dresseursList[i].age > -MaxSlip
  /\ MaxSlip > 0
  /\ \E stay \in SUBSET {i \in DOMAIN dresseursList :
                            dresseursList[i].age > TIMEOUT_PLAYER} :
       dresseursList' = [i \in DOMAIN dresseursList |->
         IF i \in stay THEN dresseursList[i]
                       ELSE [dresseursList[i] EXCEPT !.age = @ - 1]]
  /\ UNCHANGED <<loop, sent>>

RegistryNext ==
  \/ \E a \in Address, d \in ClientDatagram : Serve(a, d)
  \/ ServeNothing
  \/ Check
  \/ ClockTick
  \/ ClockSlip

RegistrySpec == RegistryInit /\ [][RegistryNext]_registryVars

-----------------------------------------------------------------------------

Reply ==
  [to : Address, kind : {"accept"}, place : Place, map : Map]
    \cup [to : Address, kind : {"players"},
          players : SUBSET [pseudo : Pseudo, place : Place]]

RegistryTypeOK ==
  /\ dresseursList \in Seq(Entry)
  /\ loop \in {"serve", "check", "left"}
  /\ sent \subseteq Reply

(***************************************************************************)
(* A name stands for one player: no two entries have the same pseudo,      *)
(* however connections, retries and timeouts interleave.                   *)
(***************************************************************************)
UniquePseudo ==
  \A i, j \in DOMAIN dresseursList :
    dresseursList[i].pseudo = dresseursList[j].pseudo => i = j

(***************************************************************************)
(* Addresses are not unique: a client started again from its port under    *)
(* another name gets a second entry.  As long as the first entry is there, *)
(* newPositionOfPlayer never reaches the second, which stays at the start  *)
(* place for everybody else.                                               *)
(***************************************************************************)
ShadowedNeverMoves ==
  \A i, j \in DOMAIN dresseursList :
    (i < j /\ dresseursList[i].addr = dresseursList[j].addr)
      => dresseursList[j].place = StartPlace

(***************************************************************************)
(* While a player is in the list, its name is bound to the address that    *)
(* brought it (a second client asking for the name is answered ACCEPT but  *)
(* gets no entry), and it never falls back in the list.                    *)
(***************************************************************************)
NameKeepsAddress ==
  [][\A i \in DOMAIN dresseursList, j \in DOMAIN dresseursList' :
       dresseursList[i].pseudo = dresseursList'[j].pseudo
         => /\ dresseursList[i].addr = dresseursList'[j].addr
            /\ j <= i]_registryVars

Present(p, list) == \E i \in DOMAIN list : list[i].pseudo = p

(***************************************************************************)
(* server_main.h says of checkConnectionOfPlayers: "Delete players from    *)
(* list not connected since 3s".  No player is deleted who was heard of    *)
(* since.                                                                  *)
(***************************************************************************)
DeletedOnlyWhenSilent ==
  [][\A i \in DOMAIN dresseursList :
       Present(dresseursList[i].pseudo, dresseursList')
         \/ dresseursList[i].silence > TIMEOUT_PLAYER]_registryVars

Silent(p) ==
  \E i \in DOMAIN dresseursList :
    /\ dresseursList[i].pseudo = p
    /\ dresseursList[i].silence > TIMEOUT_PLAYER

Shadowed(p) ==
  \E i, j \in DOMAIN dresseursList :
    /\ i < j /\ dresseursList[i].addr = dresseursList[j].addr
    /\ dresseursList[j].pseudo = p

(***************************************************************************)
(* A player who stays silent leaves the list, although one call of         *)
(* checkConnectionOfPlayers removes one player only.                       *)
(***************************************************************************)
SilentPlayerLeaves ==
  \A p \in Pseudo : Silent(p) ~> (~Silent(p) \/ loop = "left")

(***************************************************************************)
(* Of two players with the same address one is eventually dropped, even    *)
(* if the client keeps sending.                                            *)
(***************************************************************************)
ShadowedPlayerLeaves ==
  \A p \in Pseudo : Shadowed(p) ~> (~Shadowed(p) \/ loop = "left")

=============================================================================
