# Ipmon, modelled and checked in TLA+

Ipmon is a small multiplayer game in C: a server (`Serv_ipmon`), a client with
an SDL window (`Clt_ipmon`), code common to both (`Common`), and a stand-alone
program that plays the fights (`combat.c`). These modules model its logic, TLC
checks them on small instances, and TLAPS proves the safety properties that
matter most for every value of the constants.

## 1. The system

| Component | Source | State it keeps | Operations |
|---|---|---|---|
| circular buffer | `Common/src/circular_buffer.c` | linked ring of nodes, `head`, `tail`, `size` | create, put, read, empty, full, size, free |
| reception | `Serv_ipmon/src/server_main.c`: `threadDownload`, first half of `processItemsInCircularBuffer` | the ring, `circBufferMutex` | receive a datagram and put it; test and read |
| player list | `server_main.c`: the rest of it | `dresseursList`: name, address, map, position, time of last message | add a player, take over a position, answer with the other players of the map, drop silent players |
| client connection | `Clt_ipmon/src/main.c` | socket, `Login` | connect (with retries), register, quit |
| client game threads | `Clt_ipmon/src/jeu.c`, `GUI_ipmon.c` | position of the player, list of the other players, two mutexes, `stopThread` | send the position, receive the list, move, draw, stop |
| movement and map | `GUI_ipmon.c`, `map.c` | `perso`, `Map` (tiles, scroll) | `Deplace`, `EssaiDeplacement`, `CollisionDecor`, `ClampScroll`, `AfficherMap` |
| fights | `combat.c` | copies of two ipmons, `gagnant` | player against wild ipmon, player against player, team against team, exchange of ipmons |
| server combat stub, MySQL access, second `combat.c` | `Serv_ipmon/src/` | none | not built, or a stub |

How they interact. A client sends UDP datagrams `code:field:field`. The
receiving thread of the server copies each into the ring; the main loop takes
them out one at a time, updates the player list, answers from the same socket,
and after each turn drops at most one silent player. The client asks CONNECT
every 100 ms until it reads ACCEPT; then one thread sends NEW_COORDINATES every
10 ms and another takes every datagram it receives for a list of players, which
the GUI draws. `combat.c` shares nothing with the others.

What is hard to get right:

* two threads, one ring, one mutex, and two critical sections per read;
* UDP: a datagram may be lost, doubled, late; nothing is numbered or
  acknowledged, and an ACCEPT and a list are told apart by nothing but the
  client's state;
* retries and restarts: names are unique in the list, addresses are not, and
  a position names its sender by the address alone;
* texts cut at `:` and `+`, by readers that take any datagram for the kind they
  wait for;
* the timeout, computed from a wall clock in unsigned arithmetic;
* the three threads of a client: a position and a list shared under two
  mutexes, and a shutdown that is only a flag and a second of sleep;
* collisions, tested on every tile under the player, with integer divisions
  that round towards 0;
* the fights: two orders of play, misses, giving up, and up to three fights
  chained by their results.

`PROJECT.json` lists the hazards at their lines.

## 2. The modules

| Module | Models | State |
|---|---|---|
| `BoundedFifo` | what the buffer promises: a bounded first-in first-out queue that refuses the newest datagram when full | `queue`, `accepted`, `taken` |
| `RingGeometry` | the nodes of the ring and their `next` pointers | none |
| `CircularBuffer` | `circular_buffer.c`, one action per function | `head`, `tail`, `size`, `data`, the allocated nodes, the return codes |
| `ServerReception` | the receiving thread and the main loop around the ring, one action per statement that touches shared state; `size++` and `size--` are a load and a store | the ring, `mutex`, a program counter and the locals of each thread |
| `ServerRegistry` | the main loop without MySQL on the player list: one action for each branch of the parser, one for the check, one for the clock | `dresseursList`, `loop`, `sent` |
| `Datagrams` | UDP: the bag of what is under way; a datagram that is sent gets no copy, one or two | none |
| `IpmonSession` | clients and the network (`Datagrams`), composed with `ServerRegistry` (EXTENDS both) | those of `ServerRegistry`; `pc`, `pseudo`, `xyPlayer`, `listOfPlayer` of each client; `network`, a bag |
| `IpmonSystem` | the same clients and player list, with the ring buffer (the queue of `BoundedFifo`) between network and player list: `threadDownload` fills it, the main loop tests it, takes one datagram and handles it; EXTENDS `IpmonSession` | as `IpmonSession`; `queue`, `accepted`, `message`, and the history `refused`, the datagrams the full buffer did not take |
| `IpmonWire` | the same clients and server with the texts they exchange: the commands of the client, the writers (`snprintf`) and the readers (`strsep`, `strtol`) of both programs; EXTENDS `ServerRegistry` and `Datagrams`, and takes the client steps that send nothing from `IpmonSession` (INSTANCE) | as `IpmonSession`, `clientMap`, and `wire`, a bag of texts |
| `Movement` | where a player may go and what the window shows: `CollisionDecor`, `EssaiDeplacement`, `Deplace`, `ClampScroll`, `AfficherMap` | none |
| `SharedValue` | what the client's threads promise about the position and about the list: a register of whole values | `posted`, `taken` |
| `ClientGame` | `mainLoop`, `threadSendPosition` and `threadUpdatePositionAndListOfPlayer`, one action per access to shared state, on `Movement` (EXTENDS) | a program counter and the locals of each thread, `xyPlayer`, `listOfPlayer`, the allocated lists, both mutexes, `stopThread`, the time since the game was closed |
| `Combat` | the three fights of `combat.c` and their chaining by `main`, and the exchange of ipmons | the fight, the ipmons and their pv, whose turn it is, the results so far; the ids of the ipmons two players own |
| `*Proofs` | the theorems about the module of that name; `IpmonSessionProofs` also has those about `IpmonSystem` | |
| `MC*` | the constants for TLC | |

Correspondence worth knowing:

* **The header slot.** `createCircularBuf` starts with `head` and `tail` on the
  header, and closes the last node on the *first* node, not on the header. So
  the header (node 0) is used once and never returned to: `NextNode` never
  yields 0, `NodeAt` is the k-th node after `head`, and a ring of capacity *n*
  has *n* + 1 nodes of which at most *n* are full.
* **Ring and network.** `IpmonSession` does not carry the ring. It enters in
  two refinements: the two threads around it implement the queue of
  `BoundedFifo` (`ServerReception`), and with that queue between network and
  player list clients and server still do what `IpmonSession` does
  (`IpmonSystem`). For the second, the network of `IpmonSession` is all that
  was sent and not handled: what is under way, in the queue, in the hand of the
  main loop, or refused. Receiving and putting are one step of `IpmonSystem`,
  and so are the two critical sections of a turn: a datagram that was received
  and not yet put might as well still be under way, and what the test found is
  there at the read (`ReadFindsDatagram`). `message` is reset when the datagram
  is handled; the `taken` of `BoundedFifo` stands for it only at the read.
* **Time.** `timeOfLastMessage` is only used in its difference with the current
  time, and that difference is the field `age`. It stops at
  `TIMEOUT_PLAYER + 1`. `silence` is a history field: the seconds that really
  passed. They differ only when `ClockSlip` sets the clock back.
* **Texts.** In `ServerRegistry` and `IpmonSession` names, maps and positions
  are atoms and the parser is the field `kind`; their names hold no `+` and
  `strtol` does not read them as 1. `IpmonWire` has the texts, as sequences of
  tokens: a separator, a letter, or a number that stands for its digits and its
  minus. `strtol` skips white space (`Blank`) and takes a `+` before digits.
  `network` is a history there, what the readers make of what is on the wire;
  with it `IpmonWire` does what `IpmonSession` does as long as no list with
  another kind of name is under way (`Clear`).
* **Names that mislead.** With a `+` a name breaks in two; the reader stops at
  the first half, so that player and all after it are not drawn. A client that
  asks takes any datagram for the answer: a list of its life before whose first
  name reads as 1 (`1x`, ` 1x`, `+1x`) lets it in at that player's place, with what
  `malloc` left for a map (`OldMemory`), and nobody answers it any more.
  `EntersOnlyByAccept` says that nothing else does.
* **ACCEPT in game.** The list parser reads `1:300:150:map` as a player called
  1 at 300:150; `setListOfPlayers` does just that.
* **The client's threads.** `jeuDeplacement` writes `y` and `x` of
  `persoAvant` in two steps and `sprintf` reads `x` and `y` in two. A list is
  an address `malloc` gave and the number of players left on it, or NULL for
  a datagram without a player. `stopThread`
  is a plain `bool` without a mutex; both loops call functions the compiler
  cannot see into between two tests of it, so every test is a read.
* **Time at the shutdown.** Only the order of three durations matters: the
  second `mainLoop` sleeps is longer than the 100 ms of `recvfrom` and the
  10 ms of `usleep`. `Tick` lets time pass while `mainLoop` sleeps, when each
  other thread is blocked within its limit or has ended: a thread that can run
  is assumed to run. On a machine where a thread is not scheduled for most of
  a second, `ContextOutlivesThreads` says nothing.
* **Movement.** Positions are pixels. A step (5) is shorter than a tile (25),
  so the branch of `Deplace` that halves a longer step is never taken.
  `MapAssumption` asks for maps larger than the window: that holds of
  `tilesetIPMON.txt`, the map ACCEPT names. `level.txt` has 24 tiles of 25
  pixels, just the window of 600; nothing loads it, and its scroll would be
  clamped to -1.
* **Fights.** `attaque` computes with doubles and converts to int; `Degat` is
  the exact quotient, rounded down. `strcmp` is true for types that *differ*,
  and `Bonus` follows the code. A blow is one step, and so is a refusal to
  play; a number not on the menu is asked for again, which is no step, except
  against a wild ipmon where it ends the round like a blow that is lost.
* **The exchange.** Ipmons are their ids, which need not be unique: the lookups
  return the last one with an id. Indices count from 1, and 0 is the -1 of the
  code. What a lookup that failed returns has the id -1.
* **REGISTER** is one datagram, after which the client ends; the server reads
  it and does nothing (without MySQL).

Operators with a comment that begins with "Deviation:" are not part of the
models. They are plausible mistakes, each used in place of the operator that
follows it, to see that a property notices.

## 3. The runs

| Run | Bounds | Shows |
|---|---|---|
| `ring` | capacity 3, three datagrams | the full nodes are the arc from `head` to `tail`; the ring implements `BoundedFifo` |
| `reception` | capacity 2, two ordinary datagrams and one that ends the loop, two empty datagrams end the receiving thread | mutual exclusion; a read finds what the test saw; `BoundedFifo`; what is buffered gets handled; the receiving thread always comes back |
| `registry` | two addresses, three names, two places, two maps, timeout 1 s, clock set back by at most 1 s | unique names; the second entry of an address stays at the start place; a name keeps its address |
| `system` | two clients, of which one may register and the other quit and return, also under the first one's name, a buffer of one datagram, two datagrams under way, waiting or refused, timeout 0 s | the server never leaves its loop because of a client; a view that once had a player is never empty again; a client that plays and is not listed does not come back by itself, and not by a CONNECT that the full buffer refused; with the buffer, clients and server implement `IpmonSession` |
| `session_live` | one client with two names, three datagrams under way, clock only advances | connecting succeeds; a departed client is forgotten; deletion only after silence; every silent player leaves; so does one of two players of one address |
| `session_converges` | two clients that stay, one of them walks | views become right once players stand still |
| `wire` | two clients, one with the name `x` that may register, one with two names, `x` and ` +1x`, one after the other; `malloc` leaves the right map or an empty one; two places; one datagram under way, timeout 0 s | a list is read as it was meant up to a name with a plus; only an ACCEPT, or a list whose first name reads as 1, lets a client in; the texts implement `IpmonSession` |
| `combat` | the ipmons of `main` with their real numbers, and a weaker wild one; two players with two ipmons each, five ids to type | the winner stands; team fights are relays that have a winner; an exchange is whole; fights end |
| `client` | four by two tiles of three pixels, steps of two, a window of five; a wall with grass at its left and one without; two lists of two players; a sleep of 3, a receive of at most 2 and a nap of at most 1 | the player stays on the map and in the window, enters walls only through grass, comes right up to obstacles; no freed list is drawn and none leaks; what is sent is a whole position, the latest, and what is drawn a whole list, the latest; standing is reported; the threads end before `mainLoop` returns, and all end |

Three runs show where the code and its own comments part:

| Run | The comment | The code |
|---|---|---|
| `registry_clock_set_back` | `server_main.h:84`: deletes players not connected since 3 s | deletes a player just heard of when the clock went back |
| `combat_last_fight` | `combat.c:398`: 2 if dresseur2 wins | team 1 wins when it lost both its fights |
| `client_wall` | `GUI_ipmon.c:83`: 1 for a collision, and no step | a tile of grass that is scanned first gives 2, and the step into the wall is made |

The map the game loads has such places: grass right above a wall tile, between
(450, 520) and (455, 520) for one. `OnWallOnlyFromGrass` is what remains true:
a player on a wall has a foot on grass. Not runs, but of the same kind: the
comment at `circular_buffer.c:114` says that a read of an empty buffer returns
0, and it returns `CIRCULAR_BUFF_FULL`, which its only caller ignores; the one
at `combat.c:398` says 3 if a player gives up, and `Combat2Dresseurs` returns
the other player, on which `CombatEquipe` relies (`TeamFightHasWinner` fails
with the 3).

Why the bounds are enough. A ring of three nodes and a header has `head` and
`tail` on the header, past it and wrapped, in every combination; a ring of two
is full, half full and empty at every statement of the other thread. Two
addresses and three names give an address two entries in any order with an
entry of the other address before, between or after. A timeout of one second
has players that are fresh, on the edge and expired; with 0 in the sessions the
server may forget a client between any two of its datagrams. A buffer of one
is empty and full, and refuses one datagram while another waits. Two or three
datagrams under way hold an old and a new one of a kind, in either order, with
a duplicate. On the wire a client may leave while a list for it is under way
and ask again, which is how it gets misled. `MaxFlight` bounds what is under
way, `MaxSlip` how far the clock
goes back, `Wrap` stands for 2^64 and only has to be larger than any age.

On the map of the client a step ends one pixel short of obstacles and edges,
so the pixel-by-pixel loops of `Deplace` run, and both walls can be met from
more than one side. Two list addresses are reused at once after a free.

Deadlock is not checked where a system may stop: after `freeCircularBuf`, after
the loop of the server was left, after a fight.

Fairness. Each thread runs on (weak fairness of its steps); the two lock
operations are strongly fair, which is to say that a thread that is woken
often enough gets the mutex once: both threads leave it between their critical
sections, for a blocking `recvfrom` and for `usleep(2000)`. Time passes. The
network does not lose all of infinitely many datagrams of a client, nor all
replies to it (strong fairness, only used for the liveness of sessions). In a
client each thread runs on, the locks are strongly fair for the same reason as
at the server (`SDL_Delay(20)`, `usleep(10000)`, `recvfrom`), and time passes;
whether ESCAPE is ever pressed is left open. In fights, both players go on,
and the dice do not let all attacks of a side miss.

## 4. The theorems

All are about `Spec` (without fairness), for every value of the constants that
satisfies the named assumptions, and are checked by TLAPS.

* **Ring.** `RingInv` is type correctness and `RingWhole`: `tail` is `size`
  nodes after `head`, and the nodes that hold data are exactly those between.
  `RingGeometryProofs` has the arithmetic of the arc: distinct positions are
  distinct nodes, a step of `head` or `tail` shifts the positions by one, also
  over the header and around the end. The FIFO theorem maps the arc to a queue:
  a put appends, a read takes the head.
* **Reception.** The invariant adds to the ring's that only the owner of the
  mutex is in a buffer function, and what each thread's locals stand for in the
  middle of `size++` and `size--` (`Stored`, the number of nodes full right
  now, differs from `size` there). `ReadFindsDatagram` is inductive only with
  that: between its two critical sections the main thread relies on being the
  only one that takes.
* **Player list.** A step rewrites entries in place, appends one or removes
  one; there is a lemma for each, and an action is an instance of one of them.
  Uniqueness of names is needed to prove that removal of an entry keeps names
  with their addresses. When the clock is never set back (`MaxSlip = 0`), the
  age of an entry is its silence, and `OnlySilentPlayersLeave` is what
  `server_main.h:84` says: nobody is deleted who was heard of in the last
  `TIMEOUT_PLAYER` seconds. The run `registry_clock_set_back` shows that the
  hypothesis is needed.
* **Fights.** `Course` says which fights can have been fought when another
  starts; with it every result leads to a fight of the relay or to a winner.
  For it `DegatType` and `SubirType` are all that is needed of the arithmetic;
  `SpecialAttacksWound` adds what `FightEnds` lives on. For the exchange,
  `IndiceType`: a lookup returns a place of the sequence or none. That a set of
  places has a largest one (`MaxExists`) comes from the well-foundedness of the
  subset order of finite sets.
* **Sessions.** The invariant adds to that of the player list that what is
  under way is genuine: a request is a CONNECT, a REGISTER or a complete
  NEW_COORDINATES, an answer is an ACCEPT or a list with a player. The server
  only leaves its loop for an incomplete position, and a view only empties for
  a list without players. `ForgottenForGood` needs that only a CONNECT adds an
  entry, and that a playing client sends none: those still under way are its
  hypothesis. The clock of a session only advances, so `SessionsDropOnlySilent`
  needs no hypothesis. Nothing depends on the number of clients or on
  `MaxFlight`.
* **Ring and sessions.** `SystemImplementsSession` is the refinement, for a
  buffer of any capacity. `SystemInv` adds to the invariant of sessions that
  what waits in the buffer or is in hand is a request that a client sends, so
  that it can be told from "no message". The bags are compared by how often a
  datagram is in them (`SameBag`): a put and a read move one occurrence
  (`CountAppend`, `CountTail`, the latter by a bijection between the places of
  a sequence and of its tail), a refusal moves it to `refused`, and only
  handling takes it away, as `ServeFrom` does. `RefusedIsForgotten` is stronger
  than what the refinement gives: in it a CONNECT that was refused does not
  count as under way.
* **Texts.** The readers and writers are folds over a sequence, and what a fold
  computes is shown by induction on its length (`InductionOnNat`, from the
  least element of a set that is not empty). Two facts about `strsep` carry
  the rest: a text without the separator is one field (`FieldsOfWhole`), and a
  separator ends the field before it and leaves those behind it as they are
  (`FieldsOfSplit`). From them follows what each reader makes of each writer's
  text. `WireInv` says that every text under way was written by one of the
  writers, with a name and a map without a colon, or any map at all once a
  client was misled by a list: what it then sends still has four fields, so the
  server stays in its loop (`TextsKeepServing`).
* **Texts and sessions.** `TextsImplementSession` is the refinement: in a step
  between two states that are `Clear`, what the readers understand does what
  `IpmonSession` does. Its invariant `ReadInv` is that `network` is `Reading` of
  the wire and that the wire is a bag with finitely many copies; sending n
  copies of a text adds n copies of what it means, and taking a text takes one
  copy of its meaning, though several texts may mean the same.

Assumptions: `CapacityAssumption`, `NullAssumption` (geometry), `ShortAssumption`,
`NoDataAssumption` (reception), `StartAssumption`, `ClockAssumption` (player
list), `SessionAssumption` (the constants of sessions have their types),
`IpmonAssumption` (positive pv, defences and type values), `PossedeAssumption`,
`StepAssumption`, `MapAssumption` (movement), `NothingAssumption`,
`StartIsFree`, `SleepAssumption` (client), `BufferAssumption` (a capacity of
at least one, and no datagram is "no datagram"), `WireAssumption` (separators,
letters and numbers differ; names and maps hold no colon), `CommandAssumption`
(a command has three parts).

Only model-checked: liveness under fairness, which the prover cannot do. Every
safety property that a passing run checks is a theorem. Only proved, without a
run of their own: `SessionTypeOK` and `ForgottenForGood` of `IpmonSession`,
whose steps the run `system` compares with those of `IpmonSystem`.

## 5. Not modelled

* MySQL access (not built), the combat handler of the server (a stub), the
  second `combat.c` (built by no Makefile), drawing, loading of files, logging.
* Failures of `malloc`, `recvfrom` and `sendto`; the length of texts and the
  fixed buffers they are built in.
* In `combat.c` the listing of the database, which prints, and
  `Ajouter_Ipmon_Dresseur`, which nothing calls. In `jeu.c` `jeuCombat`, which
  draws a random number, and `ajouterIpmon`, which nothing calls.
* `mysql_ipmon.c` is not in the Makefile and would not compile: it assigns
  pointers to the members of `Dresseur` that are arrays now.

## 6. Plan

1. *Done:* every module of section 2; proofs of all safety properties that the
   runs check; the ring between network and player list (`IpmonSystem`).
2. `IpmonSession`'s atomic `SendPosition` and `ReceivePlayers`, shown to be
   implemented by the threads of `ClientGame`; the properties of sessions
   (`ViewNeverEmpties`, `ForgottenForGood`), stated of the texts of `IpmonWire`
   outside its `Clear` states.
3. Texts that are cut at the end of their buffers: the 50 characters of a
   name, the 200 of an answer.
