---------------------------- MODULE IpmonSession ----------------------------
(***************************************************************************)
(* Clients (Clt_ipmon/src/main.c, jeu.c) that connect to the server, play  *)
(* and quit, over UDP.  The server's part is ServerRegistry.               *)
(*                                                                         *)
(* Names are atoms here and stand for names without a plus that strtol     *)
(* does not read as 1; IpmonWire has the others, which break a list in two *)
(* or pass for an ACCEPT, and is shown to do the same without them.        *)
(*                                                                         *)
(* network is what the network, the sockets and the ring buffer of the     *)
(* server hold (Datagrams); IpmonSystem has the buffer apart, and is shown *)
(* to do nothing else.                                                     *)
(***************************************************************************)
EXTENDS ServerRegistry, Datagrams

CONSTANTS
  Name,       \* the names the client at an address is started with
  Walker,     \* the addresses whose player walks
  Quitter,    \* the addresses whose client may be ended
  Registrar,  \* the addresses from which somebody registers
  MaxFlight   \* datagrams under way

ASSUME SessionAssumption ==
  /\ Name \in [Address -> SUBSET Pseudo]
  /\ Walker \subseteq Address /\ Quitter \subseteq Address
  /\ Registrar \subseteq Address
  /\ MaxFlight \in Nat \ {0}

VARIABLES
  pc,           \* "off"; "ask" and "wait" in connectPlayerToIPMON; "play"
  pseudo,       \* login->pseudo
  xyPlayer,     \* the position threadSendPosition sends
  listOfPlayer, \* where the client draws the other players
  network       \* the datagrams under way, a bag

client == <<pc, pseudo, xyPlayer, listOfPlayer>>
sessionVars == <<registryVars, client, network>>

Request(a, d) == [from |-> a, body |-> d]
Answer(a, d) == [to |-> a, body |-> d]

Send(m, copies) ==
  /\ network' = With(network, m, copies)
  /\ UnderWay(network') <= MaxFlight
Receive(m) ==
  /\ BagIn(m, network)
  /\ network' = Without(network, m)

-----------------------------------------------------------------------------
(* The client.                                                             *)

Start(a) ==
  /\ pc[a] = "off"
  /\ \E p \in Name[a] : pseudo' = [pseudo EXCEPT ![a] = p]
  /\ pc' = [pc EXCEPT ![a] = "ask"]
  /\ UNCHANGED <<xyPlayer, listOfPlayer, network>>

\* registerPlayer sends once, waits for nothing, and the program ends.
registerPlayer(a, copies) ==
  /\ pc[a] = "off" /\ a \in Registrar
  /\ Send(Request(a, [kind |-> "register"]), copies)
  /\ UNCHANGED client

\* Deviation: the client goes on to ask when it plays.
SendConnectInGame(a, copies) ==
  /\ pc[a] \in {"ask", "play"}
  /\ Send(Request(a, [kind |-> "connect", pseudo |-> pseudo[a]]), copies)
  /\ pc' = [pc EXCEPT ![a] = IF @ = "ask" THEN "wait" ELSE @]
  /\ UNCHANGED <<pseudo, xyPlayer, listOfPlayer>>
(***************************************************************************)
(* connectPlayerToIPMON asks, waits 100 ms for any datagram, asks again.   *)
(***************************************************************************)
SendConnect(a, copies) ==
  /\ pc[a] = "ask"
  /\ Send(Request(a, [kind |-> "connect", pseudo |-> pseudo[a]]), copies)
  /\ pc' = [pc EXCEPT ![a] = "wait"]
  /\ UNCHANGED <<pseudo, xyPlayer, listOfPlayer>>

ReceiveAnswer(a, d) ==
  /\ pc[a] = "wait"
  /\ Receive(Answer(a, d))
  /\ IF d.kind = "accept"
       THEN /\ pc' = [pc EXCEPT ![a] = "play"]
            /\ xyPlayer' = [xyPlayer EXCEPT ![a] = d.place]
       ELSE /\ pc' = [pc EXCEPT ![a] = "ask"]
            /\ UNCHANGED xyPlayer
  /\ UNCHANGED <<pseudo, listOfPlayer>>

\* Deviation: the socket has no timeout on receive.
AnswerTimeoutNever(a) == pc[a] = "wait" /\ UNCHANGED <<client, network>>
AnswerTimeout(a) ==
  /\ pc[a] = "wait"
  /\ pc' = [pc EXCEPT ![a] = "ask"]
  /\ UNCHANGED <<pseudo, xyPlayer, listOfPlayer, network>>

\* Deviation: the map is left out.
PositionWithoutMap(a) ==
  [kind |-> "coordinates without map", place |-> xyPlayer[a]]
Position(a) ==
  [kind |-> "coordinates", place |-> xyPlayer[a], map |-> StartMap]

\* threadSendPosition.
SendPosition(a, copies) ==
  /\ pc[a] = "play"
  /\ Send(Request(a, Position(a)), copies)
  /\ UNCHANGED client

\* Deviation: the players are added to those already drawn.
setListOfPlayersAdds(a, d) ==
  listOfPlayer[a] \cup IF d.kind = "accept" THEN {d.place} ELSE d.players
(***************************************************************************)
(* threadUpdatePositionAndListOfPlayer takes every datagram for a list.    *)
(* ACCEPT, "1:300:150:map", reads as a player named 1.  The break at a     *)
(* part without two colons (jeu.c:65-74) is left out: only a name with a   *)
(* plus makes such a part (IpmonWire).                                     *)
(***************************************************************************)
setListOfPlayers(a, d) ==
  IF d.kind = "accept" THEN {d.place} ELSE d.players

ReceivePlayers(a, d) ==
  /\ pc[a] = "play"
  /\ Receive(Answer(a, d))
  /\ listOfPlayer' = [listOfPlayer EXCEPT ![a] = setListOfPlayers(a, d)]
  /\ UNCHANGED <<pc, pseudo, xyPlayer>>

\* jeuDeplacement, after the player moved.
jeuDeplacement(a) ==
  /\ pc[a] = "play" /\ a \in Walker
  /\ \E place \in Place \ {xyPlayer[a]} :
       xyPlayer' = [xyPlayer EXCEPT ![a] = place]
  /\ UNCHANGED <<pc, pseudo, listOfPlayer, network>>

(***************************************************************************)
(* ESCAPE, or the end of the process.  The CLOSE_CLIENT of main never      *)
(* leaves: send is called on a socket that is not connected.               *)
(***************************************************************************)
Quit(a) ==
  /\ pc[a] # "off" /\ a \in Quitter
  /\ pc' = [pc EXCEPT ![a] = "off"]
  /\ listOfPlayer' = [listOfPlayer EXCEPT ![a] = {}]
  /\ xyPlayer' = [xyPlayer EXCEPT ![a] = StartPlace]
  /\ UNCHANGED <<pseudo, network>>

SendKept(a) ==
  \E copies \in Copies \ {0} : SendConnect(a, copies) \/ SendPosition(a, copies)
ConnectLoop(a) ==
  (\E copies \in Copies : SendConnect(a, copies)) \/ AnswerTimeout(a)
Hear(a) ==
  \E m \in BagToSet(network) :
    m = Answer(a, m.body) /\ (ReceiveAnswer(a, m.body) \/ ReceivePlayers(a, m.body))

ClientStep(a) ==
  /\ \/ Start(a)
     \/ \E copies \in Copies : \/ registerPlayer(a, copies)
                               \/ SendConnect(a, copies)
                               \/ SendPosition(a, copies)
     \/ Hear(a)
     \/ AnswerTimeout(a)
     \/ jeuDeplacement(a)
     \/ Quit(a)
  /\ UNCHANGED registryVars

-----------------------------------------------------------------------------
(* The server.                                                             *)

\* What the client keeps of a reply: not the names of the players.
Body(r) ==
  IF r.kind = "accept"
    THEN [kind |-> "accept", place |-> r.place]
    ELSE [kind |-> "players", players |-> {p.place : p \in r.players}]

ServeFrom(a, copies) ==
  \E m \in BagToSet(network) :
    /\ m = Request(a, m.body)
    /\ Serve(a, m.body)
    /\ IF sent' = {}
         THEN network' = Without(network, m)
         ELSE \E r \in sent' :
                /\ network' = With(Without(network, m), Answer(r.to, Body(r)), copies)
                /\ UnderWay(network') <= MaxFlight
    /\ UNCHANGED client

ServerStep ==
  \/ \E a \in Address, copies \in Copies : ServeFrom(a, copies)
  \/ (ServeNothing \/ Check) /\ UNCHANGED <<client, network>>

Tick == ClockTick /\ UNCHANGED <<client, network>>

-----------------------------------------------------------------------------

SessionInit ==
  /\ RegistryInit
  /\ pc = [a \in Address |-> "off"]
  /\ pseudo \in [Address -> Pseudo] /\ \A a \in Address : pseudo[a] \in Name[a]
  /\ xyPlayer = [a \in Address |-> StartPlace]
  /\ listOfPlayer = [a \in Address |-> {}]
  /\ network = EmptyBag

SessionNext ==
  \/ \E a \in Address : ClientStep(a)
  \/ ServerStep
  \/ Tick

SessionSpec == SessionInit /\ [][SessionNext]_sessionVars

(***************************************************************************)
(* Threads keep running and time passes.  The network does not lose every  *)
(* datagram of a client, nor every reply to it, and gives a datagram to a  *)
(* client that keeps waiting before its timeout for once.                  *)
(***************************************************************************)
SessionFairness ==
  /\ WF_sessionVars(ServerStep) /\ WF_sessionVars(Tick)
  /\ \A a \in Address :
       /\ SF_sessionVars(SendKept(a) /\ UNCHANGED registryVars)
       /\ SF_sessionVars(\E copies \in Copies \ {0} : ServeFrom(a, copies))
       /\ SF_sessionVars(Hear(a) /\ UNCHANGED registryVars)
       /\ WF_sessionVars(ConnectLoop(a) /\ UNCHANGED registryVars)

SessionFairSpec == SessionSpec /\ SessionFairness

-----------------------------------------------------------------------------

ClientTypeOK ==
  /\ pc \in [Address -> {"off", "ask", "wait", "play"}]
  /\ pseudo \in [Address -> Pseudo]
  /\ xyPlayer \in [Address -> Place]
  /\ listOfPlayer \in [Address -> SUBSET Place]

SessionTypeOK ==
  /\ RegistryTypeOK
  /\ ClientTypeOK
  /\ IsABag(network)
  /\ BagToSet(network) \subseteq
       [from : Address, body : ClientDatagram]
         \cup [to : Address,
               body : [kind : {"accept"}, place : Place]
                        \cup [kind : {"players"}, players : SUBSET Place]]

(***************************************************************************)
(* A NEW_COORDINATES without its map or y makes the main loop of the       *)
(* server break, for all clients.  No client ever sends one.               *)
(***************************************************************************)
ServerKeepsServing == loop # "left"

(***************************************************************************)
(* sendPlayers sends nothing when nobody else is on the map, and ACCEPT    *)
(* reads as a list with one player.  So once a playing client has drawn    *)
(* somebody it never draws nobody again, even when all others have gone.   *)
(***************************************************************************)
ViewNeverEmpties ==
  [][\A a \in Address :
       (pc[a] = "play" /\ pc'[a] = "play" /\ listOfPlayer[a] # {})
         => listOfPlayer'[a] # {}]_sessionVars

Listed(a) == \E i \in DOMAIN dresseursList : dresseursList[i].addr = a

(***************************************************************************)
(* A client that plays never asks again, and newPositionOfPlayer ignores   *)
(* positions of addresses it does not know without a word to anybody.  So  *)
(* a client the server forgot for a silence, or never listed because its   *)
(* name was taken, stays unseen as long as it plays; only a CONNECT it     *)
(* sent before may still arrive and list it.                               *)
(***************************************************************************)
ConnectUnderWay(a) ==
  \E p \in Pseudo :
    BagIn(Request(a, [kind |-> "connect", pseudo |-> p]), network)
Unseen(a) == pc[a] = "play" /\ ~Listed(a) /\ ~ConnectUnderWay(a)
ForgottenForGood ==
  [][\A a \in Address : (Unseen(a) /\ pc'[a] = "play") => Unseen(a)']_sessionVars

(***************************************************************************)
(* connectPlayerToIPMON asks until it is answered: over a network that     *)
(* loses, duplicates and reorders, a client that does not give up plays.   *)
(***************************************************************************)
ConnectIsAnswered ==
  \A a \in Address : pc[a] \in {"ask", "wait"} ~> pc[a] \in {"play", "off"}

(***************************************************************************)
(* Nothing numbers the datagrams, so an old position may overwrite a newer *)
(* one, an old list a newer one, and a late ACCEPT is drawn as a player.   *)
(* All of that heals: when a and b keep playing, b stands still and the    *)
(* server keeps listing b and nobody else, a ends up drawing b where it    *)
(* is, and nothing else.                                                   *)
(***************************************************************************)
Settled(a, b) ==
  /\ pc[a] = "play" /\ pc[b] = "play" /\ Listed(b)
  /\ \A i \in DOMAIN dresseursList : dresseursList[i].addr \in {a, b}
ViewConverges ==
  \A a, b \in Address : a # b =>
    ((<>[]Settled(a, b) /\ <>[][UNCHANGED xyPlayer[b]]_sessionVars)
       => <>[](listOfPlayer[a] = {xyPlayer[b]}))

(***************************************************************************)
(* The server is never told that a client quit; the timeout of             *)
(* checkConnectionOfPlayers forgets it all the same.                       *)
(***************************************************************************)
DepartedIsForgotten ==
  \A a \in Address : <>[](pc[a] = "off") => <>[]~Listed(a)

=============================================================================
