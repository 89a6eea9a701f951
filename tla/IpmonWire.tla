----------------------------- MODULE IpmonWire -----------------------------
(***************************************************************************)
(* IpmonSession with the texts that travel: what the client's commands,    *)
(* snprintf, strsep and strtol make of names, places and maps, in          *)
(* Clt_ipmon/src/main.c and jeu.c and in Serv_ipmon/src/server_main.c.     *)
(*                                                                         *)
(* A text is a sequence of tokens: a separator, a letter, or a number that *)
(* stands for its digits (no two numbers follow each other).  Pseudo and   *)
(* Map are texts, a place is <<x, y>>.                                     *)
(***************************************************************************)
EXTENDS ServerRegistry, Datagrams

CONSTANTS
  Colon, Plus,  \* the separators
  Letter,       \* any other character but a digit
  Blank,        \* the letters that are white space
  Connect, Register,  \* the letters c and r
  Pass,         \* a password
  Command,      \* what the client at an address may be started with
  OldMemory,    \* texts malloc may leave in dresseur->map
  Walker, Quitter, MaxFlight

Text == Seq(Int \cup Letter \cup {Colon, Plus})

\* Names and maps are what strsep leaves between two colons.
ASSUME WireAssumption ==
  /\ Colon # Plus /\ {Colon, Plus} \cap Letter = {}
  /\ ({Colon, Plus} \cup Letter) \cap Int = {}
  /\ {Connect, Register} \cup Blank \subseteq Letter /\ Connect # Register
  /\ Place \subseteq Int \X Int
  /\ Pass \in Text /\ OldMemory \subseteq Text
  /\ \A t \in Pseudo \cup Map : t \in Text /\ Colon \notin ToSet(t)

VARIABLES
  pc, pseudo, xyPlayer, listOfPlayer,  \* as in IpmonSession
  clientMap,  \* dresseur->map of the client
  wire,       \* the datagrams under way, a bag
  network     \* what their readers make of them; a history, for Session

player == <<pc, pseudo, xyPlayer, listOfPlayer>>
wireVars == <<registryVars, player, clientMap, wire, network>>

-----------------------------------------------------------------------------
(* Texts.                                                                  *)

\* One more token: a separator opens a field, any other lengthens the last one.
Cut(fields, token, sep) ==
  IF token = sep THEN Append(fields, << >>)
                 ELSE [fields EXCEPT ![Len(fields)] = Append(@, token)]
\* The results of strsep(&text, sep), called until it gives NULL.
Fields(text, sep) ==
  LET f[i \in 0..Len(text)] ==
        IF i = 0 THEN << << >> >> ELSE Cut(f[i - 1], text[i], sep)
  IN f[Len(text)]
Has(fields, i) == i \in DOMAIN fields

(***************************************************************************)
(* strtol skips white space, then takes a sign and digits.  A number token *)
(* has its minus; a plus of its own is only taken before digits.           *)
(***************************************************************************)
NoDigit == {Colon, Plus} \cup Letter
IsNumber(token) == token \notin NoDigit
ReadsAt(text, i) ==
  /\ IsNumber(text[i])
  /\ \/ \A j \in 1..(i - 1) : text[j] \in Blank
     \/ /\ i > 1 /\ text[i - 1] = Plus /\ text[i] >= 0
        /\ \A j \in 1..(i - 2) : text[j] \in Blank
\* 0 when there is no number to read.
strtol(text) ==
  IF \E i \in DOMAIN text : ReadsAt(text, i)
    THEN text[CHOOSE i \in DOMAIN text : ReadsAt(text, i)] ELSE 0

\* protocol.h
CONNECT_TO_IPMON == 2
REGISTER_TO_IPMON == 4
NEW_COORDINATES == 6
ACCEPT_CONNECTION == 1

-----------------------------------------------------------------------------
(* What is written.                                                        *)

Triple(place, rest) == <<place[1], Colon, place[2], rest>>

\* Deviation: the fields in the order pass, pseudo.
ConnectTextSwapped(p) == <<CONNECT_TO_IPMON, Colon>> \o Pass \o <<Colon>> \o p
ConnectText(p) == <<CONNECT_TO_IPMON, Colon>> \o p \o <<Colon>> \o Pass
RegisterText(p) == <<REGISTER_TO_IPMON, Colon>> \o p \o <<Colon>> \o Pass
PositionText(place, map) ==
  <<NEW_COORDINATES, Colon>> \o Triple(place, Colon) \o map
AcceptText == <<ACCEPT_CONNECTION, Colon>> \o Triple(StartPlace, Colon) \o StartMap

PlayerText(e) == e.pseudo \o <<Colon>> \o Triple(e.place, Plus)
\* The entries sendPlayers tells address a of, in the order of the list.
Told(list, a, map) ==
  LET told[i \in 0..Len(list)] ==
        IF i = 0 THEN << >>
        ELSE IF list[i].map = map /\ list[i].addr # a
          THEN Append(told[i - 1],
                      [pseudo |-> list[i].pseudo, place |-> list[i].place])
          ELSE told[i - 1]
  IN told[Len(list)]
ListText(told) ==
  LET buf[i \in 0..Len(told)] ==
        IF i = 0 THEN << >> ELSE buf[i - 1] \o PlayerText(told[i])
  IN buf[Len(told)]

-----------------------------------------------------------------------------
(* What is read.                                                           *)

(***************************************************************************)
(* The parser of processItemsInCircularBuffer.  Both the text before the   *)
(* first colon and one after it are needed; the map and y of a position    *)
(* are looked for one after the other.                                     *)
(***************************************************************************)
DatagramOf(text) ==
  LET f == Fields(text, Colon)
      code == strtol(f[1])
  IN CASE code = CONNECT_TO_IPMON /\ Has(f, 2) ->
            [kind |-> "connect", pseudo |-> f[2]]
       [] code = REGISTER_TO_IPMON /\ Has(f, 2) -> [kind |-> "register"]
       [] code = NEW_COORDINATES /\ Has(f, 4) ->
            [kind |-> "coordinates",
             place |-> <<strtol(f[2]), strtol(f[3])>>, map |-> f[4]]
       [] code = NEW_COORDINATES /\ Has(f, 3) /\ ~Has(f, 4) ->
            [kind |-> "coordinates without map",
             place |-> <<strtol(f[2]), strtol(f[3])>>]
       [] code = NEW_COORDINATES /\ Has(f, 2) /\ ~Has(f, 3) ->
            [kind |-> "coordinates without y"]
       [] OTHER -> [kind |-> "other"]

\* connectPlayerToIPMON: 300 and 150 are for an ACCEPT without a place.
PlaceOfAnswer(f) ==
  <<IF Has(f, 2) THEN strtol(f[2]) ELSE 300,
    IF Has(f, 3) THEN strtol(f[3]) ELSE 150>>

PlaceOfPlayer(f) == <<strtol(f[2]), strtol(f[3])>>
\* Deviation: what is no player is skipped, and the list read on.
setListOfPlayersSkips(text) ==
  LET readable == SelectSeq(Fields(text, Plus),
                            LAMBDA t : Has(Fields(t, Colon), 3))
  IN [i \in DOMAIN readable |-> PlaceOfPlayer(Fields(readable[i], Colon))]
(***************************************************************************)
(* setListOfPlayers stops at the first part that has no two colons; behind *)
(* the last plus there is always one.                                      *)
(***************************************************************************)
setListOfPlayers(text) ==
  LET part == Fields(text, Plus)
  IN [i \in {k \in DOMAIN part : \A j \in 1..k : Has(Fields(part[j], Colon), 3)} |->
        PlaceOfPlayer(Fields(part[i], Colon))]

-----------------------------------------------------------------------------
(* The network.  A list carries what the server meant by it, a history.    *)

Request(a, text) == [from |-> a, text |-> text]
Answer(a, text, told) == [to |-> a, text |-> text, told |-> told]
IsRequest(m) == "from" \in DOMAIN m
RequestsFrom(a) == {m \in BagToSet(wire) : IsRequest(m) /\ m.from = a}
AnswersTo(a) == {m \in BagToSet(wire) : ~IsRequest(m) /\ m.to = a}

Send(m, copies) ==
  /\ wire' = With(wire, m, copies)
  /\ UnderWay(wire') <= MaxFlight

-----------------------------------------------------------------------------
(* The client.                                                             *)

\* processCommand: c:pseudo:pass starts to connect.
Start(a) ==
  /\ pc[a] = "off"
  /\ \E cmd \in Command[a] :
       /\ Fields(cmd, Colon)[1] = <<Connect>>
       /\ pseudo' = [pseudo EXCEPT ![a] = Fields(cmd, Colon)[2]]
  /\ \E old \in OldMemory : clientMap' = [clientMap EXCEPT ![a] = old]
  /\ pc' = [pc EXCEPT ![a] = "ask"]
  /\ UNCHANGED <<xyPlayer, listOfPlayer, wire>>

\* processCommand: r:pseudo:pass sends one datagram, and the program ends.
registerPlayer(a, copies) ==
  /\ pc[a] = "off"
  /\ \E cmd \in Command[a] :
       /\ Fields(cmd, Colon)[1] = <<Register>>
       /\ Send(Request(a, RegisterText(Fields(cmd, Colon)[2])), copies)
  /\ UNCHANGED <<player, clientMap>>

SendConnect(a, copies) ==
  /\ pc[a] = "ask"
  /\ Send(Request(a, ConnectText(pseudo[a])), copies)
  /\ pc' = [pc EXCEPT ![a] = "wait"]
  /\ UNCHANGED <<pseudo, xyPlayer, listOfPlayer, clientMap>>

\* Deviation: the code of the answer is not looked at.
ReceiveAnswerOfAnyCode(a, m) ==
  /\ pc[a] = "wait"
  /\ wire' = Without(wire, m)
  /\ LET f == Fields(m.text, Colon)
     IN /\ pc' = [pc EXCEPT ![a] = "play"]
        /\ xyPlayer' = [xyPlayer EXCEPT ![a] = PlaceOfAnswer(f)]
        /\ clientMap' = [clientMap EXCEPT ![a] = IF Has(f, 4) THEN f[4] ELSE @]
  /\ UNCHANGED <<pseudo, listOfPlayer>>
(***************************************************************************)
(* connectPlayerToIPMON takes any datagram for an answer.                  *)
(***************************************************************************)
ReceiveAnswer(a, m) ==
  /\ pc[a] = "wait"
  /\ wire' = Without(wire, m)
  /\ LET f == Fields(m.text, Colon)
     IN IF strtol(f[1]) = ACCEPT_CONNECTION
          THEN /\ pc' = [pc EXCEPT ![a] = "play"]
               /\ xyPlayer' = [xyPlayer EXCEPT ![a] = PlaceOfAnswer(f)]
               /\ clientMap' =
                    [clientMap EXCEPT ![a] = IF Has(f, 4) THEN f[4] ELSE @]
          ELSE /\ pc' = [pc EXCEPT ![a] = "ask"]
               /\ UNCHANGED <<xyPlayer, clientMap>>
  /\ UNCHANGED <<pseudo, listOfPlayer>>

SendPosition(a, copies) ==
  /\ pc[a] = "play"
  /\ Send(Request(a, PositionText(xyPlayer[a], clientMap[a])), copies)
  /\ UNCHANGED <<player, clientMap>>

ReceivePlayers(a, m) ==
  /\ pc[a] = "play"
  /\ wire' = Without(wire, m)
  /\ listOfPlayer' =
       [listOfPlayer EXCEPT ![a] = ToSet(setListOfPlayers(m.text))]
  /\ UNCHANGED <<pc, pseudo, xyPlayer, clientMap>>

-----------------------------------------------------------------------------
(* The same steps with texts left out: IpmonSession, whose network holds   *)
(* what the readers make of the texts.  What sends and receives nothing is *)
(* taken from there.                                                       *)

AnswerOf(text) ==
  IF strtol(Fields(text, Colon)[1]) = ACCEPT_CONNECTION
    THEN [kind |-> "accept", place |-> PlaceOfAnswer(Fields(text, Colon))]
    ELSE [kind |-> "players", players |-> ToSet(setListOfPlayers(text))]

Understood(m) ==
  IF IsRequest(m)
    THEN [from |-> m.from, body |-> DatagramOf(m.text)]
    ELSE [to |-> m.to, body |-> AnswerOf(m.text)]

\* How often each is under way.
Reading(net) ==
  LET read == {<<c, Understood(c[1])>> : c \in Each(net)}
  IN [d \in {r[2] : r \in read} |-> Cardinality({r \in read : r[2] = d})]

Names == [a \in Address |-> {Fields(cmd, Colon)[2] : cmd \in Command[a]}]
Registrar ==
  {a \in Address : \E cmd \in Command[a] : Fields(cmd, Colon)[1] = <<Register>>}

\* A command has three parts.
ASSUME CommandAssumption ==
  \A a \in Address : \A cmd \in Command[a] :
    Has(Fields(cmd, Colon), 3) /\ Fields(cmd, Colon)[2] \in Pseudo

Session == INSTANCE IpmonSession WITH Name <- Names

ClientStep(a) ==
  /\ \/ Start(a)
     \/ \E copies \in Copies : \/ registerPlayer(a, copies)
                               \/ SendConnect(a, copies)
                               \/ SendPosition(a, copies)
     \/ \E m \in AnswersTo(a) : ReceiveAnswer(a, m) \/ ReceivePlayers(a, m)
     \/ /\ \/ Session!AnswerTimeout(a)
           \/ Session!jeuDeplacement(a)
           \/ Session!Quit(a)
        /\ UNCHANGED <<clientMap, wire>>
  /\ UNCHANGED registryVars

-----------------------------------------------------------------------------
(* The server.                                                             *)

ReplyTo(a, d) ==
  IF d.kind = "connect"
    THEN Answer(a, AcceptText, << >>)
    ELSE LET told == Told(dresseursList', a, d.map)
         IN Answer(a, ListText(told), told)

ServeFrom(a, copies) ==
  \E m \in RequestsFrom(a) :
    /\ Serve(a, DatagramOf(m.text))
    /\ wire' = IF sent' = {}
                 THEN Without(wire, m)
                 ELSE With(Without(wire, m), ReplyTo(a, DatagramOf(m.text)), copies)
    /\ UnderWay(wire') <= MaxFlight
    /\ UNCHANGED <<player, clientMap>>

ServerStep ==
  \/ \E a \in Address, copies \in Copies : ServeFrom(a, copies)
  \/ (ServeNothing \/ Check \/ ClockTick) /\ UNCHANGED <<player, clientMap, wire>>

-----------------------------------------------------------------------------

WireInit ==
  /\ RegistryInit
  /\ pc = [a \in Address |-> "off"]
  /\ pseudo \in [Address -> Pseudo]
  /\ \A a \in Address : pseudo[a] \in Names[a]
  /\ xyPlayer = [a \in Address |-> StartPlace]
  /\ listOfPlayer = [a \in Address |-> {}]
  /\ clientMap = [a \in Address |-> << >>]
  /\ wire = EmptyBag /\ network = EmptyBag

WireNext ==
  /\ (\E a \in Address : ClientStep(a)) \/ ServerStep
  /\ network' = Reading(wire')

WireSpec == WireInit /\ [][WireNext]_wireVars

-----------------------------------------------------------------------------

(***************************************************************************)
(* A list is read as it was meant, up to the first player whose name holds *)
(* a plus: that name breaks in two, and its player and all after it are    *)
(* not drawn.  Nobody is drawn where no player was reported.               *)
(***************************************************************************)
HoldsPlus(name) == Plus \in ToSet(name)
ListReadAsMeant ==
  \A m \in BagToSet(wire) :
    (~IsRequest(m) /\ m.told # << >>) =>
      setListOfPlayers(m.text) =
        [i \in {k \in DOMAIN m.told :
                  \A j \in 1..k : ~HoldsPlus(m.told[j].pseudo)} |->
           m.told[i].place]

(***************************************************************************)
(* A client that asks takes a late list, of its life before, for an ACCEPT *)
(* if the first player of it has a name that strtol reads as 1: 1x, or +1x *)
(* with a sign, or behind white space.  It then plays where that player    *)
(* is.  Nothing else lets it in but ACCEPT.                                *)
(***************************************************************************)
ReadsAsAccept(told) == told # << >> /\ strtol(told[1].pseudo) = ACCEPT_CONNECTION
EntersOnlyByAccept ==
  [][\A a \in Address : (pc[a] = "wait" /\ pc'[a] = "play") =>
       \E m \in AnswersTo(a) :
         /\ wire' = Without(wire, m)
         /\ \/ m.told = << >> /\ xyPlayer'[a] = StartPlace /\ clientMap'[a] = StartMap
            \/ ReadsAsAccept(m.told) /\ xyPlayer'[a] = m.told[1].place]_wireVars

(***************************************************************************)
(* IpmonSession sends names, places and maps as such.  The texts do the    *)
(* same, step by step, as long as no list is under way that holds a name   *)
(* with a plus or one that reads as 1, and no client plays on a map such a *)
(* list made it believe in.                                                *)
(***************************************************************************)
Clear ==
  /\ \A m \in BagToSet(wire) : IsRequest(m) \/
       (~ReadsAsAccept(m.told) /\ \A i \in DOMAIN m.told : ~HoldsPlus(m.told[i].pseudo))
  /\ \A a \in Address : pc[a] = "play" => clientMap[a] = StartMap
ImplementsSession ==
  Session!SessionInit /\ [][(Clear /\ Clear') => Session!SessionNext]_wireVars

=============================================================================
