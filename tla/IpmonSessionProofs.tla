------------------------- MODULE IpmonSessionProofs -------------------------
(***************************************************************************)
(* Proofs about the composition of clients, network and server, for any    *)
(* set of clients and any number of datagrams under way.  What is under    *)
(* way decides everything: the network only ever holds what some client or *)
(* the server really sends, and the server survives all of that.  The      *)
(* second half puts the ring buffer between network and server             *)
(* (IpmonSystem), and shows that the same steps come out.                  *)
(***************************************************************************)
EXTENDS IpmonSystem, ServerRegistryProofs, FiniteSetTheorems, FunctionTheorems

\* What clients and server send, of all that the protocol knows.
ClientSends ==
  [kind : {"connect"}, pseudo : Pseudo]
    \cup [kind : {"coordinates"}, place : Place, map : Map]
    \cup [kind : {"register"}]
ServerSends ==
  [kind : {"accept"}, place : Place]
    \cup [kind : {"players"}, players : (SUBSET Place) \ {{}}]

Genuine ==
  [from : Address, body : ClientSends] \cup [to : Address, body : ServerSends]

NetworkInv == IsABag(network) /\ BagToSet(network) \subseteq Genuine

SessionInv == IInv /\ ServerKeepsServing /\ ClientTypeOK /\ NetworkInv

-----------------------------------------------------------------------------

(***************************************************************************)
(* A datagram sent or received leaves a network of genuine datagrams.      *)
(***************************************************************************)
LEMMA SendKeeps ==
  ASSUME NetworkInv, NEW m \in Genuine, NEW copies \in Copies, Send(m, copies)
  PROVE  /\ NetworkInv'
         /\ BagToSet(network') \subseteq BagToSet(network) \cup {m}
BY WithBag DEF NetworkInv, Send

LEMMA ReceiveKeeps ==
  ASSUME NetworkInv, NEW m, Receive(m)
  PROVE  NetworkInv' /\ m \in Genuine /\ BagToSet(network') \subseteq BagToSet(network)
BY WithoutBag DEF NetworkInv, Receive, BagIn

LEMMA RequestBody ==
  ASSUME NEW a, NEW d, Request(a, d) \in Genuine
  PROVE  a \in Address /\ d \in ClientSends
BY DEF Request, Genuine

LEMMA AnswerBody ==
  ASSUME NEW a, NEW d, Answer(a, d) \in Genuine
  PROVE  a \in Address /\ d \in ServerSends
BY DEF Answer, Genuine

-----------------------------------------------------------------------------

(***************************************************************************)
(* Steps of a client.                                                      *)
(***************************************************************************)
LEMMA RegistryKept ==
  ASSUME IInv, ServerKeepsServing, UNCHANGED registryVars
  PROVE  IInv' /\ ServerKeepsServing'
<1>1. IInv'
  BY StepPreserves
<1>. QED
  BY <1>1 DEF ServerKeepsServing, registryVars

LEMMA ClientSendsConnect ==
  ASSUME SessionInv, NEW a \in Address, NEW copies \in Copies,
         SendConnect(a, copies)
  PROVE  /\ ClientTypeOK' /\ NetworkInv'
         /\ \A b \in Address : ConnectUnderWay(b)' => ConnectUnderWay(b) \/ b = a
<1>. DEFINE m == Request(a, [kind |-> "connect", pseudo |-> pseudo[a]])
<1>1. ClientTypeOK'
  BY DEF SessionInv, ClientTypeOK, SendConnect
<1>2. m \in Genuine
  BY DEF SessionInv, ClientTypeOK, Request, Genuine, ClientSends
<1>3. NetworkInv' /\ BagToSet(network') \subseteq BagToSet(network) \cup {m}
  BY <1>2, SendKeeps DEF SessionInv, SendConnect
<1>4. \A b \in Address : ConnectUnderWay(b)' => ConnectUnderWay(b) \/ b = a
  BY <1>3 DEF ConnectUnderWay, BagIn, Request
<1>. QED
  BY <1>1, <1>3, <1>4

LEMMA ClientSendsRegister ==
  ASSUME SessionInv, NEW a \in Address, NEW copies \in Copies,
         registerPlayer(a, copies)
  PROVE  /\ ClientTypeOK' /\ NetworkInv'
         /\ \A b \in Address : ConnectUnderWay(b)' => ConnectUnderWay(b)
<1>. DEFINE m == Request(a, [kind |-> "register"])
<1>1. ClientTypeOK'
  BY DEF SessionInv, ClientTypeOK, registerPlayer, client
<1>2. m \in Genuine
  BY DEF Request, Genuine, ClientSends
<1>3. NetworkInv' /\ BagToSet(network') \subseteq BagToSet(network) \cup {m}
  BY <1>2, SendKeeps DEF SessionInv, registerPlayer
<1>4. \A b, p : Request(b, [kind |-> "connect", pseudo |-> p]) # m
  BY DEF Request
<1>5. \A b \in Address : ConnectUnderWay(b)' => ConnectUnderWay(b)
  BY <1>3, <1>4 DEF ConnectUnderWay, BagIn
<1>. QED
  BY <1>1, <1>3, <1>5

LEMMA ClientSendsPosition ==
  ASSUME SessionInv, NEW a \in Address, NEW copies \in Copies,
         SendPosition(a, copies)
  PROVE  /\ ClientTypeOK' /\ NetworkInv'
         /\ \A b \in Address : ConnectUnderWay(b)' => ConnectUnderWay(b)
<1>. DEFINE m == Request(a, Position(a))
<1>1. ClientTypeOK'
  BY DEF SessionInv, ClientTypeOK, SendPosition, client
<1>2. m \in Genuine
  BY StartAssumption
     DEF SessionInv, ClientTypeOK, Request, Position, Genuine, ClientSends
<1>3. NetworkInv' /\ BagToSet(network') \subseteq BagToSet(network) \cup {m}
  BY <1>2, SendKeeps DEF SessionInv, SendPosition
<1>4. \A b, p : Request(b, [kind |-> "connect", pseudo |-> p]) # m
  BY DEF Request, Position
<1>5. \A b \in Address : ConnectUnderWay(b)' => ConnectUnderWay(b)
  BY <1>3, <1>4 DEF ConnectUnderWay, BagIn
<1>. QED
  BY <1>1, <1>3, <1>5

LEMMA ClientHears ==
  ASSUME SessionInv, NEW a \in Address, Hear(a)
  PROVE  /\ ClientTypeOK' /\ NetworkInv'
         /\ BagToSet(network') \subseteq BagToSet(network)
         /\ pc[a] = "play" => listOfPlayer'[a] # {}
         /\ \A b \in Address \ {a} : listOfPlayer'[b] = listOfPlayer[b]
<1>1. PICK m \in BagToSet(network) :
        /\ m = Answer(a, m.body)
        /\ ReceiveAnswer(a, m.body) \/ ReceivePlayers(a, m.body)
  BY DEF Hear
<1>2. m.body \in ServerSends
  <2>1. Answer(a, m.body) \in Genuine
    BY <1>1 DEF SessionInv, NetworkInv
  <2>. QED
    BY <2>1, AnswerBody
<1>3. NetworkInv' /\ BagToSet(network') \subseteq BagToSet(network)
  BY <1>1, ReceiveKeeps DEF SessionInv, ReceiveAnswer, ReceivePlayers
<1>4. /\ setListOfPlayers(a, m.body) \in SUBSET Place
      /\ setListOfPlayers(a, m.body) # {}
      /\ m.body.kind = "accept" => m.body.place \in Place
  BY <1>2 DEF setListOfPlayers, ServerSends
<1>5. CASE ReceiveAnswer(a, m.body)
  BY <1>3, <1>4, <1>5 DEF SessionInv, ClientTypeOK, ReceiveAnswer
<1>6. CASE ReceivePlayers(a, m.body)
  BY <1>3, <1>4, <1>6 DEF SessionInv, ClientTypeOK, ReceivePlayers
<1>. QED
  BY <1>1, <1>5, <1>6

LEMMA ClientMoves ==
  ASSUME SessionInv, NEW a \in Address,
         Start(a) \/ AnswerTimeout(a) \/ jeuDeplacement(a) \/ Quit(a)
  PROVE  ClientTypeOK' /\ NetworkInv' /\ UNCHANGED network
<1>1. ClientTypeOK'
  <2>1. CASE Start(a)
    <3>1. PICK p \in Name[a] : pseudo' = [pseudo EXCEPT ![a] = p]
      BY <2>1 DEF Start
    <3>2. p \in Pseudo
      BY SessionAssumption
    <3>. QED
      BY <2>1, <3>1, <3>2 DEF SessionInv, ClientTypeOK, Start
  <2>2. CASE AnswerTimeout(a)
    BY <2>2 DEF SessionInv, ClientTypeOK, AnswerTimeout
  <2>3. CASE jeuDeplacement(a)
    BY <2>3 DEF SessionInv, ClientTypeOK, jeuDeplacement
  <2>4. CASE Quit(a)
    BY <2>4, StartAssumption DEF SessionInv, ClientTypeOK, Quit
  <2>. QED
    BY <2>1, <2>2, <2>3, <2>4
<1>2. UNCHANGED network
  BY DEF Start, AnswerTimeout, jeuDeplacement, Quit
<1>. QED
  BY <1>1, <1>2 DEF SessionInv, NetworkInv

-----------------------------------------------------------------------------

(***************************************************************************)
(* Steps of the server and of time.  Only a CONNECT lists an address.      *)
(***************************************************************************)
AddressesKept ==
  \A j \in DOMAIN dresseursList' : \E i \in DOMAIN dresseursList :
    dresseursList'[j].addr = dresseursList[i].addr

LEMMA ListEntries ==
  ASSUME IInv
  PROVE  /\ Len(dresseursList) \in Nat
         /\ DOMAIN dresseursList = 1..Len(dresseursList)
         /\ \A i \in DOMAIN dresseursList : dresseursList[i] \in Entry
BY LenProperties, ElementOfSeq DEF IInv, RegistryTypeOK

LEMMA ConnectLists ==
  ASSUME IInv, NEW a \in Address, NEW p \in Pseudo,
         dresseursList' = addPlayer(dresseursList, a, p, StartPlace, StartMap)
  PROVE  \A b \in Address : Listed(b)' => Listed(b) \/ b = a
<1>1. CASE searchDresseurPseudo(dresseursList, p)
  BY <1>1 DEF addPlayer, Listed
<1>2. CASE ~searchDresseurPseudo(dresseursList, p)
  <2>. DEFINE e == [pseudo |-> p, addr |-> a, place |-> StartPlace,
                    map |-> StartMap, age |-> 0, silence |-> 0]
              n == Len(dresseursList)
  <2>1. e.addr = a /\ e \in Entry
    BY StartAssumption, ClockAssumption DEF Entry
  <2>2. dresseursList' = Append(dresseursList, e)
    BY <1>2 DEF addPlayer
  <2>. HIDE DEF e
  <2>3. /\ n \in Nat /\ DOMAIN dresseursList = 1..n
        /\ dresseursList \in Seq(Entry)
    BY ListEntries DEF IInv, RegistryTypeOK
  <2>4. /\ DOMAIN dresseursList' = 1..(n + 1)
        /\ \A i \in 1..n : dresseursList'[i] = dresseursList[i]
        /\ dresseursList'[n + 1] = e
    BY <2>1, <2>2, <2>3, AppendProperties, LenProperties
  <2>. HIDE DEF n
  <2>. QED
    BY <2>1, <2>3, <2>4 DEF Listed
<1>. QED
  BY <1>1, <1>2

LEMMA PositionKeepsAddresses ==
  ASSUME IInv, NEW a \in Address, NEW place \in Place,
         dresseursList' = newPositionOfPlayer(dresseursList, a, place)
  PROVE  AddressesKept
<1>1. \A i \in DOMAIN dresseursList :
        [dresseursList[i] EXCEPT !.place = place, !.age = 0, !.silence = 0].addr
          = dresseursList[i].addr
  BY ListEntries DEF Entry
<1>. QED
  BY <1>1 DEF newPositionOfPlayer, AddressesKept

LEMMA CheckKeepsAddresses ==
  ASSUME IInv, dresseursList' = checkConnectionOfPlayers(dresseursList)
  PROVE  AddressesKept
<1>1. CASE Expired(dresseursList) = {}
  BY <1>1 DEF checkConnectionOfPlayers, AddressesKept
<1>2. CASE Expired(dresseursList) # {}
  <2>. DEFINE First(i) == \A j \in Expired(dresseursList) : i <= j
              k == CHOOSE i \in Expired(dresseursList) : First(i)
              n == Len(dresseursList)
  <2>1. /\ Expired(dresseursList) \subseteq DOMAIN dresseursList
        /\ DOMAIN dresseursList \subseteq Nat
    BY ListEntries DEF Expired
  <2>2. \E i \in Expired(dresseursList) : First(i)
    BY <1>2, <2>1, LeastIndex
  <2>3. k \in DOMAIN dresseursList
    BY <2>1, <2>2
  <2>4. dresseursList' = RemoveAt(dresseursList, k)
    BY <1>2 DEF checkConnectionOfPlayers
  <2>. HIDE DEF k
  <2>5. n \in Nat /\ DOMAIN dresseursList = 1..n /\ dresseursList \in Seq(Entry)
    BY ListEntries DEF IInv, RegistryTypeOK
  <2>6. /\ DOMAIN dresseursList' = 1..(n - 1)
        /\ \A j \in 1..(n - 1) : dresseursList'[j] =
             IF j < k THEN dresseursList[j] ELSE dresseursList[j + 1]
    <3>1. EntryOut(dresseursList, dresseursList', k)
      BY <2>3, <2>4, <2>5, RemovedEntry
    <3>. QED
      BY <3>1 DEF EntryOut
  <2>. HIDE DEF n
  <2>. QED
    BY <2>5, <2>6 DEF AddressesKept
<1>. QED
  BY <1>1, <1>2

LEMMA ClockKeepsAddresses ==
  ASSUME IInv, ClockTick
  PROVE  AddressesKept
<1>1. \A i \in DOMAIN dresseursList :
        [dresseursList[i] EXCEPT !.age = Older(@), !.silence = Older(@)].addr
          = dresseursList[i].addr
  BY ListEntries DEF Entry
<1>. QED
  BY <1>1 DEF ClockTick, AddressesKept

(***************************************************************************)
(* What the server makes of a datagram a client really sends: it stays in  *)
(* its loop, and answers with something.                                   *)
(***************************************************************************)
LEMMA ServesGenuine ==
  ASSUME SessionInv, NEW a \in Address, NEW d \in ClientSends, Serve(a, d)
  PROVE  /\ IInv' /\ loop' = "check"
         /\ \A r \in sent' : r.to \in Address /\ Body(r) \in ServerSends
         /\ \A b \in Address : Listed(b)' => Listed(b) \/ (b = a /\ d.kind = "connect")
<1>1. IInv'
  <2>1. d \in ClientDatagram
    BY DEF ClientSends, ClientDatagram
  <2>. QED
    BY <2>1, StepPreserves DEF SessionInv, RegistryNext
<1>2. CASE d.kind = "connect"
  <2>1. d.pseudo \in Pseudo /\ connectToIPMON(a, d.pseudo)
    BY <1>2 DEF Serve, ClientSends
  <2>2. \A b \in Address : Listed(b)' => Listed(b) \/ b = a
    BY <2>1, ConnectLists DEF SessionInv, connectToIPMON
  <2>3. \A r \in sent' : r.to \in Address /\ Body(r) \in ServerSends
    BY <2>1, StartAssumption DEF connectToIPMON, accept, Body, ServerSends
  <2>. QED
    BY <1>1, <1>2, <2>1, <2>2, <2>3 DEF connectToIPMON
<1>3. CASE d.kind = "coordinates"
  <2>1. d.place \in Place /\ NewCoordinates(a, d.place, d.map)
    BY <1>3 DEF Serve, ClientSends
  <2>2. \A b \in Address : Listed(b)' => Listed(b)
    <3>1. AddressesKept
      BY <2>1, PositionKeepsAddresses DEF SessionInv, NewCoordinates
    <3>. QED
      BY <3>1 DEF AddressesKept, Listed
  <2>3. ASSUME NEW r \in sent'
        PROVE  r.to \in Address /\ Body(r) \in ServerSends
    <3>. DEFINE players == PlayersFor(dresseursList', a, d.map)
    <3>1. /\ players # {}
          /\ r = [to |-> a, kind |-> "players", players |-> players]
      BY <2>1, <2>3 DEF NewCoordinates, sendPlayers
    <3>2. r \in Reply
      BY <1>1, <2>3 DEF IInv, RegistryTypeOK
    <3>3. \A q \in players : q.place \in Place
      BY <3>1, <3>2 DEF Reply
    <3>. HIDE DEF players
    <3>. QED
      BY <3>1, <3>3 DEF Body, ServerSends
  <2>. QED
    BY <1>1, <2>1, <2>2, <2>3 DEF NewCoordinates
<1>4. CASE d.kind = "register"
  <2>1. IgnoredDatagram
    BY <1>4 DEF Serve
  <2>. QED
    BY <1>1, <2>1 DEF IgnoredDatagram, Listed
<1>. QED
  BY <1>2, <1>3, <1>4 DEF ClientSends

LEMMA ServerServes ==
  ASSUME SessionInv, NEW a \in Address, NEW copies \in Copies,
         ServeFrom(a, copies)
  PROVE  /\ SessionInv'
         /\ \A b \in Address : Listed(b)' => Listed(b) \/ ConnectUnderWay(b)
         /\ \A b \in Address : ConnectUnderWay(b)' => ConnectUnderWay(b)
<1>1. PICK m \in BagToSet(network) :
        /\ m = Request(a, m.body)
        /\ Serve(a, m.body)
        /\ IF sent' = {}
             THEN network' = Without(network, m)
             ELSE \E r \in sent' : network' =
                    With(Without(network, m), Answer(r.to, Body(r)), copies)
        /\ UNCHANGED client
  BY DEF ServeFrom
<1>. DEFINE d == m.body
            left == Without(network, m)
<1>2. d \in ClientSends
  <2>1. Request(a, m.body) \in Genuine
    BY <1>1 DEF SessionInv, NetworkInv
  <2>. QED
    BY <2>1, RequestBody
<1>3. /\ IInv' /\ loop' = "check"
      /\ \A r \in sent' : r.to \in Address /\ Body(r) \in ServerSends
      /\ \A b \in Address : Listed(b)' => Listed(b) \/ (b = a /\ d.kind = "connect")
  BY <1>1, <1>2, ServesGenuine
<1>4. IsABag(left) /\ BagToSet(left) \subseteq BagToSet(network)
  BY WithoutBag DEF SessionInv, NetworkInv
<1>. HIDE DEF left
<1>5. /\ NetworkInv'
      /\ \A x \in BagToSet(network') :
           x \in BagToSet(network) \/ \E r \in sent' : x = Answer(r.to, Body(r))
  <2>1. CASE sent' = {}
    BY <1>1, <1>4, <2>1 DEF SessionInv, NetworkInv, left
  <2>2. CASE sent' # {}
    <3>1. PICK r \in sent' : network' = With(left, Answer(r.to, Body(r)), copies)
      BY <1>1, <2>2 DEF left
    <3>2. Answer(r.to, Body(r)) \in Genuine
      BY <1>3 DEF Answer, Genuine
    <3>3. /\ IsABag(network')
          /\ BagToSet(network') \subseteq BagToSet(left) \cup {Answer(r.to, Body(r))}
      BY <1>4, <3>1, WithBag
    <3>. QED
      BY <1>4, <3>2, <3>3 DEF SessionInv, NetworkInv
  <2>. QED
    BY <2>1, <2>2
<1>6. SessionInv'
  BY <1>1, <1>3, <1>5 DEF SessionInv, ServerKeepsServing, ClientTypeOK, client
<1>7. \A b \in Address : Listed(b)' => Listed(b) \/ ConnectUnderWay(b)
  <2>1. d.kind = "connect" => ConnectUnderWay(a)
    <3>. SUFFICES ASSUME d.kind = "connect" PROVE ConnectUnderWay(a)
      OBVIOUS
    <3>1. d.pseudo \in Pseudo /\ d = [kind |-> "connect", pseudo |-> d.pseudo]
      BY <1>2 DEF ClientSends
    <3>2. Request(a, d) \in BagToSet(network)
      BY <1>1
    <3>. HIDE DEF d
    <3>. QED
      BY <3>1, <3>2 DEF ConnectUnderWay, BagIn
  <2>. QED
    BY <1>3, <2>1
<1>8. \A b, p, q, e : Request(b, p) # Answer(q, e)
  BY DEF Request, Answer
<1>9. \A b \in Address : ConnectUnderWay(b)' => ConnectUnderWay(b)
  BY <1>5, <1>8 DEF ConnectUnderWay, BagIn
<1>. QED
  BY <1>6, <1>7, <1>9

(***************************************************************************)
(* What ViewNeverEmpties and ForgottenForGood say of one step.             *)
(***************************************************************************)
ViewKept ==
  \A a \in Address :
    (pc[a] = "play" /\ pc'[a] = "play" /\ listOfPlayer[a] # {})
      => listOfPlayer'[a] # {}
UnseenKept == \A a \in Address : (Unseen(a) /\ pc'[a] = "play") => Unseen(a)'

LEMMA ClientSteps ==
  ASSUME SessionInv, NEW a \in Address, ClientStep(a)
  PROVE  SessionInv' /\ ViewKept /\ UnseenKept
<1>1. UNCHANGED registryVars /\ IInv' /\ ServerKeepsServing'
  BY RegistryKept DEF SessionInv, ClientStep
<1>2. \A b \in Address : Listed(b)' => Listed(b)
  BY <1>1 DEF Listed, registryVars
<1>3. CASE \E copies \in Copies : SendConnect(a, copies)
  <2>1. PICK copies \in Copies : SendConnect(a, copies)
    BY <1>3
  <2>2. /\ SessionInv'
        /\ \A b \in Address : ConnectUnderWay(b)' => ConnectUnderWay(b) \/ b = a
    BY <1>1, <2>1, ClientSendsConnect DEF SessionInv
  <2>3. /\ pc[a] = "ask" /\ UNCHANGED listOfPlayer
        /\ \A b \in Address \ {a} : pc'[b] = pc[b]
    BY <2>1 DEF SendConnect, SessionInv, ClientTypeOK
  <2>. QED
    BY <1>2, <2>2, <2>3 DEF ViewKept, UnseenKept, Unseen
<1>4. CASE \E copies \in Copies : SendPosition(a, copies)
  <2>1. PICK copies \in Copies : SendPosition(a, copies)
    BY <1>4
  <2>2. /\ SessionInv'
        /\ \A b \in Address : ConnectUnderWay(b)' => ConnectUnderWay(b)
    BY <1>1, <2>1, ClientSendsPosition DEF SessionInv
  <2>3. UNCHANGED <<pc, listOfPlayer>>
    BY <2>1 DEF SendPosition, client
  <2>. QED
    BY <1>2, <2>2, <2>3 DEF ViewKept, UnseenKept, Unseen
<1>5. CASE Hear(a)
  <2>1. /\ SessionInv'
        /\ BagToSet(network') \subseteq BagToSet(network)
        /\ pc[a] = "play" => listOfPlayer'[a] # {}
        /\ \A b \in Address \ {a} : listOfPlayer'[b] = listOfPlayer[b]
    BY <1>1, <1>5, ClientHears DEF SessionInv
  <2>2. \A b \in Address : ConnectUnderWay(b)' => ConnectUnderWay(b)
    BY <2>1 DEF ConnectUnderWay, BagIn
  <2>3. ViewKept
    BY <2>1 DEF ViewKept
  <2>. QED
    <3>1. ASSUME NEW b \in Address, Unseen(b), pc'[b] = "play"
          PROVE  Unseen(b)'
      <4>1. ~Listed(b)' /\ ~ConnectUnderWay(b)'
        BY <1>2, <2>2, <3>1 DEF Unseen
      <4>. QED
        BY <3>1, <4>1 DEF Unseen
    <3>. QED
      BY <2>1, <2>3, <3>1 DEF UnseenKept
<1>6. CASE Start(a) \/ AnswerTimeout(a) \/ jeuDeplacement(a) \/ Quit(a)
  <2>1. SessionInv' /\ UNCHANGED network
    BY <1>1, <1>6, ClientMoves DEF SessionInv
  <2>2. \A b \in Address : ConnectUnderWay(b)' => ConnectUnderWay(b)
    BY <2>1 DEF ConnectUnderWay
  <2>3. \A b \in Address : pc'[b] = "play" => listOfPlayer'[b] = listOfPlayer[b]
    BY <1>6 DEF Start, AnswerTimeout, jeuDeplacement, Quit, SessionInv, ClientTypeOK
  <2>4. ViewKept
    BY <2>3 DEF ViewKept
  <2>5. ASSUME NEW b \in Address, Unseen(b), pc'[b] = "play"
        PROVE  Unseen(b)'
    BY <1>2, <2>2, <2>5 DEF Unseen
  <2>. QED
    BY <2>1, <2>4, <2>5 DEF UnseenKept
<1>7. CASE \E copies \in Copies : registerPlayer(a, copies)
  <2>1. PICK copies \in Copies : registerPlayer(a, copies)
    BY <1>7
  <2>2. /\ SessionInv'
        /\ \A b \in Address : ConnectUnderWay(b)' => ConnectUnderWay(b)
    BY <1>1, <2>1, ClientSendsRegister DEF SessionInv
  <2>3. UNCHANGED <<pc, listOfPlayer>>
    BY <2>1 DEF registerPlayer, client
  <2>. QED
    BY <1>2, <2>2, <2>3 DEF ViewKept, UnseenKept, Unseen
<1>. QED
  BY <1>3, <1>4, <1>5, <1>6, <1>7 DEF ClientStep

LEMMA SessionStep ==
  ASSUME SessionInv, [SessionNext]_sessionVars
  PROVE  SessionInv' /\ ViewKept /\ UnseenKept
<1>1. ASSUME NEW a \in Address, ClientStep(a)
      PROVE  SessionInv' /\ ViewKept /\ UnseenKept
  BY <1>1, ClientSteps
<1>2. ASSUME NEW a \in Address, NEW copies \in Copies, ServeFrom(a, copies)
      PROVE  SessionInv' /\ ViewKept /\ UnseenKept
  <2>1. /\ SessionInv'
        /\ \A b \in Address : Listed(b)' => Listed(b) \/ ConnectUnderWay(b)
        /\ \A b \in Address : ConnectUnderWay(b)' => ConnectUnderWay(b)
    BY <1>2, ServerServes
  <2>2. UNCHANGED <<pc, listOfPlayer>>
    BY <1>2 DEF ServeFrom, client
  <2>. QED
    BY <2>1, <2>2 DEF ViewKept, UnseenKept, Unseen
<1>3. ASSUME ServeNothing \/ Check \/ ClockTick, UNCHANGED <<client, network>>
      PROVE  SessionInv' /\ ViewKept /\ UnseenKept
  <2>1. IInv'
    BY <1>3, StepPreserves DEF SessionInv, RegistryNext
  <2>2. ServerKeepsServing'
    BY <1>3 DEF SessionInv, ServerKeepsServing, ServeNothing, IgnoredDatagram,
                Check, ClockTick
  <2>3. SessionInv'
    BY <1>3, <2>1, <2>2 DEF SessionInv, ClientTypeOK, NetworkInv, client
  <2>4. AddressesKept
    <3>1. CASE ServeNothing
      BY <3>1 DEF ServeNothing, IgnoredDatagram, AddressesKept
    <3>2. CASE Check
      BY <3>2, CheckKeepsAddresses DEF Check, SessionInv
    <3>3. CASE ClockTick
      BY <3>3, ClockKeepsAddresses DEF SessionInv
    <3>. QED
      BY <1>3, <3>1, <3>2, <3>3
  <2>5. \A b \in Address : Listed(b)' => Listed(b)
    BY <2>4 DEF AddressesKept, Listed
  <2>6. \A b \in Address : ConnectUnderWay(b)' => ConnectUnderWay(b)
    BY <1>3 DEF ConnectUnderWay
  <2>7. UNCHANGED <<pc, listOfPlayer>>
    BY <1>3 DEF client
  <2>. QED
    BY <2>3, <2>5, <2>6, <2>7 DEF ViewKept, UnseenKept, Unseen
<1>4. CASE UNCHANGED sessionVars
  <2>1. UNCHANGED registryVars /\ UNCHANGED client /\ UNCHANGED network
    BY <1>4 DEF sessionVars
  <2>2. SessionInv'
    BY <2>1, RegistryKept DEF SessionInv, ClientTypeOK, NetworkInv, client
  <2>. QED
    BY <2>1, <2>2
       DEF ViewKept, UnseenKept, Unseen, Listed, ConnectUnderWay, client, registryVars
<1>. QED
  BY <1>1, <1>2, <1>3, <1>4 DEF SessionNext, ServerStep, Tick

-----------------------------------------------------------------------------

LEMMA SessionStarts == SessionInit => SessionInv
<1>. SUFFICES ASSUME SessionInit PROVE SessionInv
  OBVIOUS
<1>1. IInv
  BY EmptySeq DEF SessionInit, RegistryInit, IInv, RegistryTypeOK,
                  UniquePseudo, ShadowedNeverMoves
<1>2. ServerKeepsServing
  BY DEF SessionInit, RegistryInit, ServerKeepsServing
<1>3. ClientTypeOK
  BY StartAssumption DEF SessionInit, ClientTypeOK
<1>4. NetworkInv
  BY DEF SessionInit, NetworkInv, EmptyBag, SetToBag, IsABag, BagToSet
<1>. QED
  BY <1>1, <1>2, <1>3, <1>4 DEF SessionInv

(***************************************************************************)
(* The invariant of sessions: what is under way is genuine, so the server  *)
(* stays in its loop, and the player list keeps its own invariant.         *)
(***************************************************************************)
THEOREM SessionInvariance == SessionSpec => []SessionInv
<1>1. SessionInit => SessionInv
  BY SessionStarts
<1>2. SessionInv /\ [SessionNext]_sessionVars => SessionInv'
  BY SessionStep
<1>. QED
  BY <1>1, <1>2, PTL DEF SessionSpec

(***************************************************************************)
(* Type correctness of clients, network and player list together.          *)
(***************************************************************************)
THEOREM SessionTypeCorrect == SessionSpec => []SessionTypeOK
<1>1. Genuine \subseteq
        [from : Address, body : ClientDatagram]
          \cup [to : Address,
                body : [kind : {"accept"}, place : Place]
                         \cup [kind : {"players"}, players : SUBSET Place]]
  <2>1. ClientSends \subseteq ClientDatagram
    BY DEF ClientSends, ClientDatagram
  <2>2. ServerSends \subseteq
          [kind : {"accept"}, place : Place]
            \cup [kind : {"players"}, players : SUBSET Place]
    BY DEF ServerSends
  <2>. QED
    BY <2>1, <2>2 DEF Genuine
<1>2. SessionInv => SessionTypeOK
  BY <1>1 DEF SessionInv, IInv, NetworkInv, SessionTypeOK
<1>. QED
  BY <1>2, SessionInvariance, PTL

(***************************************************************************)
(* No client makes processItemsInCircularBuffer leave its loop.            *)
(***************************************************************************)
THEOREM ServerStaysInLoop == SessionSpec => []ServerKeepsServing
<1>1. SessionInv => ServerKeepsServing
  BY DEF SessionInv
<1>. QED
  BY <1>1, SessionInvariance, PTL

(***************************************************************************)
(* What sendPlayers and ACCEPT become in setListOfPlayers is never empty.  *)
(***************************************************************************)
THEOREM ViewsNeverEmpty == SessionSpec => ViewNeverEmpties
<1>1. SessionInv /\ [SessionNext]_sessionVars
        => [\A a \in Address :
              (pc[a] = "play" /\ pc'[a] = "play" /\ listOfPlayer[a] # {})
                => listOfPlayer'[a] # {}]_sessionVars
  BY SessionStep DEF ViewKept
<1>. QED
  BY <1>1, SessionInvariance, PTL DEF SessionSpec, ViewNeverEmpties

(***************************************************************************)
(* A playing client that the server does not list, and that has no CONNECT *)
(* under way, is not listed again as long as it plays.                     *)
(***************************************************************************)
THEOREM ForgottenStaysForgotten == SessionSpec => ForgottenForGood
<1>1. SessionInv /\ [SessionNext]_sessionVars
        => [\A a \in Address : (Unseen(a) /\ pc'[a] = "play") => Unseen(a)']_sessionVars
  BY SessionStep DEF UnseenKept
<1>. QED
  BY <1>1, SessionInvariance, PTL DEF SessionSpec, ForgottenForGood

(***************************************************************************)
(* Sessions run on a clock that is not set back (Tick is the only step of  *)
(* the clock): there checkConnectionOfPlayers drops nobody who was heard   *)
(* of within the timeout, whatever the network and the clients do.         *)
(***************************************************************************)
THEOREM SessionsDropOnlySilent == SessionSpec => DeletedOnlyWhenSilent
<1>1. SessionInv /\ [SessionNext]_sessionVars => [ForwardNext]_registryVars
  <2>. SUFFICES ASSUME SessionInv, [SessionNext]_sessionVars
                PROVE  [ForwardNext]_registryVars
    OBVIOUS
  <2>1. ASSUME NEW a \in Address, NEW copies \in Copies, ServeFrom(a, copies)
        PROVE  ForwardNext
    <3>1. PICK m \in BagToSet(network) : m = Request(a, m.body) /\ Serve(a, m.body)
      BY <2>1 DEF ServeFrom
    <3>2. Request(a, m.body) \in Genuine
      BY <3>1 DEF SessionInv, NetworkInv
    <3>3. m.body \in ClientSends
      BY <3>2, RequestBody
    <3>4. m.body \in ClientDatagram
      BY <3>3 DEF ClientSends, ClientDatagram
    <3>. QED
      BY <3>1, <3>4 DEF ForwardNext
  <2>. QED
    BY <2>1 DEF SessionNext, ServerStep, Tick, ClientStep, ForwardNext, sessionVars
<1>2. SessionInit => AgeIsSilence
  BY DEF SessionInit, RegistryInit, AgeIsSilence
<1>3. SessionInv /\ AgeIsSilence /\ [SessionNext]_sessionVars => AgeIsSilence'
  BY <1>1, ForwardStep DEF SessionInv
<1>4. SessionInv /\ AgeIsSilence /\ [SessionNext]_sessionVars
        => [\A i \in DOMAIN dresseursList :
              Present(dresseursList[i].pseudo, dresseursList')
                \/ dresseursList[i].silence > TIMEOUT_PLAYER]_registryVars
  BY <1>1, ForwardStep DEF SessionInv, OnlySilentLeave
<1>. QED
  BY <1>2, <1>3, <1>4, SessionInvariance, PTL
     DEF SessionSpec, DeletedOnlyWhenSilent

-----------------------------------------------------------------------------
(* The ring buffer between network and player list: bags of datagrams.     *)

LEMMA ManyType ==
  ASSUME NEW net, IsABag(net)
  PROVE  \A x : Many(net, x) \in Nat /\ (x \in BagToSet(net) <=> Many(net, x) > 0)
BY BagValues DEF Many, BagToSet

LEMMA ManyPlus ==
  ASSUME NEW one, NEW two, IsABag(one), IsABag(two)
  PROVE  /\ IsABag(one (+) two)
         /\ \A x : Many(one (+) two, x) = Many(one, x) + Many(two, x)
<1>. DEFINE sum == one (+) two
<1>1. /\ \A x \in DOMAIN one : one[x] \in Nat /\ one[x] > 0
      /\ \A x \in DOMAIN two : two[x] \in Nat /\ two[x] > 0
  BY BagValues
<1>2. sum = [x \in DOMAIN one \cup DOMAIN two |->
               (IF x \in DOMAIN one THEN one[x] ELSE 0)
                 + (IF x \in DOMAIN two THEN two[x] ELSE 0)]
  BY DEF (+)
<1>. HIDE DEF sum
<1>3. IsABag(sum)
  BY <1>1, <1>2 DEF IsABag
<1>4. \A x : Many(sum, x) = Many(one, x) + Many(two, x)
  BY <1>1, <1>2 DEF Many
<1>. QED
  BY <1>3, <1>4 DEF sum

LEMMA ManyWith ==
  ASSUME NEW net, IsABag(net), NEW m, NEW copies \in Copies
  PROVE  \A x : Many(With(net, m, copies), x)
                  = Many(net, x) + (IF x = m THEN copies ELSE 0)
<1>1. CASE copies = 0
  BY <1>1, ManyType DEF With
<1>2. CASE copies # 0
  <2>. DEFINE b == [x \in {m} |-> copies]
  <2>1. copies \in Nat /\ copies > 0
    BY <1>2 DEF Copies
  <2>2. With(net, m, copies) = net (+) b
    BY <1>2 DEF With
  <2>3. IsABag(b) /\ \A x : Many(b, x) = IF x = m THEN copies ELSE 0
    BY <2>1 DEF IsABag, Many
  <2>. HIDE DEF b
  <2>. QED
    BY <2>2, <2>3, ManyPlus
<1>. QED
  BY <1>1, <1>2

LEMMA ManyWithout ==
  ASSUME NEW net, IsABag(net), NEW m \in BagToSet(net)
  PROVE  \A x : Many(Without(net, m), x) + (IF x = m THEN 1 ELSE 0) = Many(net, x)
<1>. DEFINE w == Without(net, m)
            left == [x \in DOMAIN net |-> IF x = m THEN net[x] - 1 ELSE net[x]]
<1>1. w = [x \in {y \in DOMAIN net : left[y] > 0} |-> left[x]]
  BY WithoutOne
<1>2. m \in DOMAIN net /\ \A x \in DOMAIN net : net[x] \in Nat /\ net[x] > 0
  BY BagValues DEF BagToSet
<1>. HIDE DEF w
<1>3. \A x : Many(w, x) + (IF x = m THEN 1 ELSE 0) = Many(net, x)
  BY <1>1, <1>2 DEF Many
<1>. QED
  BY <1>3 DEF w

LEMMA SameBag ==
  ASSUME NEW one, NEW two, IsABag(one), IsABag(two),
         \A x : Many(one, x) = Many(two, x)
  PROVE  one = two
<1>1. \A x : x \in DOMAIN one <=> x \in DOMAIN two
  BY ManyType DEF BagToSet
<1>2. DOMAIN one = DOMAIN two
  BY <1>1
<1>3. \A x \in DOMAIN one : one[x] = two[x]
  BY <1>2 DEF Many
<1>4. one = [x \in DOMAIN one |-> one[x]] /\ two = [x \in DOMAIN two |-> two[x]]
  BY DEF IsABag
<1>. QED
  BY <1>2, <1>3, <1>4

-----------------------------------------------------------------------------
(* How often a datagram waits in the buffer.                               *)

At(s, x) == {i \in DOMAIN s : s[i] = x}
Count(s, x) == Cardinality(At(s, x))

LEMMA AtFinite ==
  ASSUME NEW S, NEW s \in Seq(S), NEW x
  PROVE  IsFiniteSet(At(s, x)) /\ Count(s, x) \in Nat /\ (Count(s, x) > 0 <=> x \in ToSet(s))
<1>1. At(s, x) \in SUBSET (1..Len(s)) /\ Len(s) \in Nat
  BY LenProperties DEF At
<1>2. IsFiniteSet(At(s, x))
  <2>1. IsFiniteSet(1..Len(s))
    BY <1>1, FS_Interval
  <2>. QED
    BY <1>1, <2>1, FS_Subset
<1>3. Count(s, x) \in Nat /\ (Count(s, x) = 0 <=> At(s, x) = {})
  BY <1>2, FS_CardinalityType, FS_EmptySet DEF Count
<1>4. At(s, x) # {} <=> x \in ToSet(s)
  BY DEF At, ToSet
<1>. QED
  BY <1>2, <1>3, <1>4

LEMMA CountAppend ==
  ASSUME NEW S, NEW s \in Seq(S), NEW e \in S, NEW x
  PROVE  Count(Append(s, e), x) = Count(s, x) + (IF x = e THEN 1 ELSE 0)
<1>. DEFINE n == Len(s)
            t == Append(s, e)
<1>1. /\ n \in Nat /\ DOMAIN s = 1..n /\ DOMAIN t = 1..(n + 1)
      /\ \A i \in 1..n : t[i] = s[i]
      /\ t[n + 1] = e
  BY AppendProperties, LenProperties
<1>2. IsFiniteSet(At(s, x)) /\ Count(s, x) \in Nat
  BY AtFinite
<1>. HIDE DEF n, t
<1>3. n + 1 \notin At(s, x)
  BY <1>1 DEF At
<1>4. CASE x = e
  <2>1. At(t, x) = At(s, x) \cup {n + 1}
    BY <1>1, <1>4 DEF At
  <2>2. Cardinality(At(s, x) \cup {n + 1}) = Cardinality(At(s, x)) + 1
    BY <1>2, <1>3, FS_AddElement
  <2>. QED
    BY <1>4, <2>1, <2>2 DEF Count, t
<1>5. CASE x # e
  <2>1. At(t, x) = At(s, x)
    BY <1>1, <1>5 DEF At
  <2>. QED
    BY <1>2, <1>5, <2>1 DEF Count, t
<1>. QED
  BY <1>4, <1>5

LEMMA CountTail ==
  ASSUME NEW S, NEW s \in Seq(S), s # << >>, NEW x
  PROVE  Count(Tail(s), x) + (IF x = Head(s) THEN 1 ELSE 0) = Count(s, x)
<1>. DEFINE n == Len(s)
            t == Tail(s)
            later == At(s, x) \ {1}
<1>1. /\ n \in Nat \ {0} /\ DOMAIN s = 1..n /\ DOMAIN t = 1..(n - 1)
      /\ t \in Seq(S)
      /\ \A i \in 1..(n - 1) : t[i] = s[i + 1]
      /\ Head(s) = s[1]
  BY HeadTailProperties, LenProperties, EmptySeq
<1>2. IsFiniteSet(At(s, x)) /\ Count(s, x) \in Nat
  BY AtFinite
<1>3. IsFiniteSet(At(t, x)) /\ Count(t, x) \in Nat
  BY <1>1, AtFinite
<1>. HIDE DEF n, t
<1>4. Cardinality(later) = Cardinality(At(t, x))
  <2>. DEFINE f == [i \in At(t, x) |-> i + 1]
  <2>1. /\ \A i : i \in At(t, x) <=> i \in 1..(n - 1) /\ s[i + 1] = x
        /\ \A i : i \in later <=> i \in 2..n /\ s[i] = x
    BY <1>1 DEF At
  <2>2. f \in Bijection(At(t, x), later)
    <3>1. \A i \in At(t, x) : i + 1 \in later
      BY <1>1, <2>1
    <3>2. \A i, j \in At(t, x) : i + 1 = j + 1 => i = j
      BY <1>1, <2>1
    <3>3. \A j \in later : \E i \in At(t, x) : j = i + 1
      <4>1. \A j \in later : j - 1 \in At(t, x) /\ j = (j - 1) + 1
        BY <1>1, <2>1
      <4>. QED
        BY <4>1
    <3>. HIDE DEF later
    <3>. QED
      BY <3>1, <3>2, <3>3 DEF Bijection, Injection, IsInjective, Surjection
  <2>3. ExistsBijection(At(t, x), later)
    BY <2>2 DEF ExistsBijection
  <2>. HIDE DEF later
  <2>. QED
    BY <1>3, <2>3, FS_Bijection
<1>5. 1 \in At(s, x) <=> x = Head(s)
  BY <1>1 DEF At
<1>6. Cardinality(later) = IF 1 \in At(s, x) THEN Cardinality(At(s, x)) - 1
                                            ELSE Cardinality(At(s, x))
  BY <1>2, FS_RemoveElement
<1>. QED
  BY <1>2, <1>3, <1>4, <1>5, <1>6 DEF Count, t

(***************************************************************************)
(* A queue of datagrams, and the one in hand, as bags.                     *)
(***************************************************************************)
BagOf(s) == [m \in ToSet(s) |-> Count(s, m)]
Hand(m) == IF m = NoDatagram THEN EmptyBag ELSE SetToBag({m})
InTheHand(m, x) == IF m # NoDatagram /\ x = m THEN 1 ELSE 0

LEMMA BagOfQueue ==
  ASSUME NEW S, NEW s \in Seq(S)
  PROVE  IsABag(BagOf(s)) /\ \A x : Many(BagOf(s), x) = Count(s, x)
<1>1. \A x : Count(s, x) \in Nat /\ (Count(s, x) > 0 <=> x \in ToSet(s))
  BY AtFinite
<1>2. IsABag(BagOf(s))
  BY <1>1 DEF IsABag, BagOf
<1>3. \A x : Many(BagOf(s), x) = Count(s, x)
  BY <1>1 DEF Many, BagOf
<1>. QED
  BY <1>2, <1>3

LEMMA HandIsBag ==
  ASSUME NEW m
  PROVE  IsABag(Hand(m)) /\ \A x : Many(Hand(m), x) = InTheHand(m, x)
<1>1. IsABag(EmptyBag) /\ \A x : Many(EmptyBag, x) = 0
  BY DEF IsABag, EmptyBag, SetToBag, Many
<1>2. IsABag(SetToBag({m})) /\ \A x : Many(SetToBag({m}), x) = IF x = m THEN 1 ELSE 0
  BY DEF IsABag, SetToBag, Many
<1>. QED
  BY <1>1, <1>2 DEF Hand, InTheHand

\* What is not handled, given what is under way, waiting, in hand, refused.
Held(net, s, m) == net (+) BagOf(s) (+) Hand(m)
All(net, s, m, lost) == Held(net, s, m) (+) lost

LEMMA Contents ==
  ASSUME NEW S, NEW net, NEW s \in Seq(S), NEW m, NEW lost, IsABag(net), IsABag(lost)
  PROVE  /\ IsABag(Held(net, s, m)) /\ IsABag(All(net, s, m, lost))
         /\ \A x : /\ Many(net, x) \in Nat /\ Many(lost, x) \in Nat
                   /\ Count(s, x) \in Nat /\ InTheHand(m, x) \in Nat
                   /\ Many(Held(net, s, m), x)
                        = Many(net, x) + Count(s, x) + InTheHand(m, x)
                   /\ Many(All(net, s, m, lost), x)
                        = Many(Held(net, s, m), x) + Many(lost, x)
<1>1. IsABag(BagOf(s)) /\ \A x : Many(BagOf(s), x) = Count(s, x)
  BY BagOfQueue
<1>2. IsABag(Hand(m)) /\ \A x : Many(Hand(m), x) = InTheHand(m, x)
  BY HandIsBag
<1>3. /\ IsABag(net (+) BagOf(s))
      /\ \A x : Many(net (+) BagOf(s), x) = Many(net, x) + Count(s, x)
  BY <1>1, ManyPlus
<1>4. /\ IsABag(Held(net, s, m))
      /\ \A x : Many(Held(net, s, m), x) = Many(net, x) + Count(s, x) + InTheHand(m, x)
  BY <1>2, <1>3, ManyPlus DEF Held
<1>5. /\ IsABag(All(net, s, m, lost))
      /\ \A x : Many(All(net, s, m, lost), x)
                  = Many(Held(net, s, m), x) + Many(lost, x)
  BY <1>4, ManyPlus DEF All
<1>6. \A x : Count(s, x) \in Nat /\ InTheHand(m, x) \in Nat
  BY AtFinite DEF InTheHand
<1>. QED
  BY <1>4, <1>5, <1>6, ManyType

LEMMA UnhandledIs ==
  /\ Arriving = Held(network, queue, message)
  /\ Unhandled = All(network, queue, message, refused)
<1>1. Queued = BagOf(queue)
  BY DEF Queued, BagOf, Count, At
<1>2. InHand = Hand(message)
  BY DEF InHand, Hand
<1>. QED
  BY <1>1, <1>2 DEF Arriving, Unhandled, Held, All

LEMMA UnhandledIsThen ==
  /\ Arriving' = Held(network', queue', message')
  /\ Unhandled' = All(network', queue', message', refused')
<1>1. Queued' = BagOf(queue')
  BY DEF Queued, BagOf, Count, At
<1>2. InHand' = Hand(message')
  BY DEF InHand, Hand
<1>. QED
  BY <1>1, <1>2 DEF Arriving, Unhandled, Held, All

-----------------------------------------------------------------------------
(* The invariant: only clients' datagrams reach the buffer.                *)

Requests == [from : Address, body : ClientSends]

BufferInv ==
  /\ queue \in Seq(Requests)
  /\ message \in Requests \cup {NoDatagram}
  /\ IsABag(refused)

SystemInv == SessionInv /\ BufferInv

LEMMA RequestsAreDatagrams == Requests \subseteq Datagram /\ NoDatagram \notin Requests
<1>1. Requests \subseteq Datagram
  BY DEF Requests, Datagram, ClientSends, ClientDatagram
<1>. QED
  BY <1>1, BufferAssumption

LEMMA GenuineRequest ==
  ASSUME NEW m \in Genuine, m \in Datagram
  PROVE  m \in Requests /\ m = Request(m.from, m.body)
<1>1. m = Request(m.from, m.body)
  BY DEF Datagram, Request
<1>2. m.from \in Address /\ m.body \in ClientSends
  BY <1>1, RequestBody
<1>. QED
  BY <1>1, <1>2 DEF Request, Requests

LEMMA InRequests ==
  ASSUME NEW m \in Requests
  PROVE  /\ m.from \in Address /\ m.body \in ClientSends
         /\ m = Request(m.from, m.body) /\ m # NoDatagram
BY RequestsAreDatagrams DEF Requests, Request

\* The counts behind Arriving and Unhandled.
Totals(net, s, m, lost, arriving, unhandled) ==
  /\ IsABag(arriving) /\ IsABag(unhandled)
  /\ \A x : /\ Many(net, x) \in Nat /\ Many(lost, x) \in Nat
            /\ Count(s, x) \in Nat /\ InTheHand(m, x) \in Nat
            /\ Many(arriving, x) = Many(net, x) + Count(s, x) + InTheHand(m, x)
            /\ Many(unhandled, x) = Many(arriving, x) + Many(lost, x)

LEMMA TotalsNow ==
  ASSUME SystemInv
  PROVE  Totals(network, queue, message, refused, Arriving, Unhandled)
<1>1. queue \in Seq(Requests) /\ IsABag(refused) /\ IsABag(network)
  BY DEF SystemInv, BufferInv, SessionInv, NetworkInv
<1>. QED
  BY <1>1, Contents, UnhandledIs DEF Totals

LEMMA TotalsThen ==
  ASSUME SystemInv'
  PROVE  Totals(network', queue', message', refused', Arriving', Unhandled')
<1>1. queue' \in Seq(Requests) /\ IsABag(refused') /\ IsABag(network')
  BY DEF SystemInv, BufferInv, SessionInv, NetworkInv
<1>. QED
  BY <1>1, Contents, UnhandledIsThen DEF Totals

(***************************************************************************)
(* threadDownload changes nothing of what is not handled.                  *)
(***************************************************************************)
LEMMA Downloads ==
  ASSUME SystemInv, threadDownload
  PROVE  /\ SystemInv' /\ UNCHANGED <<registryVars, client>>
         /\ Unhandled' = Unhandled
         /\ \A x : Many(Arriving', x) <= Many(Arriving, x)
<1>1. PICK m \in BagToSet(network) \cap Datagram :
        /\ network' = Without(network, m)
        /\ \/ Buffer!Put(m) /\ UNCHANGED refused
           \/ Buffer!Refuse /\ refused' = With(refused, m, 1)
  BY DEF threadDownload
<1>2. UNCHANGED <<registryVars, client>>
  BY DEF threadDownload
<1>3. m \in Requests /\ m \in BagToSet(network)
  BY <1>1, GenuineRequest DEF SystemInv, SessionInv, NetworkInv
<1>4. /\ IsABag(network) /\ IsABag(network') /\ NetworkInv'
      /\ \A x : Many(network', x) + (IF x = m THEN 1 ELSE 0) = Many(network, x)
  <2>1. IsABag(network) /\ BagToSet(network) \subseteq Genuine
    BY DEF SystemInv, SessionInv, NetworkInv
  <2>2. IsABag(network') /\ BagToSet(network') \subseteq BagToSet(network)
    BY <1>1, <2>1, WithoutBag
  <2>3. \A x : Many(network', x) + (IF x = m THEN 1 ELSE 0) = Many(network, x)
    BY <1>1, <2>1, ManyWithout
  <2>. QED
    BY <2>1, <2>2, <2>3 DEF NetworkInv
<1>5. SessionInv'
  BY <1>2, <1>4, RegistryKept DEF SystemInv, SessionInv, ClientTypeOK, client
<1>6. queue \in Seq(Requests) /\ IsABag(refused)
  BY DEF SystemInv, BufferInv
<1>7. CASE Buffer!Put(m) /\ UNCHANGED refused
  <2>1. queue' = Append(queue, m) /\ UNCHANGED <<message, refused>>
    BY <1>7 DEF Buffer!Put
  <2>2. queue' \in Seq(Requests)
    BY <1>3, <1>6, <2>1, AppendProperties
  <2>3. \A x : Count(queue', x) = Count(queue, x) + (IF x = m THEN 1 ELSE 0)
    BY <1>3, <1>6, <2>1, CountAppend
  <2>4. BufferInv'
    BY <2>1, <2>2 DEF SystemInv, BufferInv
  <2>5. /\ Totals(network, queue, message, refused, Arriving, Unhandled)
        /\ Totals(network', queue', message, refused, Arriving', Unhandled')
    BY <1>5, <2>1, <2>4, TotalsNow, TotalsThen DEF SystemInv
  <2>6. \A x : /\ Many(Unhandled', x) = Many(Unhandled, x)
              /\ Many(Arriving', x) <= Many(Arriving, x)
    BY <1>4, <2>3, <2>5 DEF Totals
  <2>. QED
    BY <1>2, <1>5, <2>4, <2>5, <2>6, SameBag DEF SystemInv, Totals
<1>8. CASE Buffer!Refuse /\ refused' = With(refused, m, 1)
  <2>1. UNCHANGED <<queue, message>>
    BY <1>8 DEF Buffer!Refuse
  <2>2. 1 \in Copies
    BY DEF Copies
  <2>3. /\ IsABag(refused')
        /\ \A x : Many(refused', x) = Many(refused, x) + (IF x = m THEN 1 ELSE 0)
    BY <1>6, <1>8, <2>2, WithBag, ManyWith
  <2>4. BufferInv'
    BY <2>1, <2>3 DEF SystemInv, BufferInv
  <2>5. /\ Totals(network, queue, message, refused, Arriving, Unhandled)
        /\ Totals(network', queue, message, refused', Arriving', Unhandled')
    BY <1>5, <2>1, <2>4, TotalsNow, TotalsThen DEF SystemInv
  <2>6. \A x : /\ Many(Unhandled', x) = Many(Unhandled, x)
              /\ Many(Arriving', x) <= Many(Arriving, x)
    BY <1>4, <2>3, <2>5 DEF Totals
  <2>. QED
    BY <1>2, <1>5, <2>4, <2>5, <2>6, SameBag DEF SystemInv, Totals
<1>. QED
  BY <1>1, <1>7, <1>8

LEMMA Reads ==
  ASSUME SystemInv, Read
  PROVE  /\ SystemInv' /\ UNCHANGED sessionVars
         /\ Unhandled' = Unhandled
         /\ \A x : Many(Arriving', x) <= Many(Arriving, x)
<1>1. /\ message = NoDatagram /\ queue # << >>
      /\ message' = Head(queue) /\ queue' = Tail(queue)
      /\ UNCHANGED <<sessionVars, refused>>
  BY DEF Read, Buffer!Take
<1>2. queue \in Seq(Requests) /\ IsABag(refused) /\ IsABag(network)
  BY DEF SystemInv, BufferInv, SessionInv, NetworkInv
<1>3. queue' \in Seq(Requests) /\ message' \in Requests
  BY <1>1, <1>2, HeadTailProperties
<1>4. SessionInv'
  BY <1>1, SessionStep DEF SystemInv
<1>5. BufferInv'
  BY <1>1, <1>3 DEF SystemInv, BufferInv
<1>6. \A x : /\ Count(queue', x) + (IF x = message' THEN 1 ELSE 0) = Count(queue, x)
             /\ InTheHand(message, x) = 0
             /\ InTheHand(message', x) = IF x = message' THEN 1 ELSE 0
  BY <1>1, <1>2, <1>3, CountTail, RequestsAreDatagrams DEF InTheHand
<1>7. UNCHANGED network
  BY <1>1 DEF sessionVars
<1>8. /\ Totals(network, queue, message, refused, Arriving, Unhandled)
      /\ Totals(network, queue', message', refused, Arriving', Unhandled')
  BY <1>1, <1>4, <1>5, <1>7, TotalsNow, TotalsThen DEF SystemInv
<1>9. \A x : /\ Many(Unhandled', x) = Many(Unhandled, x)
            /\ Many(Arriving', x) <= Many(Arriving, x)
  BY <1>6, <1>8 DEF Totals
<1>. QED
  BY <1>1, <1>4, <1>5, <1>8, <1>9, SameBag DEF SystemInv, Totals

(***************************************************************************)
(* Handling a datagram takes it from what is not handled, and may add one  *)
(* answer to what is under way.                                            *)
(***************************************************************************)
HandledAs(m, copies) ==
  IF sent' = {}
    THEN Unhandled' = Without(Unhandled, m)
    ELSE \E r \in sent' :
           Unhandled' = With(Without(Unhandled, m), Answer(r.to, Body(r)), copies)

LEMMA Handles ==
  ASSUME SystemInv, NEW copies \in Copies, Handle(copies)
  PROVE  /\ SystemInv' /\ UNCHANGED client
         /\ message \in Requests /\ message \in BagToSet(Unhandled)
         /\ HandledAs(message, copies)
<1>1. /\ message # NoDatagram /\ message' = NoDatagram
      /\ Serve(message.from, message.body)
      /\ IF sent' = {}
           THEN UNCHANGED network
           ELSE \E r \in sent' :
                  network' = With(network, Answer(r.to, Body(r)), copies)
      /\ UNCHANGED <<client, queue, accepted, refused>>
  BY DEF Handle
<1>2. message \in Requests
  BY <1>1 DEF SystemInv, BufferInv
<1>3. message.from \in Address /\ message.body \in ClientSends
  BY <1>2, InRequests
<1>4. /\ IInv' /\ loop' = "check"
      /\ \A r \in sent' : r.to \in Address /\ Body(r) \in ServerSends
  BY <1>1, <1>3, ServesGenuine DEF SystemInv
<1>5. IsABag(network) /\ BagToSet(network) \subseteq Genuine
  BY DEF SystemInv, SessionInv, NetworkInv
<1>6. BufferInv'
  BY <1>1 DEF SystemInv, BufferInv
<1>7. \A x : /\ InTheHand(message, x) = IF x = message THEN 1 ELSE 0
             /\ InTheHand(message', x) = 0
  BY <1>1 DEF InTheHand
<1>8. Totals(network, queue, message, refused, Arriving, Unhandled)
  BY TotalsNow
<1>9. message \in BagToSet(Unhandled)
  <2>1. Many(Unhandled, message) > 0
    BY <1>7, <1>8 DEF Totals
  <2>. QED
    BY <1>8, <2>1, ManyType DEF Totals
<1>. DEFINE left == Without(Unhandled, message)
<1>10. /\ IsABag(left)
       /\ \A x : Many(left, x) + (IF x = message THEN 1 ELSE 0) = Many(Unhandled, x)
  BY <1>8, <1>9, WithoutBag, ManyWithout DEF Totals
<1>. HIDE DEF left
<1>11. CASE sent' = {}
  <2>1. UNCHANGED network
    BY <1>1, <1>11
  <2>2. SystemInv'
    BY <1>1, <1>4, <1>6, <2>1
       DEF SystemInv, SessionInv, ServerKeepsServing, ClientTypeOK, NetworkInv, client
  <2>3. Totals(network, queue, message', refused, Arriving', Unhandled')
    BY <1>1, <2>1, <2>2, TotalsThen
  <2>4. \A x : Many(Unhandled', x) = Many(left, x)
    <3>1. \A x : Many(left, x) \in Nat
      BY <1>10, ManyType
    <3>. QED
      BY <1>7, <1>8, <1>10, <2>3, <3>1 DEF Totals
  <2>5. Unhandled' = left
    BY <1>10, <2>3, <2>4, SameBag DEF Totals
  <2>. QED
    BY <1>1, <1>2, <1>9, <1>11, <2>2, <2>5 DEF left, HandledAs
<1>12. CASE sent' # {}
  <2>1. PICK r \in sent' : network' = With(network, Answer(r.to, Body(r)), copies)
    BY <1>1, <1>12
  <2>. DEFINE answer == Answer(r.to, Body(r))
  <2>2. answer \in Genuine
    BY <1>4 DEF Answer, Genuine
  <2>. HIDE DEF answer
  <2>3. /\ IsABag(network') /\ BagToSet(network') \subseteq Genuine
        /\ \A x : Many(network', x) = Many(network, x) + (IF x = answer THEN copies ELSE 0)
    BY <1>5, <2>1, <2>2, WithBag, ManyWith DEF answer
  <2>4. SystemInv'
    BY <1>1, <1>4, <1>6, <2>3
       DEF SystemInv, SessionInv, ServerKeepsServing, ClientTypeOK, NetworkInv, client
  <2>5. Totals(network', queue, message', refused, Arriving', Unhandled')
    BY <1>1, <2>4, TotalsThen
  <2>6. /\ IsABag(With(left, answer, copies))
        /\ \A x : Many(With(left, answer, copies), x)
                    = Many(left, x) + (IF x = answer THEN copies ELSE 0)
    BY <1>10, WithBag, ManyWith
  <2>7. \A x : Many(Unhandled', x) = Many(With(left, answer, copies), x)
    <3>1. copies \in Nat /\ \A x : Many(left, x) \in Nat
      BY <1>10, ManyType DEF Copies
    <3>. QED
      BY <1>7, <1>8, <1>10, <2>3, <2>5, <2>6, <3>1 DEF Totals
  <2>8. Unhandled' = With(left, answer, copies)
    BY <2>5, <2>6, <2>7, SameBag DEF Totals
  <2>. QED
    BY <1>1, <1>2, <1>9, <1>12, <2>4, <2>8 DEF left, answer, HandledAs
<1>. QED
  BY <1>11, <1>12

-----------------------------------------------------------------------------
(* What IpmonSession says with the buffer as a part of the network, it     *)
(* says with the operators used here.                                      *)

LEMMA SessionNetwork ==
  /\ \A net, m, copies : Session!With(net, m, copies) = With(net, m, copies)
  /\ \A net, m : Session!Without(net, m) = Without(net, m)
  /\ \A net : Session!BagToSet(net) = BagToSet(net)
  /\ \A net : Session!UnderWay(net) = UnderWay(net)
  /\ \A net, m : Session!BagIn(m, net) <=> m \in BagToSet(net)
  /\ Session!EmptyBag = EmptyBag
  /\ Session!Copies = Copies
<1>1. \A net, m, copies : Session!With(net, m, copies) = With(net, m, copies)
  BY DEF Session!With, With, Session!(+), (+), Session!BagToSet, BagToSet
<1>2. \A net, m : Session!Without(net, m) = Without(net, m)
  BY DEF Session!Without, Without, Session!(-), (-), Session!SetToBag, SetToBag, Session!BagToSet, BagToSet
<1>3. \A net : Session!BagToSet(net) = BagToSet(net)
  BY DEF Session!BagToSet, BagToSet
<1>4. \A net : Session!UnderWay(net) = UnderWay(net)
  BY DEF Session!UnderWay, UnderWay, Session!Each, Each, Session!Cardinality, Cardinality, Session!IsFiniteSet, IsFiniteSet, Session!BagToSet, BagToSet
<1>5. \A net, m : Session!BagIn(m, net) <=> m \in BagToSet(net)
  BY DEF Session!BagIn, Session!BagToSet, BagToSet
<1>6. Session!EmptyBag = EmptyBag
  BY DEF Session!EmptyBag, EmptyBag, Session!SetToBag, SetToBag
<1>7. Session!Copies = Copies
  BY DEF Session!Copies, Copies
<1>. QED
  BY <1>1, <1>2, <1>3, <1>4, <1>5, <1>6, <1>7

LEMMA SessionServer ==
  /\ Session!RegistryInit <=> RegistryInit
  /\ \A a, d : Session!Serve(a, d) <=> Serve(a, d)
  /\ Session!ServeNothing <=> ServeNothing
  /\ Session!Check <=> Check
  /\ Session!ClockTick <=> ClockTick
<1>1. Session!RegistryInit <=> RegistryInit
  BY DEF Session!RegistryInit, RegistryInit
<1>2. \A a, d : Session!Serve(a, d) <=> Serve(a, d)
  BY DEF Session!Serve, Serve, Session!connectToIPMON, connectToIPMON, Session!addPlayer, addPlayer,
     Session!searchDresseurPseudo, searchDresseurPseudo, Session!accept, accept,
     Session!NewCoordinates, NewCoordinates, Session!newPositionOfPlayer, newPositionOfPlayer, Session!FirstAt, FirstAt,
     Session!sendPlayers, sendPlayers, Session!PlayersFor, PlayersFor,
     Session!CoordinatesWithoutMap, CoordinatesWithoutMap,
     Session!CoordinatesWithoutY, CoordinatesWithoutY, 
     Session!IgnoredDatagram, IgnoredDatagram
<1>3. Session!ServeNothing <=> ServeNothing
  BY DEF Session!ServeNothing, ServeNothing, Session!IgnoredDatagram, IgnoredDatagram
<1>4. Session!Check <=> Check
  BY DEF Session!Check, Check, Session!checkConnectionOfPlayers, checkConnectionOfPlayers, Session!Expired, Expired,
     Session!Elapsed, Elapsed, Session!RemoveAt, RemoveAt
<1>5. Session!ClockTick <=> ClockTick
  BY DEF Session!ClockTick, ClockTick, Session!Older, Older
<1>. QED
  BY <1>1, <1>2, <1>3, <1>4, <1>5

-----------------------------------------------------------------------------
(* The steps of clients and time are those of IpmonSession.                *)

LEMMA SendsAbroad ==
  ASSUME SystemInv, SystemInv', NEW m, NEW copies \in Copies,
         network' = With(network, m, copies), UNCHANGED reception
  PROVE  Unhandled' = With(Unhandled, m, copies)
<1>1. /\ Totals(network, queue, message, refused, Arriving, Unhandled)
      /\ Totals(network', queue, message, refused, Arriving', Unhandled')
  BY TotalsNow, TotalsThen DEF reception
<1>2. \A x : Many(network', x) = Many(network, x) + (IF x = m THEN copies ELSE 0)
  BY ManyWith DEF SystemInv, SessionInv, NetworkInv
<1>3. /\ IsABag(With(Unhandled, m, copies))
      /\ \A x : Many(With(Unhandled, m, copies), x)
                  = Many(Unhandled, x) + (IF x = m THEN copies ELSE 0)
  BY <1>1, WithBag, ManyWith DEF Totals
<1>4. \A x : Many(Unhandled', x) = Many(With(Unhandled, m, copies), x)
  BY <1>1, <1>2, <1>3 DEF Totals, Copies
<1>. QED
  BY <1>1, <1>3, <1>4, SameBag DEF Totals

LEMMA ReceivesFromAbroad ==
  ASSUME SystemInv, SystemInv', NEW m \in BagToSet(network),
         network' = Without(network, m), UNCHANGED reception
  PROVE  m \in BagToSet(Unhandled) /\ Unhandled' = Without(Unhandled, m)
<1>1. /\ Totals(network, queue, message, refused, Arriving, Unhandled)
      /\ Totals(network', queue, message, refused, Arriving', Unhandled')
  BY TotalsNow, TotalsThen DEF reception
<1>2. /\ Many(network, m) > 0
      /\ \A x : Many(network', x) + (IF x = m THEN 1 ELSE 0) = Many(network, x)
  BY ManyType, ManyWithout DEF SystemInv, SessionInv, NetworkInv
<1>3. m \in BagToSet(Unhandled)
  <2>1. Many(Unhandled, m) > 0
    BY <1>1, <1>2 DEF Totals
  <2>. QED
    BY <1>1, <2>1, ManyType DEF Totals
<1>4. /\ IsABag(Without(Unhandled, m))
      /\ \A x : Many(Without(Unhandled, m), x) + (IF x = m THEN 1 ELSE 0)
                  = Many(Unhandled, x)
  BY <1>1, <1>3, WithoutBag, ManyWithout DEF Totals
<1>5. \A x : Many(Unhandled', x) = Many(Without(Unhandled, m), x)
  <2>1. \A x : Many(Without(Unhandled, m), x) \in Nat
    BY <1>4, ManyType
  <2>. QED
    BY <1>1, <1>2, <1>4, <2>1 DEF Totals
<1>. QED
  BY <1>1, <1>3, <1>4, <1>5, SameBag DEF Totals

LEMMA StaysAbroad ==
  ASSUME UNCHANGED <<network, reception>>
  PROVE  UNCHANGED Unhandled /\ UNCHANGED Arriving
BY DEF Unhandled, Arriving, Queued, InHand, reception

LEMMA ClientsImplement ==
  ASSUME SystemInv, SystemInv', NEW a \in Address, ClientStep(a), UNCHANGED reception,
         UnderWay(Unhandled') <= MaxFlight
  PROVE  Session!ClientStep(a)
<1>1. UNCHANGED registryVars
  BY DEF ClientStep
<1>2. CASE Start(a)
  <2>1. UNCHANGED Unhandled
    BY <1>2, StaysAbroad DEF Start
  <2>2. Session!Start(a)
    BY <1>2, <2>1 DEF Start, Session!Start
  <2>. QED
    BY <1>1, <2>2 DEF Session!ClientStep, Session!registryVars, registryVars
<1>3. ASSUME NEW copies \in Copies, NEW m, Send(m, copies)
      PROVE  Session!Send(m, copies)
  BY <1>3, SendsAbroad, SessionNetwork DEF Send, Session!Send
<1>4. ASSUME NEW m, Receive(m)
      PROVE  Session!Receive(m)
  BY <1>4, ReceivesFromAbroad, SessionNetwork DEF Receive, Session!Receive, BagIn
<1>5. \A d : /\ Session!Request(a, d) = Request(a, d)
             /\ Session!Answer(a, d) = Answer(a, d)
  BY DEF Session!Request, Request, Session!Answer, Answer
<1>6. ASSUME NEW copies \in Copies, registerPlayer(a, copies)
      PROVE  Session!registerPlayer(a, copies)
  BY <1>3, <1>5, <1>6 DEF registerPlayer, Session!registerPlayer, client, Session!client
<1>7. ASSUME NEW copies \in Copies, SendConnect(a, copies)
      PROVE  Session!SendConnect(a, copies)
  BY <1>3, <1>5, <1>7 DEF SendConnect, Session!SendConnect
<1>8. ASSUME NEW copies \in Copies, SendPosition(a, copies)
      PROVE  Session!SendPosition(a, copies)
  <2>1. Session!Position(a) = Position(a)
    BY DEF Session!Position, Position
  <2>. QED
    BY <1>3, <1>5, <1>8, <2>1
       DEF SendPosition, Session!SendPosition, client, Session!client
<1>9. CASE Hear(a)
  <2>1. PICK m \in BagToSet(network) :
          /\ m = Answer(a, m.body)
          /\ ReceiveAnswer(a, m.body) \/ ReceivePlayers(a, m.body)
    BY <1>9 DEF Hear
  <2>2. Receive(m)
    BY <2>1 DEF ReceiveAnswer, ReceivePlayers
  <2>3. Session!Receive(m) /\ m \in BagToSet(Unhandled)
    BY <1>4, <2>1, <2>2, ReceivesFromAbroad DEF Receive
  <2>4. Session!Answer(a, m.body) = m
    BY <1>5, <2>1
  <2>5. ReceiveAnswer(a, m.body) => Session!ReceiveAnswer(a, m.body)
    BY <2>3, <2>4 DEF ReceiveAnswer, Session!ReceiveAnswer
  <2>6. ReceivePlayers(a, m.body) => Session!ReceivePlayers(a, m.body)
    BY <2>3, <2>4 DEF ReceivePlayers, Session!ReceivePlayers,
                      setListOfPlayers, Session!setListOfPlayers
  <2>7. Session!Hear(a)
    BY <2>1, <2>3, <2>4, <2>5, <2>6, SessionNetwork DEF Session!Hear
  <2>. QED
    BY <1>1, <2>7 DEF Session!ClientStep, Session!registryVars, registryVars
<1>10. CASE AnswerTimeout(a) \/ jeuDeplacement(a) \/ Quit(a)
  <2>1. UNCHANGED Unhandled
    BY <1>10, StaysAbroad DEF AnswerTimeout, jeuDeplacement, Quit
  <2>2. Session!AnswerTimeout(a) \/ Session!jeuDeplacement(a) \/ Session!Quit(a)
    BY <1>10, <2>1 DEF AnswerTimeout, Session!AnswerTimeout, jeuDeplacement,
                       Session!jeuDeplacement, Quit, Session!Quit
  <2>. QED
    BY <1>1, <2>2 DEF Session!ClientStep, Session!registryVars, registryVars
<1>11. CASE \E copies \in Copies : \/ registerPlayer(a, copies)
                                   \/ SendConnect(a, copies)
                                   \/ SendPosition(a, copies)
  BY <1>1, <1>6, <1>7, <1>8, <1>11, SessionNetwork
     DEF Session!ClientStep, Session!registryVars, registryVars
<1>. QED
  BY <1>2, <1>9, <1>10, <1>11 DEF ClientStep

(***************************************************************************)
(* The steps of the server: a datagram handled, or a turn without one.     *)
(***************************************************************************)
LEMMA HandleImplements ==
  ASSUME SystemInv, NEW copies \in Copies, Handle(copies),
         UnderWay(Unhandled') <= MaxFlight
  PROVE  \E a \in Address : Session!ServeFrom(a, copies)
<1>. DEFINE m == message
            a == message.from
<1>1. /\ m \in Requests /\ m \in BagToSet(Unhandled) /\ UNCHANGED client
      /\ HandledAs(m, copies)
  BY Handles
<1>2. a \in Address /\ m = Session!Request(a, m.body)
  BY <1>1, InRequests DEF Session!Request, Request
<1>3. Serve(a, m.body)
  BY DEF Handle
<1>4. \A b, d : Session!Answer(b, d) = Answer(b, d)
  BY DEF Session!Answer, Answer
<1>5. \A r : Session!Body(r) = Body(r)
  BY DEF Session!Body, Body
<1>6. IF sent' = {}
        THEN Unhandled' = Without(Unhandled, m)
        ELSE \E r \in sent' :
               /\ Unhandled' = With(Without(Unhandled, m),
                                    Session!Answer(r.to, Session!Body(r)), copies)
               /\ UnderWay(Unhandled') <= MaxFlight
  BY <1>1, <1>4, <1>5 DEF HandledAs
<1>7. UNCHANGED Session!client
  BY <1>1 DEF client, Session!client
<1>. HIDE DEF m, a
<1>8. Session!ServeFrom(a, copies)
  BY <1>1, <1>2, <1>3, <1>6, <1>7, SessionNetwork, SessionServer DEF Session!ServeFrom
<1>. QED
  BY <1>2, <1>8

LEMMA SystemStep ==
  ASSUME SystemInv, [SystemNext]_systemVars
  PROVE  SystemInv' /\ ViewKept /\ [Session!SessionNext]_(Session!sessionVars)
<1>1. ASSUME NEW a \in Address, ClientStep(a), UNCHANGED reception,
             UnderWay(Unhandled') <= MaxFlight
      PROVE  SystemInv' /\ ViewKept /\ Session!SessionNext
  <2>1. SystemInv' /\ ViewKept
    BY <1>1, ClientSteps DEF SystemInv, BufferInv, reception
  <2>2. Session!ClientStep(a)
    BY <1>1, <2>1, ClientsImplement
  <2>. QED
    BY <2>1, <2>2 DEF Session!SessionNext
<1>2. ASSUME NEW copies \in Copies, Handle(copies), UnderWay(Unhandled') <= MaxFlight
      PROVE  SystemInv' /\ ViewKept /\ Session!SessionNext
  <2>1. SystemInv' /\ UNCHANGED client
    BY <1>2, Handles
  <2>2. \E a \in Address : Session!ServeFrom(a, copies)
    BY <1>2, HandleImplements
  <2>. QED
    BY <2>1, <2>2, SessionNetwork
       DEF Session!SessionNext, Session!ServerStep, ViewKept, client
<1>3. CASE threadDownload \/ Read
  <2>1. SystemInv' /\ UNCHANGED <<registryVars, client, Unhandled>>
    BY <1>3, Downloads, Reads DEF sessionVars
  <2>2. UNCHANGED Session!sessionVars
    BY <2>1 DEF Session!sessionVars, Session!registryVars, registryVars,
                Session!client, client
  <2>. QED
    BY <2>1, <2>2 DEF ViewKept, client
<1>4. CASE /\ ServeNothing \/ Check \/ ClockTick
           /\ UNCHANGED <<client, network, reception>>
  <2>1. SessionNext
    BY <1>4 DEF SessionNext, ServerStep, Tick
  <2>2. SystemInv' /\ ViewKept
    BY <1>4, <2>1, SessionStep DEF SystemInv, BufferInv, reception
  <2>3. UNCHANGED <<Session!client, Unhandled>>
    BY <1>4, StaysAbroad DEF client, Session!client
  <2>4. Session!SessionNext
    BY <1>4, <2>3, SessionServer DEF Session!SessionNext, Session!ServerStep, Session!Tick
  <2>. QED
    BY <2>2, <2>4
<1>5. CASE UNCHANGED systemVars
  <2>1. UNCHANGED sessionVars /\ UNCHANGED reception
    BY <1>5 DEF systemVars
  <2>2. SystemInv' /\ ViewKept
    BY <2>1, SessionStep DEF SystemInv, BufferInv, reception
  <2>3. UNCHANGED <<registryVars, client, Unhandled>>
    BY <2>1, StaysAbroad DEF sessionVars
  <2>4. UNCHANGED Session!sessionVars
    BY <2>3 DEF Session!sessionVars, Session!registryVars, registryVars,
                Session!client, client
  <2>. QED
    BY <2>2, <2>4
<1>. QED
  BY <1>1, <1>2, <1>3, <1>4, <1>5 DEF SystemNext, FindEmpty

-----------------------------------------------------------------------------
(* Clients that nobody sees.                                               *)

Connecting(b, p) == Request(b, [kind |-> "connect", pseudo |-> p])

LEMMA UnseenNow ==
  ASSUME SystemInv, NEW b
  PROVE  /\ Arrived!Unseen(b) <=>
              /\ pc[b] = "play" /\ ~Listed(b)
              /\ \A p \in Pseudo : Many(Arriving, Connecting(b, p)) = 0
         /\ ConnectUnderWay(b) <=>
              \E p \in Pseudo : Many(network, Connecting(b, p)) > 0
<1>1. IsABag(Arriving) /\ IsABag(network)
  BY TotalsNow DEF Totals, SystemInv, SessionInv, NetworkInv
<1>2. \A x : /\ Many(Arriving, x) \in Nat
             /\ x \in BagToSet(Arriving) <=> Many(Arriving, x) > 0
             /\ x \in BagToSet(network) <=> Many(network, x) > 0
  BY <1>1, ManyType
<1>3. Arrived!Listed(b) <=> Listed(b)
  BY DEF Arrived!Listed, Listed
<1>4. \A p : Arrived!BagIn(Arrived!Request(b, [kind |-> "connect", pseudo |-> p]), Arriving)
               <=> Connecting(b, p) \in BagToSet(Arriving)
  BY DEF Arrived!BagIn, Arrived!BagToSet, BagToSet, Arrived!Request, Request, Connecting
<1>5. Arrived!ConnectUnderWay(b) <=>
        \E p \in Pseudo : Many(Arriving, Connecting(b, p)) > 0
  BY <1>2, <1>4 DEF Arrived!ConnectUnderWay
<1>6. ConnectUnderWay(b) <=> \E p \in Pseudo : Many(network, Connecting(b, p)) > 0
  BY <1>2 DEF ConnectUnderWay, BagIn, Connecting
<1>. QED
  BY <1>2, <1>3, <1>5, <1>6 DEF Arrived!Unseen

LEMMA UnseenThen ==
  ASSUME SystemInv', NEW b
  PROVE  /\ Arrived!Unseen(b)' <=>
              /\ pc'[b] = "play" /\ ~Listed(b)'
              /\ \A p \in Pseudo : Many(Arriving', Connecting(b, p)) = 0
         /\ ConnectUnderWay(b)' <=>
              \E p \in Pseudo : Many(network', Connecting(b, p)) > 0
<1>1. IsABag(Arriving') /\ IsABag(network')
  BY TotalsThen DEF Totals, SystemInv, SessionInv, NetworkInv
<1>2. \A x : /\ Many(Arriving', x) \in Nat
             /\ x \in BagToSet(Arriving') <=> Many(Arriving', x) > 0
             /\ x \in BagToSet(network') <=> Many(network', x) > 0
  BY <1>1, ManyType
<1>3. Arrived!Listed(b)' <=> Listed(b)'
  BY DEF Arrived!Listed, Listed
<1>4. \A p : Arrived!BagIn(Arrived!Request(b, [kind |-> "connect", pseudo |-> p]), Arriving')
               <=> Connecting(b, p) \in BagToSet(Arriving')
  BY DEF Arrived!BagIn, Arrived!BagToSet, BagToSet, Arrived!Request, Request, Connecting
<1>5. Arrived!ConnectUnderWay(b)' <=>
        \E p \in Pseudo : Many(Arriving', Connecting(b, p)) > 0
  BY <1>2, <1>4 DEF Arrived!ConnectUnderWay
<1>6. ConnectUnderWay(b)' <=> \E p \in Pseudo : Many(network', Connecting(b, p)) > 0
  BY <1>2 DEF ConnectUnderWay, BagIn, Connecting
<1>. QED
  BY <1>2, <1>3, <1>5, <1>6 DEF Arrived!Unseen

\* What ForgottenBehindBuffer says of one step.
ArrivedKept ==
  \A a \in Address : (Arrived!Unseen(a) /\ pc'[a] = "play") => Arrived!Unseen(a)'

LEMMA UnseenBehindBuffer ==
  ASSUME SystemInv, SystemInv', [SystemNext]_systemVars
  PROVE  ArrivedKept
<1>. SUFFICES ASSUME NEW a \in Address, Arrived!Unseen(a), pc'[a] = "play"
              PROVE  Arrived!Unseen(a)'
  BY DEF ArrivedKept
<1>1. /\ pc[a] = "play" /\ ~Listed(a)
      /\ \A p \in Pseudo : Many(Arriving, Connecting(a, p)) = 0
  BY UnseenNow
<1>2. /\ Totals(network, queue, message, refused, Arriving, Unhandled)
      /\ Totals(network', queue', message', refused', Arriving', Unhandled')
  BY TotalsNow, TotalsThen
<1>3. CASE threadDownload \/ Read
  <2>1. /\ UNCHANGED registryVars
        /\ \A x : Many(Arriving', x) <= Many(Arriving, x)
    BY <1>3, Downloads, Reads DEF sessionVars
  <2>2. ~Listed(a)'
    BY <1>1, <2>1 DEF Listed, registryVars
  <2>3. \A x : Many(Arriving', x) \in Nat
    BY <1>2, ManyType DEF Totals
  <2>4. \A p \in Pseudo : Many(Arriving', Connecting(a, p)) = 0
    BY <1>1, <2>1, <2>3
  <2>. QED
    BY <2>2, <2>4, UnseenThen
<1>4. ASSUME [SessionNext]_sessionVars, UNCHANGED reception
      PROVE  Arrived!Unseen(a)'
  <2>1. \A p \in Pseudo : /\ Many(network, Connecting(a, p)) = 0
                          /\ Count(queue, Connecting(a, p)) = 0
                          /\ InTheHand(message, Connecting(a, p)) = 0
    BY <1>1, <1>2 DEF Totals
  <2>2. ~ConnectUnderWay(a)
    BY <2>1, UnseenNow
  <2>3. Unseen(a)'
    BY <1>1, <1>4, <2>2, SessionStep DEF SystemInv, UnseenKept, Unseen
  <2>4. \A p \in Pseudo : ~(Many(network', Connecting(a, p)) > 0)
    BY <2>3, UnseenThen DEF Unseen
  <2>5. \A p \in Pseudo : Many(Arriving', Connecting(a, p)) = 0
    BY <1>2, <1>4, <2>1, <2>4 DEF Totals, reception
  <2>. QED
    BY <2>3, <2>5, UnseenThen DEF Unseen
<1>5. ASSUME NEW copies \in Copies, Handle(copies)
      PROVE  Arrived!Unseen(a)'
  <2>. DEFINE d == message.body
  <2>1. /\ message # NoDatagram /\ message' = NoDatagram /\ queue' = queue
        /\ Serve(message.from, d)
        /\ IF sent' = {}
             THEN UNCHANGED network
             ELSE \E r \in sent' :
                    network' = With(network, Answer(r.to, Body(r)), copies)
    BY <1>5 DEF Handle
  <2>2. message \in Requests
    BY <2>1 DEF SystemInv, BufferInv
  <2>3. /\ message.from \in Address /\ d \in ClientSends
        /\ message = Request(message.from, d)
    BY <2>2, InRequests
  <2>4. Listed(a)' => Listed(a) \/ (a = message.from /\ d.kind = "connect")
    BY <2>1, <2>3, ServesGenuine DEF SystemInv
  <2>5. ~(a = message.from /\ d.kind = "connect")
    <3>. SUFFICES ASSUME a = message.from, d.kind = "connect" PROVE FALSE
      OBVIOUS
    <3>1. d.pseudo \in Pseudo /\ d = [kind |-> "connect", pseudo |-> d.pseudo]
      BY <2>3 DEF ClientSends
    <3>2. message = Connecting(a, d.pseudo)
      BY <2>3, <3>1 DEF Connecting
    <3>3. InTheHand(message, Connecting(a, d.pseudo)) = 1
      BY <2>1, <3>2 DEF InTheHand
    <3>. HIDE DEF d
    <3>. QED
      BY <1>1, <1>2, <3>1, <3>3 DEF Totals
  <2>6. \A p, q, e : Connecting(a, p) # Answer(q, e)
    BY DEF Connecting, Request, Answer
  <2>7. \A p : Many(network', Connecting(a, p)) = Many(network, Connecting(a, p))
    <3>1. IsABag(network)
      BY DEF SystemInv, SessionInv, NetworkInv
    <3>2. \A m, x : x # m => Many(With(network, m, copies), x) = Many(network, x)
      <4>1. \A x : Many(network, x) \in Nat
        BY <3>1, ManyType
      <4>. QED
        BY <3>1, <4>1, ManyWith
    <3>. QED
      BY <2>1, <2>6, <3>2
  <2>8. \A p \in Pseudo : Many(Arriving', Connecting(a, p)) = 0
    <3>1. \A x : InTheHand(message', x) = 0
      BY <2>1 DEF InTheHand
    <3>2. \A p \in Pseudo : /\ Many(network, Connecting(a, p)) = 0
                            /\ Count(queue, Connecting(a, p)) = 0
      BY <1>1, <1>2 DEF Totals
    <3>3. \A x : Many(Arriving', x)
                  = Many(network', x) + Count(queue, x) + InTheHand(message', x)
      BY <1>2, <2>1 DEF Totals
    <3>. QED
      BY <2>7, <3>1, <3>2, <3>3
  <2>. QED
    BY <1>1, <2>4, <2>5, <2>8, UnseenThen
<1>6. CASE (\E b \in Address : ClientStep(b)) /\ UNCHANGED reception
  BY <1>4, <1>6 DEF SessionNext
<1>7. CASE /\ ServeNothing \/ Check \/ ClockTick
           /\ UNCHANGED <<client, network, reception>>
  BY <1>4, <1>7 DEF SessionNext, ServerStep, Tick
<1>8. CASE UNCHANGED systemVars
  BY <1>4, <1>8 DEF systemVars
<1>. QED
  BY <1>3, <1>5, <1>6, <1>7, <1>8 DEF SystemNext, FindEmpty

-----------------------------------------------------------------------------

LEMMA SystemStarts == SystemInit => SystemInv /\ Session!SessionInit
<1>. SUFFICES ASSUME SystemInit PROVE SystemInv /\ Session!SessionInit
  OBVIOUS
<1>1. /\ SessionInit /\ queue = << >> /\ message = NoDatagram /\ refused = EmptyBag
  BY DEF SystemInit, Buffer!Init
<1>2. IsABag(EmptyBag) /\ \A x : Many(EmptyBag, x) = 0
  BY DEF IsABag, EmptyBag, SetToBag, Many
<1>3. SystemInv
  <2>1. BufferInv
    BY <1>1, <1>2, EmptySeq DEF BufferInv
  <2>. QED
    BY <1>1, <2>1, SessionStarts DEF SystemInv
<1>4. \A x : Count(queue, x) = 0 /\ InTheHand(message, x) = 0
  <2>1. \A x : x \notin ToSet(queue)
    BY <1>1 DEF ToSet
  <2>2. \A x : Count(queue, x) \in Nat /\ (Count(queue, x) > 0 <=> x \in ToSet(queue))
    BY <1>3, AtFinite DEF SystemInv, BufferInv
  <2>. QED
    BY <1>1, <2>1, <2>2 DEF InTheHand
<1>5. Unhandled = EmptyBag
  <2>1. Totals(network, queue, message, refused, Arriving, Unhandled)
    BY <1>3, TotalsNow
  <2>2. network = EmptyBag
    BY <1>1 DEF SessionInit
  <2>3. \A x : Many(Unhandled, x) = Many(EmptyBag, x)
    BY <1>1, <1>2, <1>4, <2>1, <2>2 DEF Totals
  <2>. QED
    BY <1>2, <2>1, <2>3, SameBag DEF Totals
<1>. QED
  BY <1>1, <1>3, <1>5, SessionNetwork, SessionServer DEF SessionInit, Session!SessionInit

(***************************************************************************)
(* With the buffer between them, clients and server are still those of     *)
(* IpmonSession: what is under way is genuine, and so is what waits in the *)
(* buffer or is being handled.                                             *)
(***************************************************************************)
THEOREM SystemInvariance == SystemSpec => []SystemInv
<1>1. SystemInit => SystemInv
  BY SystemStarts
<1>2. SystemInv /\ [SystemNext]_systemVars => SystemInv'
  BY SystemStep
<1>. QED
  BY <1>1, <1>2, PTL DEF SystemSpec

(***************************************************************************)
(* threadDownload, circularBufPut and circularBufRead do to the datagrams  *)
(* nothing that UDP could not have done: whatever IpmonSession promises    *)
(* holds behind a buffer of any capacity.                                  *)
(***************************************************************************)
THEOREM SystemImplementsSession == SystemSpec => ImplementsSession
<1>1. SystemInit => Session!SessionInit
  BY SystemStarts
<1>2. SystemInv /\ [SystemNext]_systemVars
        => [Session!SessionNext]_(Session!sessionVars)
  BY SystemStep
<1>. QED
  BY <1>1, <1>2, SystemInvariance, PTL
     DEF SystemSpec, ImplementsSession, Session!SessionSpec

(***************************************************************************)
(* No client makes processItemsInCircularBuffer leave its loop, whatever   *)
(* the buffer keeps back or refuses.                                       *)
(***************************************************************************)
THEOREM SystemKeepsServing == SystemSpec => []ServerKeepsServing
<1>1. SystemInv => ServerKeepsServing
  BY DEF SystemInv, SessionInv
<1>. QED
  BY <1>1, SystemInvariance, PTL

(***************************************************************************)
(* What the client draws never becomes empty, with the buffer in between.  *)
(***************************************************************************)
THEOREM SystemViewsNeverEmpty == SystemSpec => ViewNeverEmpties
<1>1. SystemInv /\ [SystemNext]_systemVars
        => [\A a \in Address :
              (pc[a] = "play" /\ pc'[a] = "play" /\ listOfPlayer[a] # {})
                => listOfPlayer'[a] # {}]_sessionVars
  BY SystemStep DEF ViewKept
<1>. QED
  BY <1>1, SystemInvariance, PTL DEF SystemSpec, ViewNeverEmpties

(***************************************************************************)
(* Only a CONNECT that is under way, in the buffer or in hand can list a   *)
(* client that plays; what the full buffer refused cannot.                 *)
(***************************************************************************)
THEOREM RefusedIsForgotten == SystemSpec => ForgottenBehindBuffer
<1>1. SystemInv /\ SystemInv' /\ [SystemNext]_systemVars
        => [\A a \in Address : (Arrived!Unseen(a) /\ pc'[a] = "play")
              => Arrived!Unseen(a)']_(Arrived!sessionVars)
  BY UnseenBehindBuffer DEF ArrivedKept
<1>. QED
  BY <1>1, SystemInvariance, PTL
     DEF SystemSpec, ForgottenBehindBuffer, Arrived!ForgottenForGood

(***************************************************************************)
(* checkConnectionOfPlayers drops nobody who was heard of within the       *)
(* timeout, also when datagrams wait in the buffer.                        *)
(***************************************************************************)
THEOREM SystemDropsOnlySilent == SystemSpec => DeletedOnlyWhenSilent
<1>1. SystemInv /\ [SystemNext]_systemVars => [ForwardNext]_registryVars
  <2>. SUFFICES ASSUME SystemInv, [SystemNext]_systemVars
                PROVE  [ForwardNext]_registryVars
    OBVIOUS
  <2>1. ASSUME NEW copies \in Copies, Handle(copies)
        PROVE  ForwardNext
    <3>1. message \in Requests /\ Serve(message.from, message.body)
      BY <2>1 DEF Handle, SystemInv, BufferInv
    <3>2. message.from \in Address /\ message.body \in ClientDatagram
      BY <3>1, InRequests DEF ClientSends, ClientDatagram
    <3>. QED
      BY <3>1, <3>2 DEF ForwardNext
  <2>2. CASE threadDownload \/ Read
    BY <2>2 DEF threadDownload, Read, sessionVars
  <2>3. CASE ServeNothing \/ Check \/ ClockTick \/ \E a \in Address : ClientStep(a)
    BY <2>3 DEF ForwardNext, ClientStep
  <2>. QED
    BY <2>1, <2>2, <2>3 DEF SystemNext, FindEmpty, systemVars, sessionVars
<1>2. SystemInit => AgeIsSilence
  BY DEF SystemInit, SessionInit, RegistryInit, AgeIsSilence
<1>3. SystemInv /\ AgeIsSilence /\ [SystemNext]_systemVars => AgeIsSilence'
  BY <1>1, ForwardStep DEF SystemInv, SessionInv
<1>4. SystemInv /\ AgeIsSilence /\ [SystemNext]_systemVars
        => [\A i \in DOMAIN dresseursList :
              Present(dresseursList[i].pseudo, dresseursList')
                \/ dresseursList[i].silence > TIMEOUT_PLAYER]_registryVars
  BY <1>1, ForwardStep DEF SystemInv, SessionInv, OnlySilentLeave
<1>. QED
  BY <1>2, <1>3, <1>4, SystemInvariance, PTL DEF SystemSpec, DeletedOnlyWhenSilent

=============================================================================
