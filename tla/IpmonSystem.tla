---------------------------- MODULE IpmonSystem ----------------------------
(***************************************************************************)
(* Clients and server of IpmonSession with the ring buffer of the server   *)
(* between them (Serv_ipmon/src/server_main.c): threadDownload moves what  *)
(* arrives into the buffer, processItemsInCircularBuffer takes it out and  *)
(* handles it.  The buffer is the queue that the two threads implement     *)
(* (ServerReception); the test for an empty buffer and the read after it   *)
(* are one step, for what the test found is still there (ReadFindsDatagram *)
(* of ServerReception).                                                    *)
(***************************************************************************)
EXTENDS IpmonSession

CONSTANTS Capacity,   \* createCircularBuf(64)
          NoDatagram  \* message is NULL

Datagram == [from : Address, body : ClientDatagram]

ASSUME BufferAssumption ==
  Capacity \in Nat \ {0} /\ NoDatagram \notin Datagram

VARIABLES
  queue,     \* the ring buffer, oldest datagram first
  accepted,  \* what circularBufPut returned last
  message,   \* the datagram being handled
  refused    \* history: what the full buffer did not take, a bag

Buffer == INSTANCE BoundedFifo WITH Null <- NoDatagram, taken <- message

reception == <<queue, accepted, message, refused>>
systemVars == <<sessionVars, reception>>

-----------------------------------------------------------------------------
(* What was sent and is not handled: under way, waiting in the buffer,     *)
(* just read, or refused.                                                  *)

Queued ==
  [m \in ToSet(queue) |-> Cardinality({i \in DOMAIN queue : queue[i] = m})]
InHand == IF message = NoDatagram THEN EmptyBag ELSE SetToBag({message})
Arriving == network (+) Queued (+) InHand
Unhandled == Arriving (+) refused

-----------------------------------------------------------------------------

\* threadDownload: recvfrom, and circularBufPut.
threadDownload ==
  /\ loop # "left"
  /\ \E m \in BagToSet(network) \cap Datagram :
       /\ network' = Without(network, m)
       /\ \/ Buffer!Put(m) /\ UNCHANGED refused
          \/ Buffer!Refuse /\ refused' = With(refused, m, 1)
  /\ UNCHANGED <<registryVars, client>>

\* Deviation: the datagram stays in the buffer.
ReadKeepsHead ==
  /\ loop = "serve" /\ message = NoDatagram
  /\ queue # << >> /\ message' = Head(queue)
  /\ UNCHANGED <<sessionVars, queue, accepted, refused>>
\* circularBufEmpty finds a datagram, and circularBufRead takes it.
Read ==
  /\ loop = "serve" /\ message = NoDatagram
  /\ Buffer!Take
  /\ UNCHANGED <<sessionVars, refused>>

\* circularBufEmpty finds none.
FindEmpty ==
  /\ message = NoDatagram /\ queue = << >>
  /\ ServeNothing
  /\ UNCHANGED <<client, network, reception>>

Handle(copies) ==
  /\ message # NoDatagram
  /\ Serve(message.from, message.body)
  /\ IF sent' = {}
       THEN UNCHANGED network
       ELSE \E r \in sent' :
              network' = With(network, Answer(r.to, Body(r)), copies)
  /\ message' = NoDatagram
  /\ UNCHANGED <<client, queue, accepted, refused>>

-----------------------------------------------------------------------------

SystemInit ==
  /\ SessionInit
  /\ Buffer!Init
  /\ refused = EmptyBag

SystemNext ==
  /\ \/ (\E a \in Address : ClientStep(a)) /\ UNCHANGED reception
     \/ threadDownload
     \/ Read
     \/ FindEmpty
     \/ \E copies \in Copies : Handle(copies)
     \/ (Check \/ ClockTick) /\ UNCHANGED <<client, network, reception>>
  /\ UnderWay(Unhandled') <= MaxFlight

SystemSpec == SystemInit /\ [][SystemNext]_systemVars

-----------------------------------------------------------------------------

(***************************************************************************)
(* To clients and player list the buffer is a part of the network: it      *)
(* loses, keeps back and reorders nothing that UDP could not.              *)
(***************************************************************************)
Session == INSTANCE IpmonSession WITH network <- Unhandled
ImplementsSession == Session!SessionSpec

(***************************************************************************)
(* A client that plays unlisted stays unseen, unless a CONNECT of it is    *)
(* still under way, in the buffer or in hand.  One that the full buffer    *)
(* refused never helps it any more.                                        *)
(***************************************************************************)
Arrived == INSTANCE IpmonSession WITH network <- Arriving
ForgottenBehindBuffer == Arrived!ForgottenForGood

=============================================================================
