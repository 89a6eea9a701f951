------------------------ MODULE ServerRegistryProofs ------------------------
(***************************************************************************)
(* Proofs about the player list of the server for all sets of addresses,   *)
(* names and maps, every timeout and every amount the clock may be set     *)
(* back.  A step of the loop or of the clock changes the list in one of    *)
(* three ways: it rewrites entries in place, appends one or removes one.   *)
(* There is a lemma for each way, and then one for each action.            *)
(***************************************************************************)
EXTENDS ServerRegistry, Datagrams, SequenceTheorems, WellFoundedInduction,
        TLAPS

USE StartAssumption, ClockAssumption

IInv ==
  /\ RegistryTypeOK
  /\ UniquePseudo
  /\ ShadowedNeverMoves

\* What NameKeepsAddress says of one step.
NamesKept ==
  \A i \in DOMAIN dresseursList, j \in DOMAIN dresseursList' :
    dresseursList[i].pseudo = dresseursList'[j].pseudo
      => /\ dresseursList[i].addr = dresseursList'[j].addr
         /\ j <= i

ListPreserved ==
  dresseursList' \in Seq(Entry) /\ UniquePseudo' /\ ShadowedNeverMoves' /\ NamesKept

-----------------------------------------------------------------------------

(***************************************************************************)
(* The network as a bag (Datagrams): what a datagram sent or taken makes   *)
(* of it.  The modules that put the list between clients need this.        *)
(***************************************************************************)
LEMMA WithBag ==
  ASSUME NEW net, IsABag(net), NEW m, NEW copies \in Copies
  PROVE  /\ IsABag(With(net, m, copies))
         /\ BagToSet(With(net, m, copies)) \subseteq BagToSet(net) \cup {m}
         /\ BagToSet(net) \subseteq BagToSet(With(net, m, copies))
<1>1. CASE copies = 0
  BY <1>1 DEF With
<1>2. CASE copies # 0
  <2>. DEFINE b == [x \in {m} |-> copies]
  <2>1. With(net, m, copies) = net (+) b
    BY <1>2 DEF With
  <2>2. copies \in Nat /\ copies > 0
    BY <1>2 DEF Copies
  <2>3. DOMAIN b = {m} /\ \A x \in {m} : b[x] = copies
    OBVIOUS
  <2>. HIDE DEF b
  <2>4. BagToSet(net (+) b) = DOMAIN net \cup {m}
    BY <2>3 DEF BagToSet, (+)
  <2>5. IsABag(net (+) b)
    <3>1. \A x \in DOMAIN net : net[x] \in Nat /\ net[x] > 0
      BY DEF IsABag
    <3>. QED
      BY <2>2, <2>3, <3>1 DEF IsABag, (+)
  <2>. QED
    BY <2>1, <2>4, <2>5 DEF BagToSet
<1>. QED
  BY <1>1, <1>2

LEMMA WithoutBag ==
  ASSUME NEW net, IsABag(net), NEW m
  PROVE  /\ IsABag(Without(net, m))
         /\ BagToSet(Without(net, m)) \subseteq BagToSet(net)
<1>. DEFINE b == SetToBag({m})
<1>1. DOMAIN b = {m} /\ \A x \in {m} : b[x] = 1
  BY DEF SetToBag
<1>2. \A x \in DOMAIN net : net[x] \in Nat /\ net[x] > 0
  BY DEF IsABag
<1>3. Without(net, m) = net (-) b
  BY DEF Without
<1>. HIDE DEF b
<1>. QED
  BY <1>1, <1>2, <1>3 DEF IsABag, BagToSet, (-)

\* How often a datagram is in the bag.
Many(net, m) == IF m \in DOMAIN net THEN net[m] ELSE 0

LEMMA BagValues ==
  ASSUME NEW net, IsABag(net)
  PROVE  \A m \in DOMAIN net : net[m] \in Nat /\ net[m] > 0
BY DEF IsABag

LEMMA WithoutOne ==
  ASSUME NEW net, NEW m
  PROVE  LET left == [x \in DOMAIN net |-> IF x = m THEN net[x] - 1 ELSE net[x]]
         IN Without(net, m) = [x \in {y \in DOMAIN net : left[y] > 0} |-> left[x]]
<1>. DEFINE b == SetToBag({m})
<1>1. DOMAIN b = {m} /\ b[m] = 1
  BY DEF SetToBag
<1>2. Without(net, m) = net (-) b
  BY DEF Without
<1>. HIDE DEF b
<1>3. \A x : x \in DOMAIN b <=> x = m
  BY <1>1
<1>. DEFINE B == [x \in DOMAIN net |-> IF x \in DOMAIN b THEN net[x] - b[x] ELSE net[x]]
            left == [x \in DOMAIN net |-> IF x = m THEN net[x] - 1 ELSE net[x]]
<1>4. net (-) b = [x \in {y \in DOMAIN B : B[y] > 0} |-> B[x]]
  BY DEF (-)
<1>5. B = left /\ DOMAIN B = DOMAIN net
  BY <1>1, <1>3
<1>. HIDE DEF B, left
<1>6. net (-) b = [x \in {y \in DOMAIN net : left[y] > 0} |-> left[x]]
  BY <1>4, <1>5
<1>. QED
  BY <1>2, <1>6 DEF left

-----------------------------------------------------------------------------

(***************************************************************************)
(* The three ways a step changes the list.                                 *)
(***************************************************************************)
LEMMA RemoveAtProperties ==
  ASSUME NEW S, NEW s \in Seq(S), NEW i \in 1..Len(s)
  PROVE  /\ RemoveAt(s, i) \in Seq(S)
         /\ Len(RemoveAt(s, i)) = Len(s) - 1
         /\ \A j \in 1..(Len(s) - 1) :
              RemoveAt(s, i)[j] = IF j < i THEN s[j] ELSE s[j + 1]
<1>. DEFINE front == SubSeq(s, 1, i - 1)
            back == SubSeq(s, i + 1, Len(s))
<1>1. /\ front \in Seq(S) /\ Len(front) = i - 1
      /\ \A j \in 1..(i - 1) : front[j] = s[j]
  <2>1. \A j \in 1..(i - 1) : s[j] \in S
    BY LenProperties, ElementOfSeq
  <2>. QED
    BY <2>1, LenProperties, SubSeqProperties
<1>2. /\ back \in Seq(S) /\ Len(back) = Len(s) - i
      /\ \A j \in 1..(Len(s) - i) : back[j] = s[i + j]
  <2>1. \A j \in (i + 1)..Len(s) : s[j] \in S
    BY LenProperties, ElementOfSeq
  <2>. QED
    BY <2>1, LenProperties, SubSeqProperties
<1>3. RemoveAt(s, i) = front \o back
  BY DEF RemoveAt
<1>4. Len(s) \in Nat /\ i \in 1..Len(s)
  BY LenProperties
<1>. HIDE DEF front, back
<1>5. /\ RemoveAt(s, i) \in Seq(S)
      /\ Len(RemoveAt(s, i)) = Len(front) + Len(back)
      /\ \A j \in 1..(Len(front) + Len(back)) : RemoveAt(s, i)[j] =
           IF j <= Len(front) THEN front[j] ELSE back[j - Len(front)]
  <2>1. front \in Seq(S) /\ back \in Seq(S)
    BY <1>1, <1>2
  <2>2. /\ front \o back \in Seq(S) /\ Len(front \o back) = Len(front) + Len(back)
        /\ \A j \in 1..(Len(front) + Len(back)) : (front \o back)[j] =
             IF j <= Len(front) THEN front[j] ELSE back[j - Len(front)]
    BY <2>1, ConcatProperties
  <2>. QED
    BY <1>3, <2>2, Zenon
<1>6. Len(front) + Len(back) = Len(s) - 1
  BY <1>1, <1>2, <1>4
<1>7. ASSUME NEW j \in 1..(Len(s) - 1)
      PROVE  RemoveAt(s, i)[j] = IF j < i THEN s[j] ELSE s[j + 1]
  <2>1. CASE j < i
    BY <1>1, <1>4, <1>5, <1>6, <2>1
  <2>2. CASE ~(j < i)
    <3>1. j - (i - 1) \in 1..(Len(s) - i) /\ ~(j <= Len(front))
      BY <1>1, <1>4, <2>2
    <3>2. RemoveAt(s, i)[j] = back[j - (i - 1)]
      BY <1>1, <1>4, <1>5, <1>6, <3>1
    <3>3. back[j - (i - 1)] = s[i + (j - (i - 1))]
      BY <1>2, <3>1
    <3>4. i + (j - (i - 1)) = j + 1
      BY <1>4
    <3>. QED
      BY <2>2, <3>2, <3>3, <3>4
  <2>. QED
    BY <2>1, <2>2
<1>. QED
  BY <1>5, <1>6, <1>7

\* t is the list s without its entry i.
EntryOut(s, t, i) ==
  /\ DOMAIN t = 1..(Len(s) - 1)
  /\ \A j \in 1..(Len(s) - 1) : t[j] = IF j < i THEN s[j] ELSE s[j + 1]
LEMMA RemovedEntry ==
  ASSUME NEW S, NEW s \in Seq(S), NEW i \in 1..Len(s)
  PROVE  EntryOut(s, RemoveAt(s, i), i)
<1>. DEFINE t == RemoveAt(s, i)
<1>1. /\ t \in Seq(S) /\ Len(t) = Len(s) - 1
      /\ \A j \in 1..(Len(s) - 1) : t[j] = IF j < i THEN s[j] ELSE s[j + 1]
  BY RemoveAtProperties
<1>. HIDE DEF t
<1>2. DOMAIN t = 1..Len(t)
  BY <1>1, LenProperties
<1>3. EntryOut(s, t, i)
  BY <1>1, <1>2 DEF EntryOut
<1>. QED
  BY <1>3 DEF t

(***************************************************************************)
(* The fields a step rewrites keep an entry an entry.                      *)
(***************************************************************************)
LEMMA EntryRewritten ==
  ASSUME NEW e \in Entry
  PROVE  /\ \A place \in Place :
              [e EXCEPT !.place = place, !.age = 0, !.silence = 0] \in Entry
         /\ [e EXCEPT !.age = Older(@), !.silence = Older(@)] \in Entry
         /\ e.age > -MaxSlip => [e EXCEPT !.age = @ - 1] \in Entry
<1>1. /\ e.age \in Int /\ -MaxSlip <= e.age /\ e.age <= TIMEOUT_PLAYER + 1
      /\ e.silence \in 0..(TIMEOUT_PLAYER + 1)
  BY DEF Entry
<1>2. 0 \in (-MaxSlip)..(TIMEOUT_PLAYER + 1) /\ 0 \in 0..(TIMEOUT_PLAYER + 1)
  OBVIOUS
<1>3. /\ Older(e.age) \in (-MaxSlip)..(TIMEOUT_PLAYER + 1)
      /\ Older(e.silence) \in 0..(TIMEOUT_PLAYER + 1)
  BY <1>1 DEF Older
<1>4. e.age > -MaxSlip => e.age - 1 \in (-MaxSlip)..(TIMEOUT_PLAYER + 1)
  BY <1>1
<1>. QED
  BY <1>2, <1>3, <1>4 DEF Entry

LEMMA LeastIndex ==
  ASSUME NEW T, T \subseteq Nat, T # {}
  PROVE  \E i \in T : \A j \in T : i <= j
<1>. DEFINE R == OpToRel(<, Nat)
<1>1. IsWellFoundedOn(R, Nat)
  BY NatLessThanWellFounded
<1>2. \A i, j \in Nat : <<j, i>> \in R <=> j < i
  BY DEF OpToRel
<1>. HIDE DEF R
<1>3. \E i \in T : \A j \in T : <<j, i>> \notin R
  BY <1>1, WFMin
<1>4. PICK i \in T : \A j \in T : <<j, i>> \notin R
  BY <1>3
<1>5. \A j \in T : ~(j < i)
  BY <1>2, <1>4
<1>. QED
  BY <1>5

LEMMA FunctionIsSeq ==
  ASSUME NEW S, NEW n \in Nat, NEW f \in [1..n -> S]
  PROVE  f \in Seq(S) /\ Len(f) = n
<1>1. f \in Seq(S)
  BY SeqDef
<1>. QED
  BY <1>1, LenProperties

LEMMA InPlace ==
  ASSUME IInv,
         dresseursList' \in Seq(Entry),
         Len(dresseursList') = Len(dresseursList),
         \A i \in 1..Len(dresseursList) :
           /\ dresseursList'[i].pseudo = dresseursList[i].pseudo
           /\ dresseursList'[i].addr = dresseursList[i].addr
           /\ \/ dresseursList'[i].place = dresseursList[i].place
              \/ \A j \in 1..(i - 1) :
                   dresseursList[j].addr # dresseursList[i].addr
  PROVE  ListPreserved
<1>1. Len(dresseursList) \in Nat /\ dresseursList \in Seq(Entry)
  BY LenProperties DEF IInv, RegistryTypeOK
<1>2. UniquePseudo' /\ NamesKept
  BY <1>1 DEF IInv, UniquePseudo, NamesKept
<1>3. ShadowedNeverMoves'
  BY <1>1 DEF IInv, ShadowedNeverMoves
<1>. QED
  BY <1>2, <1>3 DEF ListPreserved

LEMMA Appended ==
  ASSUME IInv, NEW e \in Entry,
         \A i \in DOMAIN dresseursList : dresseursList[i].pseudo # e.pseudo,
         e.place = StartPlace,
         dresseursList' = Append(dresseursList, e)
  PROVE  ListPreserved
<1>. DEFINE n == Len(dresseursList)
<1>1. n \in Nat /\ dresseursList \in Seq(Entry) /\ DOMAIN dresseursList = 1..n
  BY LenProperties DEF IInv, RegistryTypeOK
<1>2. /\ dresseursList' \in Seq(Entry)
      /\ DOMAIN dresseursList' = 1..(n + 1)
      /\ \A i \in 1..n : dresseursList'[i] = dresseursList[i]
      /\ dresseursList'[n + 1] = e
  BY <1>1, AppendProperties, LenProperties
<1>. HIDE DEF n
<1>3. UniquePseudo' /\ NamesKept
  BY <1>1, <1>2 DEF IInv, UniquePseudo, NamesKept
<1>4. ShadowedNeverMoves'
  BY <1>1, <1>2 DEF IInv, ShadowedNeverMoves
<1>. QED
  BY <1>2, <1>3, <1>4 DEF ListPreserved

LEMMA Removed ==
  ASSUME IInv, NEW k \in DOMAIN dresseursList,
         dresseursList' = RemoveAt(dresseursList, k)
  PROVE  ListPreserved
<1>. DEFINE n == Len(dresseursList)
<1>1. n \in Nat /\ dresseursList \in Seq(Entry) /\ DOMAIN dresseursList = 1..n
  BY LenProperties DEF IInv, RegistryTypeOK
<1>2. /\ dresseursList' \in Seq(Entry)
      /\ DOMAIN dresseursList' = 1..(n - 1)
      /\ \A j \in 1..(n - 1) : dresseursList'[j] =
           IF j < k THEN dresseursList[j] ELSE dresseursList[j + 1]
  BY <1>1, RemoveAtProperties, LenProperties
<1>. HIDE DEF n
\* Where the entry at j was before.
<1>. DEFINE from == [j \in 1..(n - 1) |-> IF j < k THEN j ELSE j + 1]
<1>3. \A j \in 1..(n - 1) :
        /\ from[j] \in 1..n /\ j <= from[j]
        /\ dresseursList'[j] = dresseursList[from[j]]
  BY <1>1, <1>2
<1>4. \A i, j \in 1..(n - 1) : i < j => from[i] < from[j]
  BY <1>1
<1>5. \A i, j \in 1..(n - 1) : from[i] = from[j] => i = j
  BY <1>1
<1>. HIDE DEF from
<1>6. UniquePseudo'
  <2>. SUFFICES ASSUME NEW i \in 1..(n - 1), NEW j \in 1..(n - 1),
                       dresseursList'[i].pseudo = dresseursList'[j].pseudo
                PROVE  i = j
    BY <1>2 DEF UniquePseudo
  <2>1. from[i] = from[j]
    BY <1>1, <1>3 DEF IInv, UniquePseudo
  <2>. QED
    BY <1>5, <2>1
<1>7. NamesKept
  <2>. SUFFICES ASSUME NEW i \in 1..n, NEW j \in 1..(n - 1),
                       dresseursList[i].pseudo = dresseursList'[j].pseudo
                PROVE  /\ dresseursList[i].addr = dresseursList'[j].addr
                       /\ j <= i
    BY <1>1, <1>2 DEF NamesKept
  <2>1. i = from[j]
    BY <1>1, <1>3 DEF IInv, UniquePseudo
  <2>. QED
    BY <1>3, <2>1
<1>8. ShadowedNeverMoves'
  <2>. SUFFICES ASSUME NEW i \in 1..(n - 1), NEW j \in 1..(n - 1), i < j,
                       dresseursList'[i].addr = dresseursList'[j].addr
                PROVE  dresseursList'[j].place = StartPlace
    BY <1>2 DEF ShadowedNeverMoves
  <2>1. /\ from[i] < from[j]
        /\ dresseursList[from[i]].addr = dresseursList[from[j]].addr
    BY <1>3, <1>4
  <2>. QED
    BY <1>1, <1>3, <2>1 DEF IInv, ShadowedNeverMoves
<1>. QED
  BY <1>2, <1>6, <1>7, <1>8 DEF ListPreserved

LEMMA Unchanged ==
  ASSUME IInv, UNCHANGED dresseursList
  PROVE  ListPreserved
BY InPlace DEF IInv, RegistryTypeOK

-----------------------------------------------------------------------------

(***************************************************************************)
(* The functions of the loop.                                              *)
(***************************************************************************)
LEMMA AddPlayer ==
  ASSUME IInv, NEW a \in Address, NEW p \in Pseudo,
         dresseursList' = addPlayer(dresseursList, a, p, StartPlace, StartMap)
  PROVE  ListPreserved
<1>1. CASE searchDresseurPseudo(dresseursList, p)
  BY <1>1, Unchanged DEF addPlayer
<1>2. CASE ~searchDresseurPseudo(dresseursList, p)
  <2>. DEFINE e == [pseudo |-> p, addr |-> a, place |-> StartPlace,
                    map |-> StartMap, age |-> 0, silence |-> 0]
  <2>1. e \in Entry
    BY DEF Entry
  <2>2. /\ dresseursList' = Append(dresseursList, e)
        /\ \A i \in DOMAIN dresseursList : dresseursList[i].pseudo # e.pseudo
        /\ e.place = StartPlace
    BY <1>2 DEF addPlayer, searchDresseurPseudo
  <2>. HIDE DEF e
  <2>. QED
    BY <2>1, <2>2, Appended
<1>. QED
  BY <1>1, <1>2

LEMMA NewPosition ==
  ASSUME IInv, NEW a \in Address, NEW place \in Place,
         dresseursList' = newPositionOfPlayer(dresseursList, a, place)
  PROVE  ListPreserved
<1>. DEFINE n == Len(dresseursList)
            fresh(e) == [e EXCEPT !.place = place, !.age = 0, !.silence = 0]
<1>1. /\ n \in Nat /\ DOMAIN dresseursList = 1..n
      /\ \A i \in 1..n : dresseursList[i] \in Entry
  BY LenProperties, ElementOfSeq DEF IInv, RegistryTypeOK
<1>2. dresseursList' =
        [i \in 1..n |->
           IF FirstAt(dresseursList, i, a)
             THEN fresh(dresseursList[i]) ELSE dresseursList[i]]
  <2>1. DOMAIN dresseursList = 1..n
    BY <1>1
  <2>. HIDE DEF n
  <2>. QED
    BY <2>1 DEF newPositionOfPlayer
<1>0. \A e \in Entry : fresh(e) \in Entry /\ fresh(e).pseudo = e.pseudo /\ fresh(e).addr = e.addr
  BY EntryRewritten DEF Entry
<1>. HIDE DEF n, fresh
<1>3. \A i \in 1..n : dresseursList'[i] \in Entry
  BY <1>0, <1>1, <1>2
<1>4. dresseursList' \in Seq(Entry) /\ Len(dresseursList') = n
  <2>1. dresseursList' \in [1..n -> Entry]
    BY <1>2, <1>3
  <2>. QED
    BY <1>1, <2>1, FunctionIsSeq
<1>5. ASSUME NEW i \in 1..n
      PROVE  /\ dresseursList'[i].pseudo = dresseursList[i].pseudo
             /\ dresseursList'[i].addr = dresseursList[i].addr
             /\ \/ dresseursList'[i].place = dresseursList[i].place
                \/ \A j \in 1..(i - 1) :
                     dresseursList[j].addr # dresseursList[i].addr
  <2>1. CASE FirstAt(dresseursList, i, a)
    BY <1>0, <1>1, <1>2, <2>1 DEF FirstAt
  <2>2. CASE ~FirstAt(dresseursList, i, a)
    BY <1>1, <1>2, <2>2
  <2>. QED
    BY <2>1, <2>2
<1>. QED
  BY <1>4, <1>5, InPlace DEF n

LEMMA CheckConnection ==
  ASSUME IInv,
         dresseursList' = checkConnectionOfPlayers(dresseursList)
  PROVE  ListPreserved
<1>1. CASE Expired(dresseursList) = {}
  BY <1>1, Unchanged DEF checkConnectionOfPlayers
<1>2. CASE Expired(dresseursList) # {}
  <2>. DEFINE First(i) == \A j \in Expired(dresseursList) : i <= j
              k == CHOOSE i \in Expired(dresseursList) : First(i)
  <2>1. Expired(dresseursList) \subseteq DOMAIN dresseursList
    BY DEF Expired
  <2>2. DOMAIN dresseursList \subseteq Nat
    BY LenProperties DEF IInv, RegistryTypeOK
  <2>3. \E i \in Expired(dresseursList) : First(i)
    BY <1>2, <2>1, <2>2, LeastIndex
  <2>4. k \in DOMAIN dresseursList
    BY <2>1, <2>3
  <2>5. dresseursList' = RemoveAt(dresseursList, k)
    BY <1>2 DEF checkConnectionOfPlayers
  <2>. HIDE DEF k
  <2>. QED
    BY <2>4, <2>5, Removed
<1>. QED
  BY <1>1, <1>2

(***************************************************************************)
(* The clock rewrites ages only.                                           *)
(***************************************************************************)
LEMMA Aged ==
  ASSUME IInv,
         \/ ClockTick
         \/ ClockSlip
  PROVE  ListPreserved
<1>. DEFINE n == Len(dresseursList)
<1>1. /\ n \in Nat /\ DOMAIN dresseursList = 1..n
      /\ \A i \in 1..n : dresseursList[i] \in Entry
  BY LenProperties, ElementOfSeq DEF IInv, RegistryTypeOK
<1>2. /\ dresseursList' \in Seq(Entry) /\ Len(dresseursList') = n
      /\ \A i \in 1..n : /\ dresseursList'[i].pseudo = dresseursList[i].pseudo
                         /\ dresseursList'[i].addr = dresseursList[i].addr
                         /\ dresseursList'[i].place = dresseursList[i].place
  <2>1. CASE ClockTick
    <3>. DEFINE aged(e) == [e EXCEPT !.age = Older(@), !.silence = Older(@)]
    <3>1. dresseursList' = [i \in 1..n |-> aged(dresseursList[i])]
      BY <1>1, <2>1 DEF ClockTick
    <3>2. \A e \in Entry : /\ aged(e) \in Entry /\ aged(e).pseudo = e.pseudo
                           /\ aged(e).addr = e.addr /\ aged(e).place = e.place
      BY EntryRewritten DEF Entry
    <3>. HIDE DEF n, aged
    <3>3. \A i \in 1..n : dresseursList'[i] \in Entry
      BY <1>1, <3>1, <3>2
    <3>4. dresseursList' \in Seq(Entry) /\ Len(dresseursList') = n
      BY <1>1, <3>1, <3>3, FunctionIsSeq
    <3>. QED
      BY <1>1, <3>1, <3>2, <3>4
  <2>2. CASE ClockSlip
    <3>1. PICK stay \in SUBSET DOMAIN dresseursList :
            dresseursList' = [i \in 1..n |->
              IF i \in stay THEN dresseursList[i]
                            ELSE [dresseursList[i] EXCEPT !.age = @ - 1]]
      BY <1>1, <2>2 DEF ClockSlip
    <3>2. \A i \in 1..n : dresseursList[i].age > -MaxSlip
      BY <1>1, <2>2 DEF ClockSlip
    <3>. HIDE DEF n
    <3>3. \A i \in 1..n : dresseursList'[i] \in Entry
      BY <1>1, <3>1, <3>2, EntryRewritten
    <3>4. dresseursList' \in Seq(Entry) /\ Len(dresseursList') = n
      BY <1>1, <3>1, <3>3, FunctionIsSeq
    <3>. QED
      BY <1>1, <3>1, <3>4 DEF Entry
  <2>. QED
    BY <2>1, <2>2
<1>. QED
  BY <1>1, <1>2, InPlace

-----------------------------------------------------------------------------

(***************************************************************************)
(* Every step of the loop and of the clock.                                *)
(***************************************************************************)
LEMMA SendPlayersType ==
  ASSUME NEW list \in Seq(Entry), NEW a \in Address, NEW map
  PROVE  sendPlayers(list, a, map) \subseteq Reply
<1>1. PlayersFor(list, a, map) \subseteq [pseudo : Pseudo, place : Place]
  <2>1. \A i \in DOMAIN list : list[i].pseudo \in Pseudo /\ list[i].place \in Place
    <3>1. \A i \in DOMAIN list : list[i] \in Entry
      BY LenProperties, ElementOfSeq
    <3>. QED
      BY <3>1 DEF Entry
  <2>. QED
    BY <2>1 DEF PlayersFor
<1>. QED
  BY <1>1 DEF sendPlayers, Reply

\* All that Serve needs of a datagram: its map may be any.
Servable(d) ==
  /\ d.kind = "connect" => d.pseudo \in Pseudo
  /\ d.kind \in {"coordinates", "coordinates without map"} => d.place \in Place

LEMMA ServePreserves ==
  ASSUME IInv, NEW a \in Address, NEW d, Servable(d), Serve(a, d)
  PROVE  RegistryTypeOK' /\ ListPreserved
<1>1. CASE d.kind = "connect"
  <2>1. d.pseudo \in Pseudo /\ connectToIPMON(a, d.pseudo)
    BY <1>1 DEF Serve, Servable
  <2>2. ListPreserved
    BY <2>1, AddPlayer DEF connectToIPMON
  <2>3. sent' \subseteq Reply /\ loop' = "check"
    BY <2>1 DEF connectToIPMON, accept, Reply
  <2>. QED
    BY <2>2, <2>3 DEF RegistryTypeOK, ListPreserved
<1>2. CASE d.kind = "coordinates"
  <2>1. d.place \in Place /\ NewCoordinates(a, d.place, d.map)
    BY <1>2 DEF Serve, Servable
  <2>2. ListPreserved
    BY <2>1, NewPosition DEF NewCoordinates
  <2>3. sent' \subseteq Reply /\ loop' = "check"
    BY <2>1, <2>2, SendPlayersType DEF NewCoordinates, ListPreserved
  <2>. QED
    BY <2>2, <2>3 DEF RegistryTypeOK, ListPreserved
<1>3. CASE d.kind = "coordinates without map"
  <2>1. d.place \in Place /\ CoordinatesWithoutMap(a, d.place)
    BY <1>3 DEF Serve, Servable
  <2>2. ListPreserved
    BY <2>1, NewPosition DEF CoordinatesWithoutMap
  <2>. QED
    BY <2>1, <2>2 DEF CoordinatesWithoutMap, RegistryTypeOK, ListPreserved
<1>4. CASE d.kind = "coordinates without y"
  BY <1>4, Unchanged DEF Serve, CoordinatesWithoutY, RegistryTypeOK, ListPreserved
<1>5. CASE d.kind \notin {"connect", "coordinates", "coordinates without map",
                         "coordinates without y"}
  BY <1>5, Unchanged DEF Serve, IgnoredDatagram, RegistryTypeOK, ListPreserved
<1>. QED
  BY <1>1, <1>2, <1>3, <1>4, <1>5

LEMMA StepPreserves ==
  ASSUME IInv, [RegistryNext]_registryVars
  PROVE  IInv' /\ NamesKept
<1>1. ASSUME NEW a \in Address, NEW d \in ClientDatagram, Serve(a, d)
      PROVE  RegistryTypeOK' /\ ListPreserved
  <2>1. Servable(d)
    BY DEF Servable, ClientDatagram
  <2>. QED
    BY <1>1, <2>1, ServePreserves
<1>2. CASE ServeNothing
  BY <1>2, Unchanged
     DEF ServeNothing, IgnoredDatagram, IInv, RegistryTypeOK, ListPreserved
<1>3. CASE Check
  BY <1>3, CheckConnection DEF Check, IInv, RegistryTypeOK, ListPreserved
<1>4. CASE ClockTick
  BY <1>4, Aged DEF ClockTick, IInv, RegistryTypeOK, ListPreserved
<1>5. CASE ClockSlip
  BY <1>5, Aged DEF ClockSlip, IInv, RegistryTypeOK, ListPreserved
<1>6. CASE UNCHANGED registryVars
  BY <1>6, Unchanged DEF registryVars, IInv, RegistryTypeOK, ListPreserved
<1>. QED
  BY <1>1, <1>2, <1>3, <1>4, <1>5, <1>6 DEF RegistryNext, IInv, ListPreserved

-----------------------------------------------------------------------------

(***************************************************************************)
(* As long as the clock is not set back, currentTime - timeOfLastMessage   *)
(* is the time a player has been silent, and never wraps.                  *)
(***************************************************************************)
AgeIsSilence ==
  \A i \in DOMAIN dresseursList : dresseursList[i].age = dresseursList[i].silence

\* What DeletedOnlyWhenSilent says of one step.
OnlySilentLeave ==
  \A i \in DOMAIN dresseursList :
    Present(dresseursList[i].pseudo, dresseursList')
      \/ dresseursList[i].silence > TIMEOUT_PLAYER

\* The steps that do not set the clock back.
ForwardNext ==
  \/ \E a \in Address, d \in ClientDatagram : Serve(a, d)
  \/ ServeNothing \/ Check \/ ClockTick

LEMMA UnchangedSilence ==
  ASSUME AgeIsSilence, UNCHANGED dresseursList
  PROVE  AgeIsSilence' /\ OnlySilentLeave
BY DEF AgeIsSilence, OnlySilentLeave, Present

\* addPlayer writes time(NULL) into the new entry.
LEMMA AddedIsFresh ==
  ASSUME IInv, AgeIsSilence, NEW a \in Address, NEW p \in Pseudo,
         dresseursList' = addPlayer(dresseursList, a, p, StartPlace, StartMap)
  PROVE  AgeIsSilence' /\ OnlySilentLeave
<1>1. CASE searchDresseurPseudo(dresseursList, p)
  BY <1>1, UnchangedSilence DEF addPlayer
<1>2. CASE ~searchDresseurPseudo(dresseursList, p)
  <2>. DEFINE e == [pseudo |-> p, addr |-> a, place |-> StartPlace,
                    map |-> StartMap, age |-> 0, silence |-> 0]
              n == Len(dresseursList)
  <2>1. e \in Entry /\ e.age = e.silence
    BY DEF Entry
  <2>2. dresseursList' = Append(dresseursList, e)
    BY <1>2 DEF addPlayer
  <2>. HIDE DEF e
  <2>3. n \in Nat /\ dresseursList \in Seq(Entry) /\ DOMAIN dresseursList = 1..n
    BY LenProperties DEF IInv, RegistryTypeOK
  <2>4. /\ DOMAIN dresseursList' = 1..(n + 1)
        /\ \A i \in 1..n : dresseursList'[i] = dresseursList[i]
        /\ dresseursList'[n + 1] = e
    BY <2>1, <2>2, <2>3, AppendProperties, LenProperties
  <2>. HIDE DEF n
  <2>5. \A i \in 1..n : i \in 1..(n + 1)
    BY <2>3
  <2>6. OnlySilentLeave
    BY <2>3, <2>4, <2>5 DEF OnlySilentLeave, Present
  <2>7. ASSUME NEW i \in 1..(n + 1)
        PROVE  dresseursList'[i].age = dresseursList'[i].silence
    <3>1. CASE i \in 1..n
      BY <2>3, <2>4, <3>1 DEF AgeIsSilence
    <3>2. CASE i = n + 1
      BY <2>1, <2>4, <3>2
    <3>. QED
      BY <2>3, <3>1, <3>2
  <2>. QED
    BY <2>4, <2>6, <2>7 DEF AgeIsSilence
<1>. QED
  BY <1>1, <1>2

\* newPositionOfPlayer writes time(NULL) into the entry it moves.
LEMMA MovedIsFresh ==
  ASSUME IInv, AgeIsSilence, NEW a \in Address, NEW place \in Place,
         dresseursList' = newPositionOfPlayer(dresseursList, a, place)
  PROVE  AgeIsSilence' /\ OnlySilentLeave
<1>. DEFINE fresh(e) == [e EXCEPT !.place = place, !.age = 0, !.silence = 0]
<1>1. \A i \in DOMAIN dresseursList : dresseursList[i] \in Entry
  BY LenProperties, ElementOfSeq DEF IInv, RegistryTypeOK
<1>2. \A e \in Entry : /\ fresh(e).pseudo = e.pseudo
                       /\ fresh(e).age = 0 /\ fresh(e).silence = 0
  BY DEF Entry
<1>3. dresseursList' =
        [i \in DOMAIN dresseursList |->
           IF FirstAt(dresseursList, i, a)
             THEN fresh(dresseursList[i]) ELSE dresseursList[i]]
  BY DEF newPositionOfPlayer
<1>. HIDE DEF fresh
<1>. QED
  BY <1>1, <1>2, <1>3 DEF AgeIsSilence, OnlySilentLeave, Present

\* A second makes both older, and stops both at the same bound.
LEMMA TickAgesBoth ==
  ASSUME IInv, AgeIsSilence, ClockTick
  PROVE  AgeIsSilence' /\ OnlySilentLeave
<1>. DEFINE aged(e) == [e EXCEPT !.age = Older(@), !.silence = Older(@)]
<1>1. \A i \in DOMAIN dresseursList : dresseursList[i] \in Entry
  BY LenProperties, ElementOfSeq DEF IInv, RegistryTypeOK
<1>2. \A e \in Entry : /\ aged(e).pseudo = e.pseudo
                       /\ aged(e).age = Older(e.age)
                       /\ aged(e).silence = Older(e.silence)
  BY DEF Entry
<1>3. dresseursList' = [i \in DOMAIN dresseursList |-> aged(dresseursList[i])]
  BY DEF ClockTick
<1>. HIDE DEF aged
<1>. QED
  BY <1>1, <1>2, <1>3 DEF AgeIsSilence, OnlySilentLeave, Present

\* Whoever checkConnectionOfPlayers removes has been silent too long.
LEMMA RemovedWasSilent ==
  ASSUME IInv, AgeIsSilence,
         dresseursList' = checkConnectionOfPlayers(dresseursList)
  PROVE  AgeIsSilence' /\ OnlySilentLeave
<1>1. CASE Expired(dresseursList) = {}
  BY <1>1, UnchangedSilence DEF checkConnectionOfPlayers
<1>2. CASE Expired(dresseursList) # {}
  <2>. DEFINE First(i) == \A j \in Expired(dresseursList) : i <= j
              k == CHOOSE i \in Expired(dresseursList) : First(i)
              n == Len(dresseursList)
  <2>1. /\ n \in Nat /\ dresseursList \in Seq(Entry) /\ DOMAIN dresseursList = 1..n
        /\ \A i \in DOMAIN dresseursList : dresseursList[i] \in Entry
    BY LenProperties, ElementOfSeq DEF IInv, RegistryTypeOK
  <2>2. Expired(dresseursList) \subseteq DOMAIN dresseursList
    BY DEF Expired
  <2>3. \E i \in Expired(dresseursList) : First(i)
    BY <1>2, <2>1, <2>2, LeastIndex
  <2>4. k \in Expired(dresseursList)
    BY <2>3
  <2>5. dresseursList' = RemoveAt(dresseursList, k)
    BY <1>2 DEF checkConnectionOfPlayers
  <2>. HIDE DEF k, First
  <2>6. dresseursList[k].silence > TIMEOUT_PLAYER
    <3>1. /\ dresseursList[k].age = dresseursList[k].silence
          /\ dresseursList[k].silence \in 0..(TIMEOUT_PLAYER + 1)
      BY <2>1, <2>2, <2>4 DEF AgeIsSilence, Entry
    <3>2. dresseursList[k].age % Wrap = dresseursList[k].age
      BY <3>1
    <3>. QED
      BY <2>4, <3>1, <3>2 DEF Expired, Elapsed
  <2>7. /\ DOMAIN dresseursList' = 1..(n - 1)
        /\ \A j \in 1..(n - 1) : dresseursList'[j] =
             IF j < k THEN dresseursList[j] ELSE dresseursList[j + 1]
    <3>1. k \in 1..n
      BY <2>1, <2>2, <2>4
    <3>2. EntryOut(dresseursList, dresseursList', k)
      BY <2>1, <2>5, <3>1, RemovedEntry
    <3>. QED
      BY <3>2 DEF EntryOut
  <2>. HIDE DEF n
  <2>8. AgeIsSilence'
    <3>1. ASSUME NEW j \in 1..(n - 1)
          PROVE  dresseursList'[j].age = dresseursList'[j].silence
      <4>1. j \in 1..n /\ j + 1 \in 1..n
        BY <2>1
      <4>2. CASE j < k
        BY <2>1, <2>7, <4>1, <4>2 DEF AgeIsSilence
      <4>3. CASE ~(j < k)
        BY <2>1, <2>7, <4>1, <4>3 DEF AgeIsSilence
      <4>. QED
        BY <4>2, <4>3
    <3>. QED
      BY <2>7, <3>1 DEF AgeIsSilence
  <2>9. ASSUME NEW i \in 1..n, i # k
        PROVE  Present(dresseursList[i].pseudo, dresseursList')
    <3>1. k \in 1..n
      BY <2>1, <2>2, <2>4
    <3>2. CASE i < k
      BY <2>1, <2>7, <3>1, <3>2 DEF Present
    <3>3. CASE i > k
      <4>1. i - 1 \in 1..(n - 1) /\ ~(i - 1 < k) /\ (i - 1) + 1 = i
        BY <2>1, <3>1, <3>3
      <4>. QED
        BY <2>7, <4>1 DEF Present
    <3>. QED
      BY <2>1, <2>9, <3>1, <3>2, <3>3
  <2>. QED
    BY <2>1, <2>6, <2>8, <2>9 DEF OnlySilentLeave
<1>. QED
  BY <1>1, <1>2

LEMMA ForwardStep ==
  ASSUME IInv, AgeIsSilence, [ForwardNext]_registryVars
  PROVE  AgeIsSilence' /\ OnlySilentLeave
<1>1. ASSUME NEW a \in Address, NEW d \in ClientDatagram, Serve(a, d)
      PROVE  AgeIsSilence' /\ OnlySilentLeave
  <2>1. CASE d.kind = "connect"
    BY <1>1, <2>1, AddedIsFresh DEF Serve, connectToIPMON, ClientDatagram
  <2>2. CASE d.kind \in {"coordinates", "coordinates without map"}
    <3>1. /\ d.place \in Place
          /\ dresseursList' = newPositionOfPlayer(dresseursList, a, d.place)
      BY <1>1, <2>2
         DEF Serve, NewCoordinates, CoordinatesWithoutMap, ClientDatagram
    <3>. QED
      BY <3>1, MovedIsFresh
  <2>3. CASE d.kind \in {"coordinates without y", "register", "other"}
    BY <1>1, <2>3, UnchangedSilence DEF Serve, CoordinatesWithoutY, IgnoredDatagram
  <2>. QED
    BY <2>1, <2>2, <2>3 DEF ClientDatagram
<1>2. CASE ServeNothing
  BY <1>2, UnchangedSilence DEF ServeNothing, IgnoredDatagram
<1>3. CASE Check
  BY <1>3, RemovedWasSilent DEF Check
<1>4. CASE ClockTick
  BY <1>4, TickAgesBoth
<1>5. CASE UNCHANGED registryVars
  BY <1>5, UnchangedSilence DEF registryVars
<1>. QED
  BY <1>1, <1>2, <1>3, <1>4, <1>5 DEF ForwardNext

-----------------------------------------------------------------------------

(***************************************************************************)
(* The invariants of the player list (addPlayer, newPositionOfPlayer and   *)
(* checkConnectionOfPlayers) hold together, whatever the clock does.       *)
(***************************************************************************)
THEOREM RegistryInvariance == RegistrySpec => []IInv
<1>1. RegistryInit => IInv
  BY EmptySeq DEF RegistryInit, IInv, RegistryTypeOK, UniquePseudo, ShadowedNeverMoves
<1>2. IInv /\ [RegistryNext]_registryVars => IInv'
  BY StepPreserves
<1>. QED
  BY <1>1, <1>2, PTL DEF RegistrySpec

(***************************************************************************)
(* Type correctness of the player list and of what the server sends.       *)
(***************************************************************************)
THEOREM RegistryTypeCorrect == RegistrySpec => []RegistryTypeOK
<1>1. IInv => RegistryTypeOK
  BY DEF IInv
<1>. QED
  BY <1>1, RegistryInvariance, PTL

(***************************************************************************)
(* searchDresseurPseudo in addPlayer keeps names unique, for any number of *)
(* clients that connect, retry and time out in any order.                  *)
(***************************************************************************)
THEOREM NamesAreUnique == RegistrySpec => []UniquePseudo
<1>1. IInv => UniquePseudo
  BY DEF IInv
<1>. QED
  BY <1>1, RegistryInvariance, PTL

(***************************************************************************)
(* newPositionOfPlayer never moves the second player of an address: it     *)
(* stays at the start place as long as the first is listed.                *)
(***************************************************************************)
THEOREM ShadowedStays == RegistrySpec => []ShadowedNeverMoves
<1>1. IInv => ShadowedNeverMoves
  BY DEF IInv
<1>. QED
  BY <1>1, RegistryInvariance, PTL

(***************************************************************************)
(* Between its addition and its removal a name keeps its address, and the  *)
(* players before it can only leave.                                       *)
(***************************************************************************)
THEOREM NamesKeepAddresses == RegistrySpec => NameKeepsAddress
<1>1. IInv /\ [RegistryNext]_registryVars
        => [\A i \in DOMAIN dresseursList, j \in DOMAIN dresseursList' :
              dresseursList[i].pseudo = dresseursList'[j].pseudo
                => /\ dresseursList[i].addr = dresseursList'[j].addr
                   /\ j <= i]_registryVars
  BY StepPreserves DEF NamesKept
<1>. QED
  BY <1>1, RegistryInvariance, PTL DEF RegistrySpec, NameKeepsAddress

(***************************************************************************)
(* On a clock that is never set back, checkConnectionOfPlayers keeps the   *)
(* promise of server_main.h: it deletes nobody who was heard of within the *)
(* timeout, and newPositionOfPlayer and addPlayer delete nobody at all.    *)
(* (With a clock set back it does: the run registry_clock_set_back.)       *)
(***************************************************************************)
THEOREM OnlySilentPlayersLeave ==
  ASSUME MaxSlip = 0
  PROVE  RegistrySpec => DeletedOnlyWhenSilent
<1>1. [RegistryNext]_registryVars => [ForwardNext]_registryVars
  BY DEF RegistryNext, ForwardNext, ClockSlip
<1>2. RegistryInit => AgeIsSilence
  BY DEF RegistryInit, AgeIsSilence
<1>3. IInv /\ AgeIsSilence /\ [RegistryNext]_registryVars => AgeIsSilence'
  BY <1>1, ForwardStep
<1>4. IInv /\ AgeIsSilence /\ [RegistryNext]_registryVars
        => [\A i \in DOMAIN dresseursList :
              Present(dresseursList[i].pseudo, dresseursList')
                \/ dresseursList[i].silence > TIMEOUT_PLAYER]_registryVars
  BY <1>1, ForwardStep DEF OnlySilentLeave
<1>. QED
  BY <1>2, <1>3, <1>4, RegistryInvariance, PTL
     DEF RegistrySpec, DeletedOnlyWhenSilent

=============================================================================
