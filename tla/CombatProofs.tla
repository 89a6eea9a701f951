---------------------------- MODULE CombatProofs ----------------------------
(***************************************************************************)
(* Safety of Combat, for all ipmons, whatever the players and the dice do. *)
(***************************************************************************)
EXTENDS Combat, SequenceTheorems, FiniteSetTheorems, TLAPS

(***************************************************************************)
(* What an attack leaves is a positive number of pv, or -1.                *)
(***************************************************************************)
LEMMA DegatType ==
  ASSUME NEW niveau \in Nat, NEW attaque \in Nat, NEW defense \in Nat \ {0},
         NEW type \in Nat
  PROVE  Degat(niveau, attaque, defense, type) \in Int
<1>1. /\ 10 * niveau + 24 \in Int /\ 1000 * defense \in Int
      /\ 500 * defense \in Int /\ 500 * defense > 0
  OBVIOUS
<1>2. (10 * niveau + 24) * attaque \in Int
  BY <1>1
<1>3. type * ((10 * niveau + 24) * attaque + 1000 * defense) \in Int
  <2> DEFINE x == (10 * niveau + 24) * attaque + 1000 * defense
  <2>1. x \in Int
    BY <1>1, <1>2
  <2> HIDE DEF x
  <2>2. type * x \in Int
    BY <2>1
  <2> QED
    BY <2>2 DEF x
<1> DEFINE num == type * ((10 * niveau + 24) * attaque + 1000 * defense)
           den == 500 * defense
<1>4. num \in Int /\ den \in Int /\ den > 0
  BY <1>1, <1>3
<1> HIDE DEF num, den
<1>5. num \div den \in Int
  BY <1>4
<1> QED
  BY <1>5 DEF Degat, num, den

LEMMA BonusType ==
  ASSUME NEW i1, NEW i2, NEW degat \in Int
  PROVE  Bonus(i1, i2, degat) \in Int
BY DEF Bonus

LEMMA AttaqueType ==
  ASSUME NEW i1 \in Ipmon, NEW i2 \in Ipmon
  PROVE  degatSimple(i1, i2) \in Int /\ degatSpecial(i1, i2) \in Int
<1>1. /\ i1.niveau \in Nat /\ i1.puissance_attaque \in Nat
      /\ i1.puissance_attaque_special \in Nat
      /\ i2.puissance_defense \in Nat \ {0}
      /\ i2.puissance_defense_special \in Nat \ {0}
      /\ i1.typeEntier \in Nat \ {0} /\ i2.typeEntier \in Nat \ {0}
  BY DEF Ipmon
<1>2. i1.typeEntier \div i2.typeEntier \in Nat
  BY <1>1
<1>3. i1.typeEntier * i2.typeEntier \in Nat
  BY <1>1
<1>4. Degat(i1.niveau, i1.puissance_attaque, i2.puissance_defense,
            i1.typeEntier \div i2.typeEntier) \in Int
  BY <1>1, <1>2, DegatType
<1>5. Degat(i1.niveau, i1.puissance_attaque_special,
            i2.puissance_defense_special,
            i1.typeEntier * i2.typeEntier) \in Int
  BY <1>1, <1>3, DegatType
<1> QED
  BY <1>4, <1>5, BonusType DEF degatSimple, degatSpecial

LEMMA SubirType ==
  ASSUME NEW reste \in Nat \ {0}, NEW degat \in Int
  PROVE  Subir(reste, degat) \in Reste
BY DEF Subir, Reste

(***************************************************************************)
(* The 2 in the sum of attaque and attaque_speciale survives the division. *)
(***************************************************************************)
LEMMA QuotientAtLeastTwo ==
  ASSUME NEW num \in Int, NEW den \in Nat \ {0}, num >= 2 * den
  PROVE  num \div den >= 2
OBVIOUS

LEMMA DegatAtLeastTwo ==
  ASSUME NEW niveau \in Nat, NEW attaque \in Nat, NEW defense \in Nat \ {0},
         NEW type \in Nat \ {0}
  PROVE  Degat(niveau, attaque, defense, type) >= 2
<1> DEFINE blow == (10 * niveau + 24) * attaque
           all == blow + 1000 * defense
           den == 500 * defense
<1>1. den \in Nat \ {0} /\ 1000 * defense = 2 * den
  OBVIOUS
<1>2. blow \in Nat
  <2>1. 10 * niveau + 24 \in Nat
    OBVIOUS
  <2> QED
    BY <2>1
<1>3. all \in Nat /\ all >= 2 * den
  <2> HIDE DEF blow
  <2> QED
    BY <1>1, <1>2
<1>4. type * all \in Nat /\ type * all >= all
  <2> HIDE DEF all
  <2> QED
    BY <1>3
<1>5. type * all >= 2 * den
  <2> HIDE DEF all, den
  <2> QED
    BY <1>1, <1>3, <1>4
<1>6. (type * all) \div den >= 2
  <2> DEFINE num == type * all
  <2>1. num \in Int /\ num >= 2 * den
    BY <1>4, <1>5
  <2> HIDE DEF num, den
  <2>2. num \div den >= 2
    BY <1>1, <2>1, QuotientAtLeastTwo
  <2> QED
    BY <2>2 DEF num
<1> QED
  BY <1>6 DEF Degat

(***************************************************************************)
(* typeEntier is multiplied in a special attack and not divided, so one    *)
(* that is let through takes at least 2 pv, from whatever ipmon: this is   *)
(* what ends a fight between ipmons whose simple attacks do nothing.       *)
(***************************************************************************)
THEOREM SpecialAttacksWound ==
  ASSUME NEW i1 \in Ipmon, NEW i2 \in Ipmon, NEW reste \in Nat \ {0}
  PROVE  /\ degatSpecial(i1, i2) >= 2
         /\ Subir(reste, degatSpecial(i1, i2)) < reste
<1>1. /\ i1.niveau \in Nat /\ i1.puissance_attaque_special \in Nat
      /\ i2.puissance_defense_special \in Nat \ {0}
      /\ i1.typeEntier \in Nat \ {0} /\ i2.typeEntier \in Nat \ {0}
  BY DEF Ipmon
<1>2. i1.typeEntier * i2.typeEntier \in Nat \ {0}
  BY <1>1
<1> DEFINE d == Degat(i1.niveau, i1.puissance_attaque_special,
                      i2.puissance_defense_special,
                      i1.typeEntier * i2.typeEntier)
<1>3. d \in Int /\ d >= 2
  BY <1>1, <1>2, DegatType, DegatAtLeastTwo
<1> HIDE DEF d
<1>4. Bonus(i1, i2, d) \in Int /\ Bonus(i1, i2, d) >= 2
  BY <1>3 DEF Bonus
<1>5. degatSpecial(i1, i2) \in Int /\ degatSpecial(i1, i2) >= 2
  BY <1>4 DEF degatSpecial, d
<1> QED
  BY <1>5 DEF Subir

LEMMA AutreType == ASSUME NEW s \in 1..2 PROVE Autre(s) \in 1..2 /\ Autre(s) # s
BY DEF Autre

-----------------------------------------------------------------------------

(***************************************************************************)
(* When no fight is under way the next one is between ipmons of the two.   *)
(***************************************************************************)
LEMMA AdversairesType == ASSUME NEW r PROVE Adversaires(r) \in (1..2) \X (1..2)
BY DEF Adversaires

LEMMA AppendTuple ==
  ASSUME NEW u \in 1..2, NEW v \in 1..2, NEW w \in 1..2
  PROVE  /\ Append(<< >>, w) = <<w>>
         /\ Append(<<v>>, w) = <<v, w>>
         /\ Append(<<u, v>>, w) = <<u, v, w>>
<1>1. << >> \in Seq(1..2) /\ <<v>> \in Seq(1..2) /\ <<u, v>> \in Seq(1..2)
  OBVIOUS
<1>2. Append(<< >>, w) = <<w>>
  BY <1>1
<1>3. Append(<<v>>, w) = <<v, w>>
  <2> DEFINE s == Append(<<v>>, w)
             t == <<v, w>>
  <2>1. s \in Seq(1..2) /\ Len(s) = 2 /\ s[1] = v /\ s[2] = w
    BY <1>1, AppendProperties
  <2>2. t \in Seq(1..2) /\ Len(t) = 2 /\ t[1] = v /\ t[2] = w
    OBVIOUS
  <2> HIDE DEF s, t
  <2>3. \A i \in 1..Len(s) : s[i] = t[i]
    BY <2>1, <2>2
  <2>4. s = t
    BY <2>1, <2>2, <2>3, SeqEqual
  <2> QED
    BY <2>4 DEF s, t
<1>4. Append(<<u, v>>, w) = <<u, v, w>>
  <2> DEFINE s == Append(<<u, v>>, w)
             t == <<u, v, w>>
  <2>1. s \in Seq(1..2) /\ Len(s) = 3 /\ s[1] = u /\ s[2] = v /\ s[3] = w
    BY <1>1, AppendProperties
  <2>2. t \in Seq(1..2) /\ Len(t) = 3 /\ t[1] = u /\ t[2] = v /\ t[3] = w
    OBVIOUS
  <2> HIDE DEF s, t
  <2>3. \A i \in 1..Len(s) : s[i] = t[i]
    BY <2>1, <2>2
  <2>4. s = t
    BY <2>1, <2>2, <2>3, SeqEqual
  <2> QED
    BY <2>4 DEF s, t
<1> QED
  BY <1>2, <1>3, <1>4

(***************************************************************************)
(* The five courses main can be at when a fight starts, one fight later.   *)
(***************************************************************************)
LEMMA NextCourse ==
  ASSUME NEW r \in Relay, NEW w \in 1..2
  PROVE  LET n == Append(r, w)
         IN /\ n \in Seq(1..3) /\ Len(n) > 0 /\ n[Len(n)] = w
            /\ EquipeFinie(n) => EquipeGagnante(n) \in 1..2
            /\ ~EquipeFinie(n) => n \in Relay \ {<< >>}
<1> DEFINE n == Append(r, w)
<1>1. CASE r = << >>
  <2>1. n = <<w>>
    BY <1>1, AppendTuple
  <2> HIDE DEF n
  <2>2. n \in Seq(1..3) /\ Len(n) = 1 /\ n[Len(n)] = w
    BY <2>1
  <2>3. EquipeGagnante(n) \in 1..2
    BY <2>2 DEF EquipeGagnante
  <2>4. n \in Relay \ {<< >>}
    BY <2>1 DEF Relay
  <2> QED
    BY <2>2, <2>3, <2>4 DEF n
<1>2. CASE \E v \in 1..2 : r = <<v>>
  <2>1. PICK v \in 1..2 : r = <<v>>
    BY <1>2
  <2>2. n = <<v, w>>
    BY <2>1, AppendTuple
  <2> HIDE DEF n
  <2>3. n \in Seq(1..3) /\ Len(n) = 2 /\ n[Len(n)] = w
    BY <2>2
  <2>4. EquipeGagnante(n) \in 1..2
    BY <2>3 DEF EquipeGagnante
  <2>5. v = w => EquipeFinie(n)
    BY <2>2 DEF EquipeFinie
  <2>6. v # w => n \in Relay \ {<< >>}
    BY <2>2 DEF Relay
  <2> QED
    BY <2>3, <2>4, <2>5, <2>6 DEF n
<1>3. CASE \E u, v \in 1..2 : r = <<u, v>>
  <2>1. PICK u \in 1..2, v \in 1..2 : r = <<u, v>>
    BY <1>3
  <2>2. n = <<u, v, w>>
    BY <2>1, AppendTuple
  <2> HIDE DEF n
  <2>3. n \in Seq(1..3) /\ Len(n) = 3 /\ n[Len(n)] = w /\ n[3] = w
    BY <2>2
  <2>4. EquipeGagnante(n) \in 1..2 /\ EquipeFinie(n)
    BY <2>3 DEF EquipeGagnante, EquipeFinie
  <2> QED
    BY <2>3, <2>4 DEF n
<1> QED
  BY <1>1, <1>2, <1>3 DEF Relay

-----------------------------------------------------------------------------

LEMMA CombatInitInv == Init => CombatInv
BY DEF Init, CombatInv, TypeOK, WinnerStands, TeamFightHasWinner, Course,
       EnCours, Indefini, Relay

(***************************************************************************)
(* A fight ends with w, and the state it leaves is one of the invariant.   *)
(***************************************************************************)
LEMMA FinirInv ==
  ASSUME CombatInv, EnCours, NEW w \in 1..3, Finir(w), UNCHANGED <<choix, ipmon>>,
         choix = "equipe" => w \in 1..2,
         pv' \in Reste \X Reste,
         abandon' \subseteq 1..2,
         abandon' = {} => w \in 1..2 /\ pv'[w] > 0 /\ pv'[Autre(w)] = -1
  PROVE  CombatInv'
<1>1. c' = Append(c, w) /\ suivant' = suivant
  BY DEF Finir
<1>2. CASE choix # "equipe"
  <2>1. c = << >> /\ etat' = "fini" /\ gagnant' = w
    BY <1>2 DEF CombatInv, Course, EnCours, Finir
  <2>2. c' \in Seq(1..3) /\ Len(c') > 0 /\ c'[Len(c')] = w
    BY <1>1, <2>1
  <2> QED
    BY <1>1, <1>2, <2>1, <2>2
       DEF CombatInv, TypeOK, WinnerStands, TeamFightHasWinner, Course, EnCours
<1>3. CASE choix = "equipe"
  <2>1. c \in Relay /\ w \in 1..2
    BY <1>3 DEF CombatInv, Course, EnCours
  <2>2. /\ c' \in Seq(1..3) /\ Len(c') > 0 /\ c'[Len(c')] = w
        /\ EquipeFinie(c') => EquipeGagnante(c') \in 1..2
        /\ ~EquipeFinie(c') => c' \in Relay \ {<< >>}
    BY <1>1, <2>1, NextCourse
  <2>3. CASE EquipeFinie(c')
    <3>1. etat' = "fini" /\ gagnant' \in 1..2
      BY <1>3, <2>2, <2>3 DEF Finir
    <3> QED
      BY <1>1, <1>3, <2>2, <3>1
         DEF CombatInv, TypeOK, WinnerStands, TeamFightHasWinner, Course, EnCours
  <2>4. CASE ~EquipeFinie(c')
    <3>1. etat' = "choisir" /\ gagnant' = gagnant
      BY <1>3, <2>4 DEF Finir
    <3> QED
      BY <1>1, <1>3, <2>2, <2>4, <3>1
         DEF CombatInv, TypeOK, WinnerStands, TeamFightHasWinner, Course, EnCours
  <2> QED
    BY <2>3, <2>4
<1> QED
  BY <1>2, <1>3

(***************************************************************************)
(* What a step of a fight under way finds.                                 *)
(***************************************************************************)
LEMMA Fight ==
  ASSUME CombatInv, EnCours
  PROVE  /\ ipmon \in Ipmon \X Ipmon
         /\ pv \in Reste \X Reste
         /\ \A s \in 1..2 : pv[s] \in Nat \ {0}
         /\ abandon = {} /\ etat = "combat"
<1>1. ipmon \in Ipmon \X Ipmon /\ pv \in Reste \X Reste /\ abandon = {}
  BY DEF CombatInv, TypeOK, Course
<1>2. \A s \in 1..2 : pv[s] > 0
  BY DEF CombatInv, WinnerStands
<1> QED
  BY <1>1, <1>2 DEF Reste, EnCours

LEMMA CoupsType ==
  ASSUME CombatInv, EnCours, NEW s \in 1..2, NEW reste \in Coups(s)
  PROVE  reste \in Reste
<1> DEFINE t == Autre(s)
<1>1. t \in 1..2
  BY AutreType
<1>2. pv[t] \in Nat \ {0} /\ ipmon[s] \in Ipmon /\ ipmon[t] \in Ipmon
  BY <1>1, Fight
<1>3. /\ degatSimple(ipmon[s], ipmon[t]) \in Int
      /\ degatSpecial(ipmon[s], ipmon[t]) \in Int
  BY <1>2, AttaqueType
<1>4. /\ Subir(pv[t], degatSimple(ipmon[s], ipmon[t])) \in Reste
      /\ Subir(pv[t], degatSpecial(ipmon[s], ipmon[t])) \in Reste
  BY <1>2, <1>3, SubirType
<1>5. pv[t] \in Reste
  BY <1>2 DEF Reste
<1> QED
  BY <1>4, <1>5 DEF Coups

LEMMA CombatNextInv == CombatInv /\ [Next]_vars => CombatInv'
<1> SUFFICES ASSUME CombatInv, [Next]_vars PROVE CombatInv'
  OBVIOUS
<1>1. CASE Choix
  <2>1. PICK i1, i2 : Choisir(i1, i2)
    BY <1>1 DEF Choix
  <2>2. i1 \in Ipmon /\ i2 \in Ipmon
    <3>1. Adversaires(c)[1] \in 1..2 /\ Adversaires(c)[2] \in 1..2
      BY AdversairesType
    <3>2. /\ Ipmons[<<1, Adversaires(c)[1]>>] \subseteq Ipmon
          /\ Ipmons[<<2, Adversaires(c)[2]>>] \subseteq Ipmon
          /\ Sauvage \subseteq Ipmon
      BY <3>1, IpmonAssumption
    <3> QED
      BY <2>1, <3>2 DEF Choisir
  <2>3. i1.pv \in Nat \ {0} /\ i2.pv \in Nat \ {0}
    BY <2>2 DEF Ipmon
  <2>4. ipmon' \in Ipmon \X Ipmon /\ pv' \in Reste \X Reste
    BY <2>1, <2>2, <2>3 DEF Choisir, Reste
  <2>5. \A s \in 1..2 : pv'[s] > 0
    BY <2>1, <2>3 DEF Choisir
  <2>6. /\ etat = "choisir" /\ etat' = "combat" /\ suivant' \in 1..2
        /\ abandon' = {} /\ UNCHANGED <<choix, c, gagnant>>
    BY <2>1 DEF Choisir, Premier
  <2>7. TypeOK'
    BY <2>4, <2>6 DEF CombatInv, TypeOK
  <2>8. pv' # << >> /\ ipmon' # << >>
    BY <2>1 DEF Choisir
  <2> QED
    BY <2>5, <2>6, <2>7, <2>8
       DEF CombatInv, WinnerStands, TeamFightHasWinner, Course, EnCours
<1>2. ASSUME NEW s \in 1..2, etat = "combat", NEW reste \in Coups(s), Frapper(s, reste)
      PROVE  CombatInv'
  <2>1. EnCours
    BY <1>2 DEF EnCours
  <2>2. reste \in Reste /\ Autre(s) \in 1..2 /\ Autre(s) # s
    BY <1>2, <2>1, CoupsType, AutreType
  <2>3. /\ pv' = [pv EXCEPT ![Autre(s)] = reste]
        /\ UNCHANGED <<choix, ipmon, abandon>>
    BY <1>2 DEF Frapper
  <2>4. /\ pv' \in Reste \X Reste
        /\ pv'[s] \in Nat \ {0} /\ pv'[Autre(s)] = reste
    BY <2>1, <2>2, <2>3, Fight
  <2>5. CASE reste = -1
    <3>1. Finir(s)
      BY <1>2, <2>5 DEF Frapper
    <3>2. abandon' = {}
      BY <2>1, <2>3, Fight
    <3> QED
      BY <2>1, <2>3, <2>4, <2>5, <3>1, <3>2, FinirInv
  <2>6. CASE reste # -1
    <3>1. suivant' = Autre(s) /\ UNCHANGED <<c, etat, gagnant>>
      BY <1>2, <2>6 DEF Frapper
    <3>2. \A t \in 1..2 : pv'[t] > 0
      BY <2>2, <2>4, <2>6 DEF Reste, Autre
    <3>3. pv' # << >>
      BY <2>4
    <3> QED
      BY <2>1, <2>2, <2>3, <2>4, <3>1, <3>2, <3>3
         DEF CombatInv, TypeOK, WinnerStands, TeamFightHasWinner, Course, EnCours
  <2> QED
    BY <2>5, <2>6
<1>3. ASSUME NEW s \in 1..2, Renoncer(s)
      PROVE  CombatInv'
  <2>1. suivant' \in 1..2 /\ UNCHANGED <<choix, c, ipmon, pv, etat, abandon, gagnant>>
    BY <1>3, AutreType DEF Renoncer, Premier
  <2> QED
    BY <2>1
       DEF CombatInv, TypeOK, WinnerStands, TeamFightHasWinner, Course, EnCours
<1>4. ASSUME NEW s \in 1..2, Abandonner(s)
      PROVE  CombatInv'
  <2>1. EnCours
    BY <1>4 DEF Abandonner, EnCours
  <2>2. /\ abandon' = {s} /\ Finir(ResultatAbandon(s))
        /\ UNCHANGED <<choix, ipmon, pv>>
    BY <1>4 DEF Abandonner
  <2>3. /\ ResultatAbandon(s) \in 1..3
        /\ choix = "equipe" => ResultatAbandon(s) \in 1..2
    BY AutreType DEF ResultatAbandon
  <2>4. pv' \in Reste \X Reste /\ abandon' \subseteq 1..2 /\ abandon' # {}
    BY <2>1, <2>2, Fight
  <2> QED
    BY <2>1, <2>2, <2>3, <2>4, FinirInv
<1>5. CASE Echange
  <2>1. etat' = "fini" /\ UNCHANGED <<choix, c, ipmon, pv, suivant, abandon, gagnant>>
    BY <1>5 DEF Echange
  <2>2. c = << >> /\ choix # "equipe"
    BY <1>5 DEF Echange, CombatInv, Course
  <2> QED
    BY <2>1, <2>2
       DEF CombatInv, TypeOK, WinnerStands, TeamFightHasWinner, Course, EnCours
<1>6. CASE UNCHANGED vars
  BY <1>6
     DEF vars, CombatInv, TypeOK, WinnerStands, TeamFightHasWinner, Course, EnCours
<1> QED
  BY <1>1, <1>2, <1>3, <1>4, <1>5, <1>6 DEF Next

(***************************************************************************)
(* No fight starts where main does not have it start, and none goes on     *)
(* with a beaten ipmon.                                                    *)
(***************************************************************************)
THEOREM CombatInvariance == Spec => []CombatInv
<1>1. Init => CombatInv
  BY CombatInitInv
<1>2. CombatInv /\ [Next]_vars => CombatInv'
  BY CombatNextInv
<1> QED
  BY <1>1, <1>2, PTL DEF Spec

(***************************************************************************)
(* Type correctness of the fights: an attack leaves a positive number of   *)
(* pv or -1, whatever the strength of the ipmons.                          *)
(***************************************************************************)
THEOREM CombatTypeCorrect == Spec => []TypeOK
<1>1. CombatInv => TypeOK
  BY DEF CombatInv
<1> QED
  BY <1>1, CombatInvariance, PTL

(***************************************************************************)
(* CombatDresseurIpmon and Combat2Dresseurs return the side that is still  *)
(* standing when the other is beaten.                                      *)
(***************************************************************************)
THEOREM TheWinnerStands == Spec => []WinnerStands
<1>1. CombatInv => WinnerStands
  BY DEF CombatInv
<1> QED
  BY <1>1, CombatInvariance, PTL

(***************************************************************************)
(* CombatEquipe never returns a gagnant it did not assign.                 *)
(***************************************************************************)
THEOREM TeamFightsHaveWinners == Spec => []TeamFightHasWinner
<1>1. CombatInv => TeamFightHasWinner
  BY DEF CombatInv
<1> QED
  BY <1>1, CombatInvariance, PTL

-----------------------------------------------------------------------------

TeamStep == (c' # c /\ etat' = "choisir") =>
              LET w == c'[Len(c')]
              IN /\ Adversaires(c')[w] = Adversaires(c)[w]
                 /\ Adversaires(c')[Autre(w)] # Adversaires(c)[Autre(w)]

LEMMA RelayTable ==
  /\ Adversaires(<< >>) = <<1, 1>>
  /\ Adversaires(<<1>>) = <<1, 2>> /\ Adversaires(<<2>>) = <<2, 1>>
  /\ Adversaires(<<1, 2>>) = <<2, 2>> /\ Adversaires(<<2, 1>>) = <<2, 2>>
BY DEF Adversaires

(***************************************************************************)
(* A fight that is not the last is the first or the second, and the second *)
(* was won by the team that lost the first.                                *)
(***************************************************************************)
LEMMA FinirRelay ==
  ASSUME CombatInv, EnCours, NEW w \in 1..3, Finir(w),
         choix = "equipe" => w \in 1..2, etat' = "choisir"
  PROVE  /\ choix = "equipe" /\ c'[Len(c')] = w /\ w \in 1..2
         /\ \/ c = << >> /\ c' = <<w>>
            \/ c = <<Autre(w)>> /\ c' = <<Autre(w), w>>
<1>1. choix = "equipe" /\ c' = Append(c, w) /\ ~EquipeFinie(c') /\ w \in 1..2
  BY DEF Finir
<1>2. c \in Relay
  BY <1>1 DEF CombatInv, Course, EnCours
<1>3. c'[Len(c')] = w /\ c' \in Relay \ {<< >>}
  BY <1>1, <1>2, NextCourse
<1>4. CASE c = << >>
  BY <1>1, <1>3, <1>4, AppendTuple
<1>5. CASE \E v \in 1..2 : c = <<v>>
  <2>1. PICK v \in 1..2 : c = <<v>>
    BY <1>5
  <2>2. c' = <<v, w>>
    BY <1>1, <2>1, AppendTuple
  <2>3. v # w
    BY <1>3, <2>2 DEF Relay
  <2>4. v = Autre(w)
    BY <1>1, <2>3 DEF Autre
  <2> QED
    BY <1>1, <1>3, <2>1, <2>2, <2>4
<1>6. CASE \E u, v \in 1..2 : c = <<u, v>>
  <2>1. PICK u \in 1..2, v \in 1..2 : c = <<u, v>>
    BY <1>6
  <2>2. c' = <<u, v, w>>
    BY <1>1, <2>1, AppendTuple
  <2> QED
    BY <1>3, <2>2 DEF Relay
<1> QED
  BY <1>2, <1>4, <1>5, <1>6 DEF Relay

LEMMA FinirTeamStep ==
  ASSUME CombatInv, EnCours, NEW w \in 1..3, Finir(w),
         choix = "equipe" => w \in 1..2
  PROVE  TeamStep
<1> SUFFICES ASSUME etat' = "choisir"
             PROVE  /\ Adversaires(c')[c'[Len(c')]] = Adversaires(c)[c'[Len(c')]]
                    /\ Adversaires(c')[Autre(c'[Len(c')])]
                         # Adversaires(c)[Autre(c'[Len(c')])]
  BY DEF TeamStep
<1>1. /\ c'[Len(c')] = w /\ w \in 1..2
      /\ \/ c = << >> /\ c' = <<w>>
         \/ c = <<Autre(w)>> /\ c' = <<Autre(w), w>>
  BY FinirRelay
<1>2. CASE w = 1
  <2>1. \/ c = << >> /\ c' = <<1>>
        \/ c = <<2>> /\ c' = <<2, 1>>
    BY <1>1, <1>2 DEF Autre
  <2>2. c'[Len(c')] = 1 /\ Autre(c'[Len(c')]) = 2
    BY <1>1, <1>2 DEF Autre
  <2>3. \/ Adversaires(c) = <<1, 1>> /\ Adversaires(c') = <<1, 2>>
        \/ Adversaires(c) = <<2, 1>> /\ Adversaires(c') = <<2, 2>>
    BY <2>1, RelayTable, Zenon
  <2>4. /\ Adversaires(c')[1] = Adversaires(c)[1]
        /\ Adversaires(c')[2] # Adversaires(c)[2]
    BY <2>3
  <2> QED
    BY <2>2, <2>4, Zenon
<1>3. CASE w = 2
  <2>1. \/ c = << >> /\ c' = <<2>>
        \/ c = <<1>> /\ c' = <<1, 2>>
    BY <1>1, <1>3 DEF Autre
  <2>2. c'[Len(c')] = 2 /\ Autre(c'[Len(c')]) = 1
    BY <1>1, <1>3 DEF Autre
  <2>3. \/ Adversaires(c) = <<1, 1>> /\ Adversaires(c') = <<2, 1>>
        \/ Adversaires(c) = <<1, 2>> /\ Adversaires(c') = <<2, 2>>
    BY <2>1, RelayTable, Zenon
  <2>4. /\ Adversaires(c')[2] = Adversaires(c)[2]
        /\ Adversaires(c')[1] # Adversaires(c)[1]
    BY <2>3
  <2> QED
    BY <2>2, <2>4, Zenon
<1> QED
  BY <1>1, <1>2, <1>3

(***************************************************************************)
(* In a fight of two teams the winner stays and the beaten team sends its  *)
(* other player.                                                           *)
(***************************************************************************)
THEOREM TeamsRelay == Spec => TeamRelay
<1>1. CombatInv /\ [Next]_vars => [TeamStep]_vars
  <2> SUFFICES ASSUME CombatInv, Next PROVE TeamStep
    OBVIOUS
  <2>1. CASE c' = c
    BY <2>1 DEF TeamStep
  <2>2. ASSUME NEW s \in 1..2, NEW reste, etat = "combat", Frapper(s, reste), c' # c
        PROVE  TeamStep
    <3>1. Finir(s) /\ EnCours /\ s \in 1..3
      BY <2>2 DEF Frapper, EnCours
    <3> QED
      BY <3>1, <2>2, FinirTeamStep
  <2>3. ASSUME NEW s \in 1..2, Abandonner(s)
        PROVE  TeamStep
    <3>1. /\ Finir(ResultatAbandon(s)) /\ EnCours
          /\ ResultatAbandon(s) \in 1..3
          /\ choix = "equipe" => ResultatAbandon(s) \in 1..2
      BY <2>3, AutreType DEF Abandonner, EnCours, ResultatAbandon
    <3> QED
      BY <3>1, FinirTeamStep
  <2>4. ASSUME NEW s \in 1..2, Renoncer(s) PROVE c' = c
    BY <2>4 DEF Renoncer
  <2>5. ASSUME Choix PROVE c' = c
    BY <2>5 DEF Choix, Choisir
  <2>6. ASSUME Echange PROVE c' = c
    BY <2>6 DEF Echange
  <2> QED
    BY <2>1, <2>2, <2>3, <2>4, <2>5, <2>6 DEF Next
<1> QED
  BY <1>1, CombatInvariance, PTL DEF Spec, TeamRelay, TeamStep

-----------------------------------------------------------------------------

(***************************************************************************)
(* What the lookups of the exchange return is a place of the player's      *)
(* ipmons, or none.                                                        *)
(***************************************************************************)
LEMMA MaxExists ==
  ASSUME NEW n \in Nat, NEW I, I \subseteq 1..n, I # {}
  PROVE  Max(I) \in I
<1> DEFINE Above(i) == {j \in I : j > i}
           T == {Above(i) : i \in I}
           R == StrictSubsetOrdering(I)
<1>1. IsFiniteSet(I)
  <2>1. IsFiniteSet(1..n)
    BY FS_Interval, 1 \in Int
  <2> QED
    BY <2>1, FS_Subset
<1>2. \A i \in I : Above(i) \subseteq I /\ IsFiniteSet(Above(i))
  BY <1>1, FS_Subset
<1>3. T \subseteq FiniteSubsetsOf(I) /\ T # {}
  BY <1>2 DEF FiniteSubsetsOf
<1>4. PICK X \in T : \A Y \in T : <<Y, X>> \notin R
  <2>1. IsWellFoundedOn(R, FiniteSubsetsOf(I))
    BY FS_StrictSubsetOrderingWellFounded
  <2> HIDE DEF T, R
  <2> QED
    BY <1>3, <2>1, WFMin
<1>5. PICK i \in I : X = Above(i)
  BY <1>4
<1>6. ASSUME NEW j \in I, j > i PROVE FALSE
  <2>1. i \in Nat /\ j \in Nat /\ I \subseteq Nat
    OBVIOUS
  <2>2. \A k \in I : k > j => k > i
    BY <1>6, <2>1
  <2>3. ~(j > j)
    BY <2>1
  <2>4. Above(j) \subseteq Above(i) /\ j \in Above(i) /\ j \notin Above(j)
    BY <1>6, <2>2, <2>3
  <2>5. <<Above(j), Above(i)>> \in R
    BY <1>2, <2>4 DEF StrictSubsetOrdering
  <2> QED
    BY <1>4, <1>5, <2>5
<1>7. \A j \in I : i >= j
  BY <1>6
<1> QED
  BY <1>5, <1>7 DEF Max

LEMMA IndiceType ==
  ASSUME NEW ids \in Seq(Int), NEW id
  PROVE  chercherIpmonIndiceDeDresseur(ids, id) \in {0} \cup DOMAIN ids
<1> DEFINE I == {i \in 1..Len(ids) : ids[i] = id}
<1>1. chercherIpmonIndiceDeDresseur(ids, id) = IF I # {} THEN Max(I) ELSE 0
  BY DEF chercherIpmonIndiceDeDresseur, SelectLastInSeq
<1>2. I \subseteq 1..Len(ids) /\ Len(ids) \in Nat /\ DOMAIN ids = 1..Len(ids)
  OBVIOUS
<1> HIDE DEF I
<1>3. I # {} => Max(I) \in DOMAIN ids
  BY <1>2, MaxExists
<1> QED
  BY <1>1, <1>3

(***************************************************************************)
(* The players keep sequences of ids, as long as they were.                *)
(***************************************************************************)
IdsOK == ipmons \in [1..2 -> Seq(Int)]

ExchangeStep ==
  ipmons' # ipmons =>
    \E i \in DOMAIN ipmons[1], j \in DOMAIN ipmons[2] :
      ipmons' = [ipmons EXCEPT ![1][i] = ipmons[2][j],
                               ![2][j] = ipmons[1][i]]

LEMMA ExchangeStepSafe ==
  ASSUME IdsOK, Echange
  PROVE  ExchangeStep /\ IdsOK'
<1>1. PICK a, b : ipmons' = EchangerIpmons(ipmons, a, b)
  BY DEF Echange
<1> DEFINE i == chercherIpmonIndiceDeDresseur(ipmons[1], a)
           j == chercherIpmonIndiceDeDresseur(ipmons[2], b)
<1>2. ipmons[1] \in Seq(Int) /\ ipmons[2] \in Seq(Int)
  BY DEF IdsOK
<1>3. i \in {0} \cup DOMAIN ipmons[1] /\ j \in {0} \cup DOMAIN ipmons[2]
  BY <1>2, IndiceType
<1>4. ipmons' = IF i # 0 /\ j # 0
                  THEN [ipmons EXCEPT ![1][i] = ipmons[2][j],
                                      ![2][j] = ipmons[1][i]]
                  ELSE ipmons
  BY <1>1 DEF EchangerIpmons
<1> HIDE DEF i, j
<1>5. CASE i # 0 /\ j # 0
  <2>1. i \in DOMAIN ipmons[1] /\ j \in DOMAIN ipmons[2]
    BY <1>3, <1>5
  <2>2. ExchangeStep
    BY <1>4, <1>5, <2>1 DEF ExchangeStep
  <2>3. ipmons[1][i] \in Int /\ ipmons[2][j] \in Int
    BY <1>2, <2>1
  <2>4. /\ [ipmons[1] EXCEPT ![i] = ipmons[2][j]] \in Seq(Int)
        /\ [ipmons[2] EXCEPT ![j] = ipmons[1][i]] \in Seq(Int)
    BY <1>2, <2>1, <2>3
  <2>5. ipmons' = [ipmons EXCEPT ![1] = [ipmons[1] EXCEPT ![i] = ipmons[2][j]],
                                 ![2] = [ipmons[2] EXCEPT ![j] = ipmons[1][i]]]
    BY <1>4, <1>5
  <2> QED
    BY <2>2, <2>4, <2>5 DEF IdsOK
<1>6. CASE ~(i # 0 /\ j # 0)
  BY <1>4, <1>6 DEF ExchangeStep, IdsOK
<1> QED
  BY <1>5, <1>6

(***************************************************************************)
(* EchangerIpmons exchanges or leaves alone, however many ipmons the       *)
(* players have and whatever ids they type, the same id twice included.    *)
(***************************************************************************)
THEOREM ExchangesAreWhole == Spec => ExchangeIsWhole
<1>1. Init => IdsOK
  BY PossedeAssumption DEF Init, IdsOK
<1>2. IdsOK /\ [Next]_vars => IdsOK' /\ [ExchangeStep]_vars
  <2> SUFFICES ASSUME IdsOK, [Next]_vars PROVE IdsOK' /\ [ExchangeStep]_vars
    OBVIOUS
  <2>1. CASE Echange
    BY <2>1, ExchangeStepSafe
  <2>2. CASE ipmons' = ipmons
    BY <2>2 DEF IdsOK, ExchangeStep
  <2>3. Next => Echange \/ ipmons' = ipmons
    <3>1. Choix => ipmons' = ipmons
      BY DEF Choix, Choisir
    <3>2. \A s, reste : Frapper(s, reste) => ipmons' = ipmons
      BY DEF Frapper
    <3>3. \A s : Renoncer(s) \/ Abandonner(s) => ipmons' = ipmons
      BY DEF Renoncer, Abandonner
    <3> QED
      BY <3>1, <3>2, <3>3 DEF Next
  <2> QED
    BY <2>1, <2>2, <2>3 DEF vars
<1> QED
  BY <1>1, <1>2, PTL DEF Spec, ExchangeIsWhole, ExchangeStep

=============================================================================
