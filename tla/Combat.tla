------------------------------- MODULE Combat -------------------------------
(***************************************************************************)
(* The turn-by-turn fights of combat.c: a player against a wild ipmon      *)
(* (CombatDresseurIpmon), against another player (Combat2Dresseurs), and   *)
(* two teams of two (CombatEquipe); and the exchange of ipmons between     *)
(* dresseur1 and dresseur2.  main runs one of the four.                    *)
(*                                                                         *)
(* The two sides of a fight are 1 and 2; the wild ipmon is side 2.  A      *)
(* number that is not on the menu is asked for again, which is no step,    *)
(* except by CombatDresseurIpmon, which goes on with the round.            *)
(***************************************************************************)
EXTENDS Integers, SequencesExt

CONSTANTS
  Ipmons,   \* Ipmons[<<e, d>>]: the ipmons of player d of team e
  Sauvage,  \* the wild ipmons
  Possede,  \* Possede[d]: the ids of the ipmons of dresseur1 and dresseur2
  Saisie    \* the ids a player may type

Ipmon ==
  [pv : Nat \ {0}, agilite : Int, niveau : Nat, type : STRING,
   typeEntier : Nat \ {0}, puissance_attaque : Nat,
   puissance_defense : Nat \ {0}, puissance_attaque_special : Nat,
   puissance_defense_special : Nat \ {0}]

ASSUME IpmonAssumption ==
  /\ \A e, d \in 1..2 : Ipmons[<<e, d>>] \subseteq Ipmon
  /\ Sauvage \subseteq Ipmon

ASSUME PossedeAssumption == Possede \in [1..2 -> Seq(Int)]

VARIABLES
  choix,    \* what main runs: "sauvage", "duel", "equipe" or "echange"
  c,        \* what the fights so far returned (c, c2, c3 in CombatEquipe)
  ipmon,    \* ipmon[s]: the ipmon side s fights with
  pv,       \* pv[s]: what is left of its pv
  etat,     \* "choisir" the ipmons, "combat", or "fini"
  suivant,  \* the side that is to act
  abandon,  \* history: the sides that gave up the last fight
  gagnant,  \* what the function main called returned
  ipmons    \* ipmons[d]: the ids of the ipmons of dresseur1 and dresseur2

vars == <<choix, c, ipmon, pv, etat, suivant, abandon, gagnant, ipmons>>

Autre(s) == 3 - s
Indefini == 0   \* gagnant before it is assigned

-----------------------------------------------------------------------------
(* attaque and attaque_speciale.                                           *)

\* Deviation: without the 2 that every blow does at least.
DegatSansMinimum(niveau, attaque, defense, type) ==
  (type * (10 * niveau + 24) * attaque) \div (500 * defense)
(***************************************************************************)
(* (int) (((niveau + 0.4 + 2) * attaque / (defense * 50) + 2) * type)      *)
(***************************************************************************)
Degat(niveau, attaque, defense, type) ==
  (type * ((10 * niveau + 24) * attaque + 1000 * defense)) \div (500 * defense)

(***************************************************************************)
(* strcmp is true when the types differ.                                   *)
(***************************************************************************)
Bonus(i1, i2, degat) == IF i1.type # i2.type THEN degat + degat \div 2 ELSE degat

degatSimple(i1, i2) ==
  Bonus(i1, i2, Degat(i1.niveau, i1.puissance_attaque, i2.puissance_defense,
                      i1.typeEntier \div i2.typeEntier))
degatSpecial(i1, i2) ==
  Bonus(i1, i2, Degat(i1.niveau, i1.puissance_attaque_special,
                      i2.puissance_defense_special,
                      i1.typeEntier * i2.typeEntier))

\* What is left of reste, -1 for nothing.
Subir(reste, degat) == IF degat < reste THEN reste - degat ELSE -1

-----------------------------------------------------------------------------
(* The course of one fight.                                                *)

Premier == IF ipmon[1].agilite > ipmon[2].agilite THEN 1 ELSE 2

(***************************************************************************)
(* CombatEquipe: who meets whom after the results r, the players of team 1 *)
(* and of team 2; when it is over; what it returns.                        *)
(***************************************************************************)
\* Deviation: the third fight of the first branch is fought by dresseur1.
AdversairesBis(r) ==
  CASE r = << >>    -> <<1, 1>>
    [] r = <<1>>    -> <<1, 2>>
    [] r = <<2>>    -> <<2, 1>>
    [] r = <<1, 2>> -> <<1, 2>>
    [] OTHER        -> <<2, 1>>
Adversaires(r) ==
  CASE r = << >> -> <<1, 1>>
    [] r = <<1>> -> <<1, 2>>
    [] r = <<2>> -> <<2, 1>>
    [] OTHER     -> <<2, 2>>

EquipeFinie(r) ==
  r[Len(r)] \notin 1..2 \/ Len(r) = 3 \/ r \in {<<1, 1>>, <<2, 2>>}

\* Every branch assigns gagnant, unless the last fight returned 0 or 3.
EquipeGagnante(r) ==
  IF r[Len(r)] \notin 1..2 THEN Indefini
    ELSE IF Len(r) = 3 THEN r[3]
    ELSE 1

Finir(w) ==
  /\ c' = Append(c, w)
  /\ IF choix # "equipe"
       THEN etat' = "fini" /\ gagnant' = w
       ELSE IF EquipeFinie(c')
         THEN etat' = "fini" /\ gagnant' = EquipeGagnante(c')
         ELSE etat' = "choisir" /\ UNCHANGED gagnant
  /\ UNCHANGED suivant

(***************************************************************************)
(* Both sides choose an ipmon, which the fight copies: its pv are whole.   *)
(***************************************************************************)
Choisir(i1, i2) ==
  /\ etat = "choisir" /\ choix # "echange"
  /\ i1 \in Ipmons[<<1, Adversaires(c)[1]>>]
  /\ i2 \in IF choix = "sauvage" THEN Sauvage ELSE Ipmons[<<2, Adversaires(c)[2]>>]
  /\ ipmon' = <<i1, i2>>
  /\ pv' = <<i1.pv, i2.pv>>
  /\ etat' = "combat"
  /\ suivant' = Premier'
  /\ abandon' = {}
  /\ UNCHANGED <<choix, c, gagnant, ipmons>>

Coups(s) ==
  {pv[Autre(s)],   \* the blow misses
   Subir(pv[Autre(s)], degatSimple(ipmon[s], ipmon[Autre(s)])),
   Subir(pv[Autre(s)], degatSpecial(ipmon[s], ipmon[Autre(s)]))}

\* Deviation: the round goes on without looking at the pv that are left.
FrapperSansVerifier(s, reste) ==
  /\ etat = "combat" /\ suivant = s
  /\ pv' = [pv EXCEPT ![Autre(s)] = reste]
  /\ IF pv[s] = -1 THEN Finir(s)
                   ELSE suivant' = Autre(s) /\ UNCHANGED <<c, etat, gagnant>>
  /\ UNCHANGED <<choix, ipmon, abandon, ipmons>>
(***************************************************************************)
(* Side s strikes, and leaves the other reste pv.                          *)
(***************************************************************************)
Frapper(s, reste) ==
  /\ etat = "combat" /\ suivant = s
  /\ pv' = [pv EXCEPT ![Autre(s)] = reste]
  /\ IF reste = -1
       THEN Finir(s)
       ELSE suivant' = Autre(s) /\ UNCHANGED <<c, etat, gagnant>>
  /\ UNCHANGED <<choix, ipmon, abandon, ipmons>>

(***************************************************************************)
(* 0, and then no: the blow is lost.  Against a wild ipmon the round ends  *)
(* (a wrong number does the same); the wild ipmon does not strike if it    *)
(* was to be second.                                                       *)
(***************************************************************************)
Renoncer(s) ==
  /\ etat = "combat" /\ suivant = s
  /\ choix = "sauvage" => s = 1
  /\ suivant' = IF choix = "sauvage" THEN Premier ELSE Autre(s)
  /\ UNCHANGED <<choix, c, ipmon, pv, etat, abandon, gagnant, ipmons>>

\* Deviation: what the comment of Combat2Dresseurs says.
ResultatAbandonTrois(s) == 3
ResultatAbandon(s) == IF choix = "sauvage" THEN 3 ELSE Autre(s)

Abandonner(s) ==
  /\ etat = "combat" /\ suivant = s
  /\ choix = "sauvage" => s = 1
  /\ abandon' = {s}
  /\ Finir(ResultatAbandon(s))
  /\ UNCHANGED <<choix, ipmon, pv, ipmons>>

-----------------------------------------------------------------------------
(* The exchange.                                                           *)

\* The last one with that id, 0 for none (-1 in the code, which counts from
\* 0).  chercherIpmonDeDresseur gives an ipmon without an owner the id -1.
chercherIpmonDeDresseur(ids, id) == IF Contains(ids, id) THEN id ELSE -1
chercherIpmonIndiceDeDresseur(ids, id) ==
  SelectLastInSeq(ids, LAMBDA i : i = id)

\* Deviation: without the copy that keeps the first ipmon.
EchangerIpmonsSansCopie(ids, id1, id2) ==
  LET indice1 == chercherIpmonIndiceDeDresseur(ids[1], id1)
      indice2 == chercherIpmonIndiceDeDresseur(ids[2], id2)
  IN IF indice1 # 0 /\ indice2 # 0
       THEN [ids EXCEPT ![1][indice1] = ids[2][indice2]]
       ELSE ids
EchangerIpmons(ids, id1, id2) ==
  LET indice1 == chercherIpmonIndiceDeDresseur(ids[1], id1)
      indice2 == chercherIpmonIndiceDeDresseur(ids[2], id2)
  IN IF indice1 # 0 /\ indice2 # 0
       THEN [ids EXCEPT ![1][indice1] = ids[2][indice2],
                        ![2][indice2] = ids[1][indice1]]
       ELSE ids

Echange ==
  /\ etat = "choisir" /\ choix = "echange"
  /\ \E id1, id2 \in Saisie :
       ipmons' = EchangerIpmons(ipmons,
                                chercherIpmonDeDresseur(ipmons[1], id1),
                                chercherIpmonDeDresseur(ipmons[2], id2))
  /\ etat' = "fini"
  /\ UNCHANGED <<choix, c, ipmon, pv, suivant, abandon, gagnant>>

-----------------------------------------------------------------------------

Init ==
  /\ choix \in {"sauvage", "duel", "equipe", "echange"}
  /\ c = << >>
  /\ ipmon = << >> /\ pv = << >>
  /\ etat = "choisir" /\ suivant = 1
  /\ abandon = {}
  /\ gagnant = Indefini
  /\ ipmons = Possede

Choix == \E i1, i2 \in UNION {Ipmons[p] : p \in (1..2) \X (1..2)} \cup Sauvage :
           Choisir(i1, i2)

Next ==
  \/ Choix
  \/ Echange
  \/ \E s \in 1..2 :
       \/ etat = "combat" /\ \E reste \in Coups(s) : Frapper(s, reste)
       \/ Renoncer(s)
       \/ Abandonner(s)

Spec == Init /\ [][Next]_vars

\* An attack, simple or special, that the dice let through.
Touche(s) ==
  etat = "combat" /\ \E reste \in
    {Subir(pv[Autre(s)], degatSimple(ipmon[s], ipmon[Autre(s)])),
     Subir(pv[Autre(s)], degatSpecial(ipmon[s], ipmon[Autre(s)]))} :
      Frapper(s, reste)

(***************************************************************************)
(* Players go on, and neither misses all its attacks.                      *)
(***************************************************************************)
FairSpec ==
  /\ Spec
  /\ WF_vars(Choix) /\ WF_vars(Echange)
  /\ \A s \in 1..2 : SF_vars(Touche(s))

-----------------------------------------------------------------------------

EnCours == etat = "combat"

Reste == (Nat \ {0}) \cup {-1}

TypeOK ==
  /\ choix \in {"sauvage", "duel", "equipe", "echange"}
  /\ c \in Seq(1..3)
  /\ ipmon = << >> \/ ipmon \in Ipmon \X Ipmon
  /\ pv = << >> \/ pv \in Reste \X Reste
  /\ etat \in {"choisir", "combat", "fini"} /\ suivant \in 1..2
  /\ abandon \subseteq 1..2
  /\ gagnant \in 0..3

(***************************************************************************)
(* The comments of CombatDresseurIpmon and Combat2Dresseurs, "Retourne 1   *)
(* si dresseur1 gagne, 2 si dresseur2 gagne": who wins a fight that nobody *)
(* gave up is on its feet, the other is not.  While a fight goes on both   *)
(* are, so nobody strikes who is beaten.                                   *)
(***************************************************************************)
WinnerStands ==
  /\ EnCours => \A s \in 1..2 : pv[s] > 0
  /\ (~EnCours /\ c # << >> /\ abandon = {}) =>
       /\ pv[c[Len(c)]] > 0
       /\ pv[Autre(c[Len(c)])] = -1

(***************************************************************************)
(* CombatEquipe is a relay: after every fight but the last the winner      *)
(* stays, and the other player of the beaten team takes over.              *)
(***************************************************************************)
TeamRelay ==
  [][(c' # c /\ etat' = "choisir") =>
       LET w == c'[Len(c')]
       IN /\ Adversaires(c')[w] = Adversaires(c)[w]
          /\ Adversaires(c')[Autre(w)] # Adversaires(c)[Autre(w)]]_vars

(***************************************************************************)
(* CombatEquipe assigns gagnant on every path: neither of its fights       *)
(* returns 0 or 3.                                                         *)
(***************************************************************************)
TeamFightHasWinner == (choix = "equipe" /\ etat = "fini") => gagnant \in 1..2

(***************************************************************************)
(* An exchange is whole or does not take place: each player gets what the  *)
(* other gives, in its place, whatever ids were typed, and nobody else's   *)
(* ipmon moves.                                                            *)
(***************************************************************************)
ExchangeIsWhole ==
  [][ipmons' # ipmons =>
       \E i \in DOMAIN ipmons[1], j \in DOMAIN ipmons[2] :
         ipmons' = [ipmons EXCEPT ![1][i] = ipmons[2][j],
                                  ![2][j] = ipmons[1][i]]]_vars

(***************************************************************************)
(* What the fights of two teams returned so far, when another is due.      *)
(***************************************************************************)
Relay == {<< >>, <<1>>, <<2>>, <<1, 2>>, <<2, 1>>}

Course ==
  /\ EnCours => pv # << >> /\ ipmon # << >> /\ abandon = {}
  /\ etat # "fini" =>
       c \in IF choix = "equipe" THEN Relay ELSE {<< >>}

CombatInv == TypeOK /\ WinnerStands /\ TeamFightHasWinner /\ Course

(***************************************************************************)
(* Although a simple attack on a stronger type does nothing, every fight   *)
(* ends if both sides keep attacking: one of them wounds with every blow.  *)
(***************************************************************************)
FightEnds == <>(etat = "fini")

(***************************************************************************)
(* "2 si dresseur2 gagne": the team whose player wins the last fight wins. *)
(* CombatEquipe returns 1 when dresseur1 of team 2 beat both of team 1.    *)
(***************************************************************************)
LastFightDecides ==
  (choix = "equipe" /\ etat = "fini") => gagnant = c[Len(c)]

=============================================================================
