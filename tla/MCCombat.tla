------------------------------ MODULE MCCombat ------------------------------
(***************************************************************************)
(* Combat with the ipmons of main, numbers included, and besides the wild  *)
(* ipmon of main one of a weaker type, whose simple attack does no harm.   *)
(* main's ipmons of type Plante differ in nothing that a fight looks at.   *)
(***************************************************************************)
EXTENDS Combat

Gaga ==
  [pv |-> 103, agilite |-> 50, niveau |-> 30, type |-> "Feu", typeEntier |-> 3,
   puissance_attaque |-> 87, puissance_defense |-> 90,
   puissance_attaque_special |-> 95, puissance_defense_special |-> 99]
Gogo ==
  [pv |-> 320, agilite |-> 30, niveau |-> 30, type |-> "Eau", typeEntier |-> 3,
   puissance_attaque |-> 50, puissance_defense |-> 98,
   puissance_attaque_special |-> 170, puissance_defense_special |-> 105]
Plante == [Gogo EXCEPT !.type = "Plante", !.pv = 120]

MCIpmons ==
  [p \in (1..2) \X (1..2) |-> IF p = <<1, 1>> THEN {Gaga, Gogo} ELSE {Plante}]
MCPossede == <<<<1, 2>>, <<3, 4>>>>
MCSauvage == {Gaga, [Gaga EXCEPT !.typeEntier = 1]}

=============================================================================
