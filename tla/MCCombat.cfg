SPECIFICATION FairSpec
CONSTANTS
  Ipmons <- MCIpmons
  Sauvage <- MCSauvage
  Possede <- MCPossede
  Saisie = {0, 1, 2, 3, 4}
INVARIANTS
  WinnerStands
  TeamFightHasWinner
PROPERTIES
  TeamRelay
  ExchangeIsWhole
  FightEnds
CHECK_DEADLOCK FALSE
