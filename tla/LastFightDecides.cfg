SPECIFICATION Spec
CONSTANTS
  Ipmons <- MCIpmons
  Sauvage <- MCSauvage
  Possede <- MCPossede
  Saisie = {0, 1, 2, 3, 4}
INVARIANTS
  LastFightDecides
CHECK_DEADLOCK FALSE
