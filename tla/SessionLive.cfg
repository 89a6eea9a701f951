SPECIFICATION SessionFairSpec
CONSTANTS
  a1 = a1
  a2 = a2
  p1 = p1
  p2 = p2
  Address = {a1}
  Pseudo = {p1, p2}
  Place = {start, other}
  StartPlace = start
  Map = {map1}
  StartMap = map1
  TIMEOUT_PLAYER = 0
  MaxSlip = 0
  Wrap = 16
  Registrar = {}
  MaxFlight = 3
  Walker = {a1}
  Quitter = {a1}
  Name <- SharedNames
PROPERTIES
  ConnectIsAnswered
  DepartedIsForgotten
  DeletedOnlyWhenSilent
  SilentPlayerLeaves
  ShadowedPlayerLeaves
CHECK_DEADLOCK FALSE
