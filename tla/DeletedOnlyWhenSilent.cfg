SPECIFICATION RegistrySpec
CONSTANTS
  a1 = a1
  a2 = a2
  p1 = p1
  p2 = p2
  p3 = p3
  Address = {a1, a2}
  Pseudo = {p1, p2, p3}
  Place = {start, other}
  StartPlace = start
  Map = {map1, map2}
  StartMap = map1
  TIMEOUT_PLAYER = 1
  MaxSlip = 1
  Wrap = 16
PROPERTIES
  DeletedOnlyWhenSilent
CHECK_DEADLOCK FALSE
