SPECIFICATION SystemSpec
CONSTANTS
  a1 = a1
  a2 = a2
  p1 = p1
  p2 = p2
  Address = {a1, a2}
  Pseudo = {p1, p2}
  Place = {start}
  StartPlace = start
  Map = {map1}
  StartMap = map1
  TIMEOUT_PLAYER = 0
  MaxSlip = 0
  Wrap = 16
  Registrar = {a2}
  MaxFlight = 2
  Walker = {}
  Quitter = {a1}
  Name <- SharedNames
  Capacity = 1
  NoDatagram = NoDatagram
INVARIANTS
  ServerKeepsServing
PROPERTIES
  ViewNeverEmpties
  ForgottenBehindBuffer
  ImplementsSession
CHECK_DEADLOCK FALSE
