SPECIFICATION WireSpec
CONSTANTS
  a1 = a1
  a2 = a2
  c = c
  r = r
  x = x
  space = space
  tiles = tiles
  Colon = Colon
  Plus = Plus
  Connect = c
  Register = r
  Letter = {c, r, x, space, tiles}
  Blank = {space}
  Pass <- PassText
  Command <- Commands
  OldMemory <- Leftovers
  Address = {a1, a2}
  Pseudo <- Texts
  Map <- Maps
  StartMap <- StartMapText
  Place <- Places
  StartPlace <- Start300
  TIMEOUT_PLAYER = 0
  MaxSlip = 0
  Wrap = 16
  MaxFlight = 1
  Walker = {a2}
  Quitter = {a1, a2}
INVARIANTS
  ListReadAsMeant
PROPERTIES
  EntersOnlyByAccept
  ImplementsSession
CHECK_DEADLOCK FALSE
