SPECIFICATION FairSpec
CONSTANTS
  Tile = 3
  Speed = 2
  Width = 4
  Height = 2
  Window = 5
  Wall <- WallHere
  Grass <- GrassHere
  Start <- StartHere
  ListId = {l1, l2}
  ListLength = {2}
  Nothing = Nothing
  SleepTime = 3
  RecvTimeout = 2
  NapTime = 1
INVARIANTS
  PlayerOnMap
  OnWallOnlyFromGrass
  WindowShowsPlayer
  ListsAreAlive
  NoListLeaks
  ContextOutlivesThreads
PROPERTIES
  GoesAsFarAsItCan
  ImplementsRegister
  ListsImplementRegister
  StandingIsSent
  GameCloses
