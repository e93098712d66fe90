SPECIFICATION FairSpec
CONSTANTS
  Files <- TwoOff
  NoFile = NoFile
  Attempts = 2
  MaxStreams = 1
CHECK_DEADLOCK FALSE
INVARIANTS
  TypeOK
  LoadedIsUsable
  CleanEnd
PROPERTIES
  StartupSettles
  SignalEnds
  HupReloads
