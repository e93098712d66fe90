SPECIFICATION FairSpec
CONSTANTS
  FailN = 2
  PassN = 2
  Reactors = {r}
  Probers = {b}
  Operators = {o}
INVARIANTS
  TypeOK
  FirmEjectHolds
PROPERTIES
  Recovers
  StopsPicking
