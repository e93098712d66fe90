SPECIFICATION Spec
CONSTANTS
  FailN = 5
  PassN = 2
  Reactors = {p}
  Probers = {p}
  Operators = {p}
INVARIANTS
  StateMatchesCounters
  ReasonMatchesState
PROPERTIES
  Sequential
