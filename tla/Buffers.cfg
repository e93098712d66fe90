SPECIFICATION Spec
CONSTANTS
  Conn = {c1, c2}
  Data = {0, 1}
  Zero = 0
  Cap = 4
  Prealloc = 1
  MaxChunks = 2
  Closed = Closed
SYMMETRY Symmetry
INVARIANTS
  TypeOK
  OneOwner
  NothingLost
  ViewIntact
PROPERTIES
  RingsAreQueues
