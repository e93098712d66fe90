SPECIFICATION Spec
CONSTANTS
  Conn = {c1, c2, c3}
  FD = {f1, f2}
  EP = {e1}
  Nil = Nil
  Cap = 4
  High = 3
  Low = 1
  MaxReq = 2
  MaxClients = 1
  MaxSlow = 1
  ClientKinds <- AllClient
  UpKinds <- AllUp
  Faults <- Everything
  Pipelined = TRUE
INVARIANTS
  TypeOK
  TableMatchesRings
  PeersPaired
  NoOrphanUpstream
  ActiveExact
  InputInSync
  HeldIsParsed
  NoLostEdge
PROPERTIES
  OutputGrows
CHECK_DEADLOCK FALSE
