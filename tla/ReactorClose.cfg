SPECIFICATION Spec
CONSTANTS
  Conn = {c1, c2, c3}
  FD = {f1, f2}
  EP = {e1}
  Nil = Nil
  Cap = 8
  High = 4
  Low = 1
  MaxReq = 2
  MaxClients = 1
  MaxSlow = 0
  ClientKinds <- AllClient
  UpKinds <- Answers
  Faults <- NoFaults
  Pipelined = TRUE
INVARIANTS
  NoPanic
CHECK_DEADLOCK FALSE
