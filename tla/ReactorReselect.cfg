SPECIFICATION Spec
CONSTANTS
  Conn = {c1, c2, c3}
  FD = {f1, f2, f3}
  EP = {e1, e2}
  Nil = Nil
  Cap = 8
  High = 4
  Low = 1
  MaxReq = 2
  MaxClients = 1
  MaxSlow = 0
  ClientKinds <- DataOnly
  UpKinds <- Answers
  Faults <- NoFaults
  Pipelined = FALSE
INVARIANTS
  AtMostOneAnswer
CHECK_DEADLOCK FALSE
