SPECIFICATION FairSpec
CONSTANTS
  Conn = {c1, c2, c3}
  FD = {f1, f2}
  EP = {e1}
  Nil = Nil
  Cap = 8
  High = 4
  Low = 1
  MaxReq = 1
  MaxClients = 1
  MaxSlow = 0
  ClientKinds <- TooLong
  UpKinds <- Answers
  Faults <- NoFaults
  Pipelined = FALSE
PROPERTIES
  RequestsSettle
CHECK_DEADLOCK FALSE
