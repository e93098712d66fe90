SPECIFICATION FairSpec
CONSTANTS
  Conn = {c1, c2, c3}
  FD = {f1, f2}
  EP = {e1}
  Nil = Nil
  Cap = 8
  High = 4
  Low = 1
  MaxReq = 2
  MaxClients = 1
  MaxSlow = 1
  ClientKinds <- DataOnly
  UpKinds <- Answers
  Faults <- Refusals
  Pipelined = FALSE
PROPERTIES
  RequestsSettle
CHECK_DEADLOCK FALSE
