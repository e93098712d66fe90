SPECIFICATION Spec
CONSTANTS
  Conn = {c1, c2, c3, c4}
  FD = {f1, f2, f3, f4}
  EP = {e1}
  Nil = Nil
  Cap = 8
  High = 4
  Low = 1
  MaxReq = 2
  MaxClients = 2
  MaxSlow = 1
  ClientKinds <- DataOnly
  UpKinds <- Answers
  Faults <- Turbulence
  Pipelined = TRUE
INVARIANTS
  HeldIsConnecting
  NoLostAccept
  OwnAnswers
  AtMostOneAnswer
  NoPanic
CHECK_DEADLOCK FALSE
