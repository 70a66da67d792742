SPECIFICATION Spec
CONSTANTS
  Worker = {w1, w2}
  w1 = w1
  w2 = w2
  me = me
  a = a
  b = b
  Receiver = receiver
  Periodic = periodic
  Listener = listener
  Main = main
  c = c
  Node = {me, a, b, c}
  Nil = Nil
  ThisNode = me
  InitialNodes = {me, a, b}
  InitialLeader = a
  RcvRequests <- Received
  IntRequests <- Internal
  ConRequests <- Connected
  MayStop = TRUE
  MaxJobs = 2
SYMMETRY WorkerSymmetry
INVARIANTS LockCountExact JobNodeAlive NoLostWakeup TypeOK
CHECK_DEADLOCK FALSE
