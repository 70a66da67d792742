SPECIFICATION FairSpec
CONSTANTS
  Worker = {w1}
  w1 = w1
  me = me
  a = a
  Receiver = receiver
  Periodic = periodic
  Listener = listener
  Main = main
  Node = {me, a}
  Nil = Nil
  ThisNode = me
  InitialNodes = {me, a}
  InitialLeader = me
  RcvRequests <- NoRequests
  IntRequests <- RemoveOnly
  ConRequests <- NoRequests
  MayStop = FALSE
  MaxJobs = 2
PROPERTIES RemovalCompletes
CHECK_DEADLOCK FALSE
