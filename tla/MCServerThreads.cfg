SPECIFICATION FairSpec
CONSTANTS
  p1 = p1
  w1 = w1
  w2 = w2
  o1 = o1
  Peer = {p1}
  Worker = {w1, w2}
  OtherPeriodic = {o1}
  Receiver = receiver
  Periodic = periodic
  Listener = listener
  Chains = chains
  Main = main
  MaxFds = 5
  Bounds <- MCBounds
INVARIANTS TypeOK BridgeWatched
CHECK_DEADLOCK FALSE
PROPERTIES ReadsArrive JobsAreServed StopCompletes
