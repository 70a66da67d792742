SPECIFICATION Spec
CONSTANTS
  k1 = k1
  k2 = k2
  k3 = k3
  k4 = k4
  b1 = b1
  b2 = b2
  NULL = NULL
  Node = {n1, n2, n3}
  Key <- MCKey
  Bucket = {b1, b2}
  Hash <- MCHash
INVARIANTS TypeOK ChainsExact ListExact
PROPERTIES IsNodeMap
