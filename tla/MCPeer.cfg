SPECIFICATION FairSpec
CONSTANTS
  MinusInitialPingCount = 2
  OkCountBits = 3
  MinUnseen = 2
  MaxUnseen = 6
INVARIANTS TypeOK PingsBounded
PROPERTIES SilentIsReported
