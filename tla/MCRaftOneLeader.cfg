SPECIFICATION Spec
CONSTANTS
  s1 = s1
  s2 = s2
  s3 = s3
  Server = {s1, s2, s3}
  FlaggedLeader <- NoFlag
  Nil = Nil
  EntryId <- NoIds
  ElectionTimeout = 1
  RequestTimeout = 1
  TermStep <- Steps1
  TimerStart <- Start0
  MayLose = FALSE
  Campaigner = {s1, s2}
  MaxTerm = 1
  MaxHeartbeats = 0
  MaxInFlight = 1
SYMMETRY Symmetry
INVARIANTS OneLeaderPerTerm
CHECK_DEADLOCK FALSE
