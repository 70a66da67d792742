SPECIFICATION Spec
CONSTANTS
  s1 = s1
  s2 = s2
  s3 = s3
  Server = {s1, s2, s3}
  FlaggedLeader = {s1}
  Nil = Nil
  EntryId <- Ids
  ElectionTimeout = 1
  RequestTimeout = 1
  TermStep <- Steps1
  TimerStart <- Start0
  MayLose = TRUE
  Campaigner = {s2, s3}
  MaxTerm = 1
  MaxHeartbeats = 1
  MaxInFlight = 1
SYMMETRY Symmetry
INVARIANTS LeaderHasMajority TypeOK VotesAreGranted AppliedIsCommitted
PROPERTIES TermsOnlyGrow VoteOnlyIfUpToDate
CHECK_DEADLOCK FALSE
