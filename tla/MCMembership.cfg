SPECIFICATION FairSpec
CONSTANTS
  h1 = h1
  h2 = h2
  h3 = h3
  h4 = h4
  NULL = NULL
  Host = {h1, h2, h3, h4}
  Founder = h1
  Member = {h1, h2}
  Seeds <- Seeds21
  Workers = 2
  Crashing = {h2, h3}
  MaxStarts = 2
INVARIANTS TypeOK QuietAgreement
PROPERTIES AnswerConfirmsList JoinEnds
CHECK_DEADLOCK FALSE
