SPECIFICATION LockSpec
CONSTANTS
  Thread = {t1, t2, t3, t4}
INVARIANTS LockTypeOK ExclusionButBehindFirst
CHECK_DEADLOCK FALSE
