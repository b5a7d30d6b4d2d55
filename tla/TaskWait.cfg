CONSTANTS
  t1 = t1
  t2 = t2
  Tasks = {t1, t2}
  MaxChanges <- Once
  MaxErrors <- FailsTwice
SPECIFICATION FairSpec
INVARIANTS TypeOK NothingSleptThrough
PROPERTIES AttentionIsHeard
CHECK_DEADLOCK FALSE
