\* A reader of two lists, one commit, and two writers that scan the lists key by key; fair.
CONSTANTS
  Miss = Miss
  r1 = r1  r2 = r2
  w1 = w1  w2 = w2
  Readers = {r1}
  Writers = {w1, w2}
  Teams = {t1}
  Users = {u1}
  Filters = {all, mine}
  MaxCommits = 1
SPECIFICATION FairSpec
INVARIANTS
  TypeOK
  StaleHasCause
  AnswersTheQuery
PROPERTY
  EventuallyFresh
CHECK_DEADLOCK FALSE
