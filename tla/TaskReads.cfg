\* Reports: three tasks of two teams and two users; a week and a month are
\* the tick of now. Pages: four tasks, pages of one, two and three, three changes during a walk.
CONSTANTS
  NULL = NULL
  Week = 0
  Month = 0
  TopRanks = 1
  t1 = t1  t2 = t2
  Teams = {t1, t2}
  Users = {1, 2}
  Statuses = {"todo"}
  MaxTaskId = 3
  MaxUpdates = 2
  MaxTime = 1
  DefaultLimit = 1
  MaxLimit = 3
  Limits = {NULL, 2, 5}
  MaxListed = 4
  MaxChanges = 3
  MaxWalks = 1
SPECIFICATION MCSpec
SYMMETRY Twins
INVARIANTS
  ShapesOK
  StatsAreExact
  RecentlyDoneIsCounted
  TopCreatorsAreTop
  NoInconsistentTask
  WalkMissesOnlyForLeavers
CHECK_DEADLOCK FALSE
