\* Three concurrent requests, two creates, three updates, every outcome.
CONSTANTS
  NULL = NULL
  Nobody = Nobody
  BadStatus = BadStatus
  c1 = c1  c2 = c2  c3 = c3
  u1 = u1  u2 = u2
  t1 = t1
  Users = {u1, u2}
  Teams = {t1}
  Text = {"", "medium", "a", "b"}
  Clients = {c1, c2, c3}
  Requests <- MCRequests
  MaxTaskId = 2
  MaxCreates = 2
  MaxUpdates = 3
SPECIFICATION Spec
SYMMETRY Slots
INVARIANTS
  TypeOK
  AssigneeIsMember
  ActorsAreMembers
  HistoryPairsRows
  OkIsDurable
  LogExplainsSomeBase
  NoEmptyRevision
PROPERTY
  Refinement
CHECK_DEADLOCK FALSE
