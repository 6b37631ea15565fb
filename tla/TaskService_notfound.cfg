\* Two concurrent updates of one task; the property is violated.
CONSTANTS
  NULL = NULL
  Nobody = Nobody
  BadStatus = BadStatus
  c1 = c1  c2 = c2  c3 = c3
  u1 = u1  u2 = u2
  t1 = t1
  Users = {u1, u2}
  Teams = {t1}
  Text = {"", "medium", "a", "b"}
  Clients = {c1, c2}
  Requests <- MCUpdates
  MaxTaskId = 1
  MaxCreates = 1
  MaxUpdates = 2
SPECIFICATION Spec
PROPERTY NotFoundMeansAbsent
CHECK_DEADLOCK FALSE
