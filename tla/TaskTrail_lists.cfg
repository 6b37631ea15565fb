\* One task, its creation, and three more requests, two at a time; two entries per update.
CONSTANTS
  NULL = NULL
  c1 = c1  c2 = c2
  t1 = t1
  member = member  outsider = outsider
  Clients = {c1, c2}
  Tasks = {t1}
  Users = {member, outsider}
  Members = {member}
  MaxEntries = 2
  MaxRequests = 4
  MaxTime = 1
SPECIFICATION Spec
SYMMETRY Slots
INVARIANTS
  TypeOK
  GroupsAreWhole
  CommentsInOrder
  AcknowledgedIsListed
PROPERTIES
  HistoryIsALog
CHECK_DEADLOCK FALSE
