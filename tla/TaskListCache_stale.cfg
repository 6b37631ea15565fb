\* A list read before a commit and set after its invalidation; the property is violated.
CONSTANTS
  Miss = Miss
  r1 = r1  r2 = r2
  w1 = w1  w2 = w2
  Readers = {r1, r2}
  Writers = {w1}
  Teams = {t1}
  Users = {u1}
  Filters = {all}
  MaxCommits = 1
SPECIFICATION Spec
SYMMETRY Slots
INVARIANTS
  InvalidatedMeansFresh
CHECK_DEADLOCK FALSE
