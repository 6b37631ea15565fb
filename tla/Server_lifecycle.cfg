\* Three requests over a pool of two, one of which may hang; start, signals, failures, exit.
CONSTANTS
  NULL = NULL
  r1 = r1  r2 = r2  r3 = r3
  Slots = {r1, r2, r3}
  Routes <- MCRoutes
  MaxOpen = 2
  MaxRequests = 3
  MaxHung = 1
SPECIFICATION FairSpec
INVARIANTS
  TypeOK
  SuccessIsClean
  ReturnsClosed
  ConnectionsComeBack
PROPERTIES
  EveryRequestEnds
  ExitFollows
CHECK_DEADLOCK FALSE
