\* Two requests at a time over two addresses; the clock runs past the life of a token.
CONSTANTS
  NULL = NULL
  Emails = {"ann@", "Ann@", "bob@"}
  Fold <- MCFold
  Passwords = {"p", "full", "long"}
  Kept <- MCKept
  Long = {"long"}
  Clients = {c1, c2}
  Requests <- MCRequests
  TTL = 3
  Second = 2
  MaxUserId = 3
  MaxRequests = 4
  MaxTime = 4
SPECIFICATION Spec
SYMMETRY Slots
INVARIANTS
  TypeOK
  AnswersAreTrue
  GoodLoginsAreAccepted
PROPERTIES
  TokensLiveTheirTime
  Refinement
CHECK_DEADLOCK FALSE
