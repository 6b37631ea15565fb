\* Two requests at a time: two teams, three users, two invitations, to the first team with any role.
CONSTANTS
  NULL = NULL
  BadRole = BadRole
  Users = {u1, u2, u3}
  Clients = {c1, c2}
  Requests <- MCRequests
  MaxTeamId = 2
  MaxCreates = 2
  MaxInvites = 2
SPECIFICATION Spec
SYMMETRY Same
INVARIANTS
  TypeOK
  OwnerIsCreator
  AddedByInviter
  AnswersAreTrue
PROPERTY
  Refinement
CHECK_DEADLOCK FALSE
