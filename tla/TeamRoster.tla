----------------------------- MODULE TeamRoster -----------------------------
(* What the team service promises about membership: a team appears together  *)
(* with its owner, in one step; from then on an owner or an admin of the team *)
(* may add one user at a time, as admin or member; and whoever is in a team   *)
(* keeps the role he joined with.                                             *)
EXTENDS Integers

CONSTANTS
  Users,     \* user ids
  TeamIds,   \* team ids
  Roles,     \* the roles a member may have
  NULL       \* not a member

VARIABLES
  roster,    \* roster[t][u]: the role of user u in team t
  addedBy    \* addedBy[t][u]: who brought u into team t

vars == <<roster, addedBy>>

Inviters == {"owner", "admin"}

Nowhere == [t \in TeamIds |-> [u \in Users |-> NULL]]

Init == roster = Nowhere /\ addedBy = Nowhere

(* A user takes a free place in a team for good.                             *)
Place(t, u, role, by) ==
  /\ roster[t][u] = NULL
  /\ roster' = [roster EXCEPT ![t][u] = role]
  /\ addedBy' = [addedBy EXCEPT ![t][u] = by]

(* A team id is used once.                                                   *)
Found(t, owner) ==
  /\ \A u \in Users : roster[t][u] = NULL
  /\ Place(t, owner, "owner", owner)

(* The inviter has the right to invite at the moment the row appears.        *)
Admit(t, u) ==
  \E by \in Users, role \in Roles \ {"owner"} :
    roster[t][by] \in Inviters /\ Place(t, u, role, by)

Next == \E t \in TeamIds, u \in Users : Found(t, u) \/ Admit(t, u)

Spec == Init /\ [][Next]_vars
=============================================================================
