--------------------------- MODULE MCTaskService ---------------------------
(* Small instances of TaskService: one team, two users of whom any subset    *)
(* may be a member at first, and requests chosen to meet every outcome.      *)
EXTENDS TaskService, TLC

CONSTANTS c1, c2, c3, u1, u2, t1

Patch(set) == [f \in Fields |-> IF f \in DOMAIN set THEN set[f] ELSE NULL]

NewTask(title, assignee) ==
  Patch([title |-> title, description |-> "", priority |-> "", assignee_id |-> assignee])

Create(by, assignee) ==
  [op |-> "create", team |-> t1, by |-> by, cmd |-> NewTask("a", assignee)]

Update(by, id, set) ==
  [op |-> "update", id |-> id, by |-> by, cmd |-> Patch(set)]

(* Every outcome of both operations.                                         *)
MCRequests ==
  {Create(u1, Nobody), Create(u1, u2),
   Update(u1, 1, [status |-> "done"]),
   Update(u1, 1, [status |-> BadStatus, assignee_id |-> u2]),
   Update(u2, 1, [title |-> "a", status |-> "todo", assignee_id |-> u2]),
   Update(u2, 1, [title |-> "b", assignee_id |-> Nobody])}

(* Updates of one task that differ in what they touch.                       *)
MCUpdates ==
  {Create(u1, u1),
   Update(u1, 1, [title |-> "b", status |-> "done"]),
   Update(u1, 1, [status |-> "todo"]),
   Update(u1, 1, [priority |-> "", assignee_id |-> Nobody])}

Slots == Permutations(Clients)
=============================================================================
