----------------------------- MODULE TaskLedger -----------------------------
(* What the task store promises, without clients, locks or transactions: a   *)
(* task is the list of its committed versions, and every version comes with  *)
(* one group of audit entries written in the same atomic step. A revision is *)
(* computed from a version that WAS committed, not always from the last one; *)
(* its audit entries tell what it changed in that version. The module serves *)
(* as a property of TaskService: an action names the version it adds by the  *)
(* primed variable.                                                          *)
EXTENDS TaskData, Sequences

CONSTANT TaskIds

VARIABLES
  members,  \* members[t]: the users of team t
  rows,     \* rows[id]: the committed versions of task id, oldest first
  history   \* history[id]: the audit entries, one group per version

vars == <<members, rows, history>>

Init ==
  /\ members \in [Teams -> SUBSET Users]
  /\ rows = [id \in TaskIds |-> <<>>]
  /\ history = [id \in TaskIds |-> <<>>]

Join ==
  /\ \E t \in Teams, u \in Users :
       members' = [members EXCEPT ![t] = @ \cup {u}]
  /\ UNCHANGED <<rows, history>>

(* The version a step adds to task id.                                       *)
Added(id) == rows'[id][Len(rows'[id])]

(* One version and its audit entries, in one step.                           *)
Record(id, by, log) ==
  /\ rows'[id] # <<>>
  /\ rows' = [rows EXCEPT ![id] = Append(@, Added(id))]
  /\ history' = [history EXCEPT ![id] = Append(@, [by |-> by, log |-> log])]
  /\ UNCHANGED members

Assignable(t) == members[t] \cup {NULL}

Create(id) ==
  /\ rows[id] = <<>>
  /\ Record(id, Added(id).creator, CreationLog)
  /\ Added(id) \in Row /\ WellTyped(Added(id).val)
  /\ Added(id).creator \in members[Added(id).team]
  /\ Added(id).val["status"] = "todo"
  /\ Added(id).val["assignee_id"] \in Assignable(Added(id).team)

Revise(id) ==
  \E k \in DOMAIN rows[id] :
    LET base == rows[id][k]
        val  == Added(id).val
    IN /\ \E by \in members[base.team] : Record(id, by, Diff(base.val, val))
       /\ val \in Values /\ WellTyped(val)
       /\ Added(id) = [base EXCEPT !.val = val]
       /\ val # base.val
       /\ Added(id) # rows[id][Len(rows[id])]
       /\ val["assignee_id"] \in Assignable(base.team)

Next == Join \/ \E id \in TaskIds : Create(id) \/ Revise(id)

Spec == Init /\ [][Next]_vars
=============================================================================
