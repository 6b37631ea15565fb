------------------------------ MODULE TaskData ------------------------------
(* The data of a task, as the rows of table tasks and the commands of the    *)
(* service carry it: the five columns an update may change, what a create    *)
(* or an update command asks for, and the entries of the audit trail.        *)
EXTENDS Integers

CONSTANTS
  Users,      \* user ids that may act, own or be assigned a task (ids > 0)
  Teams,      \* team ids
  Text,       \* strings a title, a description or a priority may hold
  NULL,       \* SQL NULL, a nil pointer, "nobody": no value
  Nobody,     \* an assignee id <= 0 in a command: "assign to nobody"
  BadStatus   \* a status string that TaskStatus.IsValid rejects

Status == {"todo", "in_progress", "done"}

(* The columns UpdateTask may write, under the names the audit trail uses.   *)
Fields == {"title", "description", "priority", "status", "assignee_id"}

(* A creation is recorded in the audit trail under a name of its own.        *)
Created == "created"

ASSUME DataAssumption ==
  /\ {"", "medium"} \subseteq Text
  /\ NULL \notin Users \cup Text \cup Status \cup {Nobody, BadStatus}
  /\ Nobody \notin Users
  /\ BadStatus \notin Status
  /\ \A x, y \in Users \cup Text \cup Status \cup {NULL} : NULL # <<x, y>>

AnyColumn == Text \cup Status \cup Users \cup {NULL}

Column(f) == IF f = "status" THEN Status
             ELSE IF f = "assignee_id" THEN Users \cup {NULL}
             ELSE Text

(* The changeable columns of a row: entity.Task without its immutable part.  *)
Values == [Fields -> AnyColumn]

Row == [team : Teams, creator : Users, val : Values]

WellTyped(val) == \A f \in Fields : val[f] \in Column(f)

-----------------------------------------------------------------------------
(* Commands. A field of an update that is NULL is an absent (nil) pointer; a *)
(* create carries plain values and no status, and its title is not blank.    *)
Input(f) == IF f = "status" THEN Status \cup {BadStatus}
            ELSE IF f = "assignee_id" THEN Users \cup {Nobody}
            ELSE Text

Commands == [Fields -> AnyColumn \cup {BadStatus, Nobody}]

IsUpdate(r, ids) ==
  /\ r \in [op : {"update"}, id : ids, by : Users, cmd : Commands]
  /\ \A f \in Fields : r.cmd[f] \in Input(f) \cup {NULL}

IsCreate(r) ==
  /\ r \in [op : {"create"}, team : Teams, by : Users, cmd : Commands]
  /\ r.cmd["title"] # ""
  /\ r.cmd["status"] = NULL
  /\ \A f \in Fields \ {"status"} : r.cmd[f] \in Input(f)

(* Mutant: the id 0 of "nobody" is stored as it is.                          *)
AssigneeVerbatim(a) == a

(* The assignee column a command asks for: an id <= 0 clears it.             *)
Assignee(a) == IF a = Nobody THEN NULL ELSE a

(* CreateTask: status todo, an empty priority becomes "medium".              *)
NewValues(cmd) ==
  [f \in Fields |-> IF f = "status" THEN "todo"
                    ELSE IF f = "assignee_id" THEN Assignee(cmd[f])
                    ELSE IF f = "priority" /\ cmd[f] = "" THEN "medium"
                    ELSE cmd[f]]

(* buildPatch: the present fields of the command over the row that was read. *)
Patched(val, cmd) ==
  [f \in Fields |-> IF cmd[f] = NULL THEN val[f]
                    ELSE IF f = "assignee_id" THEN Assignee(cmd[f])
                    ELSE cmd[f]]

Changed(old, new) == {f \in Fields : old[f] # new[f]}

(* The order in which buildPatch visits, hence records, the fields.          *)
FieldRank == [title |-> 1, description |-> 2, priority |-> 3,
              status |-> 4, assignee_id |-> 5]

NextField(fields) ==
  CHOOSE f \in fields : \A g \in fields : FieldRank[f] <= FieldRank[g]

-----------------------------------------------------------------------------
(* The audit trail: what one transaction adds to it. For each field, and for *)
(* the creation, the old and the new value of its entry, or NULL where there *)
(* is no entry. (An assignee id stands for its decimal text: that map is     *)
(* injective.)                                                               *)
Logs == [Fields \cup {Created} -> (AnyColumn \X AnyColumn) \cup {NULL}]

Entries == [by : Users, log : Logs]

NoLog == [f \in Fields \cup {Created} |-> NULL]

CreationLog == [NoLog EXCEPT ![Created] = <<NULL, "todo">>]

Diff(old, new) ==
  [f \in Fields \cup {Created} |->
     IF f \in Changed(old, new) THEN <<old[f], new[f]>> ELSE NULL]
=============================================================================
