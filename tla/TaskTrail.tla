----------------------------- MODULE TaskTrail -----------------------------
(* What happened to a task: its history and its comments, as concurrent      *)
(* requests write and list them. Both lists are ordered by a time of whole   *)
(* seconds, which MySQL takes when a statement starts, and then by id, which *)
(* it takes later. The entries of an update belong to the transaction of the *)
(* update, a comment is a statement of its own. A crash is a failure of all  *)
(* requests.                                                                 *)
EXTENDS Integers, FiniteSets

CONSTANTS
  Clients,     \* slots for concurrent requests
  Tasks,
  Users,
  Members,     \* the users in the team of the tasks
  MaxEntries,  \* bound: fields that one update changes
  MaxRequests, \* bound: requests of a behaviour
  MaxTime,     \* bound: the clock of MySQL, in seconds, stops here
  NULL         \* no value

Ids == 1..MaxRequests

Tables == {"history", "comments"}

(* The rows of a write that was answered with success.                       *)
Acknowledgement == [table : Tables, task : Tasks, by : Ids]

(* A row: its task and the columns it is ordered by, then history fields:    *)
(* which request wrote it, with how many rows, after which answers.          *)
Row == [task : Tasks, id : Nat, at : 0..MaxTime, by : Ids, of : 1..MaxEntries,
        after : SUBSET Acknowledgement]

Writes == {"create", "update", "comment"}

Lists == {"list_history", "list_comments"}

TableOf(op) == IF op \in {"comment", "list_comments"} THEN "comments" ELSE "history"

Request == [op : Writes \cup Lists, task : Tasks, user : Users, n : Ids,
            of : 1..MaxEntries, left : 0..MaxEntries, after : SUBSET Acknowledgement,
            pc : {"check", "lock", "entries", "start", "id", "insert", "read", "list"},
            at : 0..MaxTime, id : Nat]

ASSUME TrailAssumption ==
  /\ Members \subseteq Users
  /\ MaxEntries \in Nat \ {0}
  /\ {MaxRequests, MaxTime} \subseteq Nat
  /\ NULL \notin Clients \cup Request

VARIABLES
  now,        \* the clock
  exists,     \* the tasks whose creation was committed
  tables,     \* the rows of task_history and task_comments, by op
  committed,  \* the requests whose rows are visible
  nextId,     \* the AUTO_INCREMENT counter of each table
  lock,       \* lock[t]: who holds the lock of the row of t, or NULL
  req,        \* req[c]: the request under way in slot c, or NULL
  answer,     \* answer[c]: the last list that c was sent, or NULL
  acked,      \* history: the writes that were answered with success
  sent        \* how many requests have arrived

vars == <<now, exists, tables, committed, nextId, lock, req, answer, acked, sent>>

database == <<exists, tables, committed, nextId, lock>>

Init ==
  /\ now = 0
  /\ exists = {}
  /\ tables = [t \in Tables |-> {}]
  /\ committed = {}
  /\ nextId = [t \in Tables |-> 1]
  /\ lock = [t \in Tasks |-> NULL]
  /\ req = [c \in Clients |-> NULL]
  /\ answer = [c \in Clients |-> NULL]
  /\ acked = {}
  /\ sent = 0

-----------------------------------------------------------------------------
At(c, pc) == req[c] # NULL /\ req[c].pc = pc

Goto(c, pc) == req' = [req EXCEPT ![c].pc = pc]

Creating(t) == \E c \in Clients : req[c] # NULL /\ req[c].op = "create" /\ req[c].task = t

(* A creation makes a new task.                                              *)
Arrive(c) ==
  /\ req[c] = NULL
  /\ sent < MaxRequests
  /\ sent' = sent + 1
  /\ \E op \in Writes \cup Lists, t \in Tasks, u \in Users, k \in 1..MaxEntries :
       /\ op # "update" => k = 1
       /\ op = "create" => t \notin exists /\ ~Creating(t)
       /\ req' = [req EXCEPT ![c] =
            [op |-> op, task |-> t, user |-> u, n |-> sent', of |-> k, left |-> k,
             after |-> acked, pc |-> "check", at |-> 0, id |-> 0]]
  /\ answer' = [answer EXCEPT ![c] = NULL]
  /\ UNCHANGED <<now, database, acked>>

(* 403, 404, or 500 after the rollback: nothing is left of the request.      *)
Abort(c) ==
  /\ req' = [req EXCEPT ![c] = NULL]
  /\ tables' = [t \in Tables |->
       {row \in tables[t] : row.by = req[c].n => row.by \in committed}]
  /\ lock' = [t \in Tasks |-> IF lock[t] = c THEN NULL ELSE lock[t]]
  /\ UNCHANGED <<now, exists, committed, nextId, answer, acked, sent>>

(* GetByID and the membership of the actor, for each of the five requests;   *)
(* a creation only asks for the membership, and its new row is locked.       *)
Check(c) ==
  /\ At(c, "check")
  /\ LET r == req[c] IN
     IF r.user \notin Members \/ (r.op # "create" /\ r.task \notin exists)
     THEN Abort(c)
     ELSE /\ Goto(c, CASE r.op \in {"create", "update"} -> "lock"
                       [] r.op = "comment" -> "start"
                       [] r.op \in Lists -> "list")
          /\ UNCHANGED <<now, database, answer, acked, sent>>

(* Mutant: the entries do not wait for the row of the task.                  *)
LockNothing(c) ==
  /\ At(c, "lock")
  /\ Goto(c, "entries")
  /\ UNCHANGED <<now, database, answer, acked, sent>>

(* UPDATE tasks, or INSERT INTO tasks.                                       *)
Lock(c) ==
  /\ At(c, "lock")
  /\ lock[req[c].task] = NULL
  /\ lock' = [lock EXCEPT ![req[c].task] = c]
  /\ Goto(c, "entries")
  /\ UNCHANGED <<now, exists, tables, committed, nextId, answer, acked, sent>>

RowOf(r, at, id) ==
  [task |-> r.task, id |-> id, at |-> at, by |-> r.n, of |-> r.of, after |-> r.after]

(* Mutant: entries are added on the pool, each in a transaction of its own.  *)
EntryOnPool(c) ==
  /\ At(c, "entries")
  /\ req[c].left > 0
  /\ tables' = [tables EXCEPT !["history"] = @ \cup {RowOf(req[c], now, nextId["history"])}]
  /\ nextId' = [nextId EXCEPT !["history"] = @ + 1]
  /\ committed' = committed \cup {req[c].n}
  /\ req' = [req EXCEPT ![c].left = @ - 1]
  /\ UNCHANGED <<now, exists, lock, answer, acked, sent>>

(* INSERT INTO task_history. Time and id are taken together here: the row    *)
(* lock keeps other entries of the task away.                                *)
Entry(c) ==
  /\ At(c, "entries")
  /\ req[c].left > 0
  /\ tables' = [tables EXCEPT !["history"] = @ \cup {RowOf(req[c], now, nextId["history"])}]
  /\ nextId' = [nextId EXCEPT !["history"] = @ + 1]
  /\ req' = [req EXCEPT ![c].left = @ - 1]
  /\ UNCHANGED <<now, exists, committed, lock, answer, acked, sent>>

Commit(c) ==
  /\ committed' = committed \cup {req[c].n}
  /\ exists' = exists \cup {req[c].task}
  /\ lock' = [lock EXCEPT ![req[c].task] = NULL]
  /\ req' = [req EXCEPT ![c] = NULL]
  /\ UNCHANGED <<now, tables, nextId, answer, sent>>

Ack(c) ==
  acked' = acked \cup {[table |-> TableOf(req[c].op), task |-> req[c].task, by |-> req[c].n]}

Ready(c) == At(c, "entries") /\ req[c].left = 0

(* Mutant: Do returns nil whatever Commit returns.                           *)
EndDeaf(c) ==
  /\ Ready(c)
  /\ Ack(c)
  /\ \/ Commit(c)
     \/ /\ req' = [req EXCEPT ![c] = NULL]
        /\ tables' = [tables EXCEPT !["history"] = {row \in @ : row.by # req[c].n}]
        /\ lock' = [lock EXCEPT ![req[c].task] = NULL]
        /\ UNCHANGED <<now, exists, committed, nextId, answer, sent>>

(* COMMIT, which may take effect and return an error.                        *)
End(c) ==
  /\ Ready(c)
  /\ Commit(c)
  /\ Ack(c) \/ UNCHANGED acked

-----------------------------------------------------------------------------
(* INSERT INTO task_comments: it starts, takes its id, and waits for the row *)
(* of the task if an update has it (the foreign key); it is committed then.  *)
CommentStart(c) ==
  /\ At(c, "start")
  /\ req' = [req EXCEPT ![c].pc = "id", ![c].at = now]
  /\ UNCHANGED <<now, database, answer, acked, sent>>

CommentId(c) ==
  /\ At(c, "id")
  /\ req' = [req EXCEPT ![c].pc = "insert", ![c].id = nextId["comments"]]
  /\ nextId' = [nextId EXCEPT !["comments"] = @ + 1]
  /\ UNCHANGED <<now, exists, tables, committed, lock, answer, acked, sent>>

CommentInsert(c) ==
  /\ At(c, "insert")
  /\ lock[req[c].task] = NULL
  /\ tables' = [tables EXCEPT !["comments"] = @ \cup {RowOf(req[c], req[c].at, req[c].id)}]
  /\ committed' = committed \cup {req[c].n}
  /\ Goto(c, "read")
  /\ UNCHANGED <<now, exists, nextId, lock, answer, acked, sent>>

(* SELECT of the new comment; its failure is answered 500 and leaves it.     *)
CommentRead(c) ==
  /\ At(c, "read")
  /\ \E row \in tables["comments"] : row.id = req[c].id
  /\ Ack(c)
  /\ req' = [req EXCEPT ![c] = NULL]
  /\ UNCHANGED <<now, database, answer, sent>>

-----------------------------------------------------------------------------
Visible(table, t) == {row \in tables[table] : row.task = t /\ row.by \in committed}

(* ListByTask of either repository.                                          *)
List(c) ==
  /\ At(c, "list")
  /\ answer' = [answer EXCEPT ![c] =
       [rows |-> Visible(TableOf(req[c].op), req[c].task), q |-> req[c]]]
  /\ req' = [req EXCEPT ![c] = NULL]
  /\ UNCHANGED <<now, database, acked, sent>>

(* Mutant: ORDER BY without the id.                                          *)
ByTime(a, b) == a.at < b.at

(* ORDER BY changed_at, id, and ORDER BY created_at, id.                     *)
Before(a, b) == a.at < b.at \/ (a.at = b.at /\ a.id < b.id)

(* A statement fails, the client is gone, or the process dies.               *)
Fail(c) ==
  /\ req[c] # NULL
  /\ Abort(c)

Tick ==
  /\ now < MaxTime
  /\ now' = now + 1
  /\ UNCHANGED <<database, req, answer, acked, sent>>

Step(c) ==
  \/ Check(c)
  \/ Lock(c) \/ Entry(c) \/ End(c)
  \/ CommentStart(c) \/ CommentId(c) \/ CommentInsert(c) \/ CommentRead(c)
  \/ List(c)

Next ==
  \/ \E c \in Clients : Arrive(c) \/ Step(c) \/ Fail(c)
  \/ Tick

Spec == Init /\ [][Next]_vars

-----------------------------------------------------------------------------
(* Properties.                                                               *)

(* The shape of every variable; row locks are held by transactions only.     *)
TypeOK ==
  /\ now \in 0..MaxTime
  /\ exists \subseteq Tasks
  /\ tables \in [Tables -> SUBSET Row]
  /\ committed \subseteq Ids
  /\ acked \subseteq Acknowledgement
  /\ nextId \in [Tables -> Nat]
  /\ lock \in [Tasks -> Clients \cup {NULL}]
  /\ req \in [Clients -> Request \cup {NULL}]
  /\ answer \in [Clients -> [rows : SUBSET Row, q : Request] \cup {NULL}]
  /\ sent \in 0..MaxRequests
  /\ \A c \in Clients, t \in Tasks :
       lock[t] = c <=> At(c, "entries") /\ req[c].task = t

(* The history of a task is a log: what a commit adds to it is listed after  *)
(* everything it had, although times are whole seconds, an update may begin  *)
(* long before it commits, and others commit in between.                     *)
HistoryIsALog ==
  [][\A t \in Tasks :
       /\ Visible("history", t) \subseteq Visible("history", t)'
       /\ \A old \in Visible("history", t) :
            \A new \in Visible("history", t)' \ Visible("history", t) :
              Before(old, new)]_vars

(* The entries of one update are listed together, none of them missing and   *)
(* none of another update between them.                                      *)
GroupsAreWhole ==
  \A t \in Tasks : LET log == Visible("history", t) IN
    \A a \in log :
      /\ Cardinality({b \in log : b.by = a.by}) = a.of
      /\ \A b \in log, x \in log :
           a.by = b.by /\ x.by # a.by => Before(x, a) \/ Before(b, x)

(* A comment that was sent after another one was acknowledged is listed      *)
(* after it, whatever order their statements took times and ids in.          *)
CommentsInOrder ==
  \A t \in Tasks : \A a, b \in Visible("comments", t) :
    (\E w \in b.after : w.table = "comments" /\ w.by = a.by) => Before(a, b)

(* A list contains whatever was acknowledged before it was asked for.        *)
AcknowledgedIsListed ==
  \A c \in Clients : answer[c] # NULL =>
    \A w \in answer[c].q.after :
      w.table = TableOf(answer[c].q.op) /\ w.task = answer[c].q.task =>
        \E row \in answer[c].rows : row.by = w.by
=============================================================================
