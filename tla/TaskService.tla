---------------------------- MODULE TaskService ----------------------------
(* TaskService.CreateTask and UpdateTask over the MySQL tables tasks,        *)
(* task_history and team_members, one action per SQL statement. Any number   *)
(* of requests run concurrently, each on behalf of a client (a goroutine of  *)
(* the HTTP server). The database keeps every committed version of a row:    *)
(* UpdateTask runs at REPEATABLE READ, so its reads come from the snapshot   *)
(* its first SELECT takes while its UPDATE acts on the newest committed row. *)
EXTENDS TaskData, Sequences

CONSTANTS
  Clients,     \* slots for concurrent requests
  Requests,    \* the requests clients may send
  MaxTaskId,   \* bound: AUTO_INCREMENT ends here
  MaxCreates,  \* bound: create requests of a behaviour
  MaxUpdates   \* bound: update requests of a behaviour

TaskIds == 1..MaxTaskId

Replies == {"ok", "forbidden", "not_found", "invalid_status",
            "assignee_not_member", "internal", "lost"}

ASSUME ServiceAssumption ==
  /\ \A r \in Requests : IsCreate(r) \/ IsUpdate(r, TaskIds)
  /\ {MaxTaskId, MaxCreates, MaxUpdates} \subseteq Nat
  /\ NULL \notin Clients \cup Replies

VARIABLES
  members,  \* team_members: members[t] is a set of users
  rows,     \* tasks: rows[id] lists the committed versions, oldest first
  history,  \* task_history: history[id] lists the committed entries, by transaction
  nextId,   \* the AUTO_INCREMENT counter of tasks
  lock,     \* lock[id]: the client whose transaction holds the row lock
  pc,       \* pc[c]: the next statement of the request of client c
  req,      \* req[c]: the last request of client c
  tx,       \* tx[c]: the open transaction of client c, NULL if it has none
  reply,    \* reply[c]: what the last request of c was answered
  budget    \* the requests that may still arrive

store == <<members, rows, history>>
vars == <<store, nextId, lock, pc, req, tx, reply, budget>>

PCs == {"idle", "c_member", "c_assignee", "c_insert", "c_history",
        "u_read", "u_write", "u_history", "commit"}

(* The private side of an open transaction: the task, the version its        *)
(* snapshot shows (0 for a create), the row it writes, the entries it added. *)
Tx == [id : TaskIds, view : Nat, val : Values, log : Logs]

Init ==
  /\ members \in [Teams -> SUBSET Users]
  /\ rows = [id \in TaskIds |-> <<>>]
  /\ history = [id \in TaskIds |-> <<>>]
  /\ nextId = 1
  /\ lock = [id \in TaskIds |-> NULL]
  /\ pc = [c \in Clients |-> "idle"]
  /\ req = [c \in Clients |-> NULL]
  /\ tx = [c \in Clients |-> NULL]
  /\ reply = [c \in Clients |-> NULL]
  /\ budget = [create |-> MaxCreates, update |-> MaxUpdates]

-----------------------------------------------------------------------------
Goto(c, label) ==
  /\ pc' = [pc EXCEPT ![c] = label]
  /\ UNCHANGED <<req, reply, budget>>

(* A transaction that ends, either way, gives up its row locks.              *)
Released(cs) == [id \in TaskIds |-> IF lock[id] \in cs THEN NULL ELSE lock[id]]

(* The request returns; UnitOfWork's deferred Rollback ends a transaction    *)
(* that is still open.                                                       *)
Finish(c, answer) ==
  /\ pc' = [pc EXCEPT ![c] = "idle"]
  /\ reply' = [reply EXCEPT ![c] = answer]
  /\ tx' = [tx EXCEPT ![c] = NULL]
  /\ lock' = Released({c})
  /\ UNCHANGED <<nextId, req, budget>>

(* Mutant: no deferred Rollback, the locks of a failed request stay.         *)
RejectWithoutRollback(c, answer) ==
  /\ pc' = [pc EXCEPT ![c] = "idle"]
  /\ reply' = [reply EXCEPT ![c] = answer]
  /\ tx' = [tx EXCEPT ![c] = NULL]
  /\ UNCHANGED <<store, nextId, lock, req, budget>>

Reject(c, answer) == Finish(c, answer) /\ UNCHANGED store

Arrive(c) ==
  /\ pc[c] = "idle"
  /\ \E r \in Requests :
       /\ budget[r.op] > 0
       /\ budget' = [budget EXCEPT ![r.op] = @ - 1]
       /\ req' = [req EXCEPT ![c] = r]
       /\ pc' = [pc EXCEPT ![c] = IF r.op = "create" THEN "c_member" ELSE "u_read"]
  /\ reply' = [reply EXCEPT ![c] = NULL]
  /\ UNCHANGED <<store, nextId, lock, tx>>

-----------------------------------------------------------------------------
(* Mutant: CreateTask forgets ensureMember.                                  *)
CMemberUnchecked(c) ==
  /\ pc[c] = "c_member"
  /\ Goto(c, "c_assignee")
  /\ UNCHANGED <<store, nextId, lock, tx>>

(* CreateTask. Its two membership checks run on the pool, before and outside *)
(* the transaction.                                                          *)
CMember(c) ==
  /\ pc[c] = "c_member"
  /\ IF req[c].by \in members[req[c].team]
     THEN Goto(c, "c_assignee") /\ UNCHANGED <<store, nextId, lock, tx>>
     ELSE Reject(c, "forbidden")

(* Mutant: resolveAssignee does not look the assignee up.                    *)
MayAssignAnyone(users, a) == TRUE

(* resolveAssignee: an id that is not positive needs no query.               *)
MayAssign(users, a) == a \in users \cup {NULL, Nobody}

CAssignee(c) ==
  /\ pc[c] = "c_assignee"
  /\ IF MayAssign(members[req[c].team], req[c].cmd["assignee_id"])
     THEN Goto(c, "c_insert") /\ UNCHANGED <<store, nextId, lock, tx>>
     ELSE Reject(c, "assignee_not_member")

(* BEGIN, INSERT INTO tasks, and the SELECT of the new row. AUTO_INCREMENT   *)
(* is not transactional: the id is gone even if the transaction rolls back.  *)
CInsert(c) ==
  /\ pc[c] = "c_insert"
  /\ nextId <= MaxTaskId
  /\ tx' = [tx EXCEPT ![c] = [id   |-> nextId,
                              view |-> 0,
                              val  |-> NewValues(req[c].cmd),
                              log  |-> NoLog]]
  /\ nextId' = nextId + 1
  /\ Goto(c, "c_history")
  /\ UNCHANGED <<store, lock>>

(* Mutant: the entry of the creation is inserted on the pool, not in the     *)
(* transaction, and stays when the transaction rolls back.                   *)
CHistoryOnPool(c) ==
  /\ pc[c] = "c_history"
  /\ history' = [history EXCEPT ![tx[c].id] =
                   Append(@, [by |-> req[c].by, log |-> CreationLog])]
  /\ tx' = [tx EXCEPT ![c].log = CreationLog]
  /\ Goto(c, "commit")
  /\ UNCHANGED <<members, rows, nextId, lock>>

CHistory(c) ==
  /\ pc[c] = "c_history"
  /\ tx' = [tx EXCEPT ![c].log = CreationLog]
  /\ Goto(c, "commit")
  /\ UNCHANGED <<store, nextId, lock>>

-----------------------------------------------------------------------------
(* UpdateTask. GetByID takes the snapshot; the membership checks read in the *)
(* same snapshot, so all reads up to buildPatch's result are one step.       *)
URead(c) ==
  LET id   == req[c].id
      cmd  == req[c].cmd
      view == Len(rows[id])
      task == rows[id][view]
      val  == Patched(task.val, cmd)
  IN /\ pc[c] = "u_read"
     /\ \/ view = 0 /\ Reject(c, "not_found")
        \/ /\ view > 0
           /\ req[c].by \notin members[task.team]
           /\ Reject(c, "forbidden")
        \/ /\ view > 0
           /\ req[c].by \in members[task.team]
           /\ cmd["status"] = BadStatus
           /\ Reject(c, "invalid_status")
        \/ /\ view > 0
           /\ req[c].by \in members[task.team]
           /\ cmd["status"] # BadStatus
           /\ ~MayAssign(members[task.team], cmd["assignee_id"])
           /\ Reject(c, "assignee_not_member")
        \/ /\ view > 0
           /\ req[c].by \in members[task.team]
           /\ cmd["status"] # BadStatus
           /\ MayAssign(members[task.team], cmd["assignee_id"])
           /\ tx' = [tx EXCEPT ![c] = [id |-> id, view |-> view, val |-> val, log |-> NoLog]]
           /\ Goto(c, IF val = task.val THEN "commit" ELSE "u_write")
           /\ UNCHANGED <<store, nextId, lock>>

(* Mutant: TaskRepository.Update does not look at the affected rows.         *)
UWriteUnchecked(c) ==
  /\ pc[c] = "u_write"
  /\ lock[tx[c].id] = NULL
  /\ lock' = [lock EXCEPT ![tx[c].id] = c]
  /\ Goto(c, "u_history")
  /\ UNCHANGED <<store, nextId, tx>>

(* UPDATE tasks SET (all five columns): waits for the row lock, then writes  *)
(* over the newest committed row. The driver counts CHANGED rows, so writing *)
(* what is already there affects 0 rows and is reported as "not found".      *)
UWrite(c) ==
  LET id == tx[c].id IN
  /\ pc[c] = "u_write"
  /\ lock[id] = NULL
  /\ IF tx[c].val = rows[id][Len(rows[id])].val
     THEN Reject(c, "not_found")
     ELSE /\ lock' = [lock EXCEPT ![id] = c]
          /\ Goto(c, "u_history")
          /\ UNCHANGED <<store, nextId, tx>>

(* Mutant: the loop over the changes returns after the first one.            *)
UHistoryOnce(c) ==
  LET old == rows[tx[c].id][tx[c].view].val
      f   == NextField(Changed(old, tx[c].val))
  IN /\ pc[c] = "u_history"
     /\ tx' = [tx EXCEPT ![c].log[f] = <<old[f], tx[c].val[f]>>]
     /\ Goto(c, "commit")
     /\ UNCHANGED <<store, nextId, lock>>

(* INSERT INTO task_history, once per change buildPatch recorded, in order;  *)
(* after the last one, the SELECT of the row for the answer.                 *)
UHistory(c) ==
  LET old  == rows[tx[c].id][tx[c].view].val
      todo == {g \in Changed(old, tx[c].val) : tx[c].log[g] = NULL}
      f    == NextField(todo)
  IN /\ pc[c] = "u_history"
     /\ tx' = [tx EXCEPT ![c].log[f] = <<old[f], tx[c].val[f]>>]
     /\ Goto(c, IF todo = {f} THEN "commit" ELSE "u_history")
     /\ UNCHANGED <<store, nextId, lock>>

-----------------------------------------------------------------------------
(* What becomes durable when the transaction of c commits.                   *)
Written(c) ==
  LET id == tx[c].id IN
  IF req[c].op = "create"
  THEN [team |-> req[c].team, creator |-> req[c].by, val |-> tx[c].val]
  ELSE [rows[id][Len(rows[id])] EXCEPT !.val = tx[c].val]

(* Mutant: the row is committed, its audit entries are not.                  *)
ApplyRowOnly(c) ==
  /\ IF tx[c].log = NoLog
     THEN UNCHANGED rows
     ELSE rows' = [rows EXCEPT ![tx[c].id] = Append(@, Written(c))]
  /\ UNCHANGED <<members, history>>

Apply(c) ==
  /\ IF tx[c].log = NoLog
     THEN UNCHANGED <<rows, history>>
     ELSE /\ rows' = [rows EXCEPT ![tx[c].id] = Append(@, Written(c))]
          /\ history' = [history EXCEPT ![tx[c].id] =
                           Append(@, [by |-> req[c].by, log |-> tx[c].log])]
  /\ UNCHANGED members

Commit(c) ==
  /\ pc[c] = "commit"
  /\ Apply(c)
  /\ Finish(c, "ok")

(* COMMIT took effect but its acknowledgement did not reach the service:     *)
(* tx.Commit returns an error and the request is answered 500.               *)
CommitUnknown(c) ==
  /\ pc[c] = "commit"
  /\ Apply(c)
  /\ Finish(c, "internal")

(* Mutant: UnitOfWork drops the error of Commit.                             *)
FailUnseenAtCommit(c) ==
  /\ pc[c] # "idle"
  /\ Reject(c, IF pc[c] = "commit" THEN "ok" ELSE "internal")

(* Any statement, BEGIN and COMMIT included, may fail: a database error, a   *)
(* lock wait timeout, a cancelled request context.                           *)
Fail(c) ==
  /\ pc[c] # "idle"
  /\ Reject(c, "internal")

(* The service process dies; the database rolls back what was open.          *)
Crash ==
  LET hit == {c \in Clients : pc[c] # "idle"} IN
  /\ hit # {}
  /\ pc' = [c \in Clients |-> "idle"]
  /\ tx' = [c \in Clients |-> NULL]
  /\ reply' = [c \in Clients |-> IF c \in hit THEN "lost" ELSE reply[c]]
  /\ lock' = Released(hit)
  /\ UNCHANGED <<store, nextId, req, budget>>

(* The committed INSERT of TeamService.Invite or CreateTeam. No code removes *)
(* a member.                                                                 *)
Join(t, u) ==
  /\ u \notin members[t]
  /\ members' = [members EXCEPT ![t] = @ \cup {u}]
  /\ UNCHANGED <<rows, history, nextId, lock, pc, req, tx, reply, budget>>

-----------------------------------------------------------------------------
(* The statements of a request that do not wait for another transaction.     *)
Step(c) ==
  \/ CMember(c) \/ CAssignee(c) \/ CInsert(c) \/ CHistory(c)
  \/ URead(c) \/ UHistory(c)
  \/ Commit(c) \/ CommitUnknown(c)

Next ==
  \/ \E c \in Clients : Arrive(c) \/ Step(c) \/ UWrite(c) \/ Fail(c)
  \/ Crash
  \/ \E t \in Teams, u \in Users : Join(t, u)

Spec == Init /\ [][Next]_vars

(* A goroutine that can run does run; InnoDB grants row locks in FIFO order. *)
Fairness == \A c \in Clients : WF_vars(Step(c)) /\ SF_vars(UWrite(c))

FairSpec == Spec /\ Fairness

-----------------------------------------------------------------------------
(* Properties.                                                               *)

(* The shape of every variable.                                              *)
TypeOK ==
  /\ members \in [Teams -> SUBSET Users]
  /\ rows \in [TaskIds -> Seq(Row)]
  /\ \A id \in TaskIds : \A n \in DOMAIN rows[id] : WellTyped(rows[id][n].val)
  /\ history \in [TaskIds -> Seq(Entries)]
  /\ nextId \in Nat \ {0}
  /\ lock \in [TaskIds -> Clients \cup {NULL}]
  /\ pc \in [Clients -> PCs]
  /\ req \in [Clients -> Requests \cup {NULL}]
  /\ tx \in [Clients -> Tx \cup {NULL}]
  /\ reply \in [Clients -> Replies \cup {NULL}]
  /\ budget \in [{"create", "update"} -> Nat]

(* No committed version of a task, however many updates interleave, names an *)
(* assignee who is not a member of the task's team: CreateTask checks it on  *)
(* the pool before its transaction, UpdateTask in a snapshot that is old by  *)
(* the time its row is written.                                              *)
AssigneeIsMember ==
  \A id \in TaskIds : \A n \in DOMAIN rows[id] :
    rows[id][n].val["assignee_id"] \in members[rows[id][n].team] \cup {NULL}

(* Every audit entry was made by a member of the task's team: neither an     *)
(* update nor a create by an outsider ever commits.                          *)
ActorsAreMembers ==
  \A id \in TaskIds : \A n \in DOMAIN history[id] :
    /\ n \in DOMAIN rows[id]
    /\ history[id][n].by \in members[rows[id][n].team]

(* Task and audit trail commit together or not at all: version n of a row    *)
(* and group n of its entries belong together, the first is the creation by  *)
(* the task's creator and no later one is a creation, so no id is inserted   *)
(* twice.                                                                    *)
HistoryPairsRows ==
  \A id \in TaskIds :
    /\ Len(history[id]) = Len(rows[id])
    /\ \A n \in DOMAIN history[id] :
         IF n = 1
         THEN /\ history[id][n].log = CreationLog
              /\ history[id][n].by = rows[id][n].creator
         ELSE history[id][n].log[Created] = NULL

(* The entries of an update are complete for the snapshot it worked from:    *)
(* they are the difference between its row and some version committed before.*)
LogExplainsSomeBase ==
  \A id \in TaskIds : \A n \in 2..Len(rows[id]) :
    \E k \in 1..(n - 1) :
      history[id][n].log = Diff(rows[id][k].val, rows[id][n].val)

(* Two successive versions of a task differ: the affected-rows check of      *)
(* TaskRepository.Update turns a write without effect away, so no group of   *)
(* entries is recorded for a row that stayed as it was.                      *)
NoEmptyRevision ==
  \A id \in TaskIds : \A n \in 2..Len(rows[id]) :
    rows[id][n] # rows[id][n - 1]

(* An answer 200 or 201 is durable: the task was created with the values of  *)
(* the command, or some committed version has every field the update set.    *)
OkIsDurable ==
  \A c \in Clients : reply[c] = "ok" =>
    IF req[c].op = "create"
    THEN \E id \in TaskIds :
           /\ rows[id] # <<>>
           /\ rows[id][1] = [team    |-> req[c].team,
                             creator |-> req[c].by,
                             val     |-> NewValues(req[c].cmd)]
    ELSE \E n \in DOMAIN rows[req[c].id] :
           LET val == rows[req[c].id][n].val
           IN val = Patched(val, req[c].cmd)

(* The store refines the ledger of committed versions.                       *)
Ledger == INSTANCE TaskLedger
  WITH members <- members, rows <- rows, history <- history

Refinement == Ledger!Spec

(* A request that arrived is answered, or lost with the process: no row lock *)
(* is left behind for others to wait on.                                     *)
EveryRequestReplies == \A c \in Clients : pc[c] # "idle" ~> pc[c] = "idle"

-----------------------------------------------------------------------------
(* What the documentation says and the code does not keep.                   *)

(* README.md: PUT updates a task "partially". A step that revises a task      *)
(* leaves every field alone that its command does not mention.               *)
PartialUpdate ==
  [][\A c \in Clients :
       LET id == tx[c].id IN
       pc[c] = "commit" /\ pc'[c] = "idle" /\ req[c].op = "update" /\ rows'[id] # rows[id] =>
         \A f \in Fields :
           req[c].cmd[f] = NULL =>
             rows'[id][Len(rows'[id])].val[f] = rows[id][Len(rows[id])].val[f]
    ]_vars

(* Test_update_task_records_history_for_changed_fields: the entries of an    *)
(* update are exactly the fields that changed, with their old and new values.*)
HistoryRecordsEveryChange ==
  \A id \in TaskIds : \A n \in 2..Len(rows[id]) :
    history[id][n].log = Diff(rows[id][n - 1].val, rows[id][n].val)

(* Test_update_task_not_found: "not found" is the answer for a task that     *)
(* does not exist.                                                           *)
NotFoundMeansAbsent ==
  [][\A c \in Clients :
       pc[c] # "idle" /\ reply'[c] = "not_found" => rows[req[c].id] = <<>>]_vars
=============================================================================
