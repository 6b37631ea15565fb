----------------------- MODULE TaskService_invariants ----------------------
(* Proofs about TaskService, for any number of clients, users, teams, tasks  *)
(* and requests. Its inductive invariant comes in four layers, each proved   *)
(* with the help of the ones before: the shape of the state, the ids and the *)
(* membership of actors and assignees (here), and the bond of rows, audit    *)
(* trail and locks (TaskService_proofs).                                     *)
EXTENDS TaskService, TLAPS

-----------------------------------------------------------------------------
(* First layer: the shape of the state.                                      *)

CreateSteps == {"c_member", "c_assignee", "c_insert", "c_history"}
UpdateSteps == {"u_read", "u_write", "u_history"}
TxSteps == {"c_history", "u_write", "u_history", "commit"}

(* A request under way is one of Requests, of the kind its statement serves. *)
RequestOK ==
  \A c \in Clients :
    /\ pc[c] # "idle" => req[c] \in Requests
    /\ pc[c] \in CreateSteps => req[c].op = "create"
    /\ pc[c] \in UpdateSteps => req[c].op = "update"

(* An open transaction of an update works from a committed version of the    *)
(* task its request names.                                                   *)
SnapshotOK ==
  \A c \in Clients : pc[c] \in TxSteps =>
    /\ tx[c] \in Tx /\ WellTyped(tx[c].val)
    /\ req[c].op = "update" =>
         /\ tx[c].id = req[c].id
         /\ tx[c].view \in DOMAIN rows[tx[c].id]

(* What is left to record: at the UPDATE everything, then ever less.         *)
Base(c) == rows[tx[c].id][tx[c].view].val

Unrecorded(c) == {f \in Changed(Base(c), tx[c].val) : tx[c].log[f] = NULL}

ProgressOK ==
  \A c \in Clients :
    /\ pc[c] = "u_write" => tx[c].log = NoLog /\ tx[c].val # Base(c)
    /\ pc[c] = "u_history" => Unrecorded(c) # {}

Shape == TypeOK /\ RequestOK /\ SnapshotOK /\ ProgressOK

-----------------------------------------------------------------------------
(* Second layer: ids.                                                        *)

(* The id of a create is new, and its own.                                   *)
FreshIds ==
  /\ \A id \in TaskIds : id >= nextId => rows[id] = <<>>
  /\ \A c \in Clients : pc[c] \in TxSteps /\ req[c].op = "create" =>
       /\ tx[c].id < nextId
       /\ rows[tx[c].id] = <<>>
       /\ \A d \in Clients :
            pc[d] \in TxSteps /\ req[d].op = "create" /\ tx[d].id = tx[c].id => d = c

(* Every version has its group of entries.                                   *)
Paired == \A id \in TaskIds : Len(history[id]) = Len(rows[id])

Ids == FreshIds /\ Paired

-----------------------------------------------------------------------------
(* Lemmas about the data.                                                    *)

LEMMA FieldNames ==
  /\ {"title", "description", "priority", "status", "assignee_id"} \subseteq Fields
  /\ Created \notin Fields
BY DEF Fields, Created

(* NextField picks one of the fields that are left.                          *)
LEMMA NextFieldIn ==
  ASSUME NEW S \in SUBSET Fields, S # {}
  PROVE  NextField(S) \in S
<1>1. \E f \in S : \A g \in S : FieldRank[f] <= FieldRank[g]
  <2>1. FieldRank \in [Fields -> Int]
    BY DEF FieldRank, Fields
  <2>2. CASE "title" \in S
    BY <2>2 DEF FieldRank, Fields
  <2>3. CASE "title" \notin S /\ "description" \in S
    BY <2>3 DEF FieldRank, Fields
  <2>4. CASE "title" \notin S /\ "description" \notin S /\ "priority" \in S
    BY <2>4 DEF FieldRank, Fields
  <2>5. CASE S \subseteq {"status", "assignee_id"} /\ "status" \in S
    BY <2>5 DEF FieldRank, Fields
  <2>6. CASE S = {"assignee_id"}
    BY <2>6 DEF FieldRank, Fields
  <2> QED
    BY <2>2, <2>3, <2>4, <2>5, <2>6 DEF Fields
<1> QED
  BY <1>1 DEF NextField

(* Rows that differ have a field that changed.                               *)
LEMMA ChangedField ==
  ASSUME NEW v \in Values, NEW w \in Values, v # w
  PROVE  Changed(v, w) # {}
BY DEF Values, Changed

(* A create writes a well-typed row, and nobody checked is assigned.         *)
LEMMA NewValuesTyped ==
  ASSUME NEW r, IsCreate(r)
  PROVE  NewValues(r.cmd) \in Values /\ WellTyped(NewValues(r.cmd))
<1> DEFINE v == NewValues(r.cmd)
<1>1. \A f \in Fields : v[f] \in Column(f)
  <2> SUFFICES ASSUME NEW f \in Fields PROVE v[f] \in Column(f)
    OBVIOUS
  <2>1. CASE f = "status"
    BY <2>1 DEF NewValues, Column, Status
  <2>2. CASE f = "assignee_id"
    BY <2>2 DEF NewValues, Column, IsCreate, Input, Assignee
  <2>3. CASE f \notin {"status", "assignee_id"}
    BY <2>3, DataAssumption DEF NewValues, Column, IsCreate, Input
  <2> QED
    BY <2>1, <2>2, <2>3
<1>2. \A f \in Fields : Column(f) \subseteq AnyColumn
  BY DEF Column, AnyColumn
<1> QED
  BY <1>1, <1>2 DEF Values, WellTyped, NewValues

(* A patch of a well-typed row by a command that was not rejected is one.    *)
LEMMA PatchedTyped ==
  ASSUME NEW ids, NEW r, IsUpdate(r, ids), r.cmd["status"] # BadStatus,
         NEW v \in Values, WellTyped(v)
  PROVE  Patched(v, r.cmd) \in Values /\ WellTyped(Patched(v, r.cmd))
<1> DEFINE w == Patched(v, r.cmd)
<1>1. \A f \in Fields : w[f] \in Column(f)
  <2> SUFFICES ASSUME NEW f \in Fields PROVE w[f] \in Column(f)
    OBVIOUS
  <2>1. CASE r.cmd[f] = NULL
    BY <2>1 DEF Patched, WellTyped
  <2>2. CASE r.cmd[f] # NULL /\ f = "assignee_id"
    BY <2>2 DEF Patched, Column, IsUpdate, Input, Assignee
  <2>3. CASE r.cmd[f] # NULL /\ f # "assignee_id"
    BY <2>3 DEF Patched, Column, IsUpdate, Input
  <2> QED
    BY <2>1, <2>2, <2>3
<1>2. \A f \in Fields : Column(f) \subseteq AnyColumn
  BY DEF Column, AnyColumn
<1> QED
  BY <1>1, <1>2 DEF Values, WellTyped, Patched

-----------------------------------------------------------------------------
(* The first layer holds.                                                    *)

USE DEF store

LEMMA ShapeInit == Init => Shape
<1> SUFFICES ASSUME Init PROVE Shape
  OBVIOUS
<1>1. TypeOK
  <2>1. rows \in [TaskIds -> Seq(Row)] /\ history \in [TaskIds -> Seq(Entries)]
    BY DEF Init
  <2>2. budget \in [{"create", "update"} -> Nat]
    BY ServiceAssumption DEF Init
  <2> QED
    BY <2>1, <2>2, ServiceAssumption DEF Init, TypeOK, PCs
<1>2. RequestOK /\ SnapshotOK /\ ProgressOK
  BY DEF Init, RequestOK, SnapshotOK, ProgressOK, CreateSteps, UpdateSteps, TxSteps
<1> QED
  BY <1>1, <1>2 DEF Shape

(* A request that ends without a commit.                                     *)
LEMMA ShapeReject ==
  ASSUME Shape, NEW c \in Clients, NEW answer \in Replies, Reject(c, answer)
  PROVE  Shape'
<1>1. TypeOK'
  <2>1. lock' \in [TaskIds -> Clients \cup {NULL}]
    BY DEF Reject, Finish, Released, Shape, TypeOK
  <2>2. pc' \in [Clients -> PCs] /\ reply' \in [Clients -> Replies \cup {NULL}]
    BY DEF Reject, Finish, Shape, TypeOK, PCs
  <2>3. tx' \in [Clients -> Tx \cup {NULL}]
    BY DEF Reject, Finish, Shape, TypeOK
  <2> QED
    BY <2>1, <2>2, <2>3 DEF Reject, Finish, Shape, TypeOK
<1>2. RequestOK' /\ SnapshotOK' /\ ProgressOK'
  BY DEF Reject, Finish, Shape, TypeOK, RequestOK, SnapshotOK, ProgressOK,
         CreateSteps, UpdateSteps, TxSteps, Unrecorded, Base
<1> QED
  BY <1>1, <1>2 DEF Shape

LEMMA ShapeArrive ==
  ASSUME Shape, NEW c \in Clients, Arrive(c)
  PROVE  Shape'
<1> PICK r \in Requests :
      /\ budget[r.op] > 0
      /\ budget' = [budget EXCEPT ![r.op] = @ - 1]
      /\ req' = [req EXCEPT ![c] = r]
      /\ pc' = [pc EXCEPT ![c] = IF r.op = "create" THEN "c_member" ELSE "u_read"]
  BY DEF Arrive
<1>1. r.op \in {"create", "update"} /\ (r.op = "create" \/ r.op = "update")
  BY ServiceAssumption DEF IsCreate, IsUpdate
<1>2. TypeOK'
  <2>1. budget' \in [{"create", "update"} -> Nat]
    BY <1>1 DEF Shape, TypeOK
  <2>2. pc' \in [Clients -> PCs]
    BY DEF Shape, TypeOK, PCs
  <2> QED
    BY <2>1, <2>2 DEF Arrive, Shape, TypeOK
<1>3. RequestOK' /\ SnapshotOK' /\ ProgressOK'
  BY <1>1 DEF Arrive, Shape, TypeOK, RequestOK, SnapshotOK, ProgressOK,
              CreateSteps, UpdateSteps, TxSteps, Unrecorded, Base
<1> QED
  BY <1>2, <1>3 DEF Shape

(* The statements of a create up to its commit.                              *)
LEMMA ShapeCreate ==
  ASSUME Shape, NEW c \in Clients,
         CMember(c) \/ CAssignee(c) \/ CInsert(c) \/ CHistory(c)
  PROVE  Shape'
<1>1. CASE \E answer \in {"forbidden", "assignee_not_member", "internal"} : Reject(c, answer)
  BY <1>1, ShapeReject DEF Replies
<1>2. CASE /\ pc[c] = "c_member" /\ Goto(c, "c_assignee")
           /\ UNCHANGED <<store, nextId, lock, tx>>
  <2>1. TypeOK'
    BY <1>2 DEF Goto, Shape, TypeOK, PCs
  <2>2. RequestOK' /\ SnapshotOK' /\ ProgressOK'
    BY <1>2 DEF Goto, Shape, TypeOK, RequestOK, SnapshotOK, ProgressOK,
                CreateSteps, UpdateSteps, TxSteps, Unrecorded, Base
  <2> QED
    BY <2>1, <2>2 DEF Shape
<1>3. CASE /\ pc[c] = "c_assignee" /\ Goto(c, "c_insert")
           /\ UNCHANGED <<store, nextId, lock, tx>>
  <2>1. TypeOK'
    BY <1>3 DEF Goto, Shape, TypeOK, PCs
  <2>2. RequestOK' /\ SnapshotOK' /\ ProgressOK'
    BY <1>3 DEF Goto, Shape, TypeOK, RequestOK, SnapshotOK, ProgressOK,
                CreateSteps, UpdateSteps, TxSteps, Unrecorded, Base
  <2> QED
    BY <2>1, <2>2 DEF Shape
<1>4. CASE CInsert(c)
  <2>1. req[c] \in Requests /\ req[c].op = "create"
    BY <1>4 DEF CInsert, Shape, RequestOK, CreateSteps
  <2>2. NewValues(req[c].cmd) \in Values /\ WellTyped(NewValues(req[c].cmd))
    <3>1. IsCreate(req[c])
      BY <2>1, ServiceAssumption DEF IsUpdate
    <3> QED
      BY <3>1, NewValuesTyped
  <2>3. nextId \in TaskIds
    <3>1. nextId # 0
      BY DEF Shape, TypeOK
    <3> QED
      BY <3>1, <1>4, ServiceAssumption DEF CInsert, TaskIds, Shape, TypeOK
  <2>4. NoLog \in Logs
    BY DEF NoLog, Logs
  <2>5. tx'[c] \in Tx /\ WellTyped(tx'[c].val) /\ tx' \in [Clients -> Tx \cup {NULL}]
    BY <1>4, <2>2, <2>3, <2>4 DEF CInsert, Tx, Shape, TypeOK
  <2>6. TypeOK'
    BY <1>4, <2>5 DEF CInsert, Goto, Shape, TypeOK, PCs
  <2>7. RequestOK' /\ SnapshotOK' /\ ProgressOK'
    BY <1>4, <2>1, <2>5 DEF CInsert, Goto, Shape, TypeOK, RequestOK, SnapshotOK, ProgressOK,
                CreateSteps, UpdateSteps, TxSteps, Unrecorded, Base
  <2> QED
    BY <2>6, <2>7 DEF Shape
<1>5. CASE CHistory(c)
  <2>1. req[c] \in Requests /\ req[c].op = "create" /\ tx[c] \in Tx /\ WellTyped(tx[c].val)
    BY <1>5 DEF CHistory, Shape, RequestOK, SnapshotOK, CreateSteps, TxSteps
  <2>2. CreationLog \in Logs
    BY DEF CreationLog, NoLog, Logs, AnyColumn, Status
  <2>3. tx'[c] = [tx[c] EXCEPT !.log = CreationLog] /\ tx' \in [Clients -> Tx \cup {NULL}]
    BY <1>5, <2>1, <2>2 DEF CHistory, Tx, Shape, TypeOK
  <2>4. tx'[c] \in Tx /\ WellTyped(tx'[c].val)
    BY <2>1, <2>2, <2>3 DEF Tx
  <2>5. TypeOK'
    BY <1>5, <2>3, <2>4 DEF CHistory, Goto, Shape, TypeOK, PCs
  <2>6. RequestOK' /\ SnapshotOK' /\ ProgressOK'
    BY <1>5, <2>1, <2>4 DEF CHistory, Goto, Shape, TypeOK, RequestOK, SnapshotOK, ProgressOK,
                CreateSteps, UpdateSteps, TxSteps, Unrecorded, Base
  <2> QED
    BY <2>5, <2>6 DEF Shape
<1> QED
  BY <1>1, <1>2, <1>3, <1>4, <1>5 DEF CMember, CAssignee

(* The successful outcome of the reads of an update.                         *)
Reads(c) ==
  LET task == rows[req[c].id][Len(rows[req[c].id])]
      val  == Patched(task.val, req[c].cmd)
  IN /\ pc[c] = "u_read"
     /\ Len(rows[req[c].id]) > 0
     /\ req[c].by \in members[task.team]
     /\ req[c].cmd["status"] # BadStatus
     /\ MayAssign(members[task.team], req[c].cmd["assignee_id"])
     /\ tx' = [tx EXCEPT ![c] = [id |-> req[c].id, view |-> Len(rows[req[c].id]),
                                 val |-> val, log |-> NoLog]]
     /\ Goto(c, IF val = task.val THEN "commit" ELSE "u_write")
     /\ UNCHANGED <<store, nextId, lock>>

LEMMA UReadOutcomes ==
  ASSUME NEW c \in Clients, URead(c)
  PROVE  \/ Reads(c)
         \/ \E answer \in {"not_found", "forbidden", "invalid_status", "assignee_not_member"} :
              pc[c] = "u_read" /\ Reject(c, answer)
BY DEF URead, Reads

(* Every committed version is a row.                                         *)
LEMMA Version ==
  ASSUME Shape, NEW id \in TaskIds, NEW n \in DOMAIN rows[id]
  PROVE  /\ rows[id] \in Seq(Row) /\ rows[id][n] \in Row
         /\ rows[id][n].val \in Values /\ WellTyped(rows[id][n].val)
<1>1. rows[id] \in Seq(Row)
  BY DEF Shape, TypeOK
<1>2. rows[id][n] \in Row
  BY <1>1
<1> QED
  BY <1>1, <1>2 DEF Shape, TypeOK, Row

(* So is the one an update works from.                                       *)
LEMMA BaseVersion ==
  ASSUME Shape, NEW c \in Clients, pc[c] \in TxSteps, req[c].op = "update"
  PROVE  /\ tx[c] \in Tx /\ tx[c].id \in TaskIds
         /\ Base(c) \in Values /\ tx[c].val \in Values /\ tx[c].log \in Logs
<1>1. tx[c] \in Tx /\ tx[c].view \in DOMAIN rows[tx[c].id]
  BY DEF Shape, SnapshotOK
<1>2. tx[c].id \in TaskIds /\ tx[c].val \in Values /\ tx[c].log \in Logs
  BY <1>1 DEF Tx
<1>3. Base(c) \in Values
  BY <1>1, <1>2, Version DEF Base
<1> QED
  BY <1>1, <1>2, <1>3

(* A request that is no create is an update of a task that exists.           *)
LEMMA OpenUpdate ==
  ASSUME Shape, NEW c \in Clients, pc[c] \in TxSteps, req[c].op # "create"
  PROVE  /\ req[c].op = "update" /\ tx[c].id = req[c].id
         /\ tx[c].id \in TaskIds /\ rows[tx[c].id] \in Seq(Row)
         /\ tx[c].view \in DOMAIN rows[tx[c].id]
<1>1. req[c] \in Requests
  BY DEF Shape, RequestOK, TxSteps
<1>2. req[c].op = "update"
  BY <1>1, ServiceAssumption DEF IsCreate, IsUpdate
<1>3. tx[c] \in Tx /\ tx[c].id = req[c].id /\ tx[c].view \in DOMAIN rows[tx[c].id]
  BY <1>2 DEF Shape, SnapshotOK
<1>4. tx[c].id \in TaskIds
  BY <1>3 DEF Tx
<1> QED
  BY <1>2, <1>3, <1>4 DEF Shape, TypeOK

LEMMA ShapeReads ==
  ASSUME Shape, NEW c \in Clients, Reads(c)
  PROVE  Shape'
<1> DEFINE id   == req[c].id
           view == Len(rows[id])
           task == rows[id][view]
           val  == Patched(task.val, req[c].cmd)
<1>1. req[c] \in Requests /\ req[c].op = "update" /\ IsUpdate(req[c], TaskIds)
  BY ServiceAssumption DEF Reads, Shape, RequestOK, UpdateSteps, IsCreate
<1>2. id \in TaskIds
  BY <1>1 DEF IsUpdate
<1>3. rows[id] \in Seq(Row) /\ view \in DOMAIN rows[id] /\ view \in Nat
  <2>1. rows[id] \in Seq(Row) /\ view > 0
    BY <1>2 DEF Reads, Shape, TypeOK
  <2> QED
    BY <2>1
<1>4. task.val \in Values /\ WellTyped(task.val)
  BY <1>2, <1>3, Version
<1>5. val \in Values /\ WellTyped(val)
  BY <1>1, <1>4, PatchedTyped DEF Reads
<1>6. NoLog \in Logs
  BY DEF NoLog, Logs
<1>7. tx'[c] = [id |-> id, view |-> view, val |-> val, log |-> NoLog]
  BY DEF Reads, Shape, TypeOK
<1>8. tx'[c] \in Tx
  BY <1>2, <1>3, <1>5, <1>6, <1>7 DEF Tx
<1>9. tx' \in [Clients -> Tx \cup {NULL}]
  BY <1>7, <1>8 DEF Reads, Shape, TypeOK
<1>10. TypeOK'
  BY <1>9 DEF Reads, Goto, Shape, TypeOK, PCs
<1>11. RequestOK'
  BY <1>1 DEF Reads, Goto, Shape, TypeOK, RequestOK, CreateSteps, UpdateSteps
<1>12. SnapshotOK' /\ ProgressOK'
  <2> SUFFICES ASSUME NEW d \in Clients
               PROVE  /\ pc'[d] \in TxSteps =>
                           /\ tx'[d] \in Tx /\ WellTyped(tx'[d].val)
                           /\ req'[d].op = "update" =>
                                /\ tx'[d].id = req'[d].id
                                /\ tx'[d].view \in DOMAIN rows'[tx'[d].id]
                      /\ pc'[d] = "u_write" => tx'[d].log = NoLog /\ tx'[d].val # Base(d)'
                      /\ pc'[d] = "u_history" => Unrecorded(d)' # {}
    BY DEF SnapshotOK, ProgressOK
  <2>1. CASE d = c
    BY <2>1, <1>3, <1>5, <1>7, <1>8 DEF Reads, Goto, Shape, TypeOK, Base
  <2>2. CASE d # c
    <3>1. pc'[d] = pc[d] /\ tx'[d] = tx[d] /\ req'[d] = req[d] /\ rows' = rows
      BY <2>2 DEF Reads, Goto, Shape, TypeOK
    <3> QED
      BY <3>1 DEF Shape, SnapshotOK, ProgressOK, Base, Unrecorded
  <2> QED
    BY <2>1, <2>2
<1> QED
  BY <1>10, <1>11, <1>12 DEF Shape

LEMMA ShapeWrite ==
  ASSUME Shape, NEW c \in Clients, UWrite(c)
  PROVE  Shape'
<1>1. CASE Reject(c, "not_found")
  BY <1>1, ShapeReject DEF Replies
<1>2. CASE /\ lock' = [lock EXCEPT ![tx[c].id] = c]
           /\ Goto(c, "u_history")
           /\ UNCHANGED <<store, nextId, tx>>
  <2>1. pc[c] = "u_write" /\ pc[c] \in TxSteps /\ req[c].op = "update" /\ tx[c] \in Tx
    BY DEF UWrite, Shape, RequestOK, SnapshotOK, UpdateSteps, TxSteps
  <2>2. TypeOK'
    BY <1>2, <2>1 DEF Goto, Shape, TypeOK, PCs
  <2>3. RequestOK' /\ SnapshotOK'
    BY <1>2, <2>1 DEF Goto, Shape, TypeOK, RequestOK, SnapshotOK,
                      CreateSteps, UpdateSteps, TxSteps
  <2>4. ProgressOK'
    <3>1. Base(c) \in Values /\ tx[c].val \in Values /\ tx[c].log = NoLog /\ tx[c].val # Base(c)
      BY <2>1, BaseVersion DEF Shape, ProgressOK, TxSteps
    <3>2. Unrecorded(c) # {}
      BY <3>1, ChangedField DEF Unrecorded, NoLog, Changed
    <3> QED
      BY <1>2, <3>2 DEF Goto, Shape, TypeOK, ProgressOK, Base, Unrecorded
  <2> QED
    BY <2>2, <2>3, <2>4 DEF Shape
<1> QED
  BY <1>1, <1>2 DEF UWrite

LEMMA ShapeHistory ==
  ASSUME Shape, NEW c \in Clients, UHistory(c)
  PROVE  Shape'
<1> DEFINE old  == Base(c)
           val  == tx[c].val
           todo == Unrecorded(c)
           f    == NextField(todo)
<1>1. pc[c] = "u_history" /\ pc[c] \in TxSteps /\ req[c].op = "update"
  BY DEF UHistory, Shape, RequestOK, UpdateSteps, TxSteps
<1>2. /\ tx[c] \in Tx /\ WellTyped(val) /\ tx[c].id \in TaskIds
      /\ old \in Values /\ val \in Values /\ tx[c].log \in Logs
  BY <1>1, BaseVersion DEF Shape, SnapshotOK
<1>3. f \in todo /\ f \in Fields
  BY <1>1, NextFieldIn DEF Shape, ProgressOK, Unrecorded, Changed
<1>4. <<old[f], val[f]>> \in AnyColumn \X AnyColumn
  BY <1>2, <1>3 DEF Values
<1>5. /\ tx' = [tx EXCEPT ![c].log[f] = <<old[f], val[f]>>]
      /\ Goto(c, IF todo = {f} THEN "commit" ELSE "u_history")
      /\ UNCHANGED <<store, nextId, lock>>
  BY DEF UHistory, Base, Unrecorded
<1>6. tx'[c] = [tx[c] EXCEPT !.log = [@ EXCEPT ![f] = <<old[f], val[f]>>]]
  BY <1>5 DEF Shape, TypeOK
<1>7. [tx[c].log EXCEPT ![f] = <<old[f], val[f]>>] \in Logs
  BY <1>2, <1>4 DEF Logs
<1>8. /\ tx'[c] \in Tx /\ WellTyped(tx'[c].val)
      /\ tx'[c].id = tx[c].id /\ tx'[c].view = tx[c].view /\ tx'[c].val = val
      /\ tx'[c].log = [tx[c].log EXCEPT ![f] = <<old[f], val[f]>>]
  BY <1>2, <1>6, <1>7 DEF Tx
<1>9. TypeOK'
  <2>1. tx' \in [Clients -> Tx \cup {NULL}]
    BY <1>5, <1>8 DEF Shape, TypeOK
  <2> QED
    BY <1>5, <2>1 DEF Goto, Shape, TypeOK, PCs
<1>10. RequestOK' /\ SnapshotOK'
  BY <1>1, <1>5, <1>8 DEF Goto, Shape, TypeOK, RequestOK, SnapshotOK,
                          CreateSteps, UpdateSteps, TxSteps
<1>11. ProgressOK'
  <2> SUFFICES ASSUME NEW d \in Clients
               PROVE  /\ pc'[d] = "u_write" => tx'[d].log = NoLog /\ tx'[d].val # Base(d)'
                      /\ pc'[d] = "u_history" => Unrecorded(d)' # {}
    BY DEF ProgressOK
  <2>1. CASE d = c
    <3>1. CASE todo = {f}
      BY <2>1, <3>1, <1>1, <1>5 DEF Goto, Shape, TypeOK
    <3>2. CASE todo # {f}
      <4>1. PICK g \in todo : g # f
        BY <1>3, <3>2
      <4>2. tx'[c].log[g] = tx[c].log[g] /\ Base(c)' = old
        BY <1>2, <1>5, <1>8, <4>1 DEF Base, Logs, Unrecorded, Changed
      <4>3. g \in Unrecorded(c)'
        BY <1>8, <4>1, <4>2 DEF Unrecorded
      <4> QED
        BY <2>1, <3>2, <4>3, <1>1, <1>5 DEF Goto, Shape, TypeOK
    <3> QED
      BY <3>1, <3>2
  <2>2. CASE d # c
    <3>1. pc'[d] = pc[d] /\ tx'[d] = tx[d] /\ rows' = rows
      BY <2>2, <1>5 DEF Goto, Shape, TypeOK
    <3> QED
      BY <3>1 DEF Shape, ProgressOK, Base, Unrecorded
  <2> QED
    BY <2>1, <2>2
<1> QED
  BY <1>9, <1>10, <1>11 DEF Shape

LEMMA AppendTo ==
  ASSUME NEW S, NEW s \in Seq(S), NEW e \in S
  PROVE  /\ Append(s, e) \in Seq(S)
         /\ Len(Append(s, e)) = Len(s) + 1
         /\ \A n \in DOMAIN s : n \in DOMAIN Append(s, e) /\ Append(s, e)[n] = s[n]
         /\ \A n \in DOMAIN Append(s, e) : n \in DOMAIN s \/ n = Len(s) + 1
         /\ Append(s, e)[Len(s) + 1] = e
OBVIOUS

(* What a commit does to the tables, whatever the client is told.            *)
LEMMA Applied ==
  ASSUME Shape, NEW c \in Clients, pc[c] = "commit", Apply(c)
  PROVE  /\ req[c] \in Requests /\ req[c].by \in Users
         /\ tx[c] \in Tx /\ tx[c].id \in TaskIds
         /\ Written(c) \in Row /\ WellTyped(Written(c).val)
         /\ members' = members
         /\ \/ rows' = rows /\ history' = history
            \/ /\ rows' = [rows EXCEPT ![tx[c].id] = Append(@, Written(c))]
               /\ history' = [history EXCEPT ![tx[c].id] =
                                Append(@, [by |-> req[c].by, log |-> tx[c].log])]
               /\ [by |-> req[c].by, log |-> tx[c].log] \in Entries
<1>1. pc[c] \in TxSteps /\ pc[c] # "idle"
  BY DEF TxSteps
<1>2. req[c] \in Requests /\ tx[c] \in Tx /\ WellTyped(tx[c].val)
  BY <1>1 DEF Shape, RequestOK, SnapshotOK
<1>3. tx[c].id \in TaskIds /\ tx[c].val \in Values /\ tx[c].log \in Logs
  BY <1>2 DEF Tx
<1>4. req[c].by \in Users
  BY <1>2, ServiceAssumption DEF IsCreate, IsUpdate
<1>5. Written(c) \in Row /\ Written(c).val = tx[c].val
  <2>1. CASE req[c].op = "create"
    <3>1. req[c].team \in Teams
      BY <2>1, <1>2, ServiceAssumption DEF IsCreate, IsUpdate
    <3> QED
      BY <2>1, <3>1, <1>3, <1>4 DEF Written, Row
  <2>2. CASE req[c].op # "create"
    <3>1. req[c].op = "update"
      BY <2>2, <1>2, ServiceAssumption DEF IsCreate, IsUpdate
    <3>2. tx[c].view \in DOMAIN rows[tx[c].id]
      BY <3>1, <1>1 DEF Shape, SnapshotOK
    <3>3. rows[tx[c].id] \in Seq(Row) /\ Len(rows[tx[c].id]) \in DOMAIN rows[tx[c].id]
      BY <3>2, <1>3 DEF Shape, TypeOK
    <3>4. rows[tx[c].id][Len(rows[tx[c].id])] \in Row
      BY <3>3
    <3> QED
      BY <2>2, <3>4, <1>3 DEF Written, Row
  <2> QED
    BY <2>1, <2>2
<1> QED
  BY <1>2, <1>3, <1>4, <1>5 DEF Apply, Entries

LEMMA ShapeCommit ==
  ASSUME Shape, NEW c \in Clients, NEW answer \in Replies,
         pc[c] = "commit", Apply(c), Finish(c, answer)
  PROVE  Shape'
<1> DEFINE row   == Written(c)
           group == [by |-> req[c].by, log |-> tx[c].log]
<1>0. /\ row \in Row /\ WellTyped(row.val) /\ members' = members
      /\ \/ rows' = rows /\ history' = history
         \/ /\ rows' = [rows EXCEPT ![tx[c].id] = Append(@, row)]
            /\ history' = [history EXCEPT ![tx[c].id] = Append(@, group)]
            /\ group \in Entries
  BY Applied
<1> HIDE DEF row, group
<1>1. rows' \in [TaskIds -> Seq(Row)] /\ history' \in [TaskIds -> Seq(Entries)]
  <2>1. rows \in [TaskIds -> Seq(Row)] /\ history \in [TaskIds -> Seq(Entries)]
    BY DEF Shape, TypeOK
  <2>2. \A id \in TaskIds : Append(rows[id], row) \in Seq(Row)
    BY <1>0, <2>1, AppendTo
  <2>3. group \in Entries => \A id \in TaskIds : Append(history[id], group) \in Seq(Entries)
    BY <2>1, AppendTo
  <2>4. CASE rows' = rows /\ history' = history
    BY <2>1, <2>4
  <2>5. CASE /\ rows' = [rows EXCEPT ![tx[c].id] = Append(@, row)]
             /\ history' = [history EXCEPT ![tx[c].id] = Append(@, group)]
             /\ group \in Entries
    <3>1. rows' \in [TaskIds -> Seq(Row)]
      BY <2>1, <2>2, <2>5
    <3>2. history' \in [TaskIds -> Seq(Entries)]
      BY <2>1, <2>3, <2>5
    <3> QED
      BY <3>1, <3>2
  <2> QED
    BY <1>0, <2>4, <2>5
<1>2. ASSUME NEW id \in TaskIds
      PROVE  /\ \A n \in DOMAIN rows[id] : n \in DOMAIN rows'[id] /\ rows'[id][n] = rows[id][n]
             /\ \A n \in DOMAIN rows'[id] : n \in DOMAIN rows[id] \/ rows'[id][n] = row
  <2>1. rows[id] \in Seq(Row) /\ row \in Row
    BY <1>0 DEF Shape, TypeOK
  <2>2. rows'[id] = rows[id] \/ rows'[id] = Append(rows[id], row)
    BY <1>0 DEF Shape, TypeOK
  <2>3. CASE rows'[id] = rows[id]
    BY <2>3
  <2>4. CASE rows'[id] = Append(rows[id], row)
    BY <2>1, <2>4, AppendTo
  <2> QED
    BY <2>2, <2>3, <2>4
<1>3. \A id \in TaskIds : \A n \in DOMAIN rows'[id] : WellTyped(rows'[id][n].val)
  BY <1>0, <1>2 DEF Shape, TypeOK
<1>4. TypeOK'
  <2>1. lock' \in [TaskIds -> Clients \cup {NULL}]
    BY DEF Finish, Released, Shape, TypeOK
  <2>2. /\ pc' \in [Clients -> PCs] /\ reply' \in [Clients -> Replies \cup {NULL}]
        /\ tx' \in [Clients -> Tx \cup {NULL}]
    BY DEF Finish, Shape, TypeOK, PCs
  <2> QED
    BY <1>1, <1>3, <2>1, <2>2, <1>0 DEF Finish, Shape, TypeOK
<1>5. RequestOK'
  BY DEF Finish, Shape, TypeOK, RequestOK, CreateSteps, UpdateSteps
<1>6. SnapshotOK' /\ ProgressOK'
  <2> SUFFICES ASSUME NEW d \in Clients
               PROVE  /\ pc'[d] \in TxSteps =>
                           /\ tx'[d] \in Tx /\ WellTyped(tx'[d].val)
                           /\ req'[d].op = "update" =>
                                /\ tx'[d].id = req'[d].id
                                /\ tx'[d].view \in DOMAIN rows'[tx'[d].id]
                      /\ pc'[d] = "u_write" => tx'[d].log = NoLog /\ tx'[d].val # Base(d)'
                      /\ pc'[d] = "u_history" => Unrecorded(d)' # {}
    BY DEF SnapshotOK, ProgressOK
  <2>1. CASE d = c
    BY <2>1 DEF Finish, Shape, TypeOK, TxSteps
  <2>2. CASE d # c
    <3>1. pc'[d] = pc[d] /\ tx'[d] = tx[d] /\ req'[d] = req[d]
      BY <2>2 DEF Finish, Shape, TypeOK
    <3>2. pc[d] \in TxSteps => tx[d].id \in TaskIds
      BY DEF Shape, SnapshotOK, Tx
    <3>3. pc[d] \in TxSteps /\ req[d].op = "update" => Base(d)' = Base(d)
      BY <3>1, <3>2, <1>2 DEF Shape, SnapshotOK, Base
    <3>4. pc[d] \in {"u_write", "u_history"} => pc[d] \in TxSteps /\ req[d].op = "update"
      BY DEF Shape, RequestOK, UpdateSteps, TxSteps
    <3> QED
      BY <3>1, <3>2, <3>3, <3>4, <1>2 DEF Shape, SnapshotOK, ProgressOK, Unrecorded
  <2> QED
    BY <2>1, <2>2
<1> QED
  BY <1>4, <1>5, <1>6 DEF Shape

LEMMA ShapeCrash ==
  ASSUME Shape, Crash
  PROVE  Shape'
<1>1. TypeOK'
  BY DEF Crash, Released, Shape, TypeOK, PCs, Replies
<1>2. RequestOK' /\ SnapshotOK' /\ ProgressOK'
  BY DEF Crash, RequestOK, SnapshotOK, ProgressOK, CreateSteps, UpdateSteps, TxSteps
<1> QED
  BY <1>1, <1>2 DEF Shape

LEMMA ShapeJoin ==
  ASSUME Shape, NEW t \in Teams, NEW u \in Users, Join(t, u)
  PROVE  Shape'
<1>1. TypeOK'
  BY DEF Join, Shape, TypeOK
<1>2. RequestOK' /\ SnapshotOK' /\ ProgressOK'
  BY DEF Join, Shape, RequestOK, SnapshotOK, ProgressOK, Base, Unrecorded
<1> QED
  BY <1>1, <1>2 DEF Shape

LEMMA ShapeNext == Shape /\ [Next]_vars => Shape'
<1> SUFFICES ASSUME Shape, [Next]_vars PROVE Shape'
  OBVIOUS
<1>1. ASSUME NEW c \in Clients, Arrive(c) PROVE Shape'
  BY <1>1, ShapeArrive
<1>2. ASSUME NEW c \in Clients,
             CMember(c) \/ CAssignee(c) \/ CInsert(c) \/ CHistory(c)
      PROVE  Shape'
  BY <1>2, ShapeCreate
<1>3. ASSUME NEW c \in Clients, URead(c) PROVE Shape'
  BY <1>3, UReadOutcomes, ShapeReads, ShapeReject DEF Replies
<1>4. ASSUME NEW c \in Clients, UWrite(c) PROVE Shape'
  BY <1>4, ShapeWrite
<1>5. ASSUME NEW c \in Clients, UHistory(c) PROVE Shape'
  BY <1>5, ShapeHistory
<1>6. ASSUME NEW c \in Clients, Commit(c) \/ CommitUnknown(c) PROVE Shape'
  BY <1>6, ShapeCommit DEF Commit, CommitUnknown, Replies
<1>7. ASSUME NEW c \in Clients, Fail(c) PROVE Shape'
  BY <1>7, ShapeReject DEF Fail, Replies
<1>8. CASE Crash
  BY <1>8, ShapeCrash
<1>9. ASSUME NEW t \in Teams, NEW u \in Users, Join(t, u) PROVE Shape'
  BY <1>9, ShapeJoin
<1>10. CASE UNCHANGED vars
  BY <1>10 DEF vars, Shape, TypeOK, RequestOK, SnapshotOK, ProgressOK, Base, Unrecorded
<1> QED
  BY <1>1, <1>2, <1>3, <1>4, <1>5, <1>6, <1>7, <1>8, <1>9, <1>10 DEF Next, Step

THEOREM ShapeInvariant == Spec => []Shape
BY ShapeInit, ShapeNext, PTL DEF Spec

(* Every reachable state has the shape TypeOK tells: no step writes an       *)
(* ill-typed row or entry, however requests, failures and crashes interleave.*)
THEOREM TypeCorrect == Spec => []TypeOK
<1>1. Shape => TypeOK
  BY DEF Shape
<1> QED
  BY <1>1, ShapeInvariant, PTL

-----------------------------------------------------------------------------
(* The second layer holds.                                                   *)

(* Append only: what a commit leaves of the tables.                          *)
LEMMA AppliedIds ==
  ASSUME Shape, Ids, NEW c \in Clients, pc[c] = "commit", Apply(c)
  PROVE  /\ Paired'
         /\ \A id \in TaskIds : id # tx[c].id => rows'[id] = rows[id]
         /\ tx[c].id \in TaskIds /\ tx[c].id < nextId
<1>1. tx[c].id \in TaskIds /\ tx[c] \in Tx /\ req[c] \in Requests
  BY Applied
<1>2. tx[c].id < nextId
  <2>1. CASE req[c].op = "create"
    BY <2>1 DEF Ids, FreshIds, TxSteps
  <2>2. CASE req[c].op # "create"
    <3>1. req[c].op = "update"
      BY <2>2, <1>1, ServiceAssumption DEF IsCreate, IsUpdate
    <3>2. rows[tx[c].id] # <<>>
      BY <3>1 DEF Shape, SnapshotOK, TxSteps
    <3> QED
      BY <3>2, <1>1, ServiceAssumption DEF Ids, FreshIds, Shape, TypeOK, TaskIds
  <2> QED
    BY <2>1, <2>2
<1> DEFINE row   == Written(c)
           group == [by |-> req[c].by, log |-> tx[c].log]
<1>3. /\ row \in Row
      /\ \/ rows' = rows /\ history' = history
         \/ /\ rows' = [rows EXCEPT ![tx[c].id] = Append(@, row)]
            /\ history' = [history EXCEPT ![tx[c].id] = Append(@, group)]
            /\ group \in Entries
  BY Applied
<1> HIDE DEF row, group
<1>4. rows \in [TaskIds -> Seq(Row)] /\ history \in [TaskIds -> Seq(Entries)]
  BY DEF Shape, TypeOK
<1>5. \A id \in TaskIds : id # tx[c].id => rows'[id] = rows[id] /\ history'[id] = history[id]
  BY <1>3, <1>4
<1>6. Len(history'[tx[c].id]) = Len(rows'[tx[c].id])
  <2>1. Len(history[tx[c].id]) = Len(rows[tx[c].id])
    BY <1>1 DEF Ids, Paired
  <2>2. CASE rows' = rows /\ history' = history
    BY <2>1, <2>2
  <2>3. CASE /\ rows' = [rows EXCEPT ![tx[c].id] = Append(@, row)]
             /\ history' = [history EXCEPT ![tx[c].id] = Append(@, group)]
             /\ group \in Entries
    <3>1. /\ rows'[tx[c].id] = Append(rows[tx[c].id], row)
          /\ history'[tx[c].id] = Append(history[tx[c].id], group)
      BY <1>1, <1>4, <2>3
    <3>2. rows[tx[c].id] \in Seq(Row) /\ history[tx[c].id] \in Seq(Entries)
      BY <1>1, <1>4
    <3>3. Len(rows'[tx[c].id]) = Len(rows[tx[c].id]) + 1
      BY <1>3, <3>1, <3>2, AppendTo
    <3>4. Len(history'[tx[c].id]) = Len(history[tx[c].id]) + 1
      BY <2>3, <3>1, <3>2, AppendTo
    <3> QED
      BY <2>1, <3>3, <3>4
  <2> QED
    BY <1>3, <2>2, <2>3
<1> QED
  BY <1>1, <1>2, <1>5, <1>6 DEF Ids, Paired

LEMMA IdsNext == Shape /\ Ids /\ [Next]_vars => Ids'
<1> SUFFICES ASSUME Shape, Ids, [Next]_vars PROVE Ids'
  OBVIOUS
<1> USE DEF Shape, TypeOK
<1>1. ASSUME NEW c \in Clients, NEW answer, Reject(c, answer) PROVE Ids'
  BY <1>1 DEF Reject, Finish, Ids, FreshIds, Paired, TxSteps
<1>2. ASSUME NEW c \in Clients, Arrive(c) PROVE Ids'
  BY <1>2 DEF Arrive, Ids, FreshIds, Paired, TxSteps
<1>3. ASSUME NEW c \in Clients, CMember(c) \/ CAssignee(c) PROVE Ids'
  BY <1>1, <1>3 DEF CMember, CAssignee, Goto, Ids, FreshIds, Paired, TxSteps
<1>4. ASSUME NEW c \in Clients, CInsert(c) PROVE Ids'
  <2>1. /\ nextId' = nextId + 1 /\ nextId \in TaskIds
        /\ tx'[c].id = nextId /\ pc'[c] = "c_history" /\ UNCHANGED <<rows, history, req>>
        /\ \A d \in Clients \ {c} : tx'[d] = tx[d] /\ pc'[d] = pc[d]
    BY <1>4, ServiceAssumption DEF CInsert, Goto, TaskIds
  <2>2. \A d \in Clients : pc[d] \in TxSteps => tx[d].id \in Nat
    BY ServiceAssumption DEF SnapshotOK, Tx, TaskIds
  <2>3. \A id \in TaskIds : id \in Nat
    BY ServiceAssumption DEF TaskIds
  <2>4. \A id \in TaskIds : id >= nextId' => rows'[id] = <<>>
    BY <2>1, <2>3 DEF Ids, FreshIds
  <2>5. ASSUME NEW d \in Clients, pc'[d] \in TxSteps, req'[d].op = "create"
        PROVE  tx'[d].id < nextId' /\ rows'[tx'[d].id] = <<>>
    BY <2>1, <2>2, <2>3, <2>5 DEF Ids, FreshIds
  <2>6. ASSUME NEW d \in Clients, pc'[d] \in TxSteps, req'[d].op = "create",
               NEW e \in Clients, pc'[e] \in TxSteps, req'[e].op = "create",
               tx'[e].id = tx'[d].id
        PROVE  e = d
    <3>1. \A i \in Clients \ {c} : pc'[i] \in TxSteps /\ req'[i].op = "create" =>
            tx'[i].id \in Nat /\ tx'[i].id < nextId
      BY <2>1, <2>2 DEF Ids, FreshIds
    <3>2. tx'[c].id \in Nat /\ ~(tx'[c].id < nextId)
      BY <2>1, <2>3
    <3> QED
      BY <2>1, <2>6, <3>1, <3>2 DEF Ids, FreshIds
  <2> QED
    BY <2>1, <2>4, <2>5, <2>6 DEF Ids, FreshIds, Paired
<1>5. ASSUME NEW c \in Clients, CHistory(c) PROVE Ids'
  BY <1>5 DEF CHistory, Goto, SnapshotOK, Tx, Ids, FreshIds, Paired, TxSteps
<1>6. ASSUME NEW c \in Clients, URead(c) PROVE Ids'
  <2>1. CASE Reads(c)
    BY <2>1 DEF Reads, Goto, RequestOK, UpdateSteps, Ids, FreshIds, Paired, TxSteps
  <2> QED
    BY <1>1, <1>6, <2>1, UReadOutcomes
<1>7. ASSUME NEW c \in Clients, UWrite(c) PROVE Ids'
  <2>1. CASE /\ Goto(c, "u_history")
             /\ UNCHANGED <<store, nextId, tx>>
    <3>1. req[c].op = "update"
      BY <1>7 DEF UWrite, RequestOK, UpdateSteps
    <3> QED
      BY <2>1, <3>1, ServiceAssumption DEF Goto, Ids, FreshIds, Paired, TxSteps
  <2> QED
    BY <1>1, <1>7, <2>1 DEF UWrite
<1>8. ASSUME NEW c \in Clients, UHistory(c) PROVE Ids'
  BY <1>8 DEF UHistory, Goto, RequestOK, UpdateSteps, Ids, FreshIds, Paired, TxSteps
<1>9. ASSUME NEW c \in Clients, Commit(c) \/ CommitUnknown(c) PROVE Ids'
  <2>1. pc[c] = "commit" /\ Apply(c) /\ \E answer \in Replies : Finish(c, answer)
    BY <1>9 DEF Commit, CommitUnknown, Replies
  <2>2. /\ Paired'
        /\ \A id \in TaskIds : id # tx[c].id => rows'[id] = rows[id]
        /\ tx[c].id \in TaskIds /\ tx[c].id < nextId
    BY <2>1, AppliedIds
  <2>3. /\ pc'[c] = "idle" /\ UNCHANGED <<nextId, req>>
        /\ \A d \in Clients \ {c} : tx'[d] = tx[d] /\ pc'[d] = pc[d]
    BY <2>1 DEF Finish
  <2>4. \A id \in TaskIds : id >= nextId' => rows'[id] = <<>>
    BY <2>2, <2>3, ServiceAssumption DEF Ids, FreshIds, TaskIds
  <2>5. ASSUME NEW d \in Clients, pc'[d] \in TxSteps, req'[d].op = "create"
        PROVE  tx'[d].id < nextId' /\ rows'[tx'[d].id] = <<>>
    <3>1. d # c /\ pc[d] \in TxSteps /\ req[d].op = "create" /\ tx'[d] = tx[d]
      BY <2>3, <2>5 DEF TxSteps
    <3>2. tx[d].id \in TaskIds /\ tx[d].id < nextId /\ rows[tx[d].id] = <<>>
      BY <3>1 DEF Ids, FreshIds, SnapshotOK, Tx
    <3>3. tx[d].id # tx[c].id
      <4>1. CASE req[c].op = "create"
        BY <2>1, <3>1, <4>1 DEF Ids, FreshIds, TxSteps
      <4>2. CASE req[c].op = "update"
        BY <2>1, <3>2, <4>2 DEF SnapshotOK, TxSteps
      <4> QED
        BY <2>1, <4>1, <4>2, ServiceAssumption DEF RequestOK, IsCreate, IsUpdate
    <3> QED
      BY <2>2, <2>3, <3>1, <3>2, <3>3
  <2>6. ASSUME NEW d \in Clients, pc'[d] \in TxSteps, req'[d].op = "create",
               NEW e \in Clients, pc'[e] \in TxSteps, req'[e].op = "create",
               tx'[e].id = tx'[d].id
        PROVE  e = d
    BY <2>3, <2>6 DEF Ids, FreshIds, TxSteps
  <2> QED
    BY <2>2, <2>4, <2>5, <2>6 DEF Ids, FreshIds
<1>10. ASSUME NEW c \in Clients, Fail(c) PROVE Ids'
  BY <1>1, <1>10 DEF Fail
<1>11. CASE Crash
  BY <1>11 DEF Crash, Ids, FreshIds, Paired, TxSteps
<1>12. ASSUME NEW t \in Teams, NEW u \in Users, Join(t, u) PROVE Ids'
  BY <1>12 DEF Join, Ids, FreshIds, Paired
<1>13. CASE UNCHANGED vars
  BY <1>13 DEF vars, Ids, FreshIds, Paired
<1> QED
  BY <1>2, <1>3, <1>4, <1>5, <1>6, <1>7, <1>8, <1>9, <1>10, <1>11, <1>12, <1>13
     DEF Next, Step

LEMMA IdsInvariant == Spec => []Ids
<1>1. Init => Ids
  BY DEF Init, Ids, FreshIds, Paired, TxSteps
<1> QED
  BY <1>1, IdsNext, ShapeInvariant, PTL DEF Spec

-----------------------------------------------------------------------------
(* Third layer: who may act on a task and who may be its assignee.           *)

(* A task keeps its team and its creator.                                    *)
TeamFixed ==
  \A id \in TaskIds : \A n \in DOMAIN rows[id] :
    rows[id][n].team = rows[id][1].team /\ rows[id][n].creator = rows[id][1].creator

(* The team a request writes to, once it is known.                           *)
TeamOf(c) == IF req[c].op = "create" THEN req[c].team ELSE rows[tx[c].id][1].team

(* Past its check, the actor of a request is a member of that team.          *)
ActorOK ==
  \A c \in Clients :
    pc[c] \in TxSteps \cup {"c_assignee", "c_insert"} => req[c].by \in members[TeamOf(c)]

(* Past its check, so is the assignee the request is about to write.         *)
AssigneeOK ==
  \A c \in Clients :
    /\ pc[c] = "c_insert" => MayAssign(members[req[c].team], req[c].cmd["assignee_id"])
    /\ pc[c] \in TxSteps => tx[c].val["assignee_id"] \in members[TeamOf(c)] \cup {NULL}

Membership ==
  TeamFixed /\ ActorOK /\ AssigneeOK /\ AssigneeIsMember /\ ActorsAreMembers

-----------------------------------------------------------------------------
(* The third layer holds.                                                    *)

(* A step of c that only moves c and its transaction, to a state where c is  *)
(* within its rights.                                                        *)
LEMMA MembershipPrivate ==
  ASSUME Shape, Membership, NEW c \in Clients,
         UNCHANGED <<store, req>>,
         \A d \in Clients \ {c} : pc'[d] = pc[d] /\ tx'[d] = tx[d],
         pc'[c] \in TxSteps \cup {"c_assignee", "c_insert"} => req[c].by \in members[TeamOf(c)'],
         pc'[c] = "c_insert" => MayAssign(members[req[c].team], req[c].cmd["assignee_id"]),
         pc'[c] \in TxSteps =>
           tx'[c].val["assignee_id"] \in members[TeamOf(c)'] \cup {NULL}
  PROVE  Membership'
<1>1. TeamFixed' /\ AssigneeIsMember' /\ ActorsAreMembers'
  BY DEF Membership, TeamFixed, AssigneeIsMember, ActorsAreMembers
<1>2. \A d \in Clients \ {c} : TeamOf(d)' = TeamOf(d)
  BY DEF TeamOf
<1>3. ActorOK'
  BY <1>2 DEF Membership, ActorOK
<1>4. AssigneeOK'
  BY <1>2 DEF Membership, AssigneeOK
<1> QED
  BY <1>1, <1>3, <1>4 DEF Membership

(* A request that ends without a commit owes nothing.                        *)
LEMMA MembershipReject ==
  ASSUME Shape, Membership, NEW c \in Clients, NEW answer, Reject(c, answer)
  PROVE  Membership'
<1>1. /\ pc'[c] = "idle" /\ UNCHANGED <<store, req>>
      /\ \A d \in Clients \ {c} : pc'[d] = pc[d] /\ tx'[d] = tx[d]
  BY DEF Reject, Finish, Shape, TypeOK
<1> QED
  BY <1>1, MembershipPrivate DEF TxSteps

LEMMA MembershipCreate ==
  ASSUME Shape, Ids, Membership, NEW c \in Clients,
         CMember(c) \/ CAssignee(c) \/ CInsert(c) \/ CHistory(c)
  PROVE  Membership'
<1>1. req[c].op = "create"
  BY DEF CMember, CAssignee, CInsert, CHistory, Shape, RequestOK, CreateSteps
<1>2. CASE \E answer : Reject(c, answer)
  BY <1>2, MembershipReject
<1>3. CASE /\ pc[c] = "c_member" /\ Goto(c, "c_assignee") /\ req[c].by \in members[req[c].team]
           /\ UNCHANGED <<store, nextId, lock, tx>>
  BY <1>1, <1>3, MembershipPrivate DEF Goto, Shape, TypeOK, TxSteps, TeamOf
<1>4. CASE /\ pc[c] = "c_assignee" /\ Goto(c, "c_insert")
           /\ MayAssign(members[req[c].team], req[c].cmd["assignee_id"])
           /\ UNCHANGED <<store, nextId, lock, tx>>
  <2>1. req[c].by \in members[req[c].team]
    BY <1>1, <1>4 DEF Membership, ActorOK, TeamOf
  <2> QED
    BY <1>1, <1>4, <2>1, MembershipPrivate DEF Goto, Shape, TypeOK, TxSteps, TeamOf
<1>5. CASE CInsert(c)
  <2>1. /\ req[c].by \in members[req[c].team]
        /\ MayAssign(members[req[c].team], req[c].cmd["assignee_id"])
    BY <1>1, <1>5 DEF CInsert, Membership, ActorOK, AssigneeOK, TeamOf
  <2>2. NewValues(req[c].cmd)["assignee_id"] \in members[req[c].team] \cup {NULL}
    BY <2>1, FieldNames DEF MayAssign, NewValues, Assignee
  <2>3. /\ tx'[c].val = NewValues(req[c].cmd) /\ pc'[c] = "c_history"
        /\ \A d \in Clients \ {c} : pc'[d] = pc[d] /\ tx'[d] = tx[d]
        /\ UNCHANGED <<store, req>>
    BY <1>5 DEF CInsert, Goto, Shape, TypeOK
  <2> QED
    BY <1>1, <2>1, <2>2, <2>3, MembershipPrivate DEF TeamOf
<1>6. CASE CHistory(c)
  <2>1. /\ req[c].by \in members[req[c].team]
        /\ tx[c].val["assignee_id"] \in members[req[c].team] \cup {NULL}
    BY <1>1, <1>6 DEF CHistory, Membership, ActorOK, AssigneeOK, TeamOf, TxSteps
  <2>2. tx[c] \in Tx
    BY <1>6 DEF CHistory, Shape, SnapshotOK, TxSteps
  <2>3. /\ tx'[c].val = tx[c].val /\ pc'[c] = "commit"
        /\ \A d \in Clients \ {c} : pc'[d] = pc[d] /\ tx'[d] = tx[d]
        /\ UNCHANGED <<store, req>>
    BY <1>6, <2>2 DEF CHistory, Goto, Shape, TypeOK, Tx
  <2> QED
    BY <1>1, <2>1, <2>3, MembershipPrivate DEF TeamOf
<1> QED
  BY <1>2, <1>3, <1>4, <1>5, <1>6 DEF CMember, CAssignee

LEMMA MembershipReads ==
  ASSUME Shape, Ids, Membership, NEW c \in Clients, Reads(c)
  PROVE  Membership'
<1> DEFINE id   == req[c].id
           n    == Len(rows[id])
           team == rows[id][n].team
           val  == Patched(rows[id][n].val, req[c].cmd)
<1>1. req[c].op = "update" /\ IsUpdate(req[c], TaskIds)
  BY ServiceAssumption DEF Reads, Shape, RequestOK, UpdateSteps, IsCreate
<1>2. id \in TaskIds /\ rows[id] \in Seq(Row)
  BY <1>1 DEF IsUpdate, Shape, TypeOK
<1>3. n \in DOMAIN rows[id] /\ 1 \in DOMAIN rows[id]
  <2>1. n > 0
    BY DEF Reads
  <2> QED
    BY <1>2, <2>1
<1>4. rows[id][1].team = team
  BY <1>2, <1>3 DEF Membership, TeamFixed
<1>5. val["assignee_id"] \in members[team] \cup {NULL}
  <2>1. rows[id][n].val["assignee_id"] \in members[team] \cup {NULL}
    BY <1>2, <1>3 DEF Membership, AssigneeIsMember
  <2> QED
    BY <2>1, FieldNames DEF Reads, MayAssign, Patched, Assignee
<1>6. /\ tx'[c].id = id /\ tx'[c].val = val
      /\ \A d \in Clients \ {c} : pc'[d] = pc[d] /\ tx'[d] = tx[d]
      /\ UNCHANGED <<store, req>>
      /\ pc'[c] # "c_insert"
  BY DEF Reads, Goto, Shape, TypeOK
<1>7. TeamOf(c)' = team
  BY <1>1, <1>4, <1>6 DEF TeamOf
<1>8. req[c].by \in members[team]
  BY DEF Reads
<1> QED
  BY <1>5, <1>6, <1>7, <1>8, MembershipPrivate

LEMMA MembershipUpdate ==
  ASSUME Shape, Ids, Membership, NEW c \in Clients, UWrite(c) \/ UHistory(c)
  PROVE  Membership'
<1>1. CASE Reject(c, "not_found")
  BY <1>1, MembershipReject
<1>2. pc[c] \in TxSteps /\ tx[c] \in Tx /\ req[c].op = "update"
  BY DEF UWrite, UHistory, Shape, SnapshotOK, RequestOK, UpdateSteps, TxSteps
<1>3. /\ req[c].by \in members[TeamOf(c)]
      /\ tx[c].val["assignee_id"] \in members[TeamOf(c)] \cup {NULL}
  BY <1>2 DEF Membership, ActorOK, AssigneeOK
<1>4. CASE Goto(c, "u_history") /\ UNCHANGED <<store, nextId, tx>>
  <2>1. TeamOf(c)' = TeamOf(c)
    BY <1>4 DEF Goto, TeamOf
  <2> QED
    BY <1>3, <1>4, <2>1, MembershipPrivate DEF Goto, Shape, TypeOK
<1>5. CASE UHistory(c)
  <2>1. /\ tx'[c].val = tx[c].val /\ tx'[c].id = tx[c].id /\ pc'[c] # "c_insert"
        /\ \A d \in Clients \ {c} : pc'[d] = pc[d] /\ tx'[d] = tx[d]
        /\ UNCHANGED <<store, req>>
    BY <1>2, <1>5 DEF UHistory, Goto, Shape, TypeOK, Tx
  <2>2. TeamOf(c)' = TeamOf(c)
    BY <2>1 DEF TeamOf
  <2> QED
    BY <1>3, <2>1, <2>2, MembershipPrivate
<1> QED
  BY <1>1, <1>4, <1>5 DEF UWrite

(* A commit writes a row whose team is the one the checks were made for.     *)
LEMMA WrittenTeam ==
  ASSUME Shape, Ids, Membership, NEW c \in Clients, pc[c] = "commit"
  PROVE  /\ Written(c).team = TeamOf(c)
         /\ Written(c).val = tx[c].val
         /\ Written(c).creator = IF req[c].op = "create" THEN req[c].by
                                                          ELSE rows[tx[c].id][1].creator
<1>1. CASE req[c].op = "create"
  BY <1>1 DEF Written, TeamOf
<1>2. CASE req[c].op # "create"
  <2>1. tx[c].id \in TaskIds /\ rows[tx[c].id] \in Seq(Row) /\ tx[c].view \in DOMAIN rows[tx[c].id]
    BY <1>2, OpenUpdate DEF TxSteps
  <2>2. /\ Len(rows[tx[c].id]) \in DOMAIN rows[tx[c].id]
        /\ rows[tx[c].id][Len(rows[tx[c].id])] \in Row
    BY <2>1
  <2> DEFINE last == rows[tx[c].id][Len(rows[tx[c].id])]
  <2>3. last.team = rows[tx[c].id][1].team /\ last.creator = rows[tx[c].id][1].creator
    BY <2>1, <2>2 DEF Membership, TeamFixed
  <2> QED
    BY <1>2, <2>2, <2>3 DEF Written, TeamOf, Row
<1> QED
  BY <1>1, <1>2

(* How a commit leaves the versions of a task: it adds one, or nothing.      *)
LEMMA AppliedTo ==
  ASSUME Shape, Ids, NEW c \in Clients, pc[c] = "commit", Apply(c), NEW id \in TaskIds
  PROVE  /\ rows[id] \in Seq(Row) /\ history[id] \in Seq(Entries)
         /\ Len(history[id]) = Len(rows[id])
         /\ \/ rows'[id] = rows[id] /\ history'[id] = history[id]
            \/ /\ id = tx[c].id
               /\ rows'[id] = Append(rows[id], Written(c))
               /\ history'[id] = Append(history[id], [by |-> req[c].by, log |-> tx[c].log])
               /\ Written(c) \in Row /\ [by |-> req[c].by, log |-> tx[c].log] \in Entries
<1> DEFINE row   == Written(c)
           group == [by |-> req[c].by, log |-> tx[c].log]
<1>1. /\ row \in Row
      /\ \/ rows' = rows /\ history' = history
         \/ /\ rows' = [rows EXCEPT ![tx[c].id] = Append(@, row)]
            /\ history' = [history EXCEPT ![tx[c].id] = Append(@, group)]
            /\ group \in Entries
  BY Applied
<1> HIDE DEF row, group
<1>2. rows \in [TaskIds -> Seq(Row)] /\ history \in [TaskIds -> Seq(Entries)]
  BY DEF Shape, TypeOK
<1>3. \/ rows'[id] = rows[id] /\ history'[id] = history[id]
      \/ /\ id = tx[c].id
         /\ rows'[id] = Append(rows[id], row)
         /\ history'[id] = Append(history[id], group)
         /\ row \in Row /\ group \in Entries
  BY <1>1, <1>2
<1> USE DEF row, group
<1> QED
  BY <1>2, <1>3 DEF Ids, Paired

(* The version a commit adds, and those before it.                           *)
LEMMA AppliedVersions ==
  ASSUME Shape, Ids, Membership, NEW c \in Clients, pc[c] = "commit", Apply(c), NEW id \in TaskIds
  PROVE  /\ \A n \in DOMAIN rows[id] : n \in DOMAIN rows'[id] /\ rows'[id][n] = rows[id][n]
         /\ \A n \in DOMAIN rows'[id] : n \in DOMAIN rows[id] \/ rows'[id][n] = Written(c)
         /\ \A n \in DOMAIN history'[id] :
              /\ n \in DOMAIN rows'[id]
              /\ \/ n \in DOMAIN rows[id] /\ n \in DOMAIN history[id]
                                          /\ history'[id][n] = history[id][n]
                 \/ rows'[id][n] = Written(c) /\ history'[id][n].by = req[c].by
         /\ \A n \in DOMAIN rows'[id] : /\ rows'[id][n].team = rows'[id][1].team
                                       /\ rows'[id][n].creator = rows'[id][1].creator
<1> DEFINE row   == Written(c)
           group == [by |-> req[c].by, log |-> tx[c].log]
<1>1. /\ rows[id] \in Seq(Row) /\ history[id] \in Seq(Entries)
      /\ Len(history[id]) = Len(rows[id])
      /\ \/ rows'[id] = rows[id] /\ history'[id] = history[id]
         \/ /\ id = tx[c].id
            /\ rows'[id] = Append(rows[id], row)
            /\ history'[id] = Append(history[id], group)
            /\ row \in Row /\ group \in Entries
  BY AppliedTo
<1>2. \A n \in DOMAIN rows[id] :
        rows[id][n].team = rows[id][1].team /\ rows[id][n].creator = rows[id][1].creator
  BY DEF Membership, TeamFixed
<1>3. id = tx[c].id =>
        \/ row.team = rows[id][1].team /\ row.creator = rows[id][1].creator
        \/ rows[id] = <<>>
  BY WrittenTeam DEF TeamOf, Ids, FreshIds, TxSteps
<1>4. row = Written(c) /\ group.by = req[c].by
  OBVIOUS
<1> HIDE DEF row, group
<1>5. CASE rows'[id] = rows[id] /\ history'[id] = history[id]
  <2>1. DOMAIN history[id] = DOMAIN rows[id]
    BY <1>1
  <2> QED
    BY <1>2, <1>5, <2>1
<1>6. CASE /\ id = tx[c].id
           /\ rows'[id] = Append(rows[id], row)
           /\ history'[id] = Append(history[id], group)
           /\ row \in Row /\ group \in Entries
  <2>1. /\ \A n \in DOMAIN rows[id] : n \in DOMAIN rows'[id] /\ rows'[id][n] = rows[id][n]
        /\ \A n \in DOMAIN rows'[id] : n \in DOMAIN rows[id] \/ n = Len(rows[id]) + 1
        /\ rows'[id][Len(rows[id]) + 1] = row
        /\ Len(rows'[id]) = Len(rows[id]) + 1
    BY <1>1, <1>6, AppendTo
  <2>2. /\ \A n \in DOMAIN history[id] : history'[id][n] = history[id][n]
        /\ \A n \in DOMAIN history'[id] : n \in DOMAIN history[id] \/ n = Len(history[id]) + 1
        /\ history'[id][Len(history[id]) + 1] = group
    <3>1. /\ history[id] \in Seq(Entries) /\ group \in Entries
          /\ history'[id] = Append(history[id], group)
      BY <1>1, <1>6
    <3> QED
      BY <3>1, AppendTo
  <2>3. DOMAIN history[id] = DOMAIN rows[id] /\ DOMAIN history'[id] = DOMAIN rows'[id]
    BY <1>1, <1>6
  <2>4. rows[id] = <<>> =>
          rows'[id][1] = row /\ DOMAIN rows[id] = {} /\ Len(rows[id]) + 1 = 1
    BY <2>1
  <2>5. rows[id] # <<>> => rows'[id][1] = rows[id][1]
    BY <1>1, <2>1
  <2>6. \A n \in DOMAIN rows'[id] : /\ rows'[id][n].team = rows'[id][1].team
                                    /\ rows'[id][n].creator = rows'[id][1].creator
    <3>1. CASE rows[id] = <<>>
      BY <2>1, <2>4, <3>1
    <3>2. CASE rows[id] # <<>>
      <4>1. row.team = rows[id][1].team /\ row.creator = rows[id][1].creator
        BY <1>3, <1>6, <3>2
      <4> QED
        BY <1>2, <2>1, <2>5, <3>2, <4>1
    <3> QED
      BY <3>1, <3>2
  <2> QED
    <3>1. \A n \in DOMAIN rows'[id] : n \in DOMAIN rows[id] \/ rows'[id][n] = Written(c)
      BY <1>4, <2>1
    <3>2. ASSUME NEW n \in DOMAIN history'[id]
          PROVE  /\ n \in DOMAIN rows'[id]
                 /\ \/ n \in DOMAIN rows[id] /\ n \in DOMAIN history[id]
                                             /\ history'[id][n] = history[id][n]
                    \/ rows'[id][n] = Written(c) /\ history'[id][n].by = req[c].by
      BY <1>1, <1>4, <2>1, <2>2, <2>3, <3>2
    <3> QED
      BY <2>1, <2>6, <3>1, <3>2
<1> USE DEF row, group
<1> QED
  BY <1>1, <1>5, <1>6

LEMMA MembershipCommit ==
  ASSUME Shape, Ids, Membership, NEW c \in Clients, NEW answer \in Replies,
         pc[c] = "commit", Apply(c), Finish(c, answer)
  PROVE  Membership'
<1>1. /\ Written(c).team = TeamOf(c) /\ Written(c).val = tx[c].val
      /\ req[c].by \in members[TeamOf(c)]
      /\ tx[c].val["assignee_id"] \in members[TeamOf(c)] \cup {NULL}
  BY WrittenTeam DEF Membership, ActorOK, AssigneeOK, TxSteps
<1>2. members' = members
  BY DEF Apply
<1>3. ASSUME NEW id \in TaskIds
      PROVE  /\ \A n \in DOMAIN rows[id] : n \in DOMAIN rows'[id] /\ rows'[id][n] = rows[id][n]
             /\ \A n \in DOMAIN rows'[id] : n \in DOMAIN rows[id] \/ rows'[id][n] = Written(c)
             /\ \A n \in DOMAIN history'[id] :
                  /\ n \in DOMAIN rows'[id]
                  /\ \/ n \in DOMAIN rows[id] /\ n \in DOMAIN history[id]
                                              /\ history'[id][n] = history[id][n]
                     \/ rows'[id][n] = Written(c) /\ history'[id][n].by = req[c].by
             /\ \A n \in DOMAIN rows'[id] : /\ rows'[id][n].team = rows'[id][1].team
                                           /\ rows'[id][n].creator = rows'[id][1].creator
  BY AppliedVersions
<1>4. TeamFixed'
  BY <1>3 DEF TeamFixed
<1>5. AssigneeIsMember'
  BY <1>1, <1>2, <1>3 DEF Membership, AssigneeIsMember
<1>6. ActorsAreMembers'
  BY <1>1, <1>2, <1>3 DEF Membership, ActorsAreMembers
<1>7. ASSUME NEW d \in Clients, pc'[d] # "idle"
      PROVE  /\ d # c /\ pc'[d] = pc[d] /\ tx'[d] = tx[d] /\ req'[d] = req[d]
             /\ pc[d] \in TxSteps \cup CreateSteps => TeamOf(d)' = TeamOf(d)
  <2>1. d # c /\ pc'[d] = pc[d] /\ tx'[d] = tx[d] /\ req'[d] = req[d]
    BY <1>7 DEF Finish, Shape, TypeOK
  <2>2. CASE req[d].op = "create"
    BY <2>1, <2>2 DEF TeamOf
  <2>3. CASE req[d].op # "create" /\ pc[d] \in TxSteps
    <3>1. tx[d].id \in TaskIds /\ rows[tx[d].id] \in Seq(Row) /\ tx[d].view \in DOMAIN rows[tx[d].id]
      BY <2>3, OpenUpdate
    <3>2. 1 \in DOMAIN rows[tx[d].id]
      BY <3>1
    <3> QED
      BY <1>3, <2>1, <3>1, <3>2 DEF TeamOf
  <2>4. CASE req[d].op # "create" /\ pc[d] \notin TxSteps
    BY <2>1, <2>4 DEF Shape, RequestOK
  <2> QED
    BY <2>1, <2>2, <2>3, <2>4
<1>8. ActorOK'
  BY <1>2, <1>7 DEF Membership, ActorOK, TxSteps, CreateSteps
<1>9. AssigneeOK'
  BY <1>2, <1>7 DEF Membership, AssigneeOK, TxSteps, CreateSteps
<1> QED
  BY <1>4, <1>5, <1>6, <1>8, <1>9 DEF Membership

LEMMA MembershipNext == Shape /\ Ids /\ Membership /\ [Next]_vars => Membership'
<1> SUFFICES ASSUME Shape, Ids, Membership, [Next]_vars PROVE Membership'
  OBVIOUS
<1>1. ASSUME NEW c \in Clients, Arrive(c) PROVE Membership'
  <2>1. /\ UNCHANGED <<store, tx>> /\ pc'[c] \in {"c_member", "u_read"}
        /\ \A d \in Clients \ {c} : pc'[d] = pc[d] /\ req'[d] = req[d]
    BY <1>1 DEF Arrive, Shape, TypeOK
  <2>2. TeamFixed' /\ AssigneeIsMember' /\ ActorsAreMembers'
    BY <2>1 DEF Membership, TeamFixed, AssigneeIsMember, ActorsAreMembers
  <2>3. \A d \in Clients \ {c} : TeamOf(d)' = TeamOf(d)
    BY <2>1 DEF TeamOf
  <2>4. ActorOK'
    BY <2>1, <2>3 DEF Membership, ActorOK, TxSteps
  <2>5. AssigneeOK'
    BY <2>1, <2>3 DEF Membership, AssigneeOK, TxSteps
  <2> QED
    BY <2>2, <2>4, <2>5 DEF Membership
<1>2. ASSUME NEW c \in Clients,
             CMember(c) \/ CAssignee(c) \/ CInsert(c) \/ CHistory(c)
      PROVE  Membership'
  BY <1>2, MembershipCreate
<1>3. ASSUME NEW c \in Clients, URead(c) PROVE Membership'
  BY <1>3, UReadOutcomes, MembershipReads, MembershipReject
<1>4. ASSUME NEW c \in Clients, UWrite(c) \/ UHistory(c) PROVE Membership'
  BY <1>4, MembershipUpdate
<1>5. ASSUME NEW c \in Clients, Commit(c) \/ CommitUnknown(c) PROVE Membership'
  BY <1>5, MembershipCommit DEF Commit, CommitUnknown, Replies
<1>6. ASSUME NEW c \in Clients, Fail(c) PROVE Membership'
  BY <1>6, MembershipReject DEF Fail
<1>7. CASE Crash
  BY <1>7 DEF Crash, Membership, TeamFixed, ActorOK, AssigneeOK, AssigneeIsMember,
              ActorsAreMembers, TxSteps
<1>8. ASSUME NEW t \in Teams, NEW u \in Users, Join(t, u) PROVE Membership'
  <2>1. /\ UNCHANGED <<rows, history, pc, req, tx>>
        /\ \A s : members[s] \subseteq members'[s]
    BY <1>8 DEF Join, Shape, TypeOK
  <2>2. TeamFixed' /\ AssigneeIsMember' /\ ActorsAreMembers'
    BY <2>1 DEF Membership, TeamFixed, AssigneeIsMember, ActorsAreMembers
  <2>3. ActorOK' /\ AssigneeOK'
    BY <2>1 DEF Membership, ActorOK, AssigneeOK, TeamOf, MayAssign
  <2> QED
    BY <2>2, <2>3 DEF Membership
<1>9. CASE UNCHANGED vars
  BY <1>9 DEF vars, Membership, TeamFixed, TeamOf, ActorOK, AssigneeOK, AssigneeIsMember,
              ActorsAreMembers
<1> QED
  BY <1>1, <1>2, <1>3, <1>4, <1>5, <1>6, <1>7, <1>8, <1>9 DEF Next, Step

LEMMA MembershipInvariant == Spec => []Membership
<1>1. Init => Membership
  BY DEF Init, Membership, TeamFixed, TeamOf, ActorOK, AssigneeOK, AssigneeIsMember,
         ActorsAreMembers, TxSteps
<1> QED
  BY <1>1, MembershipNext, ShapeInvariant, IdsInvariant, PTL DEF Spec

(* Whoever is assigned a task is a member of its team, although the check    *)
(* and the write are not one transaction (CreateTask) or not one snapshot    *)
(* (UpdateTask), and although an update writes back an assignee nobody       *)
(* checked again.                                                            *)
THEOREM AssigneesAreMembers == Spec => []AssigneeIsMember
<1>1. Membership => AssigneeIsMember
  BY DEF Membership
<1> QED
  BY <1>1, MembershipInvariant, PTL

(* Nothing in the audit trail was done by somebody outside the task's team.  *)
THEOREM OnlyMembersAct == Spec => []ActorsAreMembers
<1>1. Membership => ActorsAreMembers
  BY DEF Membership
<1> QED
  BY <1>1, MembershipInvariant, PTL
=============================================================================
