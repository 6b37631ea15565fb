------------------------ MODULE TaskService_proofs -------------------------
(* Proofs about TaskService, concluded: audit trail and locks; that the      *)
(* service implements the ledger of committed versions (TaskLedger); what an *)
(* answer of success promises; that row locks are not waited for in circles; *)
(* and what an update does as long as none overlaps with it.                 *)
EXTENDS TaskService_invariants

-----------------------------------------------------------------------------
(* Fourth layer: audit trail and locks.                                      *)

(* What a transaction recorded, and what it has recorded when it commits.    *)
LogOK ==
  \A c \in Clients :
    /\ pc[c] = "c_history" => tx[c].log = NoLog /\ tx[c].val["status"] = "todo"
    /\ pc[c] = "commit" /\ req[c].op = "create" =>
         tx[c].log = CreationLog /\ tx[c].val["status"] = "todo"
    /\ pc[c] = "u_history" =>
         \A f \in Fields \cup {Created} :
           tx[c].log[f] # NULL => tx[c].log[f] = Diff(Base(c), tx[c].val)[f]
    /\ pc[c] = "commit" /\ req[c].op = "update" =>
         tx[c].log = Diff(Base(c), tx[c].val)

(* Past its UPDATE a transaction holds the lock of its row, so that the row  *)
(* it writes over is still the one its UPDATE changed.                       *)
Holds(c) ==
  \/ pc[c] = "u_history"
  \/ pc[c] = "commit" /\ req[c].op = "update" /\ tx[c].log # NoLog

LockOK ==
  \A c \in Clients : Holds(c) =>
    /\ lock[tx[c].id] = c
    /\ tx[c].val # rows[tx[c].id][Len(rows[tx[c].id])].val

Bond == LogOK /\ LockOK

-----------------------------------------------------------------------------
(* The fourth layer holds.                                                   *)

USE DEF store

(* A transaction without changes explains itself by an empty log.            *)
LEMMA DiffSame ==
  ASSUME NEW v
  PROVE  Diff(v, v) = NoLog
BY DEF Diff, NoLog, Changed

LEMMA DiffCreated ==
  ASSUME NEW v, NEW w
  PROVE  Diff(v, w)[Created] = NULL
BY FieldNames DEF Diff, Changed

LEMMA BondReject ==
  ASSUME Shape, Bond, NEW c \in Clients, NEW answer, Reject(c, answer)
  PROVE  Bond'
<1>1. /\ UNCHANGED <<store, req>> /\ pc'[c] = "idle"
      /\ \A d \in Clients \ {c} : pc'[d] = pc[d] /\ tx'[d] = tx[d]
      /\ \A id \in TaskIds : lock'[id] = IF lock[id] = c THEN NULL ELSE lock[id]
  BY DEF Reject, Finish, Released, Shape, TypeOK
<1>2. LogOK'
  BY <1>1 DEF Bond, LogOK, Base
<1>3. LockOK'
  <2> SUFFICES ASSUME NEW d \in Clients, Holds(d)'
               PROVE  /\ lock'[tx'[d].id] = d
                      /\ tx'[d].val # rows'[tx'[d].id][Len(rows'[tx'[d].id])].val
    BY DEF LockOK
  <2>1. d # c /\ pc'[d] = pc[d] /\ tx'[d] = tx[d] /\ req'[d] = req[d] /\ Holds(d)
    BY <1>1 DEF Holds
  <2>2. tx[d].id \in TaskIds
    BY <2>1 DEF Holds, Shape, SnapshotOK, TxSteps, Tx
  <2> QED
    BY <1>1, <2>1, <2>2 DEF Bond, LockOK
<1> QED
  BY <1>2, <1>3 DEF Bond

(* A step of c that leaves the tables and the locks of others alone.         *)
LEMMA BondPrivate ==
  ASSUME Shape, Bond, NEW c \in Clients,
         UNCHANGED <<store, req>>,
         \A d \in Clients \ {c} : pc'[d] = pc[d] /\ tx'[d] = tx[d],
         \A d \in Clients \ {c} : Holds(d) => lock'[tx[d].id] = lock[tx[d].id],
         pc'[c] = "c_history" => tx'[c].log = NoLog /\ tx'[c].val["status"] = "todo",
         pc'[c] = "commit" /\ req[c].op = "create" =>
           tx'[c].log = CreationLog /\ tx'[c].val["status"] = "todo",
         pc'[c] = "u_history" =>
           \A f \in Fields \cup {Created} :
             tx'[c].log[f] # NULL => tx'[c].log[f] = Diff(Base(c)', tx'[c].val)[f],
         pc'[c] = "commit" /\ req[c].op = "update" =>
           tx'[c].log = Diff(Base(c)', tx'[c].val),
         Holds(c)' => /\ lock'[tx'[c].id] = c
                      /\ tx'[c].val # rows[tx'[c].id][Len(rows[tx'[c].id])].val
  PROVE  Bond'
<1>1. \A d \in Clients \ {c} : Base(d)' = Base(d) /\ Holds(d)' = Holds(d)
  BY DEF Base, Holds
<1>2. LogOK'
  <2> SUFFICES ASSUME NEW d \in Clients, d # c
               PROVE  /\ pc'[d] = "c_history" =>
                           tx'[d].log = NoLog /\ tx'[d].val["status"] = "todo"
                      /\ pc'[d] = "commit" /\ req'[d].op = "create" =>
                           tx'[d].log = CreationLog /\ tx'[d].val["status"] = "todo"
                      /\ pc'[d] = "u_history" =>
                           \A f \in Fields \cup {Created} :
                             tx'[d].log[f] # NULL =>
                               tx'[d].log[f] = Diff(Base(d)', tx'[d].val)[f]
                      /\ pc'[d] = "commit" /\ req'[d].op = "update" =>
                           tx'[d].log = Diff(Base(d)', tx'[d].val)
    BY DEF LogOK
  <2> QED
    BY <1>1 DEF Bond, LogOK
<1>3. LockOK'
  BY <1>1 DEF Bond, LockOK
<1> QED
  BY <1>2, <1>3 DEF Bond

LEMMA BondCreate ==
  ASSUME Shape, Bond, NEW c \in Clients,
         CMember(c) \/ CAssignee(c) \/ CInsert(c) \/ CHistory(c)
  PROVE  Bond'
<1>1. req[c].op = "create"
  BY DEF CMember, CAssignee, CInsert, CHistory, Shape, RequestOK, CreateSteps
<1>2. CASE \E answer : Reject(c, answer)
  BY <1>2, BondReject
<1>3. CASE \/ pc[c] = "c_member" /\ Goto(c, "c_assignee") /\ UNCHANGED <<store, nextId, lock, tx>>
           \/ pc[c] = "c_assignee" /\ Goto(c, "c_insert") /\ UNCHANGED <<store, nextId, lock, tx>>
  BY <1>1, <1>3, BondPrivate DEF Goto, Shape, TypeOK, Holds
<1>4. CASE CInsert(c)
  <2>1. /\ tx'[c].log = NoLog /\ tx'[c].val = NewValues(req[c].cmd)
        /\ pc'[c] = "c_history" /\ UNCHANGED <<store, req, lock>>
        /\ \A d \in Clients \ {c} : pc'[d] = pc[d] /\ tx'[d] = tx[d]
    BY <1>4 DEF CInsert, Goto, Shape, TypeOK
  <2>2. NewValues(req[c].cmd)["status"] = "todo"
    BY FieldNames DEF NewValues
  <2> QED
    BY <1>1, <2>1, <2>2, BondPrivate DEF Holds
<1>5. CASE CHistory(c)
  <2>1. tx[c] \in Tx
    BY <1>5 DEF CHistory, Shape, SnapshotOK, TxSteps
  <2>2. /\ tx'[c].log = CreationLog /\ tx'[c].val = tx[c].val
        /\ pc'[c] = "commit" /\ UNCHANGED <<store, req, lock>>
        /\ \A d \in Clients \ {c} : pc'[d] = pc[d] /\ tx'[d] = tx[d]
    BY <1>5, <2>1 DEF CHistory, Goto, Shape, TypeOK, Tx
  <2>3. tx[c].val["status"] = "todo"
    BY <1>5 DEF CHistory, Bond, LogOK
  <2> QED
    BY <1>1, <2>2, <2>3, BondPrivate DEF Holds
<1> QED
  BY <1>2, <1>3, <1>4, <1>5 DEF CMember, CAssignee

LEMMA BondReads ==
  ASSUME Shape, Bond, NEW c \in Clients, Reads(c)
  PROVE  Bond'
<1> DEFINE id   == req[c].id
           base == rows[id][Len(rows[id])].val
           val  == Patched(base, req[c].cmd)
<1>1. req[c].op = "update"
  BY DEF Reads, Shape, RequestOK, UpdateSteps
<1>2. /\ tx'[c].id = id /\ tx'[c].view = Len(rows[id]) /\ tx'[c].val = val /\ tx'[c].log = NoLog
      /\ pc'[c] = (IF val = base THEN "commit" ELSE "u_write")
      /\ \A d \in Clients \ {c} : pc'[d] = pc[d] /\ tx'[d] = tx[d]
      /\ UNCHANGED <<store, req, lock>>
  BY DEF Reads, Goto, Shape, TypeOK
<1>3. Base(c)' = base
  BY <1>2 DEF Base
<1>4. pc'[c] = "commit" => tx'[c].log = Diff(Base(c)', tx'[c].val)
  BY <1>2, <1>3, DiffSame
<1>5. ~Holds(c)'
  BY <1>2 DEF Holds
<1>6. pc'[c] # "c_history" /\ pc'[c] # "u_history"
  BY <1>2
<1> HIDE DEF id, base, val
<1> QED
  BY <1>1, <1>2, <1>4, <1>5, <1>6, BondPrivate

LEMMA BondWrite ==
  ASSUME Shape, Bond, NEW c \in Clients, UWrite(c)
  PROVE  Bond'
<1>1. CASE Reject(c, "not_found")
  BY <1>1, BondReject
<1>2. CASE /\ lock' = [lock EXCEPT ![tx[c].id] = c]
           /\ tx[c].val # rows[tx[c].id][Len(rows[tx[c].id])].val
           /\ Goto(c, "u_history")
           /\ UNCHANGED <<store, nextId, tx>>
  <2>1. /\ pc[c] = "u_write" /\ pc[c] \in TxSteps /\ req[c].op = "update"
        /\ tx[c] \in Tx /\ tx[c].id \in TaskIds /\ lock[tx[c].id] = NULL
    BY DEF UWrite, Shape, RequestOK, SnapshotOK, UpdateSteps, TxSteps, Tx
  <2>2. tx[c].log = NoLog
    BY <2>1 DEF Shape, ProgressOK
  <2>3. \A f \in Fields \cup {Created} : tx[c].log[f] = NULL
    BY <2>2 DEF NoLog
  <2>4. /\ pc'[c] = "u_history" /\ lock'[tx[c].id] = c /\ UNCHANGED <<store, req, tx>>
        /\ \A d \in Clients \ {c} : pc'[d] = pc[d]
    BY <1>2, <2>1 DEF Goto, Shape, TypeOK
  <2>5. ASSUME NEW d \in Clients \ {c}, Holds(d)
        PROVE  lock'[tx[d].id] = lock[tx[d].id]
    <3>1. lock[tx[d].id] = d /\ d # NULL
      BY <2>5, ServiceAssumption DEF Bond, LockOK
    <3>2. tx[d].id # tx[c].id
      BY <2>1, <3>1
    <3>3. tx[d].id \in TaskIds
      BY <2>5 DEF Holds, Shape, SnapshotOK, TxSteps, Tx
    <3> QED
      BY <1>2, <3>2, <3>3 DEF Shape, TypeOK
  <2> QED
    BY <1>2, <2>1, <2>3, <2>4, <2>5, BondPrivate
<1> QED
  BY <1>1, <1>2 DEF UWrite

LEMMA BondHistory ==
  ASSUME Shape, Bond, NEW c \in Clients, UHistory(c)
  PROVE  Bond'
<1> DEFINE old  == Base(c)
           val  == tx[c].val
           todo == Unrecorded(c)
           f    == NextField(todo)
<1>1. pc[c] = "u_history" /\ pc[c] \in TxSteps /\ req[c].op = "update"
  BY DEF UHistory, Shape, RequestOK, UpdateSteps, TxSteps
<1>2. tx[c] \in Tx /\ tx[c].id \in TaskIds /\ old \in Values /\ val \in Values /\ tx[c].log \in Logs
  BY <1>1, BaseVersion
<1>3. f \in todo /\ f \in Fields /\ f \in Changed(old, val)
  BY <1>1, NextFieldIn DEF Shape, ProgressOK, Unrecorded, Changed
<1>4. /\ tx' = [tx EXCEPT ![c].log[f] = <<old[f], val[f]>>]
      /\ Goto(c, IF todo = {f} THEN "commit" ELSE "u_history")
      /\ UNCHANGED <<store, nextId, lock>>
  BY DEF UHistory, Base, Unrecorded
<1>5. tx'[c] = [tx[c] EXCEPT !.log = [@ EXCEPT ![f] = <<old[f], val[f]>>]]
  BY <1>4 DEF Shape, TypeOK
<1>6. /\ tx'[c].id = tx[c].id /\ tx'[c].view = tx[c].view /\ tx'[c].val = val
      /\ tx'[c].log = [tx[c].log EXCEPT ![f] = <<old[f], val[f]>>]
  BY <1>2, <1>5 DEF Tx
<1>7. /\ UNCHANGED <<store, req, lock>>
      /\ pc'[c] = IF todo = {f} THEN "commit" ELSE "u_history"
      /\ \A d \in Clients \ {c} : pc'[d] = pc[d] /\ tx'[d] = tx[d]
  BY <1>4 DEF Goto, Shape, TypeOK
<1>8. Base(c)' = old
  BY <1>6, <1>7 DEF Base
<1> DEFINE log  == tx[c].log
           log2 == tx'[c].log
           diff == Diff(old, val)
<1>9. \A g \in Fields \cup {Created} : log[g] # NULL => log[g] = diff[g]
  BY <1>1 DEF Bond, LogOK
<1>10. diff[f] = <<old[f], val[f]>>
  BY <1>3 DEF Diff
<1>11. log2 = [g \in Fields \cup {Created} |-> IF g = f THEN diff[f] ELSE log[g]]
  BY <1>2, <1>3, <1>6, <1>10 DEF Logs
<1>12. \A g \in Fields \cup {Created} : log2[g] # NULL => log2[g] = diff[g]
  BY <1>9, <1>11
<1>13. todo = {f} => log2 = diff
  <2> SUFFICES ASSUME todo = {f} PROVE log2 = diff
    OBVIOUS
  <2>1. ASSUME NEW g \in Fields \cup {Created} PROVE log2[g] = diff[g]
    <3>1. CASE g = f
      BY <1>11, <3>1
    <3>2. CASE g # f /\ log[g] # NULL
      BY <1>9, <1>11, <3>2
    <3>3. CASE g # f /\ log[g] = NULL
      <4>1. g \notin Changed(old, val)
        BY <3>3 DEF Unrecorded
      <4>2. diff[g] = NULL
        BY <4>1 DEF Diff
      <4> QED
        BY <1>11, <3>3, <4>2
    <3> QED
      BY <3>1, <3>2, <3>3
  <2>2. diff = [g \in Fields \cup {Created} |-> diff[g]]
    BY DEF Diff
  <2>3. log2 = [g \in Fields \cup {Created} |-> log2[g]]
    BY <1>11
  <2> HIDE DEF log2, diff
  <2> QED
    BY <2>1, <2>2, <2>3
<1>14. lock[tx[c].id] = c /\ val # rows[tx[c].id][Len(rows[tx[c].id])].val
  BY <1>1 DEF Bond, LockOK, Holds
<1>15. \A g \in Fields \cup {Created} :
         tx'[c].log[g] # NULL => tx'[c].log[g] = Diff(Base(c)', tx'[c].val)[g]
  BY <1>6, <1>8, <1>12
<1>16. pc'[c] = "commit" => tx'[c].log = Diff(Base(c)', tx'[c].val)
  BY <1>6, <1>7, <1>8, <1>13
<1>17. /\ lock'[tx'[c].id] = c
       /\ tx'[c].val # rows[tx'[c].id][Len(rows[tx'[c].id])].val
  BY <1>6, <1>7, <1>14
<1>18. pc'[c] \in {"commit", "u_history"}
  BY <1>7
<1> HIDE DEF old, val, todo, f, log, log2, diff
<1> QED
  BY <1>1, <1>7, <1>15, <1>16, <1>17, <1>18, BondPrivate

(* What the commit of c writes over is what no one else can be about to      *)
(* write over: the other holders of locks hold other rows.                   *)
LEMMA BondCommit ==
  ASSUME Shape, Ids, Bond, NEW c \in Clients, NEW answer \in Replies,
         pc[c] = "commit", Apply(c), Finish(c, answer)
  PROVE  Bond'
<1>1. ASSUME NEW d \in Clients, pc'[d] # "idle"
      PROVE  /\ d # c /\ pc'[d] = pc[d] /\ tx'[d] = tx[d] /\ req'[d] = req[d]
             /\ pc[d] \in TxSteps /\ req[d].op = "update" => Base(d)' = Base(d)
  <2>1. d # c /\ pc'[d] = pc[d] /\ tx'[d] = tx[d] /\ req'[d] = req[d]
    BY <1>1 DEF Finish, Shape, TypeOK
  <2>2. ASSUME pc[d] \in TxSteps, req[d].op = "update" PROVE Base(d)' = Base(d)
    <3>1. tx[d].id \in TaskIds /\ tx[d].view \in DOMAIN rows[tx[d].id]
      BY <2>2 DEF Shape, SnapshotOK, Tx
    <3> DEFINE id == tx[d].id
    <3>2. /\ rows[id] \in Seq(Row)
          /\ \/ rows'[id] = rows[id]
             \/ rows'[id] = Append(rows[id], Written(c)) /\ Written(c) \in Row
      BY <3>1, AppliedTo
    <3>3. rows'[id][tx[d].view] = rows[id][tx[d].view]
      BY <3>1, <3>2, AppendTo
    <3> QED
      BY <2>1, <3>3 DEF Base
  <2> QED
    BY <2>1, <2>2
<1>2. LogOK'
  <2> SUFFICES ASSUME NEW d \in Clients, pc'[d] # "idle"
               PROVE  /\ pc'[d] = "c_history" =>
                           tx'[d].log = NoLog /\ tx'[d].val["status"] = "todo"
                      /\ pc'[d] = "commit" /\ req'[d].op = "create" =>
                           tx'[d].log = CreationLog /\ tx'[d].val["status"] = "todo"
                      /\ pc'[d] = "u_history" =>
                           \A f \in Fields \cup {Created} :
                             tx'[d].log[f] # NULL =>
                               tx'[d].log[f] = Diff(Base(d)', tx'[d].val)[f]
                      /\ pc'[d] = "commit" /\ req'[d].op = "update" =>
                           tx'[d].log = Diff(Base(d)', tx'[d].val)
    BY DEF LogOK
  <2>1. pc[d] = "u_history" => req[d].op = "update"
    BY DEF Shape, RequestOK, UpdateSteps
  <2> QED
    BY <1>1, <2>1 DEF Bond, LogOK, TxSteps
<1>3. LockOK'
  <2> SUFFICES ASSUME NEW d \in Clients, Holds(d)'
               PROVE  /\ lock'[tx'[d].id] = d
                      /\ tx'[d].val # rows'[tx'[d].id][Len(rows'[tx'[d].id])].val
    BY DEF LockOK
  <2>1. d # c /\ Holds(d) /\ tx'[d] = tx[d]
    BY <1>1 DEF Holds
  <2>2. /\ pc[d] \in TxSteps /\ req[d].op = "update" /\ tx[d].id \in TaskIds
        /\ tx[d].view \in DOMAIN rows[tx[d].id]
    BY <2>1 DEF Holds, Shape, RequestOK, SnapshotOK, UpdateSteps, TxSteps, Tx
  <2>3. /\ lock[tx[d].id] = d
        /\ tx[d].val # rows[tx[d].id][Len(rows[tx[d].id])].val
    BY <2>1 DEF Bond, LockOK
  <2>4. lock'[tx[d].id] = d
    BY <2>1, <2>2, <2>3 DEF Finish, Released
  <2>5. rows'[tx[d].id] = rows[tx[d].id]
    <3>1. CASE tx[c].log = NoLog
      BY <3>1 DEF Apply
    <3>2. CASE tx[c].log # NoLog /\ req[c].op = "update"
      <4>1. lock[tx[c].id] = c
        BY <3>2 DEF Bond, LockOK, Holds
      <4> QED
        BY <2>1, <2>2, <2>3, <4>1, AppliedTo
    <3>3. CASE req[c].op = "create"
      <4>1. rows[tx[c].id] = <<>>
        BY <3>3 DEF Ids, FreshIds, TxSteps
      <4>2. rows[tx[d].id] # <<>>
        BY <2>2
      <4> QED
        BY <2>2, <4>1, <4>2, AppliedTo
    <3>4. req[c].op \in {"create", "update"}
      <4>1. req[c] \in Requests
        BY Applied
      <4> QED
        BY <4>1, ServiceAssumption DEF IsCreate, IsUpdate
    <3> QED
      BY <3>1, <3>2, <3>3, <3>4
  <2> QED
    BY <2>1, <2>3, <2>4, <2>5
<1> QED
  BY <1>2, <1>3 DEF Bond

LEMMA BondNext == Shape /\ Ids /\ Bond /\ [Next]_vars => Bond'
<1> SUFFICES ASSUME Shape, Ids, Bond, [Next]_vars PROVE Bond'
  OBVIOUS
<1>1. ASSUME NEW c \in Clients, Arrive(c) PROVE Bond'
  <2>1. /\ UNCHANGED <<store, lock, tx>> /\ pc'[c] \in {"c_member", "u_read"}
        /\ \A d \in Clients \ {c} : pc'[d] = pc[d] /\ req'[d] = req[d]
    BY <1>1 DEF Arrive, Shape, TypeOK
  <2>2. LogOK'
    BY <2>1 DEF Bond, LogOK, Base
  <2>3. LockOK'
    BY <2>1 DEF Bond, LockOK, Holds
  <2> QED
    BY <2>2, <2>3 DEF Bond
<1>2. ASSUME NEW c \in Clients,
             CMember(c) \/ CAssignee(c) \/ CInsert(c) \/ CHistory(c)
      PROVE  Bond'
  BY <1>2, BondCreate
<1>3. ASSUME NEW c \in Clients, URead(c) PROVE Bond'
  BY <1>3, UReadOutcomes, BondReads, BondReject
<1>4. ASSUME NEW c \in Clients, UWrite(c) \/ UHistory(c) PROVE Bond'
  BY <1>4, BondWrite, BondHistory
<1>5. ASSUME NEW c \in Clients, Commit(c) \/ CommitUnknown(c) PROVE Bond'
  BY <1>5, BondCommit DEF Commit, CommitUnknown, Replies
<1>6. ASSUME NEW c \in Clients, Fail(c) PROVE Bond'
  BY <1>6, BondReject DEF Fail
<1>7. CASE Crash
  BY <1>7 DEF Crash, Bond, LogOK, LockOK, Holds
<1>8. ASSUME NEW t \in Teams, NEW u \in Users, Join(t, u) PROVE Bond'
  BY <1>8 DEF Join, Bond, LogOK, LockOK, Holds, Base
<1>9. CASE UNCHANGED vars
  <2>1. UNCHANGED <<store, lock, pc, req, tx>>
    BY <1>9 DEF vars
  <2>2. LogOK'
    BY <2>1 DEF Bond, LogOK, Base
  <2>3. LockOK'
    BY <2>1 DEF Bond, LockOK, Holds
  <2> QED
    BY <2>2, <2>3 DEF Bond
<1> QED
  BY <1>1, <1>2, <1>3, <1>4, <1>5, <1>6, <1>7, <1>8, <1>9 DEF Next, Step

LEMMA BondInvariant == Spec => []Bond
<1>1. Init => Bond
  BY DEF Init, Bond, LogOK, LockOK, Holds
<1> QED
  BY <1>1, BondNext, ShapeInvariant, IdsInvariant, PTL DEF Spec

-----------------------------------------------------------------------------
(* What follows for the tables: every step leaves them alone, lets a member  *)
(* join, or records one version together with its entries.                   *)

Recorded(id, row, group) ==
  /\ rows' = [rows EXCEPT ![id] = Append(@, row)]
  /\ history' = [history EXCEPT ![id] = Append(@, group)]
  /\ members' = members
  /\ row \in Row /\ WellTyped(row.val) /\ group \in Entries
  /\ group.by \in members[row.team]
  /\ row.val["assignee_id"] \in members[row.team] \cup {NULL}

Creation(id, row, group) ==
  /\ rows[id] = <<>>
  /\ group = [by |-> row.creator, log |-> CreationLog]
  /\ row.val["status"] = "todo"

Revision(id, row, group) ==
  /\ row.val # rows[id][Len(rows[id])].val
  /\ \E k \in DOMAIN rows[id] :
       /\ row.val # rows[id][k].val
       /\ row.team = rows[id][k].team /\ row.creator = rows[id][k].creator
       /\ group.log = Diff(rows[id][k].val, row.val)

LEMMA CommitRecords ==
  ASSUME Shape, Ids, Membership, Bond, NEW c \in Clients, pc[c] = "commit", Apply(c)
  PROVE  \/ UNCHANGED store
         \/ \E id \in TaskIds, row \in Row, group \in Entries :
              /\ Recorded(id, row, group)
              /\ Creation(id, row, group) \/ Revision(id, row, group)
<1> DEFINE id    == tx[c].id
           row   == Written(c)
           group == [by |-> req[c].by, log |-> tx[c].log]
<1>1. CASE tx[c].log = NoLog
  BY <1>1 DEF Apply
<1>2. CASE tx[c].log # NoLog
  <2>1. /\ rows' = [rows EXCEPT ![id] = Append(@, row)]
        /\ history' = [history EXCEPT ![id] = Append(@, group)]
        /\ members' = members
    BY <1>2 DEF Apply
  <2>2. /\ id \in TaskIds /\ row \in Row /\ WellTyped(row.val)
        /\ req[c] \in Requests /\ req[c].by \in Users /\ tx[c].log \in Logs
    BY Applied DEF Tx
  <2>3. group \in Entries
    BY <2>2 DEF Entries
  <2>4. /\ row.team = TeamOf(c) /\ row.val = tx[c].val
        /\ row.creator = IF req[c].op = "create" THEN req[c].by ELSE rows[id][1].creator
    BY WrittenTeam
  <2>5. /\ req[c].by \in members[TeamOf(c)]
        /\ tx[c].val["assignee_id"] \in members[TeamOf(c)] \cup {NULL}
    BY DEF Membership, ActorOK, AssigneeOK, TxSteps
  <2>6. Recorded(id, row, group)
    <3>1. group.by \in members[row.team]
      BY <2>4, <2>5
    <3>2. row.val["assignee_id"] \in members[row.team] \cup {NULL}
      BY <2>4, <2>5
    <3> HIDE DEF id, row, group
    <3> QED
      BY <2>1, <2>2, <2>3, <3>1, <3>2 DEF Recorded
  <2>7. CASE req[c].op = "create"
    <3>1. rows[id] = <<>>
      BY <2>7 DEF Ids, FreshIds, TxSteps
    <3>2. tx[c].log = CreationLog /\ row.val["status"] = "todo"
      BY <2>4, <2>7 DEF Bond, LogOK
    <3>3. Creation(id, row, group)
      BY <2>4, <2>7, <3>1, <3>2 DEF Creation
    <3> QED
      BY <2>2, <2>3, <2>6, <3>3
  <2>8. CASE req[c].op = "update"
    <3>1. tx[c].view \in DOMAIN rows[id] /\ tx[c].log = Diff(Base(c), tx[c].val)
      BY <2>8 DEF Shape, SnapshotOK, Bond, LogOK, TxSteps
    <3>2. tx[c].val # Base(c)
      BY <1>2, <3>1, DiffSame
    <3>3. tx[c].val # rows[id][Len(rows[id])].val
      BY <1>2, <2>8 DEF Bond, LockOK, Holds
    <3>4. /\ rows[id][tx[c].view].team = rows[id][1].team
          /\ rows[id][tx[c].view].creator = rows[id][1].creator
      BY <2>2, <3>1 DEF Membership, TeamFixed
    <3>5. row.team = rows[id][tx[c].view].team /\ row.creator = rows[id][tx[c].view].creator
      BY <2>4, <2>8, <3>4 DEF TeamOf
    <3>6. Base(c) = rows[id][tx[c].view].val /\ group.log = tx[c].log
      BY DEF Base
    <3>7. Revision(id, row, group)
      <4> HIDE DEF id, row, group
      <4> QED
        BY <2>4, <3>1, <3>2, <3>3, <3>5, <3>6 DEF Revision
    <3> QED
      BY <2>2, <2>3, <2>6, <3>7
  <2> QED
    BY <2>2, <2>7, <2>8, ServiceAssumption DEF IsCreate, IsUpdate
<1> QED
  BY <1>1, <1>2

LEMMA StoreSteps ==
  ASSUME Shape, Ids, Membership, Bond, [Next]_vars
  PROVE  \/ UNCHANGED store
         \/ UNCHANGED <<rows, history>> /\ \E t \in Teams, u \in Users : Join(t, u)
         \/ \E id \in TaskIds, row \in Row, group \in Entries :
              /\ Recorded(id, row, group)
              /\ Creation(id, row, group) \/ Revision(id, row, group)
<1>1. ASSUME NEW c \in Clients, Commit(c) \/ CommitUnknown(c)
      PROVE  \/ UNCHANGED store
             \/ \E id \in TaskIds, row \in Row, group \in Entries :
                  /\ Recorded(id, row, group)
                  /\ Creation(id, row, group) \/ Revision(id, row, group)
  BY <1>1, CommitRecords DEF Commit, CommitUnknown
<1>2. ASSUME NEW c \in Clients,
             \/ Arrive(c) \/ CMember(c) \/ CAssignee(c) \/ CInsert(c)
             \/ CHistory(c) \/ URead(c) \/ UWrite(c) \/ UHistory(c) \/ Fail(c)
      PROVE  UNCHANGED store
  BY <1>2 DEF Arrive, CMember, CAssignee, CInsert, CHistory, URead, UWrite,
              UHistory, Fail, Reject
<1>3. CASE Crash
  BY <1>3 DEF Crash
<1>4. ASSUME NEW t \in Teams, NEW u \in Users, Join(t, u)
      PROVE  UNCHANGED <<rows, history>>
  BY <1>4 DEF Join
<1>5. CASE UNCHANGED vars
  BY <1>5 DEF vars
<1> QED
  BY <1>1, <1>2, <1>3, <1>4, <1>5 DEF Next, Step

(* The audit trail of a task, version by version.                            *)
Trail == HistoryPairsRows /\ LogExplainsSomeBase /\ NoEmptyRevision

LEMMA TrailRecorded ==
  ASSUME Shape, Trail, NEW id \in TaskIds, NEW row \in Row, NEW group \in Entries,
         Recorded(id, row, group), Creation(id, row, group) \/ Revision(id, row, group),
         NEW i \in TaskIds
  PROVE  /\ Len(history'[i]) = Len(rows'[i])
         /\ \A n \in DOMAIN history'[i] :
              IF n = 1
              THEN /\ history'[i][n].log = CreationLog
                   /\ history'[i][n].by = rows'[i][n].creator
              ELSE history'[i][n].log[Created] = NULL
         /\ \A n \in 2..Len(rows'[i]) :
              /\ \E k \in 1..(n - 1) :
                   history'[i][n].log = Diff(rows'[i][k].val, rows'[i][n].val)
              /\ rows'[i][n] # rows'[i][n - 1]
<1>1. /\ rows[i] \in Seq(Row) /\ history[i] \in Seq(Entries)
      /\ Len(history[i]) = Len(rows[i])
  BY DEF Shape, TypeOK, Trail, HistoryPairsRows
<1>2. /\ \A n \in DOMAIN history[i] :
           IF n = 1
           THEN /\ history[i][n].log = CreationLog
                /\ history[i][n].by = rows[i][n].creator
           ELSE history[i][n].log[Created] = NULL
      /\ \A n \in 2..Len(rows[i]) :
           /\ \E k \in 1..(n - 1) :
                history[i][n].log = Diff(rows[i][k].val, rows[i][n].val)
           /\ rows[i][n] # rows[i][n - 1]
  BY DEF Trail, HistoryPairsRows, LogExplainsSomeBase, NoEmptyRevision
<1>3. CASE i # id
  <2>1. rows'[i] = rows[i] /\ history'[i] = history[i]
    BY <1>3 DEF Recorded, Shape, TypeOK
  <2> QED
    BY <1>1, <1>2, <2>1
<1>4. CASE i = id
  <2> DEFINE m == Len(rows[i])
  <2>1. rows'[i] = Append(rows[i], row) /\ history'[i] = Append(history[i], group)
    BY <1>4 DEF Recorded, Shape, TypeOK
  <2>2. /\ m \in Nat /\ Len(rows'[i]) = m + 1 /\ Len(history'[i]) = m + 1
        /\ DOMAIN rows[i] = 1..m /\ DOMAIN history[i] = 1..m
        /\ DOMAIN rows'[i] = 1..(m + 1) /\ DOMAIN history'[i] = 1..(m + 1)
    BY <1>1, <2>1
  <2>3. /\ \A n \in 1..m : rows'[i][n] = rows[i][n]
        /\ rows'[i][m + 1] = row
    BY <1>1, <2>1
  <2>4. /\ \A n \in 1..m : history'[i][n] = history[i][n]
        /\ history'[i][m + 1] = group
    BY <1>1, <2>1
  <2> HIDE DEF m
  <2>5. IF m + 1 = 1
        THEN group.log = CreationLog /\ group.by = row.creator
        ELSE group.log[Created] = NULL
    <3>1. CASE Creation(id, row, group)
      <4>1. m = 0
        BY <1>4, <3>1 DEF Creation, m
      <4> QED
        BY <3>1, <4>1 DEF Creation
    <3>2. CASE Revision(id, row, group)
      <4>1. m # 0
        BY <1>4, <2>2, <3>2 DEF Revision
      <4>2. group.log[Created] = NULL
        BY <3>2, DiffCreated DEF Revision
      <4> QED
        BY <2>2, <4>1, <4>2
    <3> QED
      BY <3>1, <3>2
  <2>6. m + 1 >= 2 =>
          /\ \E k \in 1..m : group.log = Diff(rows[i][k].val, row.val)
          /\ row # rows[i][m]
    <3>1. CASE Creation(id, row, group)
      <4>1. m = 0
        BY <1>4, <3>1 DEF Creation, m
      <4> QED
        BY <4>1
    <3>2. CASE Revision(id, row, group)
      <4>1. \E k \in 1..m : group.log = Diff(rows[i][k].val, row.val)
        BY <1>4, <2>2, <3>2 DEF Revision
      <4>2. row.val # rows[i][m].val
        BY <1>4, <3>2 DEF Revision, m
      <4> QED
        BY <4>1, <4>2
    <3> QED
      BY <3>1, <3>2
  <2>7. ASSUME NEW n \in DOMAIN history'[i]
        PROVE  IF n = 1
               THEN /\ history'[i][n].log = CreationLog
                    /\ history'[i][n].by = rows'[i][n].creator
               ELSE history'[i][n].log[Created] = NULL
    <3>1. CASE n \in 1..m
      BY <1>2, <2>2, <2>3, <2>4, <3>1
    <3>2. CASE n = m + 1
      BY <2>3, <2>4, <2>5, <3>2
    <3> QED
      BY <2>2, <3>1, <3>2
  <2>8. ASSUME NEW n \in 2..Len(rows'[i])
        PROVE  /\ \E k \in 1..(n - 1) :
                    history'[i][n].log = Diff(rows'[i][k].val, rows'[i][n].val)
               /\ rows'[i][n] # rows'[i][n - 1]
    <3>1. CASE n \in 2..m
      <4>1. PICK k \in 1..(n - 1) : history[i][n].log = Diff(rows[i][k].val, rows[i][n].val)
        BY <1>2, <3>1 DEF m
      <4>2. rows[i][n] # rows[i][n - 1]
        BY <1>2, <3>1 DEF m
      <4>3. n \in 1..m /\ n - 1 \in 1..m /\ k \in 1..m
        BY <2>2, <3>1
      <4> QED
        BY <2>3, <2>4, <4>1, <4>2, <4>3
    <3>2. CASE n = m + 1
      <4>1. m \in 1..m /\ n - 1 = m
        BY <2>2, <3>2
      <4> QED
        BY <2>2, <2>3, <2>4, <2>6, <3>2, <4>1
    <3> QED
      BY <2>2, <3>1, <3>2
  <2> QED
    BY <2>2, <2>7, <2>8
<1> QED
  BY <1>3, <1>4

LEMMA TrailNext ==
  ASSUME Shape, Ids, Membership, Bond, Trail, [Next]_vars
  PROVE  Trail'
<1>1. CASE UNCHANGED <<rows, history>>
  BY <1>1 DEF Trail, HistoryPairsRows, LogExplainsSomeBase, NoEmptyRevision
<1>2. ASSUME NEW id \in TaskIds, NEW row \in Row, NEW group \in Entries,
             Recorded(id, row, group), Creation(id, row, group) \/ Revision(id, row, group)
      PROVE  Trail'
  BY <1>2, TrailRecorded DEF Trail, HistoryPairsRows, LogExplainsSomeBase, NoEmptyRevision
<1> QED
  BY <1>1, <1>2, StoreSteps

LEMMA TrailInvariant == Spec => []Trail
<1>1. Init => Trail
  BY DEF Init, Trail, HistoryPairsRows, LogExplainsSomeBase, NoEmptyRevision
<1>2. Shape /\ Ids /\ Membership /\ Bond /\ Trail /\ [Next]_vars => Trail'
  BY TrailNext
<1> QED
  BY <1>1, <1>2, ShapeInvariant, IdsInvariant, MembershipInvariant, BondInvariant, PTL DEF Spec

(* A task and its audit trail are one: no failure, unknown commit or crash   *)
(* leaves a row without its entries or entries without their row, and no id  *)
(* is created twice.                                                         *)
THEOREM TaskAndTrailCommitTogether == Spec => []HistoryPairsRows
<1>1. Trail => HistoryPairsRows
  BY DEF Trail
<1> QED
  BY <1>1, TrailInvariant, PTL

(* The entries of an update explain what it wrote, completely, by a version  *)
(* that was committed before it.                                             *)
THEOREM EntriesExplainTheRow == Spec => []LogExplainsSomeBase
<1>1. Trail => LogExplainsSomeBase
  BY DEF Trail
<1> QED
  BY <1>1, TrailInvariant, PTL

(* No update without effect is recorded.                                     *)
THEOREM EveryRevisionChanges == Spec => []NoEmptyRevision
<1>1. Trail => NoEmptyRevision
  BY DEF Trail
<1> QED
  BY <1>1, TrailInvariant, PTL

-----------------------------------------------------------------------------
(* Refinement.                                                               *)

(* The ledger speaks of the same data.                                       *)
LEMMA LedgerData ==
  /\ Ledger!Row = Row /\ Ledger!Values = Values /\ Ledger!CreationLog = CreationLog
  /\ \A val : Ledger!WellTyped(val) <=> WellTyped(val)
  /\ \A v, w : Ledger!Diff(v, w) = Diff(v, w)
<1>1. Ledger!Values = Values
  BY DEF Ledger!Values, Ledger!Fields, Ledger!AnyColumn, Ledger!Status,
         Values, Fields, AnyColumn, Status
<1>2. Ledger!Row = Row
  BY <1>1 DEF Ledger!Row, Row
<1>3. Ledger!CreationLog = CreationLog
  BY DEF Ledger!CreationLog, Ledger!NoLog, Ledger!Fields, Ledger!Created,
         CreationLog, NoLog, Fields, Created
<1>4. \A val : Ledger!WellTyped(val) <=> WellTyped(val)
  BY DEF Ledger!WellTyped, Ledger!Column, Ledger!Fields, Ledger!Status,
         WellTyped, Column, Fields, Status
<1>5. \A v, w : Ledger!Diff(v, w) = Diff(v, w)
  BY DEF Ledger!Diff, Ledger!Changed, Ledger!Fields, Ledger!Created,
         Diff, Changed, Fields, Created
<1> QED
  BY <1>1, <1>2, <1>3, <1>4, <1>5

LEMMA LedgerRecorded ==
  ASSUME Shape, NEW id \in TaskIds, NEW row \in Row, NEW group \in Entries,
         Recorded(id, row, group)
  PROVE  /\ Ledger!Added(id) = row
         /\ \A by, log : group = [by |-> by, log |-> log] => Ledger!Record(id, by, log)
         /\ rows[id] \in Seq(Row)
<1>1. rows[id] \in Seq(Row) /\ rows'[id] = Append(rows[id], row)
  BY DEF Recorded, Shape, TypeOK
<1>2. Ledger!Added(id) = row /\ rows'[id] # <<>>
  BY <1>1 DEF Ledger!Added
<1>3. \A by, log : group = [by |-> by, log |-> log] => Ledger!Record(id, by, log)
  BY <1>2 DEF Recorded, Ledger!Record
<1> QED
  BY <1>1, <1>2, <1>3

LEMMA LedgerStep ==
  ASSUME Shape, Ids, Membership, Bond, [Next]_vars
  PROVE  [Ledger!Next]_(Ledger!vars)
<1>1. CASE UNCHANGED store
  BY <1>1 DEF Ledger!vars
<1>2. CASE UNCHANGED <<rows, history>> /\ \E t \in Teams, u \in Users : Join(t, u)
  BY <1>2 DEF Join, Ledger!Next, Ledger!Join
<1>3. ASSUME NEW id \in TaskIds, NEW row \in Row, NEW group \in Entries,
             Recorded(id, row, group), Creation(id, row, group)
      PROVE  Ledger!Create(id)
  <2>1. /\ Ledger!Added(id) = row
        /\ Ledger!Record(id, row.creator, CreationLog)
    BY <1>3, LedgerRecorded DEF Creation
  <2>2. row.creator \in members[row.team]
    BY <1>3 DEF Recorded, Creation
  <2>3. row.val["assignee_id"] \in Ledger!Assignable(row.team)
    BY <1>3 DEF Recorded, Ledger!Assignable
  <2> QED
    BY <1>3, <2>1, <2>2, <2>3, LedgerData DEF Recorded, Creation, Ledger!Create
<1>4. ASSUME NEW id \in TaskIds, NEW row \in Row, NEW group \in Entries,
             Recorded(id, row, group), Revision(id, row, group)
      PROVE  Ledger!Revise(id)
  <2>1. PICK k \in DOMAIN rows[id] :
          /\ row.val # rows[id][k].val
          /\ row.team = rows[id][k].team /\ row.creator = rows[id][k].creator
          /\ group.log = Diff(rows[id][k].val, row.val)
    BY <1>4 DEF Revision
  <2>2. group = [by |-> group.by, log |-> Diff(rows[id][k].val, row.val)]
    BY <2>1 DEF Entries
  <2>3. Ledger!Added(id) = row /\ Ledger!Record(id, group.by, Diff(rows[id][k].val, row.val))
    BY <1>4, <2>2, LedgerRecorded
  <2>4. group.by \in members[rows[id][k].team]
    BY <1>4, <2>1 DEF Recorded
  <2>5. row.val \in Values /\ WellTyped(row.val)
    BY <1>4 DEF Recorded, Row
  <2>6. row = [rows[id][k] EXCEPT !.val = row.val]
    <3>1. rows[id][k] \in Row
      BY <2>1, Version
    <3> QED
      BY <2>1, <3>1 DEF Row
  <2>7. row # rows[id][Len(rows[id])]
    BY <1>4 DEF Revision
  <2>8. row.val["assignee_id"] \in Ledger!Assignable(rows[id][k].team)
    BY <1>4, <2>1 DEF Recorded, Ledger!Assignable
  <2> QED
    BY <2>1, <2>3, <2>4, <2>5, <2>6, <2>7, <2>8, LedgerData DEF Ledger!Revise
<1> QED
  BY <1>1, <1>2, <1>3, <1>4, StoreSteps DEF Ledger!Next

(* The service implements the ledger: with all its interleavings, locks,     *)
(* failures and crashes, what the tables show is a task created whole or     *)
(* revised whole, by a member, with the entries that explain it.             *)
THEOREM ImplementsLedger == Spec => Refinement
<1>1. Init => Ledger!Init
  BY DEF Init, Ledger!Init
<1>2. Shape /\ Ids /\ Membership /\ Bond /\ [Next]_vars => [Ledger!Next]_(Ledger!vars)
  BY LedgerStep
<1> QED
  BY <1>1, <1>2, ShapeInvariant, IdsInvariant, MembershipInvariant, BondInvariant, PTL
     DEF Spec, Refinement, Ledger!Spec

-----------------------------------------------------------------------------
(* Durability of what was acknowledged.                                      *)

(* What a transaction is about to commit is what its request asked for.      *)
Asked(c) == IF req[c].op = "create" THEN NewValues(req[c].cmd) ELSE Patched(Base(c), req[c].cmd)

IntentOK == \A c \in Clients : pc[c] \in TxSteps => tx[c].val = Asked(c)

LEMMA PatchedTwice ==
  ASSUME NEW v, NEW cmd
  PROVE  Patched(Patched(v, cmd), cmd) = Patched(v, cmd)
BY DEF Patched

(* A pair is an entry, NULL is none.                                         *)
LEMMA PairNotNull ==
  ASSUME NEW v \in Values, NEW w \in Values, NEW f \in Fields
  PROVE  <<v[f], w[f]>> # NULL
<1>1. v[f] \in AnyColumn /\ w[f] \in AnyColumn
  BY DEF Values
<1> QED
  BY <1>1, DataAssumption DEF AnyColumn

(* A row without entries did not change.                                     *)
LEMMA NoLogNoChange ==
  ASSUME NEW v \in Values, NEW w \in Values, Diff(v, w) = NoLog
  PROVE  v = w
<1> SUFFICES ASSUME v # w PROVE FALSE
  OBVIOUS
<1>1. PICK f \in Fields : f \in Changed(v, w)
  BY ChangedField DEF Changed
<1>2. Diff(v, w)[f] = <<v[f], w[f]>>
  BY <1>1 DEF Diff
<1>3. NoLog[f] = NULL
  BY DEF NoLog
<1> QED
  BY <1>2, <1>3, PairNotNull

LEMMA CreationIsLogged == CreationLog # NoLog
<1>1. CreationLog[Created] = <<NULL, "todo">> /\ NoLog[Created] = NULL
  BY DEF CreationLog, NoLog
<1>2. <<NULL, "todo">> # NULL
  BY DataAssumption DEF Status
<1> QED
  BY <1>1, <1>2

(* Versions stay where they are.                                             *)
LEMMA AppendOnly ==
  ASSUME Shape, Ids, Membership, Bond, [Next]_vars,
         NEW id \in TaskIds, NEW n \in DOMAIN rows[id]
  PROVE  n \in DOMAIN rows'[id] /\ rows'[id][n] = rows[id][n]
<1>1. rows[id] \in Seq(Row) /\ rows \in [TaskIds -> Seq(Row)]
  BY DEF Shape, TypeOK
<1>2. CASE rows'[id] = rows[id]
  BY <1>2
<1>3. ASSUME NEW row \in Row, rows'[id] = Append(rows[id], row)
      PROVE  n \in DOMAIN rows'[id] /\ rows'[id][n] = rows[id][n]
  BY <1>1, <1>3, AppendTo
<1>4. rows'[id] = rows[id] \/ \E row \in Row : rows'[id] = Append(rows[id], row)
  BY <1>1, StoreSteps DEF Recorded
<1> QED
  BY <1>2, <1>3, <1>4

(* A step of c from one statement of its transaction to the next.            *)
LEMMA IntentKept ==
  ASSUME Shape, Ids, Membership, Bond, [Next]_vars, IntentOK,
         NEW c \in Clients, pc[c] \in TxSteps, req'[c] = req[c],
         tx'[c].id = tx[c].id, tx'[c].view = tx[c].view, tx'[c].val = tx[c].val
  PROVE  tx'[c].val = Asked(c)'
<1>1. tx[c].val = Asked(c)
  BY DEF IntentOK
<1>2. CASE req[c].op = "create"
  BY <1>1, <1>2 DEF Asked
<1>3. CASE req[c].op # "create"
  <2>1. tx[c].id \in TaskIds /\ tx[c].view \in DOMAIN rows[tx[c].id]
    BY <1>3, OpenUpdate
  <2>2. Base(c)' = Base(c)
    BY <2>1, AppendOnly DEF Base
  <2> QED
    BY <1>1, <1>3, <2>2 DEF Asked
<1> QED
  BY <1>2, <1>3

(* What a step does to a client and its transaction.                         *)
LEMMA ClientSteps ==
  ASSUME Shape, [Next]_vars, NEW c \in Clients, pc'[c] \in TxSteps
  PROVE  \/ CInsert(c) \/ Reads(c)
         \/ /\ pc[c] \in TxSteps /\ req'[c] = req[c]
            /\ tx'[c].id = tx[c].id /\ tx'[c].view = tx[c].view /\ tx'[c].val = tx[c].val
<1> DEFINE Kept == /\ pc[c] \in TxSteps /\ req'[c] = req[c]
                   /\ tx'[c].id = tx[c].id /\ tx'[c].view = tx[c].view /\ tx'[c].val = tx[c].val
<1> USE DEF Shape, TypeOK
<1>1. ASSUME NEW d \in Clients, NEW answer, Reject(d, answer) PROVE Kept
  BY <1>1 DEF Reject, Finish, TxSteps
<1>2. ASSUME NEW d \in Clients, Arrive(d) PROVE Kept
  BY <1>2 DEF Arrive, TxSteps
<1>3. ASSUME NEW d \in Clients, CMember(d) \/ CAssignee(d) PROVE Kept
  BY <1>1, <1>3 DEF CMember, CAssignee, Goto, TxSteps
<1>4. ASSUME NEW d \in Clients, CInsert(d) PROVE CInsert(c) \/ Kept
  BY <1>4 DEF CInsert, Goto
<1>5. ASSUME NEW d \in Clients, Fail(d) PROVE Kept
  BY <1>1, <1>5 DEF Fail
<1>6. ASSUME NEW d \in Clients, CHistory(d) PROVE Kept
  <2>1. tx[d] \in Tx /\ pc[d] \in TxSteps
    BY <1>6 DEF CHistory, SnapshotOK, TxSteps
  <2> QED
    BY <1>6, <2>1 DEF CHistory, Goto, Tx
<1>7. ASSUME NEW d \in Clients, URead(d) PROVE Reads(c) \/ Kept
  <2>1. CASE Reads(d)
    BY <2>1 DEF Reads, Goto
  <2> QED
    BY <1>1, <1>7, <2>1, UReadOutcomes
<1>8. ASSUME NEW d \in Clients, UWrite(d) PROVE Kept
  <2>1. CASE Goto(d, "u_history") /\ UNCHANGED tx
    BY <1>8, <2>1 DEF UWrite, Goto, TxSteps
  <2> QED
    BY <1>1, <1>8, <2>1 DEF UWrite
<1>9. ASSUME NEW d \in Clients, UHistory(d) PROVE Kept
  <2>1. tx[d] \in Tx /\ pc[d] \in TxSteps
    BY <1>9 DEF UHistory, SnapshotOK, TxSteps
  <2>2. PICK log : tx' = [tx EXCEPT ![d].log = log]
    BY <1>9 DEF UHistory
  <2>3. req' = req
    BY <1>9 DEF UHistory, Goto
  <2>4. CASE c = d
    <3>1. tx'[c] = [tx[c] EXCEPT !.log = log]
      BY <2>2, <2>4
    <3> QED
      BY <2>1, <2>3, <2>4, <3>1 DEF Tx
  <2>5. CASE c # d
    <3>1. tx'[c] = tx[c]
      BY <2>2, <2>5
    <3>2. pc'[c] = pc[c]
      BY <1>9, <2>5 DEF UHistory, Goto
    <3> QED
      BY <2>3, <3>1, <3>2
  <2> QED
    BY <2>4, <2>5
<1>10. ASSUME NEW d \in Clients, Commit(d) \/ CommitUnknown(d) PROVE Kept
  BY <1>10 DEF Commit, CommitUnknown, Finish, TxSteps
<1>11. ASSUME Crash PROVE Kept
  BY <1>11 DEF Crash, TxSteps
<1>12. ASSUME NEW t \in Teams, NEW u \in Users, Join(t, u) PROVE Kept
  BY <1>12 DEF Join
<1>13. ASSUME UNCHANGED vars PROVE Kept
  BY <1>13 DEF vars
<1> HIDE DEF Kept, Shape, TypeOK
<1>14. ASSUME NEW d \in Clients, Arrive(d) \/ Step(d) \/ UWrite(d) \/ Fail(d)
       PROVE  CInsert(c) \/ Reads(c) \/ Kept
  BY <1>2, <1>3, <1>4, <1>5, <1>6, <1>7, <1>8, <1>9, <1>10, <1>14 DEF Step
<1>15. CInsert(c) \/ Reads(c) \/ Kept
  BY <1>11, <1>12, <1>13, <1>14 DEF Next
<1> QED
  BY <1>15 DEF Kept

LEMMA IntentNext ==
  ASSUME Shape, Ids, Membership, Bond, IntentOK, [Next]_vars
  PROVE  IntentOK'
<1> SUFFICES ASSUME NEW c \in Clients, pc'[c] \in TxSteps
             PROVE  tx'[c].val = Asked(c)'
  BY DEF IntentOK
<1>1. CASE CInsert(c)
  <2>1. req[c].op = "create" /\ req'[c] = req[c] /\ tx'[c].val = NewValues(req[c].cmd)
    BY <1>1 DEF CInsert, Goto, Shape, TypeOK, RequestOK, CreateSteps
  <2> QED
    BY <2>1 DEF Asked
<1>2. CASE Reads(c)
  <2> DEFINE base == rows[req[c].id][Len(rows[req[c].id])].val
  <2>1. /\ req[c].op = "update" /\ req'[c] = req[c] /\ rows' = rows
        /\ tx'[c].id = req[c].id /\ tx'[c].view = Len(rows[req[c].id])
        /\ tx'[c].val = Patched(base, req[c].cmd)
    BY <1>2 DEF Reads, Goto, Shape, TypeOK, RequestOK, UpdateSteps
  <2>2. Base(c)' = base
    BY <2>1 DEF Base
  <2> QED
    BY <2>1, <2>2 DEF Asked
<1>3. CASE /\ pc[c] \in TxSteps /\ req'[c] = req[c]
           /\ tx'[c].id = tx[c].id /\ tx'[c].view = tx[c].view /\ tx'[c].val = tx[c].val
  BY <1>3, IntentKept
<1> QED
  BY <1>1, <1>2, <1>3, ClientSteps

(* A version that shows what an acknowledged request asked for.              *)
Shown(c) ==
  IF req[c].op = "create"
  THEN \E id \in TaskIds :
         /\ rows[id] # <<>>
         /\ rows[id][1] = [team |-> req[c].team, creator |-> req[c].by,
                           val |-> NewValues(req[c].cmd)]
  ELSE \E n \in DOMAIN rows[req[c].id] :
         rows[req[c].id][n].val = Patched(rows[req[c].id][n].val, req[c].cmd)

LEMMA ShownStays ==
  ASSUME Shape, Ids, Membership, Bond, [Next]_vars, NEW c \in Clients,
         req[c] \in Requests, req'[c] = req[c], Shown(c)
  PROVE  Shown(c)'
<1>1. CASE req[c].op = "create"
  <2>1. PICK id \in TaskIds :
          /\ rows[id] # <<>>
          /\ rows[id][1] = [team |-> req[c].team, creator |-> req[c].by,
                            val |-> NewValues(req[c].cmd)]
    BY <1>1 DEF Shown
  <2>2. rows[id] \in Seq(Row)
    BY DEF Shape, TypeOK
  <2>3. 1 \in DOMAIN rows[id]
    BY <2>1, <2>2
  <2>4. 1 \in DOMAIN rows'[id] /\ rows'[id][1] = rows[id][1]
    BY <2>3, AppendOnly
  <2>5. rows'[id] # <<>>
    BY <2>4
  <2> QED
    BY <1>1, <2>1, <2>4, <2>5 DEF Shown
<1>2. CASE req[c].op # "create"
  <2>1. req[c].id \in TaskIds
    BY <1>2, ServiceAssumption DEF IsCreate, IsUpdate
  <2>2. PICK n \in DOMAIN rows[req[c].id] :
          rows[req[c].id][n].val = Patched(rows[req[c].id][n].val, req[c].cmd)
    BY <1>2 DEF Shown
  <2>3. n \in DOMAIN rows'[req[c].id] /\ rows'[req[c].id][n] = rows[req[c].id][n]
    BY <2>1, AppendOnly
  <2> QED
    BY <1>2, <2>2, <2>3 DEF Shown
<1> QED
  BY <1>1, <1>2

LEMMA ShownByCommit ==
  ASSUME Shape, Ids, Membership, Bond, IntentOK, NEW c \in Clients, Commit(c)
  PROVE  Shown(c)'
<1> DEFINE id  == tx[c].id
           row == Written(c)
<1>1. /\ pc[c] = "commit" /\ pc[c] \in TxSteps /\ Apply(c) /\ req' = req
      /\ tx[c].val = Asked(c)
  BY DEF Commit, Finish, TxSteps, IntentOK
<1>2. /\ id \in TaskIds /\ rows[id] \in Seq(Row)
      /\ \/ rows'[id] = rows[id] /\ tx[c].log = NoLog
         \/ rows'[id] = Append(rows[id], row) /\ row \in Row
  <2>1. id \in TaskIds /\ row \in Row
    BY <1>1, Applied
  <2>2. tx[c].log = NoLog => rows' = rows
    BY <1>1 DEF Apply
  <2>3. tx[c].log # NoLog => rows' = [rows EXCEPT ![id] = Append(@, row)]
    BY <1>1 DEF Apply
  <2>4. rows \in [TaskIds -> Seq(Row)]
    BY DEF Shape, TypeOK
  <2> HIDE DEF id, row
  <2> QED
    BY <2>1, <2>2, <2>3, <2>4
<1>3. CASE req[c].op = "create"
  <2>1. tx[c].log # NoLog
    BY <1>1, <1>3, CreationIsLogged DEF Bond, LogOK
  <2>2. rows[id] = <<>>
    BY <1>1, <1>3 DEF Ids, FreshIds
  <2>3. rows'[id] # <<>> /\ rows'[id][1] = row
    <3> HIDE DEF id, row
    <3> QED
      BY <1>2, <2>1, <2>2
  <2>4. row = [team |-> req[c].team, creator |-> req[c].by, val |-> NewValues(req[c].cmd)]
    BY <1>1, <1>3 DEF Written, Asked
  <2> QED
    BY <1>1, <1>2, <1>3, <2>3, <2>4 DEF Shown
<1>4. CASE req[c].op # "create"
  <2>1. /\ req[c].op = "update" /\ id = req[c].id
        /\ tx[c].view \in DOMAIN rows[id]
    BY <1>1, <1>4, OpenUpdate
  <2>2. /\ Base(c) \in Values /\ tx[c].val \in Values
        /\ tx[c].log = Diff(Base(c), tx[c].val)
    BY <1>1, <2>1, BaseVersion DEF Bond, LogOK
  <2>3. tx[c].val = Patched(Base(c), req[c].cmd)
    BY <1>1, <1>4 DEF Asked
  <2>4. CASE tx[c].log = NoLog
    <3>1. Base(c) = Patched(Base(c), req[c].cmd)
      BY <2>2, <2>3, <2>4, NoLogNoChange
    <3>2. rows' = rows
      BY <1>1, <2>4 DEF Apply
    <3> QED
      BY <1>1, <1>4, <2>1, <3>1, <3>2 DEF Shown, Base
  <2>5. CASE tx[c].log # NoLog
    <3>1. rows'[id] = Append(rows[id], row) /\ row \in Row
      BY <1>2, <2>5
    <3>2. row.val = tx[c].val
      BY <1>1, WrittenTeam
    <3>3. row.val = Patched(row.val, req[c].cmd)
      BY <2>3, <3>2, PatchedTwice
    <3>4. Len(rows[id]) + 1 \in DOMAIN rows'[id] /\ rows'[id][Len(rows[id]) + 1] = row
      <4> HIDE DEF id, row
      <4> QED
        BY <1>2, <3>1
    <3> QED
      BY <1>1, <1>4, <2>1, <3>3, <3>4 DEF Shown
  <2> QED
    BY <2>4, <2>5
<1> QED
  BY <1>3, <1>4

(* Nobody but Commit answers "ok", and a client whose answer stands keeps    *)
(* its request.                                                              *)
LEMMA Answered ==
  ASSUME Shape, [Next]_vars, NEW c \in Clients, reply'[c] = "ok"
  PROVE  Commit(c) \/ (reply[c] = "ok" /\ req'[c] = req[c])
<1> DEFINE Stands == reply[c] = "ok" /\ req'[c] = req[c]
<1> USE DEF Shape, TypeOK
<1>1. ASSUME NEW d \in Clients, NEW answer, answer # "ok", Finish(d, answer) PROVE Stands
  BY <1>1 DEF Finish
<1>2. ASSUME NEW d \in Clients, Arrive(d) PROVE Stands
  <2>1. d # c
    <3>1. NULL # "ok"
      BY ServiceAssumption DEF Replies
    <3> QED
      BY <1>2, <3>1 DEF Arrive
  <2> QED
    BY <1>2, <2>1 DEF Arrive
<1>3. ASSUME NEW d \in Clients, CMember(d) \/ CAssignee(d) \/ CInsert(d) \/ CHistory(d)
      PROVE  Stands
  BY <1>1, <1>3 DEF CMember, CAssignee, CInsert, CHistory, Goto, Reject
<1>4. ASSUME NEW d \in Clients, URead(d) PROVE Stands
  BY <1>1, <1>4, UReadOutcomes DEF Reads, Goto, Reject
<1>5. ASSUME NEW d \in Clients, UWrite(d) \/ UHistory(d) PROVE Stands
  BY <1>1, <1>5 DEF UWrite, UHistory, Goto, Reject
<1>6. ASSUME NEW d \in Clients, CommitUnknown(d) \/ Fail(d) PROVE Stands
  BY <1>1, <1>6 DEF CommitUnknown, Fail, Reject
<1>7. ASSUME NEW d \in Clients, Commit(d) PROVE Commit(c) \/ Stands
  BY <1>7 DEF Commit, Finish
<1>8. ASSUME Crash PROVE Stands
  BY <1>8 DEF Crash
<1>9. ASSUME NEW t \in Teams, NEW u \in Users, Join(t, u) PROVE Stands
  BY <1>9 DEF Join
<1>10. ASSUME UNCHANGED vars PROVE Stands
  BY <1>10 DEF vars
<1> HIDE DEF Stands, Shape, TypeOK
<1>11. ASSUME NEW d \in Clients, Arrive(d) \/ Step(d) \/ UWrite(d) \/ Fail(d)
       PROVE  Commit(c) \/ Stands
  BY <1>2, <1>3, <1>4, <1>5, <1>6, <1>7, <1>11 DEF Step
<1>12. Commit(c) \/ Stands
  BY <1>8, <1>9, <1>10, <1>11 DEF Next
<1> QED
  BY <1>12 DEF Stands

(* An answer "ok" belongs to a request that was made.                        *)
Durable ==
  /\ IntentOK
  /\ \A c \in Clients : reply[c] = "ok" => req[c] \in Requests /\ Shown(c)

LEMMA DurableNext ==
  ASSUME Shape, Ids, Membership, Bond, Durable, [Next]_vars
  PROVE  Durable'
<1>1. IntentOK'
  BY IntentNext DEF Durable
<1>2. ASSUME NEW c \in Clients, reply'[c] = "ok"
      PROVE  req'[c] \in Requests /\ Shown(c)'
  <2>1. CASE Commit(c)
    <3>1. req[c] \in Requests /\ req' = req
      BY <2>1 DEF Commit, Finish, Shape, RequestOK
    <3> QED
      BY <2>1, <3>1, ShownByCommit DEF Durable
  <2>2. CASE reply[c] = "ok" /\ req'[c] = req[c]
    BY <2>2, ShownStays DEF Durable
  <2> QED
    BY <1>2, <2>1, <2>2, Answered
<1> QED
  BY <1>1, <1>2 DEF Durable

(* Whoever was answered 200 or 201 finds a version that shows what was asked *)
(* for, after any number of further updates, failures and crashes.           *)
THEOREM AcknowledgedIsDurable == Spec => []OkIsDurable
<1>1. Init => Durable
  <2> SUFFICES ASSUME Init PROVE Durable
    OBVIOUS
  <2>1. \A c \in Clients : reply[c] # "ok" /\ pc[c] \notin TxSteps
    BY ServiceAssumption DEF Init, Replies, TxSteps
  <2> QED
    BY <2>1 DEF Durable, IntentOK
<1>2. Shape /\ Ids /\ Membership /\ Bond /\ Durable /\ [Next]_vars => Durable'
  BY DurableNext
<1>3. Durable => OkIsDurable
  BY DEF Durable, OkIsDurable, Shown
<1> QED
  BY <1>1, <1>2, <1>3, ShapeInvariant, IdsInvariant, MembershipInvariant, BondInvariant, PTL
     DEF Spec

-----------------------------------------------------------------------------
(* Row locks.                                                                *)

(* Whoever holds a row lock is past its UPDATE of that row.                  *)
LocksHeld ==
  \A c \in Clients, id \in TaskIds : lock[id] = c => Holds(c) /\ tx[c].id = id

(* A step of c that is not at the end of an update, and takes no lock.       *)
LEMMA LocksPrivate ==
  ASSUME Shape, LocksHeld, NEW c \in Clients, ~Holds(c), UNCHANGED <<lock, req>>,
         \A d \in Clients \ {c} : pc'[d] = pc[d] /\ tx'[d] = tx[d]
  PROVE  LocksHeld'
<1> SUFFICES ASSUME NEW d \in Clients, NEW id \in TaskIds, lock'[id] = d
             PROVE  Holds(d)' /\ tx'[d].id = id
  BY DEF LocksHeld
<1>1. Holds(d) /\ tx[d].id = id /\ d # c
  BY DEF LocksHeld
<1> QED
  BY <1>1 DEF Holds

(* The end of a transaction gives its locks up and nobody else's.            *)
LEMMA LocksFinish ==
  ASSUME Shape, LocksHeld, NEW c \in Clients, NEW answer, Finish(c, answer)
  PROVE  LocksHeld'
<1> SUFFICES ASSUME NEW d \in Clients, NEW id \in TaskIds, lock'[id] = d
             PROVE  Holds(d)' /\ tx'[d].id = id
  BY DEF LocksHeld
<1>1. lock[id] = d /\ d # c
  BY ServiceAssumption DEF Finish, Released
<1>2. Holds(d) /\ tx[d].id = id
  BY <1>1 DEF LocksHeld
<1>3. pc'[d] = pc[d] /\ tx'[d] = tx[d] /\ req' = req
  BY <1>1 DEF Finish, Shape, TypeOK
<1> QED
  BY <1>2, <1>3 DEF Holds

LEMMA LocksWrite ==
  ASSUME Shape, LocksHeld, NEW c \in Clients, UWrite(c)
  PROVE  LocksHeld'
<1>1. CASE Reject(c, "not_found")
  BY <1>1, LocksFinish DEF Reject
<1>2. CASE /\ lock' = [lock EXCEPT ![tx[c].id] = c]
           /\ Goto(c, "u_history")
           /\ UNCHANGED <<store, nextId, tx>>
  <2>1. /\ pc[c] = "u_write" /\ ~Holds(c) /\ pc'[c] = "u_history" /\ Holds(c)'
        /\ UNCHANGED <<tx, req>>
        /\ \A d \in Clients \ {c} : pc'[d] = pc[d]
    BY <1>2 DEF UWrite, Goto, Holds, Shape, TypeOK
  <2> SUFFICES ASSUME NEW d \in Clients, NEW id \in TaskIds, lock'[id] = d
               PROVE  Holds(d)' /\ tx'[d].id = id
    BY DEF LocksHeld
  <2>2. CASE id = tx[c].id
    <3>1. d = c
      BY <1>2, <2>2 DEF Shape, TypeOK
    <3> QED
      BY <2>1, <2>2, <3>1
  <2>3. CASE id # tx[c].id
    <3>1. lock[id] = d
      BY <1>2, <2>3 DEF Shape, TypeOK
    <3>2. Holds(d) /\ tx[d].id = id /\ d # c
      BY <2>1, <3>1 DEF LocksHeld
    <3> QED
      BY <2>1, <3>2 DEF Holds
  <2> QED
    BY <2>2, <2>3
<1> QED
  BY <1>1, <1>2 DEF UWrite

LEMMA LocksHistory ==
  ASSUME Shape, LocksHeld, NEW c \in Clients, UHistory(c)
  PROVE  LocksHeld'
<1> DEFINE old == Base(c)
           val == tx[c].val
           f   == NextField(Unrecorded(c))
<1>1. pc[c] = "u_history" /\ pc[c] \in TxSteps /\ req[c].op = "update"
  BY DEF UHistory, Shape, RequestOK, UpdateSteps, TxSteps
<1>2. tx[c] \in Tx /\ tx[c].id \in TaskIds /\ old \in Values /\ val \in Values /\ tx[c].log \in Logs
  BY <1>1, BaseVersion
<1>3. f \in Fields
  BY <1>1, NextFieldIn DEF Shape, ProgressOK, Unrecorded, Changed
<1>4. /\ tx' = [tx EXCEPT ![c].log[f] = <<old[f], val[f]>>]
      /\ pc'[c] \in {"commit", "u_history"} /\ UNCHANGED <<req, lock>>
      /\ \A d \in Clients \ {c} : pc'[d] = pc[d]
  BY DEF UHistory, Base, Unrecorded, Goto, Shape, TypeOK
<1>5. tx'[c] = [tx[c] EXCEPT !.log = [@ EXCEPT ![f] = <<old[f], val[f]>>]]
  BY <1>4 DEF Shape, TypeOK
<1>6. tx'[c].id = tx[c].id /\ tx'[c].log = [tx[c].log EXCEPT ![f] = <<old[f], val[f]>>]
  BY <1>2, <1>5 DEF Tx
<1>7. tx'[c].log # NoLog
  <2>1. <<old[f], val[f]>> # NULL
    BY <1>2, <1>3, PairNotNull
  <2>2. tx'[c].log[f] = <<old[f], val[f]>>
    BY <1>2, <1>3, <1>6 DEF Logs
  <2>3. NoLog[f] = NULL
    BY <1>3 DEF NoLog
  <2> QED
    BY <2>1, <2>2, <2>3
<1>8. Holds(c)'
  BY <1>1, <1>4, <1>7 DEF Holds
<1>9. \A d \in Clients \ {c} : tx'[d] = tx[d]
  BY <1>4 DEF Shape, TypeOK
<1> SUFFICES ASSUME NEW d \in Clients, NEW id \in TaskIds, lock'[id] = d
             PROVE  Holds(d)' /\ tx'[d].id = id
  BY DEF LocksHeld
<1>10. Holds(d) /\ tx[d].id = id
  BY <1>4 DEF LocksHeld
<1>11. CASE d = c
  BY <1>6, <1>8, <1>10, <1>11
<1>12. CASE d # c
  BY <1>4, <1>9, <1>10, <1>12 DEF Holds
<1> QED
  BY <1>11, <1>12

LEMMA LocksNext == Shape /\ LocksHeld /\ [Next]_vars => LocksHeld'
<1> SUFFICES ASSUME Shape, LocksHeld, [Next]_vars PROVE LocksHeld'
  OBVIOUS
<1>1. ASSUME NEW c \in Clients, NEW answer, Reject(c, answer) PROVE LocksHeld'
  BY <1>1, LocksFinish DEF Reject
<1>2. ASSUME NEW c \in Clients, Arrive(c) PROVE LocksHeld'
  <2>1. /\ ~Holds(c) /\ UNCHANGED <<lock, tx>>
        /\ \A d \in Clients \ {c} : pc'[d] = pc[d] /\ req'[d] = req[d]
    BY <1>2 DEF Arrive, Holds, Shape, TypeOK
  <2>2. \A d \in Clients, id \in TaskIds : lock[id] = d => d # c
    BY <2>1 DEF LocksHeld
  <2> QED
    BY <2>1, <2>2 DEF LocksHeld, Holds
<1>3. ASSUME NEW c \in Clients,
             CMember(c) \/ CAssignee(c) \/ CInsert(c) \/ CHistory(c)
      PROVE  LocksHeld'
  <2>1. CASE \E answer : Reject(c, answer)
    BY <1>1, <2>1
  <2>2. CASE ~\E answer : Reject(c, answer)
    <3>1. /\ ~Holds(c) /\ UNCHANGED <<lock, req>>
          /\ \A d \in Clients \ {c} : pc'[d] = pc[d] /\ tx'[d] = tx[d]
      BY <1>3, <2>2 DEF CMember, CAssignee, CInsert, CHistory, Goto, Holds, Shape, TypeOK
    <3> QED
      BY <3>1, LocksPrivate
  <2> QED
    BY <2>1, <2>2
<1>4. ASSUME NEW c \in Clients, URead(c) PROVE LocksHeld'
  <2>1. CASE Reads(c)
    <3>1. /\ ~Holds(c) /\ UNCHANGED <<lock, req>>
          /\ \A d \in Clients \ {c} : pc'[d] = pc[d] /\ tx'[d] = tx[d]
      BY <2>1 DEF Reads, Goto, Holds, Shape, TypeOK
    <3> QED
      BY <3>1, LocksPrivate
  <2> QED
    BY <1>1, <1>4, <2>1, UReadOutcomes
<1>5. ASSUME NEW c \in Clients, UWrite(c) \/ UHistory(c) PROVE LocksHeld'
  BY <1>5, LocksWrite, LocksHistory
<1>6. ASSUME NEW c \in Clients, Commit(c) \/ CommitUnknown(c) PROVE LocksHeld'
  BY <1>6, LocksFinish DEF Commit, CommitUnknown
<1>7. ASSUME NEW c \in Clients, Fail(c) PROVE LocksHeld'
  BY <1>1, <1>7 DEF Fail
<1>8. CASE Crash
  <2>1. \A c \in Clients, id \in TaskIds : lock[id] = c => pc[c] # "idle"
    BY DEF LocksHeld, Holds
  <2>2. \A c \in Clients, id \in TaskIds : lock'[id] # c
    BY <1>8, <2>1, ServiceAssumption DEF Crash, Released
  <2> QED
    BY <2>2 DEF LocksHeld
<1>9. ASSUME NEW t \in Teams, NEW u \in Users, Join(t, u) PROVE LocksHeld'
  BY <1>9 DEF Join, LocksHeld, Holds
<1>10. CASE UNCHANGED vars
  BY <1>10 DEF vars, LocksHeld, Holds
<1> QED
  BY <1>2, <1>3, <1>4, <1>5, <1>6, <1>7, <1>8, <1>9, <1>10 DEF Next, Step

(* Nobody who waits for a row lock holds one, no request that has returned   *)
(* holds one, and a transaction holds at most the one of its task.           *)
LocksAreShort ==
  \A id \in TaskIds : lock[id] # NULL =>
    /\ pc[lock[id]] \in {"u_history", "commit"}
    /\ tx[lock[id]].id = id
    /\ \A other \in TaskIds : lock[other] = lock[id] => other = id

(* Transactions of UpdateTask do not deadlock: who waits for a row lock      *)
(* holds none, and the deferred Rollback leaves none behind. That is what    *)
(* EveryRequestReplies rests on.                                             *)
THEOREM NoLockCycles == Spec => []LocksAreShort
<1>1. Init => LocksHeld
  BY ServiceAssumption DEF Init, LocksHeld
<1>2. Shape /\ LocksHeld => LocksAreShort
  BY DEF Shape, TypeOK, LocksHeld, LocksAreShort, Holds
<1> QED
  BY <1>1, <1>2, LocksNext, ShapeInvariant, PTL DEF Spec

-----------------------------------------------------------------------------
(* What holds as long as no update overlaps with another: the statements of  *)
(* the documentation that PartialUpdate, HistoryRecordsEveryChange and       *)
(* NotFoundMeansAbsent test, and that only overlapping updates break.        *)

(* Nobody committed a version of the task since c read it.                   *)
Unraced(c) == tx[c].view = Len(rows[tx[c].id])

Last(seq) == seq[Len(seq)]

(* The step commits the update of c, and adds a version.                     *)
Revises(c) ==
  /\ pc[c] = "commit" /\ pc'[c] = "idle" /\ req[c].op = "update"
  /\ rows'[tx[c].id] # rows[tx[c].id]

(* The version then differs from the one before exactly in what the command  *)
(* asked for, and the entries are exactly that difference.                   *)
UnracedUpdatesAreExact ==
  [][\A c \in Clients : Revises(c) /\ Unraced(c) =>
       LET old == Last(rows[tx[c].id])
           new == Last(rows'[tx[c].id])
       IN /\ new = [old EXCEPT !.val = Patched(old.val, req[c].cmd)]
          /\ Last(history'[tx[c].id]) =
               [by |-> req[c].by, log |-> Diff(old.val, new.val)]
    ]_vars

(* "not found" is answered for a task that does not exist, or at an UPDATE   *)
(* that finds its values written by another since it read.                   *)
NotFoundHasCause ==
  [][\A c \in Clients : pc[c] # "idle" /\ reply'[c] = "not_found" =>
       \/ rows[req[c].id] = <<>>
       \/ /\ pc[c] = "u_write" /\ ~Unraced(c)
          /\ tx[c].val = Last(rows[tx[c].id]).val
    ]_vars

(* What is committed stays: versions and entries keep their places, members  *)
(* their teams.                                                              *)
NothingIsUndone ==
  [][/\ \A id \in TaskIds : \A n \in DOMAIN rows[id] :
          /\ n \in DOMAIN rows'[id] /\ rows'[id][n] = rows[id][n]
          /\ n \in DOMAIN history'[id] /\ history'[id][n] = history[id][n]
     /\ \A t \in Teams : members[t] \subseteq members'[t]
    ]_vars

(* Only the commit of its own request takes a client from "commit" to "idle" *)
(* while the tables change.                                                  *)
LEMMA WhoCommits ==
  ASSUME Shape, [Next]_vars, NEW c \in Clients, Revises(c)
  PROVE  Commit(c) \/ CommitUnknown(c)
<1>1. ASSUME NEW d \in Clients, d # c, Arrive(d) \/ Step(d) \/ UWrite(d) \/ Fail(d)
      PROVE  pc'[c] = pc[c]
  <2>1. ASSUME NEW answer, Reject(d, answer) PROVE pc'[c] = pc[c]
    BY <1>1, <2>1 DEF Reject, Finish, Shape, TypeOK
  <2>2. ASSUME NEW label, Goto(d, label) PROVE pc'[c] = pc[c]
    BY <1>1, <2>2 DEF Goto, Shape, TypeOK
  <2>3. CASE Arrive(d) \/ Commit(d) \/ CommitUnknown(d)
    BY <1>1, <2>3 DEF Arrive, Commit, CommitUnknown, Finish, Shape, TypeOK
  <2>4. CASE CMember(d) \/ CAssignee(d) \/ CInsert(d) \/ CHistory(d)
    BY <2>1, <2>2, <2>4 DEF CMember, CAssignee, CInsert, CHistory
  <2>5. CASE URead(d)
    BY <2>1, <2>2, <2>5, UReadOutcomes DEF Reads
  <2>6. CASE UWrite(d) \/ UHistory(d) \/ Fail(d)
    BY <2>1, <2>2, <2>6 DEF UWrite, UHistory, Fail
  <2> QED
    BY <1>1, <2>3, <2>4, <2>5, <2>6 DEF Step
<1>2. CASE Arrive(c) \/ CMember(c) \/ CAssignee(c) \/ CInsert(c) \/ CHistory(c)
  BY <1>2 DEF Revises, Arrive, CMember, CAssignee, CInsert, CHistory
<1>3. CASE URead(c) \/ UWrite(c) \/ UHistory(c)
  BY <1>3 DEF Revises, URead, UWrite, UHistory
<1>4. CASE Fail(c) \/ Crash \/ UNCHANGED vars
  BY <1>4 DEF Revises, Fail, Reject, Crash, vars
<1>5. ASSUME NEW t \in Teams, NEW u \in Users, Join(t, u) PROVE FALSE
  BY <1>5 DEF Revises, Join
<1> QED
  BY <1>1, <1>2, <1>3, <1>4, <1>5 DEF Revises, Next, Step

LEMMA UnracedCommit ==
  ASSUME Shape, Ids, Membership, Bond, IntentOK, [Next]_vars,
         NEW c \in Clients, Revises(c), Unraced(c)
  PROVE  LET old == Last(rows[tx[c].id])
             new == Last(rows'[tx[c].id])
         IN /\ new = [old EXCEPT !.val = Patched(old.val, req[c].cmd)]
            /\ Last(history'[tx[c].id]) =
                 [by |-> req[c].by, log |-> Diff(old.val, new.val)]
<1> DEFINE id    == tx[c].id
           old   == Last(rows[id])
           group == [by |-> req[c].by, log |-> tx[c].log]
<1>1. /\ pc[c] = "commit" /\ pc[c] \in TxSteps /\ Apply(c) /\ req[c].op = "update"
      /\ rows'[id] # rows[id]
  BY WhoCommits DEF Commit, CommitUnknown, Revises, TxSteps
<1>2. id \in TaskIds /\ rows[id] \in Seq(Row) /\ tx[c].view \in DOMAIN rows[id]
  BY <1>1, OpenUpdate
<1>3. /\ rows'[id] = Append(rows[id], Written(c)) /\ Written(c) \in Row
      /\ history[id] \in Seq(Entries) /\ history'[id] = Append(history[id], group)
      /\ group \in Entries
  BY <1>1, <1>2, AppliedTo
<1>4. Last(rows'[id]) = Written(c)
  <2> DEFINE row == Written(c)
  <2> HIDE DEF row, id
  <2> QED
    BY <1>2, <1>3 DEF Last
<1>5. Last(history'[id]) = group
  <2> HIDE DEF group, id
  <2> QED
    BY <1>3 DEF Last
<1>6. Base(c) = old.val /\ old \in Row
  BY <1>2 DEF Unraced, Base, Last
<1>7. tx[c].val = Patched(old.val, req[c].cmd) /\ tx[c].log = Diff(old.val, tx[c].val)
  BY <1>1, <1>6 DEF IntentOK, Asked, Bond, LogOK
<1>8. Written(c) = [old EXCEPT !.val = tx[c].val]
  BY <1>1 DEF Written, Last
<1>9. Written(c).val = tx[c].val
  BY <1>6, <1>8 DEF Row
<1> QED
  BY <1>4, <1>5, <1>7, <1>8, <1>9

LEMMA IntentInvariant == Spec => []IntentOK
<1>1. Init => IntentOK
  BY DEF Init, IntentOK, TxSteps
<1> QED
  BY <1>1, IntentNext, ShapeInvariant, IdsInvariant, MembershipInvariant, BondInvariant, PTL
     DEF Spec

(* Updates that do not overlap are the partial updates of README.md, with an *)
(* entry for each change: the lost updates and the wrong old values that the *)
(* runs find need another commit between the SELECT and the COMMIT.          *)
THEOREM WithoutRacesUpdatesAreExact == Spec => UnracedUpdatesAreExact
<1>1. Shape /\ Ids /\ Membership /\ Bond /\ IntentOK /\ [Next]_vars =>
        \A c \in Clients : Revises(c) /\ Unraced(c) =>
          LET old == Last(rows[tx[c].id])
              new == Last(rows'[tx[c].id])
          IN /\ new = [old EXCEPT !.val = Patched(old.val, req[c].cmd)]
             /\ Last(history'[tx[c].id]) =
                  [by |-> req[c].by, log |-> Diff(old.val, new.val)]
  BY UnracedCommit
<1> QED
  BY <1>1, ShapeInvariant, IdsInvariant, MembershipInvariant, BondInvariant,
     IntentInvariant, PTL DEF Spec, UnracedUpdatesAreExact

(* A request under way has no answer yet.                                    *)
Unanswered == \A c \in Clients : pc[c] # "idle" => reply[c] = NULL

LEMMA UnansweredNext == Shape /\ Unanswered /\ [Next]_vars => Unanswered'
<1> SUFFICES ASSUME Shape, Unanswered, [Next]_vars PROVE Unanswered'
  OBVIOUS
<1>1. ASSUME NEW c \in Clients, NEW answer, Finish(c, answer) PROVE Unanswered'
  BY <1>1 DEF Finish, Unanswered, Shape, TypeOK
<1>2. ASSUME NEW c \in Clients, NEW label, pc[c] # "idle", Goto(c, label)
      PROVE  Unanswered'
  BY <1>2 DEF Goto, Unanswered, Shape, TypeOK
<1>3. ASSUME NEW c \in Clients, Arrive(c) PROVE Unanswered'
  BY <1>3 DEF Arrive, Unanswered, Shape, TypeOK
<1>4. ASSUME NEW c \in Clients,
             CMember(c) \/ CAssignee(c) \/ CInsert(c) \/ CHistory(c)
      PROVE  Unanswered'
  BY <1>1, <1>2, <1>4 DEF CMember, CAssignee, CInsert, CHistory, Reject
<1>5. ASSUME NEW c \in Clients, URead(c) PROVE Unanswered'
  BY <1>1, <1>2, <1>5, UReadOutcomes DEF Reads, Reject
<1>6. ASSUME NEW c \in Clients, UWrite(c) \/ UHistory(c) PROVE Unanswered'
  BY <1>1, <1>2, <1>6 DEF UWrite, UHistory, Reject
<1>7. ASSUME NEW c \in Clients, Commit(c) \/ CommitUnknown(c) \/ Fail(c) PROVE Unanswered'
  BY <1>1, <1>7 DEF Commit, CommitUnknown, Fail, Reject
<1>8. CASE Crash
  BY <1>8 DEF Crash, Unanswered
<1>9. ASSUME NEW t \in Teams, NEW u \in Users, Join(t, u) PROVE Unanswered'
  BY <1>9 DEF Join, Unanswered
<1>10. CASE UNCHANGED vars
  BY <1>10 DEF vars, Unanswered
<1> QED
  BY <1>3, <1>4, <1>5, <1>6, <1>7, <1>8, <1>9, <1>10 DEF Next, Step

LEMMA NotFoundStep ==
  ASSUME Shape, Unanswered, [Next]_vars, NEW c \in Clients, pc[c] # "idle",
         reply'[c] = "not_found"
  PROVE  \/ rows[req[c].id] = <<>>
         \/ /\ pc[c] = "u_write" /\ ~Unraced(c)
            /\ tx[c].val = Last(rows[tx[c].id]).val
<1> DEFINE Goal == \/ rows[req[c].id] = <<>>
                   \/ /\ pc[c] = "u_write" /\ ~Unraced(c)
                      /\ tx[c].val = Last(rows[tx[c].id]).val
<1>1. reply[c] = NULL /\ NULL # "not_found" /\ NULL \notin Replies
  BY ServiceAssumption DEF Unanswered, Replies
<1>2. ASSUME NEW d \in Clients, NEW answer, Finish(d, answer), answer # "not_found"
      PROVE  FALSE
  BY <1>1, <1>2 DEF Finish, Shape, TypeOK
<1>3. ASSUME NEW d \in Clients, d # c, NEW answer, Finish(d, answer) PROVE FALSE
  BY <1>1, <1>3 DEF Finish, Shape, TypeOK
<1>4. ASSUME NEW d \in Clients, NEW label, Goto(d, label) PROVE FALSE
  BY <1>1, <1>4 DEF Goto
<1>5. ASSUME NEW d \in Clients, Arrive(d) PROVE FALSE
  BY <1>1, <1>5 DEF Arrive, Shape, TypeOK
<1>6. ASSUME NEW d \in Clients,
             CMember(d) \/ CAssignee(d) \/ CInsert(d) \/ CHistory(d) \/ UHistory(d)
      PROVE  FALSE
  BY <1>2, <1>4, <1>6 DEF CMember, CAssignee, CInsert, CHistory, UHistory, Reject
<1>7. ASSUME NEW d \in Clients, Commit(d) \/ CommitUnknown(d) \/ Fail(d) PROVE FALSE
  BY <1>2, <1>7 DEF Commit, CommitUnknown, Fail, Reject
<1>8. ASSUME NEW d \in Clients, URead(d) PROVE rows[req[c].id] = <<>>
  <2>1. d = c
    BY <1>3, <1>4, <1>8, UReadOutcomes DEF Reads, Reject
  <2>2. Len(rows[req[c].id]) = 0
    BY <1>2, <1>4, <1>8, <2>1 DEF URead, Reject
  <2>3. req[c].op = "update" /\ req[c] \in Requests
    BY <1>8, <2>1 DEF URead, Shape, RequestOK, UpdateSteps
  <2>4. req[c].id \in TaskIds
    BY <2>3, ServiceAssumption DEF IsCreate, IsUpdate
  <2>5. rows[req[c].id] \in Seq(Row)
    BY <2>4 DEF Shape, TypeOK
  <2> QED
    BY <2>2, <2>5
<1>9. ASSUME NEW d \in Clients, UWrite(d) PROVE Goal
  <2>1. d = c /\ pc[c] = "u_write" /\ tx[c].val = Last(rows[tx[c].id]).val
    BY <1>3, <1>4, <1>9 DEF UWrite, Reject, Last
  <2>2. tx[c].val # Base(c)
    BY <2>1 DEF Shape, ProgressOK
  <2>3. ~Unraced(c)
    BY <2>1, <2>2 DEF Unraced, Base, Last
  <2> QED
    BY <2>1, <2>3
<1>10. ASSUME Crash PROVE FALSE
  BY <1>1, <1>10 DEF Crash
<1>11. ASSUME NEW t \in Teams, NEW u \in Users, Join(t, u) PROVE FALSE
  BY <1>1, <1>11 DEF Join
<1>12. ASSUME UNCHANGED vars PROVE FALSE
  BY <1>1, <1>12 DEF vars
<1> HIDE DEF Goal
<1>13. rows[req[c].id] = <<>> => Goal
  BY DEF Goal
<1>14. ASSUME NEW d \in Clients, Arrive(d) \/ Step(d) \/ UWrite(d) \/ Fail(d)
       PROVE  Goal
  <2>1. CASE URead(d)
    BY <1>8, <1>13, <2>1
  <2>2. CASE UWrite(d)
    BY <1>9, <2>2
  <2> QED
    BY <1>5, <1>6, <1>7, <1>14, <2>1, <2>2 DEF Step
<1>15. Goal
  BY <1>10, <1>11, <1>12, <1>14 DEF Next
<1> QED
  BY <1>15 DEF Goal

(* Test_update_task_not_found: for an update that overlaps with no other,    *)
(* "not found" means that there is no such task.                             *)
THEOREM WithoutRacesNotFoundIsTrue == Spec => NotFoundHasCause
<1>1. Init => Unanswered
  BY DEF Init, Unanswered
<1>2. Shape /\ Unanswered /\ [Next]_vars =>
        \A c \in Clients : pc[c] # "idle" /\ reply'[c] = "not_found" =>
          \/ rows[req[c].id] = <<>>
          \/ /\ pc[c] = "u_write" /\ ~Unraced(c)
             /\ tx[c].val = Last(rows[tx[c].id]).val
  BY NotFoundStep
<1> QED
  BY <1>1, <1>2, UnansweredNext, ShapeInvariant, PTL DEF Spec, NotFoundHasCause

LEMMA UndoneStep ==
  ASSUME Shape, Ids, Membership, Bond, [Next]_vars
  PROVE  /\ \A id \in TaskIds : \A n \in DOMAIN rows[id] :
              /\ n \in DOMAIN rows'[id] /\ rows'[id][n] = rows[id][n]
              /\ n \in DOMAIN history'[id] /\ history'[id][n] = history[id][n]
         /\ \A t \in Teams : members[t] \subseteq members'[t]
<1>1. ASSUME NEW id \in TaskIds, NEW n \in DOMAIN rows[id]
      PROVE  n \in DOMAIN history'[id] /\ history'[id][n] = history[id][n]
  <2>1. /\ history[id] \in Seq(Entries) /\ history \in [TaskIds -> Seq(Entries)]
        /\ rows[id] \in Seq(Row) /\ Len(history[id]) = Len(rows[id])
    BY DEF Shape, TypeOK, Ids, Paired
  <2>2. n \in DOMAIN history[id]
    BY <2>1
  <2>3. history'[id] = history[id] \/ \E e \in Entries : history'[id] = Append(history[id], e)
    BY <2>1, StoreSteps DEF Recorded
  <2> QED
    BY <2>1, <2>2, <2>3, AppendTo
<1>2. ASSUME NEW t \in Teams PROVE members[t] \subseteq members'[t]
  BY StoreSteps DEF Recorded, Join, Shape, TypeOK
<1> QED
  BY <1>1, <1>2, AppendOnly

(* No step of any request, and no failure or crash, takes back or rewrites   *)
(* what was committed before.                                                *)
THEOREM CommittedStays == Spec => NothingIsUndone
<1>1. Shape /\ Ids /\ Membership /\ Bond /\ [Next]_vars =>
        /\ \A id \in TaskIds : \A n \in DOMAIN rows[id] :
             /\ n \in DOMAIN rows'[id] /\ rows'[id][n] = rows[id][n]
             /\ n \in DOMAIN history'[id] /\ history'[id][n] = history[id][n]
        /\ \A t \in Teams : members[t] \subseteq members'[t]
  BY UndoneStep
<1> QED
  BY <1>1, ShapeInvariant, IdsInvariant, MembershipInvariant, BondInvariant, PTL
     DEF Spec, NothingIsUndone
=============================================================================
