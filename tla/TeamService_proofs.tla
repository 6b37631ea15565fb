------------------------- MODULE TeamService_proofs -------------------------
(* Proofs about TeamService, for any users, clients and requests and any     *)
(* bounds. The inductive invariant has three layers:                         *)
(*   Shape     types, and what the step a request is at says of the request; *)
(*   FreshIds  a team id is used by one transaction and has no rows until it *)
(*             commits;                                                      *)
(*   Standing  a team is absent altogether or has its creator as its only    *)
(*             owner, and whoever passed Invite's check may still invite.    *)
(* Each layer is preserved by every action that the layers before allow. The *)
(* last section proves what the modules of the tasks assume of the teams.    *)
EXTENDS TeamService, TLAPS

CreateSteps == {"t_insert", "t_owner", "commit"}
InviteSteps == {"i_actor", "i_user", "i_add"}
TxSteps == {"t_owner", "commit"}
Granting == {"i_user", "i_add"}

(* The request of a client fits the statement it is at.                      *)
Asked ==
  \A c \in Clients :
    /\ pc[c] \in CreateSteps => IsCreate(req[c])
    /\ pc[c] \in InviteSteps => IsInvite(req[c])
    /\ pc[c] \in Granting => MayGrant(req[c].role)
    /\ pc[c] \in TxSteps => tx[c] \in TeamIds
    /\ pc[c] # "idle" \/ reply[c] # NULL => req[c] \in Requests

Shape == TypeOK /\ Asked

LEMMA ShapeInit == Init => Shape
  BY TeamAssumption, SMT
     DEF Init, Shape, TypeOK, Asked, Nowhere, PCs, CreateSteps, InviteSteps,
         TxSteps, Granting

LEMMA ArriveShape ==
  ASSUME Shape, NEW c \in Clients, Arrive(c) PROVE Shape'
<1> USE DEF Shape
<1>1. TypeOK'
  BY TeamAssumption DEF Arrive, TypeOK, IsCreate, IsInvite, PCs, store
<1>2. Asked'
  BY TeamAssumption
     DEF Arrive, TypeOK, Asked, IsCreate, IsInvite, CreateSteps, InviteSteps,
         TxSteps, Granting, store
<1> QED
  BY <1>1, <1>2

(* A request that returns leaves the shape of the store to its action.       *)
LEMMA FinishShape ==
  ASSUME Shape, NEW c \in Clients, NEW answer \in Replies, Finish(c, answer),
         pc[c] # "idle",
         users' \in SUBSET Users, creator' \in [TeamIds -> Users \cup {NULL}],
         roster' \in [TeamIds -> [Users -> Roles \cup {NULL}]],
         addedBy' \in [TeamIds -> [Users -> Users \cup {NULL}]],
         told' \in [TeamIds -> [Users -> Seq(Success)]]
  PROVE  Shape'
<1> USE DEF Shape
<1>1. TypeOK'
  BY DEF Finish, TypeOK, PCs
<1>2. Asked'
  <2>1. req[c] \in Requests
    BY DEF Asked
  <2> QED
    BY <2>1
       DEF Finish, TypeOK, Asked, CreateSteps, InviteSteps, TxSteps, Granting
<1> QED
  BY <1>1, <1>2

LEMMA RejectShape ==
  ASSUME Shape, NEW c \in Clients, NEW answer \in Replies, Reject(c, answer),
         pc[c] # "idle"
  PROVE  Shape'
  BY FinishShape DEF Reject, store, Shape, TypeOK

(* A request that goes on keeps its shape if the next step's demands hold.   *)
LEMMA GotoShape ==
  ASSUME Shape, NEW c \in Clients, NEW label \in PCs, Goto(c, label),
         pc[c] # "idle", UNCHANGED store, nextId' \in Nat \ {0},
         \E id \in TeamIds \cup {NULL} : tx' = [tx EXCEPT ![c] = id],
         label \in CreateSteps => IsCreate(req[c]),
         label \in InviteSteps => IsInvite(req[c]),
         label \in Granting => MayGrant(req[c].role),
         label \in TxSteps => tx'[c] \in TeamIds
  PROVE  Shape'
<1> USE DEF Shape
<1>1. TypeOK'
  BY DEF Goto, TypeOK, store
<1>2. Asked'
  BY DEF Goto, TypeOK, Asked, store
<1> QED
  BY <1>1, <1>2

LEMMA EnterTyped ==
  ASSUME Shape, NEW c \in Clients, NEW t \in TeamIds, NEW u \in Users,
         NEW role \in Roles, Enter(c, t, u, role), req[c].by \in Users
  PROVE  /\ roster' \in [TeamIds -> [Users -> Roles \cup {NULL}]]
         /\ addedBy' \in [TeamIds -> [Users -> Users \cup {NULL}]]
  BY DEF Shape, TypeOK, Enter

(* The two answers of a request that has written its row.                    *)
LEMMA WrittenShape ==
  ASSUME Shape, NEW c \in Clients, NEW t \in TeamIds, NEW u \in Users,
         NEW role \in Roles, Succeed(c, t, u, role) \/ Unknown(c),
         pc[c] # "idle", req[c].by \in Users,
         users' \in SUBSET Users, creator' \in [TeamIds -> Users \cup {NULL}],
         roster' \in [TeamIds -> [Users -> Roles \cup {NULL}]],
         addedBy' \in [TeamIds -> [Users -> Users \cup {NULL}]]
  PROVE  Shape'
<1>1. told \in [TeamIds -> [Users -> Seq(Success)]]
  BY DEF Shape, TypeOK
<1>2. [role |-> role, by |-> req[c].by] \in Success
  BY DEF Success
<1>3. \A a \in Success : Append(told[t][u], a) \in Seq(Success)
  BY <1>1
<1>4. told' \in [TeamIds -> [Users -> Seq(Success)]]
  <2>1. CASE Unknown(c)
    BY <1>1, <2>1 DEF Unknown
  <2>2. CASE Succeed(c, t, u, role)
    <3>1. PICK s \in Seq(Success) : told' = [told EXCEPT ![t][u] = s]
      BY <1>2, <1>3, <2>2 DEF Succeed
    <3> QED
      BY <1>1, <3>1
  <2> QED
    BY <2>1, <2>2
<1>5. Finish(c, "ok") \/ Finish(c, "internal")
  BY DEF Succeed, Unknown
<1> QED
  BY <1>4, <1>5, FinishShape DEF Replies

LEMMA ShapeStep == Shape /\ [Next]_vars => Shape'
<1> SUFFICES ASSUME Shape, [Next]_vars PROVE Shape'
  OBVIOUS
<1>1. ASSUME NEW c \in Clients, Arrive(c) PROVE Shape'
  BY <1>1, ArriveShape
<1>2. ASSUME NEW c \in Clients, TInsert(c) PROVE Shape'
  <2>1. nextId \in TeamIds /\ IsCreate(req[c])
    BY <1>2, TeamAssumption DEF TInsert, Shape, TypeOK, Asked, TeamIds, CreateSteps
  <2>2. tx'[c] \in TeamIds /\ nextId' \in Nat \ {0}
    BY <1>2, <2>1 DEF TInsert, Shape, TypeOK
  <2>3. \E id \in TeamIds \cup {NULL} : tx' = [tx EXCEPT ![c] = id]
    BY <1>2, <2>1 DEF TInsert
  <2> QED
    BY <1>2, <2>1, <2>2, <2>3, GotoShape
       DEF TInsert, PCs, CreateSteps, InviteSteps, Granting, TxSteps
<1>3. ASSUME NEW c \in Clients, TOwner(c) PROVE Shape'
  <2>1. IsCreate(req[c]) /\ tx[c] \in TeamIds /\ nextId \in Nat \ {0}
    BY <1>3 DEF TOwner, Shape, TypeOK, Asked, CreateSteps, TxSteps
  <2>2. tx' = [tx EXCEPT ![c] = tx[c]] /\ tx'[c] = tx[c]
    BY <1>3 DEF TOwner, Shape, TypeOK
  <2> QED
    BY <1>3, <2>1, <2>2, GotoShape
       DEF TOwner, PCs, CreateSteps, InviteSteps, Granting, TxSteps
<1>4. ASSUME NEW c \in Clients, Commit(c) PROVE Shape'
  <2>1. IsCreate(req[c]) /\ tx[c] \in TeamIds
    BY <1>4 DEF Commit, Shape, Asked, CreateSteps, TxSteps
  <2>2. req[c].by \in Users
    BY <2>1 DEF IsCreate
  <2>3. creator' \in [TeamIds -> Users \cup {NULL}] /\ users' \in SUBSET Users
    BY <1>4, <2>1, <2>2 DEF Commit, Shape, TypeOK
  <2>4. /\ roster' \in [TeamIds -> [Users -> Roles \cup {NULL}]]
        /\ addedBy' \in [TeamIds -> [Users -> Users \cup {NULL}]]
    BY <1>4, <2>1, <2>2, EnterTyped DEF Commit, Roles
  <2> QED
    BY <1>4, <2>1, <2>2, <2>3, <2>4, WrittenShape DEF Commit, Roles
<1>5. ASSUME NEW c \in Clients, IActor(c) PROVE Shape'
  <2>1. IsInvite(req[c]) /\ nextId \in Nat \ {0} /\ tx[c] \in TeamIds \cup {NULL}
    BY <1>5 DEF IActor, Shape, TypeOK, Asked, InviteSteps
  <2>2. CASE UNCHANGED tx
    <3>1. tx' = [tx EXCEPT ![c] = tx[c]]
      BY <2>2 DEF Shape, TypeOK
    <3> QED
      BY <1>5, <2>1, <3>1, GotoShape, RejectShape
         DEF IActor, PCs, CreateSteps, InviteSteps, Granting, TxSteps, Replies
  <2>3. CASE ~UNCHANGED tx
    BY <1>5, <2>3, RejectShape DEF IActor, Replies
  <2> QED
    BY <2>2, <2>3
<1>6. ASSUME NEW c \in Clients, IUser(c) PROVE Shape'
  <2>1. /\ IsInvite(req[c]) /\ MayGrant(req[c].role)
        /\ nextId \in Nat \ {0} /\ tx[c] \in TeamIds \cup {NULL}
    BY <1>6 DEF IUser, Shape, TypeOK, Asked, InviteSteps, Granting
  <2>2. CASE UNCHANGED tx
    <3>1. tx' = [tx EXCEPT ![c] = tx[c]]
      BY <2>2 DEF Shape, TypeOK
    <3> QED
      BY <1>6, <2>1, <3>1, GotoShape, RejectShape
         DEF IUser, PCs, CreateSteps, InviteSteps, Granting, TxSteps, Replies
  <2>3. CASE ~UNCHANGED tx
    BY <1>6, <2>3, RejectShape DEF IUser, Replies
  <2> QED
    BY <2>2, <2>3
<1>7. ASSUME NEW c \in Clients, IAdd(c) PROVE Shape'
  <2>1. IsInvite(req[c]) /\ MayGrant(req[c].role)
    BY <1>7 DEF IAdd, Shape, Asked, InviteSteps, Granting
  <2>2. /\ req[c].by \in Users /\ req[c].team \in TeamIds
        /\ req[c].who \in Users /\ req[c].role \in Roles
    BY <2>1 DEF IsInvite, MayGrant
  <2>3. CASE Reject(c, "already_member")
    BY <1>7, <2>3, RejectShape DEF IAdd, Replies
  <2>4. CASE Enter(c, req[c].team, req[c].who, req[c].role)
             /\ UNCHANGED <<users, creator>>
             /\ \/ Succeed(c, req[c].team, req[c].who, req[c].role)
                \/ Unknown(c)
    <3>1. /\ roster' \in [TeamIds -> [Users -> Roles \cup {NULL}]]
          /\ addedBy' \in [TeamIds -> [Users -> Users \cup {NULL}]]
      BY <2>2, <2>4, EnterTyped
    <3>2. creator' \in [TeamIds -> Users \cup {NULL}] /\ users' \in SUBSET Users
      BY <2>4 DEF Shape, TypeOK
    <3> QED
      BY <1>7, <2>2, <2>4, <3>1, <3>2, WrittenShape DEF IAdd
  <2> QED
    BY <1>7, <2>3, <2>4 DEF IAdd
<1>8. ASSUME NEW c \in Clients, Fail(c) PROVE Shape'
  BY <1>8, RejectShape DEF Fail, Replies
<1>9. ASSUME Crash PROVE Shape'
  BY <1>9
     DEF Crash, Shape, TypeOK, Asked, store, PCs, CreateSteps, InviteSteps,
         TxSteps, Granting, Replies
<1>10. ASSUME NEW u \in Users, Register(u) PROVE Shape'
  BY <1>10 DEF Register, Shape, TypeOK, Asked
<1>11. ASSUME UNCHANGED vars PROVE Shape'
  BY <1>11 DEF vars, store, Shape, TypeOK, Asked
<1> QED
  BY <1>1, <1>2, <1>3, <1>4, <1>5, <1>6, <1>7, <1>8, <1>9, <1>10, <1>11
     DEF Next, Step

LEMMA ShapeInvariant == Spec => []Shape
<1>1. Init => Shape
  BY ShapeInit
<1>2. Shape /\ [Next]_vars => Shape'
  BY ShapeStep
<1> QED
  BY <1>1, <1>2, PTL DEF Spec

(* The variables of the team service have the types its code gives them:     *)
(* only a valid role is stored and only existing ids are used.               *)
THEOREM TypeCorrect == Spec => []TypeOK
<1>1. Shape => TypeOK
  BY DEF Shape
<1> QED
  BY <1>1, ShapeInvariant, PTL

-----------------------------------------------------------------------------
(* Second layer.                                                             *)

(* An id of an open transaction belongs to it alone and has no rows.         *)
FreshIds ==
  /\ \A c \in Clients : pc[c] \in TxSteps => tx[c] < nextId /\ creator[tx[c]] = NULL
  /\ \A c, d \in Clients :
       c # d /\ pc[c] \in TxSteps /\ pc[d] \in TxSteps => tx[c] # tx[d]
  /\ \A t \in TeamIds : t >= nextId => creator[t] = NULL

(* What the steps do to the store: nothing, a new team with its owner, or a  *)
(* new member.                                                               *)
Founded(t, u) ==
  /\ creator[t] = NULL
  /\ creator' = [creator EXCEPT ![t] = u]
  /\ roster' = [roster EXCEPT ![t][u] = "owner"]
  /\ addedBy' = [addedBy EXCEPT ![t][u] = u]

Invited(t, u, role, by) ==
  /\ roster[t][u] = NULL
  /\ roster' = [roster EXCEPT ![t][u] = role]
  /\ addedBy' = [addedBy EXCEPT ![t][u] = by]
  /\ UNCHANGED creator

LEMMA StoreSteps ==
  ASSUME Shape, FreshIds, [Next]_vars
  PROVE  \/ UNCHANGED <<creator, roster, addedBy>>
         \/ \E c \in Clients :
              /\ Commit(c) /\ tx[c] \in TeamIds /\ req[c].by \in Users
              /\ Founded(tx[c], req[c].by)
         \/ \E c \in Clients :
              /\ IAdd(c) /\ IsInvite(req[c]) /\ MayGrant(req[c].role)
              /\ Invited(req[c].team, req[c].who, req[c].role, req[c].by)
<1>1. ASSUME NEW c \in Clients, Commit(c)
      PROVE  tx[c] \in TeamIds /\ req[c].by \in Users /\ Founded(tx[c], req[c].by)
  <2>1. IsCreate(req[c]) /\ tx[c] \in TeamIds /\ creator[tx[c]] = NULL
    BY <1>1 DEF Commit, Shape, Asked, CreateSteps, TxSteps, FreshIds
  <2> QED
    BY <1>1, <2>1 DEF Commit, Enter, Founded, IsCreate
<1>2. ASSUME NEW c \in Clients, IAdd(c)
      PROVE  \/ UNCHANGED <<creator, roster, addedBy>>
             \/ /\ IsInvite(req[c]) /\ MayGrant(req[c].role)
                /\ Invited(req[c].team, req[c].who, req[c].role, req[c].by)
  <2>1. IsInvite(req[c]) /\ MayGrant(req[c].role)
    BY <1>2 DEF IAdd, Shape, Asked, InviteSteps, Granting
  <2> QED
    BY <1>2, <2>1 DEF IAdd, Reject, store, Enter, Invited
<1>3. ASSUME NEW c \in Clients,
             Arrive(c) \/ TInsert(c) \/ TOwner(c) \/ IUser(c) \/ Fail(c)
      PROVE  UNCHANGED <<creator, roster, addedBy>>
  BY <1>3 DEF Arrive, TInsert, TOwner, IUser, Fail, Reject, store
<1>4. ASSUME NEW c \in Clients, IActor(c) PROVE UNCHANGED <<creator, roster, addedBy>>
  BY <1>4 DEF IActor, Reject, store
<1>5. ASSUME Crash \/ (\E u \in Users : Register(u)) \/ UNCHANGED vars
      PROVE  UNCHANGED <<creator, roster, addedBy>>
  BY <1>5 DEF Crash, Register, vars, store
<1> QED
  BY <1>1, <1>2, <1>3, <1>4, <1>5 DEF Next, Step

(* How a client gets into its transaction.                                   *)
LEMMA TxOpens ==
  ASSUME Shape, [Next]_vars, NEW c \in Clients, pc'[c] \in TxSteps
  PROVE  TInsert(c) \/ (pc[c] \in TxSteps /\ tx'[c] = tx[c])
<1> DEFINE Kept == pc[c] \in TxSteps /\ tx'[c] = tx[c]
<1> USE DEF Shape, TypeOK, TxSteps
<1>1. ASSUME NEW d \in Clients, NEW answer, Finish(d, answer) PROVE Kept
  BY <1>1 DEF Finish
<1>2. ASSUME NEW d \in Clients, Arrive(d) PROVE Kept
  BY <1>2 DEF Arrive
<1>3. ASSUME NEW d \in Clients, TInsert(d) PROVE TInsert(c) \/ Kept
  BY <1>3 DEF TInsert, Goto
<1>4. ASSUME NEW d \in Clients, TOwner(d) PROVE Kept
  BY <1>4 DEF TOwner, Goto
<1>5. ASSUME NEW d \in Clients, Fail(d) \/ Commit(d) PROVE Kept
  BY <1>1, <1>5 DEF Fail, Reject, Commit, Succeed, Unknown
<1>6. ASSUME NEW d \in Clients, IActor(d) PROVE Kept
  <2>1. CASE Goto(d, "i_user") /\ UNCHANGED tx
    BY <2>1 DEF Goto
  <2> QED
    BY <1>1, <1>6, <2>1 DEF IActor, Reject
<1>7. ASSUME NEW d \in Clients, IUser(d) PROVE Kept
  <2>1. CASE Goto(d, "i_add") /\ UNCHANGED tx
    BY <2>1 DEF Goto
  <2> QED
    BY <1>1, <1>7, <2>1 DEF IUser, Reject
<1>8. ASSUME NEW d \in Clients, IAdd(d) PROVE Kept
  BY <1>1, <1>8 DEF IAdd, Reject, Succeed, Unknown
<1>9. ASSUME Crash PROVE Kept
  BY <1>9 DEF Crash
<1>10. ASSUME NEW u \in Users, Register(u) PROVE Kept
  BY <1>10 DEF Register
<1>11. ASSUME UNCHANGED vars PROVE Kept
  BY <1>11 DEF vars
<1> HIDE DEF Kept, Shape, TypeOK, TxSteps
<1>12. TInsert(c) \/ Kept
  BY <1>2, <1>3, <1>4, <1>5, <1>6, <1>7, <1>8, <1>9, <1>10, <1>11 DEF Next, Step
<1> QED
  BY <1>12 DEF Kept

LEMMA IdsGrow ==
  ASSUME Shape, [Next]_vars
  PROVE  nextId' >= nextId /\ nextId \in Nat /\ nextId' \in Nat
<1>1. nextId \in Nat
  BY DEF Shape, TypeOK
<1>2. nextId' = nextId \/ nextId' = nextId + 1
  BY DEF Next, Step, Arrive, TInsert, TOwner, Commit, IActor, IUser,
         IAdd, Fail, Crash, Register, Reject, Succeed, Unknown, Finish, vars
<1> QED
  BY <1>1, <1>2

LEMMA FreshIdsStep ==
  ASSUME Shape, Shape', FreshIds, [Next]_vars PROVE FreshIds'
<1>1. ASSUME NEW c \in Clients, pc'[c] \in TxSteps
      PROVE  \/ pc[c] \in TxSteps /\ tx'[c] = tx[c] /\ tx[c] < nextId
             \/ TInsert(c) /\ tx'[c] = nextId /\ nextId' = nextId + 1 /\ nextId \in TeamIds
  <2>1. CASE TInsert(c)
    BY <2>1, TeamAssumption DEF TInsert, Shape, TypeOK, TeamIds
  <2>2. CASE pc[c] \in TxSteps /\ tx'[c] = tx[c]
    BY <2>2 DEF FreshIds
  <2> QED
    BY <1>1, <2>1, <2>2, TxOpens
<1>2. ASSUME NEW c \in Clients, pc'[c] \in TxSteps PROVE tx'[c] < nextId'
  <2>1. CASE tx'[c] = nextId /\ nextId' = nextId + 1
    BY <2>1, IdsGrow
  <2>2. CASE pc[c] \in TxSteps /\ tx'[c] = tx[c] /\ tx[c] < nextId
    <3>1. tx[c] \in Nat
      BY <2>2 DEF Shape, Asked, TeamIds
    <3> QED
      BY <2>2, <3>1, IdsGrow
  <2> QED
    BY <1>1, <1>2, <2>1, <2>2
<1>3. ASSUME NEW c \in Clients, NEW d \in Clients, c # d,
             pc'[c] \in TxSteps, pc'[d] \in TxSteps
      PROVE  tx'[c] # tx'[d]
  <2>1. CASE TInsert(c)
    <3>1. pc'[d] = pc[d] /\ tx'[d] = tx[d]
      BY <1>3, <2>1 DEF TInsert, Goto, Shape, TypeOK
    <3>2. tx[d] < nextId /\ tx[d] \in TeamIds /\ tx'[c] = nextId
      BY <1>3, <2>1, <3>1 DEF FreshIds, Shape, Asked, TypeOK, TInsert
    <3> QED
      BY <3>1, <3>2 DEF TeamIds
  <2>2. CASE TInsert(d)
    <3>1. pc'[c] = pc[c] /\ tx'[c] = tx[c]
      BY <1>3, <2>2 DEF TInsert, Goto, Shape, TypeOK
    <3>2. tx[c] < nextId /\ tx[c] \in TeamIds /\ tx'[d] = nextId
      BY <1>3, <2>2, <3>1 DEF FreshIds, Shape, Asked, TypeOK, TInsert
    <3> QED
      BY <3>1, <3>2 DEF TeamIds
  <2>3. CASE ~TInsert(c) /\ ~TInsert(d)
    BY <1>1, <1>3, <2>3 DEF FreshIds
  <2> QED
    BY <2>1, <2>2, <2>3
<1>4. ASSUME NEW t \in TeamIds, creator'[t] # creator[t]
      PROVE  \E c \in Clients : /\ Commit(c) /\ t = tx[c]
  BY <1>4, StoreSteps DEF Founded, Invited, Shape, TypeOK
<1>5. ASSUME NEW c \in Clients, Commit(c)
      PROVE  pc[c] \in TxSteps /\ pc'[c] \notin TxSteps /\ tx[c] < nextId /\ tx[c] \in TeamIds
  BY <1>5 DEF Commit, Succeed, Unknown, Finish, FreshIds, TxSteps, Shape, TypeOK, Asked
<1>6. ASSUME NEW c \in Clients, pc'[c] \in TxSteps PROVE creator'[tx'[c]] = NULL
  <2>1. tx'[c] \in TeamIds
    BY <1>6 DEF Shape, Asked
  <2>2. creator[tx'[c]] = NULL
    <3>1. CASE pc[c] \in TxSteps /\ tx'[c] = tx[c]
      BY <3>1 DEF FreshIds
    <3>2. CASE tx'[c] = nextId
      <4>1. nextId >= nextId
        BY IdsGrow
      <4> QED
        BY <2>1, <3>2, <4>1 DEF FreshIds
    <3> QED
      BY <1>1, <1>6, <3>1, <3>2
  <2>3. CASE creator'[tx'[c]] # creator[tx'[c]]
    <3>1. PICK d \in Clients : Commit(d) /\ tx'[c] = tx[d]
      BY <1>4, <2>1, <2>3
    <3>2. c # d /\ pc[d] \in TxSteps /\ tx[d] < nextId /\ tx[d] \in TeamIds
      BY <1>5, <1>6, <3>1
    <3>3. ~TInsert(c)
      BY <1>1, <1>6, <3>1, <3>2, IdsGrow DEF Commit, TInsert, Succeed, Unknown, Finish, TeamIds
    <3> QED
      BY <1>1, <1>6, <3>1, <3>2, <3>3 DEF FreshIds
  <2> QED
    BY <2>2, <2>3
<1>7. ASSUME NEW t \in TeamIds, t >= nextId' PROVE creator'[t] = NULL
  <2>1. t >= nextId
    BY <1>7, IdsGrow DEF TeamIds
  <2>2. creator'[t] = creator[t]
    BY <1>4, <1>5, <2>1, IdsGrow DEF TeamIds
  <2> QED
    BY <2>1, <2>2 DEF FreshIds
<1> QED
  BY <1>2, <1>3, <1>6, <1>7 DEF FreshIds

LEMMA FreshInvariant == Spec => [](Shape /\ FreshIds)
<1>1. Init => Shape /\ FreshIds
  BY ShapeInit DEF Init, FreshIds, TxSteps
<1>2. Shape /\ FreshIds /\ [Next]_vars => (Shape /\ FreshIds)'
  BY ShapeStep, FreshIdsStep
<1> QED
  BY <1>1, <1>2, PTL DEF Spec

-----------------------------------------------------------------------------
(* Third layer: the rows of team_members, and the check of Invite that is    *)
(* old when the INSERT runs.                                                 *)
Entitled ==
  \A c \in Clients :
    pc[c] \in Granting => CanInvite(roster[req[c].team][req[c].by])

Standing == OwnerIsCreator /\ AddedByInviter /\ Entitled

Known == Shape /\ FreshIds /\ Standing

(* The steps of the roster, with what they may rely on.                      *)
Founds(t, u) ==
  Founded(t, u) /\ \A v \in Users : roster[t][v] = NULL

Admits(t, u, role, by) ==
  /\ Invited(t, u, role, by)
  /\ CanInvite(roster[t][by])
  /\ creator[t] # NULL

LEMMA RosterSteps ==
  ASSUME Known, [Next]_vars
  PROVE  \/ UNCHANGED <<creator, roster, addedBy>>
         \/ \E c \in Clients :
              /\ Commit(c) /\ tx[c] \in TeamIds /\ req[c].by \in Users
              /\ Founds(tx[c], req[c].by)
         \/ \E c \in Clients :
              /\ IAdd(c) /\ IsInvite(req[c]) /\ MayGrant(req[c].role)
              /\ Admits(req[c].team, req[c].who, req[c].role, req[c].by)
<1>1. ASSUME NEW t \in TeamIds, NEW u \in Users, Founded(t, u) PROVE Founds(t, u)
  BY <1>1 DEF Founded, Founds, Known, Standing, OwnerIsCreator
<1>2. ASSUME NEW c \in Clients, IAdd(c), IsInvite(req[c])
      PROVE  CanInvite(roster[req[c].team][req[c].by]) /\ creator[req[c].team] # NULL
  <2>1. CanInvite(roster[req[c].team][req[c].by])
    BY <1>2 DEF IAdd, Known, Standing, Entitled, Granting
  <2>2. roster[req[c].team][req[c].by] # NULL
    BY <2>1, TeamAssumption DEF CanInvite, Roles
  <2> QED
    BY <1>2, <2>1, <2>2 DEF IsInvite, Known, Standing, OwnerIsCreator
<1> QED
  BY <1>1, <1>2, StoreSteps DEF Known, Admits

(* A member stays a member, with the same role.                              *)
LEMMA RolesStay ==
  ASSUME Known, [Next]_vars, NEW t \in TeamIds, NEW u \in Users, roster[t][u] # NULL
  PROVE  roster'[t][u] = roster[t][u] /\ addedBy'[t][u] = addedBy[t][u]
<1> USE DEF Known, Shape, TypeOK
<1>1. ASSUME NEW s \in TeamIds, NEW v \in Users, Founds(s, v)
      PROVE  roster'[t][u] = roster[t][u] /\ addedBy'[t][u] = addedBy[t][u]
  BY <1>1 DEF Founds, Founded
<1>2. ASSUME NEW s \in TeamIds, NEW v \in Users, NEW role, NEW by, Admits(s, v, role, by)
      PROVE  roster'[t][u] = roster[t][u] /\ addedBy'[t][u] = addedBy[t][u]
  BY <1>2 DEF Admits, Invited
<1> QED
  BY <1>1, <1>2, RosterSteps DEF IsInvite

LEMMA FoundsStanding ==
  ASSUME Known, NEW t \in TeamIds, NEW u \in Users, Founds(t, u)
  PROVE  OwnerIsCreator' /\ AddedByInviter'
<1> USE DEF Known, Shape, TypeOK, Standing
<1>1. /\ creator'[t] = u /\ roster'[t][u] = "owner" /\ addedBy'[t][u] = u
      /\ \A v \in Users \ {u} : roster'[t][v] = NULL
  BY DEF Founds, Founded
<1>2. \A s \in TeamIds \ {t} :
        creator'[s] = creator[s] /\ roster'[s] = roster[s] /\ addedBy'[s] = addedBy[s]
  BY DEF Founds, Founded
<1>3. NULL # "owner" /\ NULL \notin Users
  BY TeamAssumption DEF Roles
<1> HIDE DEF Founds, Shape, TypeOK
<1>4. OwnerIsCreator'
  BY <1>1, <1>2, <1>3 DEF OwnerIsCreator
<1>5. AddedByInviter'
  <2>1. ASSUME NEW v \in Users, roster'[t][v] # NULL
        PROVE  addedBy'[t][v] \in Users /\ roster'[t][addedBy'[t][v]] \in {"owner", "admin"}
    BY <1>1, <2>1
  <2>2. ASSUME NEW s \in TeamIds \ {t}, NEW v \in Users, roster'[s][v] # NULL
        PROVE  addedBy'[s][v] \in Users /\ roster'[s][addedBy'[s][v]] \in {"owner", "admin"}
    BY <1>2, <2>2 DEF AddedByInviter
  <2> QED
    BY <2>1, <2>2 DEF AddedByInviter
<1> QED
  BY <1>4, <1>5

LEMMA AdmitsStanding ==
  ASSUME Known, NEW t \in TeamIds, NEW u \in Users, NEW by \in Users,
         NEW role, MayGrant(role), Admits(t, u, role, by)
  PROVE  OwnerIsCreator' /\ AddedByInviter'
<1> USE DEF Known, Shape, TypeOK, Standing
<1>1. NULL # "owner" /\ NULL \notin Users /\ role # NULL /\ role # "owner"
  BY TeamAssumption DEF Roles, MayGrant
<1>2. by # u /\ roster[t][by] \in {"owner", "admin"} /\ roster[t][u] = NULL
  BY TeamAssumption DEF Admits, Invited, CanInvite, Roles
<1>3. /\ creator' = creator /\ roster'[t][u] = role /\ addedBy'[t][u] = by
      /\ \A v \in Users \ {u} :
           roster'[t][v] = roster[t][v] /\ addedBy'[t][v] = addedBy[t][v]
      /\ \A s \in TeamIds \ {t} : roster'[s] = roster[s] /\ addedBy'[s] = addedBy[s]
  BY DEF Admits, Invited
<1>4. OwnerIsCreator'
  <2>1. u # creator[t] /\ creator[t] # NULL
    BY <1>1, <1>2 DEF OwnerIsCreator, Admits
  <2>2. ASSUME NEW v \in Users
        PROVE  roster'[t][v] = "owner" <=> v = creator[t]
    BY <1>1, <1>3, <2>1 DEF OwnerIsCreator
  <2>3. ASSUME NEW s \in TeamIds \ {t}, NEW v \in Users
        PROVE  /\ roster'[s][v] = "owner" <=> v = creator[s]
               /\ creator[s] = NULL => roster'[s][v] = NULL
    BY <1>3 DEF OwnerIsCreator
  <2> QED
    BY <1>3, <2>1, <2>2, <2>3 DEF OwnerIsCreator
<1>5. AddedByInviter'
  <2>1. ASSUME NEW s \in TeamIds, NEW v \in Users, roster'[s][v] # NULL
        PROVE  addedBy'[s][v] \in Users /\ roster'[s][addedBy'[s][v]] \in {"owner", "admin"}
    <3>1. CASE s = t /\ v = u
      BY <1>2, <1>3, <3>1
    <3>2. CASE s = t /\ v # u
      <4>1. /\ addedBy[t][v] \in Users
            /\ roster[t][addedBy[t][v]] \in {"owner", "admin"}
        BY <1>3, <2>1, <3>2 DEF AddedByInviter
      <4>2. addedBy[t][v] # u
        BY <1>2, <4>1, TeamAssumption DEF Roles
      <4> QED
        BY <1>3, <3>2, <4>1, <4>2
    <3>3. CASE s # t
      BY <1>3, <2>1, <3>3 DEF AddedByInviter
    <3> QED
      BY <3>1, <3>2, <3>3
  <2> QED
    BY <2>1 DEF AddedByInviter
<1> QED
  BY <1>4, <1>5

(* How a client gets past the check of Invite.                               *)
LEMMA Passes ==
  ASSUME Shape, [Next]_vars, NEW c \in Clients, pc'[c] \in Granting
  PROVE  /\ req'[c] = req[c]
         /\ \/ pc[c] \in Granting
            \/ IActor(c) /\ CanInvite(roster[req[c].team][req[c].by])
<1> DEFINE Goal == /\ req'[c] = req[c]
                   /\ \/ pc[c] \in Granting
                      \/ IActor(c) /\ CanInvite(roster[req[c].team][req[c].by])
<1> USE DEF Shape, TypeOK, Granting
<1>1. ASSUME NEW d \in Clients, NEW answer, Finish(d, answer) PROVE Goal
  BY <1>1 DEF Finish
<1>2. ASSUME NEW d \in Clients, Arrive(d) PROVE Goal
  BY <1>2 DEF Arrive
<1>3. ASSUME NEW d \in Clients, TInsert(d) \/ TOwner(d) PROVE Goal
  BY <1>3 DEF TInsert, TOwner, Goto
<1>4. ASSUME NEW d \in Clients, Fail(d) \/ Commit(d) PROVE Goal
  BY <1>1, <1>4 DEF Fail, Reject, Commit, Succeed, Unknown
<1>5. ASSUME NEW d \in Clients, IActor(d) PROVE Goal
  <2>1. CASE Goto(d, "i_user") /\ CanInvite(roster[req[d].team][req[d].by])
    BY <1>5, <2>1 DEF Goto
  <2> QED
    BY <1>1, <1>5, <2>1 DEF IActor, Reject
<1>6. ASSUME NEW d \in Clients, IUser(d) PROVE Goal
  <2>1. CASE Goto(d, "i_add") /\ pc[d] = "i_user"
    BY <2>1 DEF Goto
  <2> QED
    BY <1>1, <1>6, <2>1 DEF IUser, Reject
<1>7. ASSUME NEW d \in Clients, IAdd(d) PROVE Goal
  BY <1>1, <1>7 DEF IAdd, Reject, Succeed, Unknown
<1>8. ASSUME Crash PROVE Goal
  BY <1>8 DEF Crash
<1>9. ASSUME NEW u \in Users, Register(u) PROVE Goal
  BY <1>9 DEF Register
<1>10. ASSUME UNCHANGED vars PROVE Goal
  BY <1>10 DEF vars
<1> HIDE DEF Goal, Shape, TypeOK, Granting
<1>11. Goal
  BY <1>2, <1>3, <1>4, <1>5, <1>6, <1>7, <1>8, <1>9, <1>10 DEF Next, Step
<1> QED
  BY <1>11 DEF Goal

LEMMA EntitledStep == ASSUME Known, [Next]_vars PROVE Entitled'
<1>1. SUFFICES ASSUME NEW c \in Clients, pc'[c] \in Granting
               PROVE  CanInvite(roster'[req'[c].team][req'[c].by])
  BY DEF Entitled, CanInvite
<1>2. req'[c] = req[c] /\ (pc[c] \in Granting \/ pc[c] = "i_actor")
  BY <1>1, Passes DEF Known, IActor
<1>3. CanInvite(roster[req[c].team][req[c].by])
  BY <1>1, Passes DEF Known, Standing, Entitled
<1>4. req[c].team \in TeamIds /\ req[c].by \in Users
  BY <1>2 DEF Known, Shape, Asked, InviteSteps, Granting, IsInvite
<1>5. roster[req[c].team][req[c].by] # NULL
  BY <1>3, TeamAssumption DEF CanInvite, Roles
<1> QED
  BY <1>2, <1>3, <1>4, <1>5, RolesStay

LEMMA KnownInvariant == Spec => []Known
<1>1. Init => Known
  <2>1. ASSUME Init PROVE Standing
    BY <2>1, TeamAssumption
       DEF Init, Standing, OwnerIsCreator, AddedByInviter, Entitled,
           Nowhere, Granting, Roles
  <2> QED
    BY <2>1, ShapeInit DEF Init, Known, FreshIds, TxSteps
<1>2. ASSUME Known, [Next]_vars PROVE Known'
  <2>1. OwnerIsCreator' /\ AddedByInviter'
    <3>1. CASE UNCHANGED <<creator, roster, addedBy>>
      BY <1>2, <3>1 DEF Known, Standing, OwnerIsCreator, AddedByInviter
    <3> QED
      BY <1>2, <3>1, RosterSteps, FoundsStanding, AdmitsStanding DEF IsInvite
  <2> QED
    BY <1>2, <2>1, EntitledStep, ShapeStep, FreshIdsStep DEF Known, Standing
<1> QED
  BY <1>1, <1>2, PTL DEF Spec

(* A team is seen with exactly one owner, its creator, whatever fails between *)
(* the two inserts of CreateTeam and whatever Invite is asked to grant.      *)
THEOREM OneOwner == Spec => []OwnerIsCreator
<1>1. Known => OwnerIsCreator
  BY DEF Known, Standing
<1> QED
  BY <1>1, KnownInvariant, PTL

(* Every member was brought in by an owner or admin of the same team: the    *)
(* check-then-insert of Invite is safe because roles never change.           *)
THEOREM InvitersOnly == Spec => []AddedByInviter
<1>1. Known => AddedByInviter
  BY DEF Known, Standing
<1> QED
  BY <1>1, KnownInvariant, PTL

(* CreateTeam and Invite implement the roster: a team appears with its owner *)
(* in one step, an inviter adds one member at a time, nobody ever leaves or  *)
(* changes role. TaskService relies on it for its membership checks.         *)
THEOREM ImplementsRoster == Spec => Refinement
<1>1. Init => Roster!Init
  BY DEF Init, Roster!Init, Nowhere, Roster!Nowhere
<1>2. ASSUME Known, [Next]_vars PROVE [Roster!Next]_(Roster!vars)
  <2>1. CASE UNCHANGED <<creator, roster, addedBy>>
    BY <2>1 DEF Roster!vars
  <2>2. ASSUME NEW t \in TeamIds, NEW u \in Users, Founds(t, u) PROVE Roster!Next
    BY <2>2 DEF Founds, Founded, Roster!Next, Roster!Found, Roster!Place
  <2>3. ASSUME NEW t \in TeamIds, NEW u \in Users, NEW by \in Users,
               NEW role, MayGrant(role), Admits(t, u, role, by)
        PROVE  Roster!Next
    <3>1. Roster!Admit(t, u)
      BY <2>3 DEF Admits, Invited, CanInvite, MayGrant, Roster!Admit, Roster!Place,
                  Roster!Inviters
    <3> QED
      BY <3>1 DEF Roster!Next
  <2> QED
    BY <1>2, <2>1, <2>2, <2>3, RosterSteps DEF IsInvite
<1> QED
  BY <1>1, <1>2, KnownInvariant, PTL DEF Spec, Refinement, Roster!Spec

-----------------------------------------------------------------------------
(* What a client was told stays true, because no row ever changes.           *)

(* An answer of success is the first for its place, and for a row just made. *)
Fills(t, u, role, by) ==
  /\ roster[t][u] = NULL
  /\ roster'[t][u] = role /\ role # NULL
  /\ addedBy'[t][u] = by
  /\ told' = [told EXCEPT ![t][u] = Append(@, [role |-> role, by |-> by])]

LEMMA ToldSteps ==
  ASSUME Known, [Next]_vars
  PROVE  \/ UNCHANGED told
         \/ \E t \in TeamIds, u, by \in Users, role \in Roles : Fills(t, u, role, by)
<1> USE DEF Known, Shape, TypeOK
<1>1. ASSUME NEW c \in Clients, Commit(c)
      PROVE  \/ UNCHANGED told
             \/ \E t \in TeamIds, u, by \in Users, role \in Roles : Fills(t, u, role, by)
  <2>1. IsCreate(req[c]) /\ tx[c] \in TeamIds /\ creator[tx[c]] = NULL
    BY <1>1 DEF Commit, Asked, CreateSteps, TxSteps, FreshIds
  <2>2. req[c].by \in Users /\ roster[tx[c]][req[c].by] = NULL
    BY <2>1 DEF IsCreate, Standing, OwnerIsCreator
  <2>3. CASE Succeed(c, tx[c], req[c].by, "owner")
    <3>1. Fills(tx[c], req[c].by, "owner", req[c].by) /\ "owner" \in Roles
      BY <1>1, <2>1, <2>2, <2>3, TeamAssumption DEF Commit, Enter, Succeed, Fills, Roles
    <3> QED
      BY <2>1, <2>2, <3>1
  <2> QED
    BY <1>1, <2>3 DEF Commit, Unknown
<1>2. ASSUME NEW c \in Clients, IAdd(c)
      PROVE  \/ UNCHANGED told
             \/ \E t \in TeamIds, u, by \in Users, role \in Roles : Fills(t, u, role, by)
  <2>1. IsInvite(req[c]) /\ MayGrant(req[c].role)
    BY <1>2 DEF IAdd, Asked, InviteSteps, Granting
  <2>2. /\ req[c].team \in TeamIds /\ req[c].who \in Users
        /\ req[c].by \in Users /\ req[c].role \in Roles
    BY <2>1 DEF IsInvite, MayGrant
  <2>3. CASE /\ roster[req[c].team][req[c].who] = NULL
             /\ Succeed(c, req[c].team, req[c].who, req[c].role)
    <3>1. Fills(req[c].team, req[c].who, req[c].role, req[c].by)
      BY <1>2, <2>2, <2>3, TeamAssumption DEF IAdd, Enter, Succeed, Fills
    <3> QED
      BY <2>2, <3>1
  <2> QED
    BY <1>2, <2>3 DEF IAdd, Unknown, Reject, store
<1>3. ASSUME NEW c \in Clients,
             Arrive(c) \/ TInsert(c) \/ TOwner(c) \/ IUser(c) \/ Fail(c)
      PROVE  UNCHANGED told
  BY <1>3 DEF Arrive, TInsert, TOwner, IUser, Fail, Reject, store
<1>4. ASSUME NEW c \in Clients, IActor(c) PROVE UNCHANGED told
  BY <1>4 DEF IActor, Reject, store
<1>5. ASSUME Crash \/ (\E u \in Users : Register(u)) \/ UNCHANGED vars
      PROVE  UNCHANGED told
  BY <1>5 DEF Crash, Register, vars, store
<1> QED
  BY <1>1, <1>2, <1>3, <1>4, <1>5 DEF Next, Step

(* A place is told once, as it is, and never before the row is there.        *)
Places ==
  \A t \in TeamIds, u \in Users :
    /\ told[t][u] \in {<<>>, <<[role |-> roster[t][u], by |-> addedBy[t][u]]>>}
    /\ roster[t][u] = NULL => told[t][u] = <<>>

LEMMA PlacesStep == ASSUME Known, Places, [Next]_vars PROVE Places'
<1> USE DEF Known, Shape, TypeOK
<1>1. SUFFICES ASSUME NEW t \in TeamIds, NEW u \in Users
               PROVE  /\ told'[t][u]
                           \in {<<>>, <<[role |-> roster'[t][u], by |-> addedBy'[t][u]]>>}
                      /\ roster'[t][u] = NULL => told'[t][u] = <<>>
  BY DEF Places
<1>2. CASE told'[t][u] = told[t][u]
  <2>1. CASE roster[t][u] # NULL
    BY <1>2, <2>1, RolesStay DEF Places
  <2>2. CASE roster[t][u] = NULL
    BY <1>2, <2>2 DEF Places
  <2> QED
    BY <2>1, <2>2
<1>3. CASE told'[t][u] # told[t][u]
  <2>1. PICK s \in TeamIds, v \in Users, by \in Users, role \in Roles : Fills(s, v, role, by)
    BY <1>3, ToldSteps
  <2>2. s = t /\ v = u
    BY <1>3, <2>1 DEF Fills
  <2>3. told[t][u] = <<>>
    BY <2>1, <2>2 DEF Fills, Places
  <2>4. told'[t][u] = Append(told[t][u], [role |-> role, by |-> by])
    BY <2>1, <2>2 DEF Fills
  <2>5. told'[t][u] = <<[role |-> role, by |-> by]>>
    BY <2>3, <2>4
  <2> QED
    BY <2>1, <2>2, <2>5 DEF Fills
<1> QED
  BY <1>2, <1>3

(* A client that was answered 409 had invited a member.                      *)
Refused(c) ==
  reply[c] = "already_member" =>
    /\ IsInvite(req[c])
    /\ roster[req[c].team][req[c].who] # NULL

LEMMA RefusedComes ==
  ASSUME Shape, [Next]_vars, NEW c \in Clients, reply'[c] = "already_member"
  PROVE  /\ req'[c] = req[c]
         /\ \/ reply[c] = "already_member"
            \/ IAdd(c) /\ roster[req[c].team][req[c].who] # NULL
<1> DEFINE Goal ==
      /\ req'[c] = req[c]
      /\ \/ reply[c] = "already_member"
         \/ IAdd(c) /\ roster[req[c].team][req[c].who] # NULL
<1> USE DEF Shape, TypeOK
<1>1. ASSUME NEW d \in Clients, NEW answer, Finish(d, answer),
             d # c \/ answer # "already_member"
      PROVE  Goal
  BY <1>1 DEF Finish
<1>2. ASSUME NEW d \in Clients, NEW label, Goto(d, label) PROVE Goal
  BY <1>2 DEF Goto
<1>3. ASSUME NEW d \in Clients, Arrive(d) PROVE Goal
  BY <1>3, TeamAssumption DEF Arrive, Replies
<1>4. ASSUME NEW d \in Clients, TInsert(d) \/ TOwner(d) PROVE Goal
  BY <1>2, <1>4 DEF TInsert, TOwner
<1>5. ASSUME NEW d \in Clients, Fail(d) PROVE Goal
  BY <1>1, <1>5 DEF Fail, Reject
<1>6. ASSUME NEW d \in Clients, IActor(d) \/ IUser(d) PROVE Goal
  BY <1>1, <1>2, <1>6 DEF IActor, IUser, Reject
<1>7. ASSUME NEW d \in Clients, Commit(d) PROVE Goal
  BY <1>1, <1>7 DEF Commit, Succeed, Unknown
<1>8. ASSUME NEW d \in Clients, IAdd(d) PROVE Goal
  <2>1. CASE Reject(d, "already_member")
    BY <1>8, <2>1, TeamAssumption DEF Reject, Finish, IAdd, Succeed, Unknown
  <2> QED
    BY <1>1, <1>8, <2>1 DEF IAdd, Succeed, Unknown
<1>9. ASSUME Crash PROVE Goal
  BY <1>9 DEF Crash
<1>10. ASSUME NEW u \in Users, Register(u) PROVE Goal
  BY <1>10 DEF Register
<1>11. ASSUME UNCHANGED vars PROVE Goal
  BY <1>11 DEF vars
<1> HIDE DEF Goal, Shape, TypeOK
<1>12. Goal
  BY <1>3, <1>4, <1>5, <1>6, <1>7, <1>8, <1>9, <1>10, <1>11 DEF Next, Step
<1> QED
  BY <1>12 DEF Goal

LEMMA RefusedStep ==
  ASSUME Known, [Next]_vars, NEW c \in Clients, Refused(c) PROVE Refused(c)'
<1>1. SUFFICES ASSUME reply'[c] = "already_member"
               PROVE  IsInvite(req[c]) /\ roster'[req[c].team][req[c].who] # NULL
  BY RefusedComes DEF Known, Refused, IsInvite
<1>2. IsInvite(req[c])
  BY <1>1, RefusedComes DEF Refused, Known, Shape, Asked, IAdd, InviteSteps
<1>3. roster[req[c].team][req[c].who] # NULL
  BY <1>1, RefusedComes DEF Refused, Known
<1> QED
  BY <1>2, <1>3, RolesStay DEF IsInvite

LEMMA CreatorsStay ==
  ASSUME Known, [Next]_vars, NEW t \in TeamIds, creator[t] # NULL
  PROVE  creator'[t] = creator[t]
  BY RosterSteps DEF Founds, Founded, Admits, Invited, Known, Shape, TypeOK

(* Success is answered at most once for a user's place in a team, so to at   *)
(* most one of several invitations of one user, and the role and the inviter *)
(* of that answer are those of the place from then on; so is the owner of a  *)
(* team whose founder was answered 201. Whoever was answered 409 had invited *)
(* a member.                                                                 *)
THEOREM AnswersStayTrue == Spec => []AnswersAreTrue
<1> DEFINE Truths == Places /\ \A c \in Clients : Refused(c)
<1>1. Init => Truths
  BY TeamAssumption DEF Init, Places, Refused, Replies
<1>2. ASSUME Known, Truths, [Next]_vars PROVE Truths'
  BY <1>2, PlacesStep, RefusedStep
<1>3. Truths => AnswersAreTrue
  BY DEF Places, Refused, AnswersAreTrue
<1> HIDE DEF Truths
<1> QED
  BY <1>1, <1>2, <1>3, KnownInvariant, PTL DEF Spec

-----------------------------------------------------------------------------
(* What the other services rely on.                                          *)

(* The members of each team, as TaskService and TaskListCache see them.      *)
Members == [t \in TeamIds |-> {u \in Users : roster[t][u] # NULL}]

(* Their action Join.                                                        *)
Joins(t, u) == u \notin Members[t] /\ Members' = [Members EXCEPT ![t] = @ \cup {u}]

MembersOnlyJoin == [][\E t \in TeamIds, u \in Users : Joins(t, u)]_Members

(* A member keeps his role, and a team its creator.                          *)
RolesAreFinal ==
  [][\A t \in TeamIds :
       /\ \A u \in Users : roster[t][u] # NULL =>
            roster'[t][u] = roster[t][u] /\ addedBy'[t][u] = addedBy[t][u]
       /\ creator[t] # NULL => creator'[t] = creator[t]]_vars

LEMMA MembersStep ==
  ASSUME Known, [Next]_vars
  PROVE  UNCHANGED Members \/ \E t \in TeamIds, u \in Users : Joins(t, u)
<1>1. roster \in [TeamIds -> [Users -> Roles \cup {NULL}]] /\ NULL \notin Roles
  BY TeamAssumption DEF Known, Shape, TypeOK, Roles
<1>2. ASSUME NEW t \in TeamIds, NEW u \in Users, NEW role, role # NULL, roster[t][u] = NULL,
             roster' = [roster EXCEPT ![t][u] = role]
      PROVE  Joins(t, u)
  <2>1. \A s \in TeamIds, v \in Users :
          roster'[s][v] = IF s = t /\ v = u THEN role ELSE roster[s][v]
    BY <1>1, <1>2
  <2>2. Members'[t] = Members[t] \cup {u}
    BY <1>2, <2>1 DEF Members
  <2>3. \A s \in TeamIds : s # t => Members'[s] = Members[s]
    BY <2>1 DEF Members
  <2>4. Members' = [Members EXCEPT ![t] = @ \cup {u}]
    BY <2>2, <2>3 DEF Members
  <2> QED
    BY <1>2, <2>4 DEF Joins, Members
<1>3. ASSUME NEW t \in TeamIds, NEW u \in Users, Founds(t, u) PROVE Joins(t, u)
  BY <1>2, <1>3, TeamAssumption DEF Founds, Founded, Roles
<1>4. ASSUME NEW t \in TeamIds, NEW u \in Users, NEW by, NEW role, MayGrant(role),
             Admits(t, u, role, by)
      PROVE  Joins(t, u)
  BY <1>2, <1>4, TeamAssumption DEF Admits, Invited, MayGrant, Roles
<1>5. roster' = roster => UNCHANGED Members
  BY DEF Members
<1> QED
  BY <1>3, <1>4, <1>5, RosterSteps DEF IsInvite

(* Every step of the service is, for TaskService and TaskListCache, their    *)
(* action Join or nothing: what they assume of the teams is what CreateTeam  *)
(* and Invite do, failures and crashes included.                             *)
THEOREM OthersSeeJoins == Spec => MembersOnlyJoin
<1>1. Known /\ [Next]_vars => [\E t \in TeamIds, u \in Users : Joins(t, u)]_Members
  BY MembersStep
<1> QED
  BY <1>1, KnownInvariant, PTL DEF Spec, MembersOnlyJoin

(* Invite reads the role of the inviter before its INSERT, on the pool; what *)
(* it read is still true then, because no row is ever changed or deleted.    *)
THEOREM RolesStayTheSame == Spec => RolesAreFinal
<1>1. Known /\ [Next]_vars =>
        \A t \in TeamIds :
          /\ \A u \in Users : roster[t][u] # NULL =>
               roster'[t][u] = roster[t][u] /\ addedBy'[t][u] = addedBy[t][u]
          /\ creator[t] # NULL => creator'[t] = creator[t]
  BY RolesStay, CreatorsStay
<1> QED
  BY <1>1, KnownInvariant, PTL DEF Spec, RolesAreFinal
=============================================================================
