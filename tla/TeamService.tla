---------------------------- MODULE TeamService ----------------------------
(* TeamService.CreateTeam and Invite over the MySQL tables users, teams and  *)
(* team_members, one action per SQL statement. CreateTeam runs in a          *)
(* transaction; Invite makes two checks and one INSERT on the pool, each in  *)
(* a transaction of its own. No statement waits for another request: only a  *)
(* CreateTeam leaves rows uncommitted, and they carry a team id that no      *)
(* other request can have read.                                              *)
EXTENDS Integers, Sequences

CONSTANTS
  Users,       \* user ids that may register
  Clients,     \* slots for concurrent requests
  Requests,    \* the requests clients may send
  MaxTeamId,   \* bound: AUTO_INCREMENT ends here
  MaxCreates,  \* bound: create requests of a behaviour
  MaxInvites,  \* bound: invitations of a behaviour
  BadRole,     \* a role string that TeamRole.IsValid rejects
  NULL         \* no value

TeamIds == 1..MaxTeamId

Roles == {"owner", "admin", "member"}

Replies == {"ok", "forbidden", "invalid_role", "user_not_found",
            "already_member", "internal", "lost"}

(* The requests the handlers let through; the id of a team or an invitee     *)
(* need not exist.                                                           *)
IsCreate(r) == r \in [op : {"create"}, by : Users]

IsInvite(r) ==
  r \in [op : {"invite"}, by : Users, team : TeamIds, who : Users,
         role : Roles \cup {BadRole}]

ASSUME TeamAssumption ==
  /\ \A r \in Requests : IsCreate(r) \/ IsInvite(r)
  /\ {MaxTeamId, MaxCreates, MaxInvites} \subseteq Nat
  /\ NULL \notin Users \cup Roles \cup Replies
  /\ NULL \notin TeamIds
  /\ BadRole \notin Roles \cup {NULL}

VARIABLES
  users,    \* users: the registered accounts
  creator,  \* teams: creator[t] is created_by of team t
  roster,   \* team_members: roster[t][u] is the role of user u in team t
  addedBy,  \* history variable: the actor of the request that added u to t
  told,     \* history variable: told[t][u] are the successes answered, 201 and
            \* 200, that put u into t: the role and the actor of each, in order
  nextId,   \* the AUTO_INCREMENT counter of teams
  pc,       \* pc[c]: the next statement of the request of client c
  req,      \* req[c]: the last request of client c
  tx,       \* tx[c]: the team id of the open transaction of client c
  reply,    \* reply[c]: what the last request of c was answered
  budget    \* the requests that may still arrive

store == <<users, creator, roster, addedBy, told>>
vars == <<store, nextId, pc, req, tx, reply, budget>>

PCs == {"idle", "t_insert", "t_owner", "commit", "i_actor", "i_user", "i_add"}

Nowhere == [t \in TeamIds |-> [u \in Users |-> NULL]]

Init ==
  /\ users \in SUBSET Users
  /\ creator = [t \in TeamIds |-> NULL]
  /\ roster = Nowhere
  /\ addedBy = Nowhere
  /\ told = [t \in TeamIds |-> [u \in Users |-> <<>>]]
  /\ nextId = 1
  /\ pc = [c \in Clients |-> "idle"]
  /\ req = [c \in Clients |-> NULL]
  /\ tx = [c \in Clients |-> NULL]
  /\ reply = [c \in Clients |-> NULL]
  /\ budget = [create |-> MaxCreates, invite |-> MaxInvites]

-----------------------------------------------------------------------------
Goto(c, label) ==
  /\ pc' = [pc EXCEPT ![c] = label]
  /\ UNCHANGED <<req, reply, budget>>

(* The request returns; UnitOfWork's deferred Rollback ends a transaction    *)
(* that is still open.                                                       *)
Finish(c, answer) ==
  /\ pc' = [pc EXCEPT ![c] = "idle"]
  /\ reply' = [reply EXCEPT ![c] = answer]
  /\ tx' = [tx EXCEPT ![c] = NULL]
  /\ UNCHANGED <<nextId, req, budget>>

Reject(c, answer) == Finish(c, answer) /\ UNCHANGED store

(* 201 or 200: user u is in team t with this role.                           *)
Succeed(c, t, u, role) ==
  /\ Finish(c, "ok")
  /\ told' = [told EXCEPT ![t][u] = Append(@, [role |-> role, by |-> req[c].by])]

(* The rows were written and yet an error was returned.                      *)
Unknown(c) == Finish(c, "internal") /\ UNCHANGED told

(* A token names an account that exists.                                     *)
Arrive(c) ==
  /\ pc[c] = "idle"
  /\ \E r \in Requests :
       /\ r.by \in users
       /\ budget[r.op] > 0
       /\ budget' = [budget EXCEPT ![r.op] = @ - 1]
       /\ req' = [req EXCEPT ![c] = r]
       /\ pc' = [pc EXCEPT ![c] = IF r.op = "create" THEN "t_insert" ELSE "i_actor"]
  /\ reply' = [reply EXCEPT ![c] = NULL]
  /\ UNCHANGED <<store, nextId, tx>>

-----------------------------------------------------------------------------
(* CreateTeam: BEGIN, INSERT INTO teams and the SELECT of the new row. A     *)
(* rollback does not give the id back.                                       *)
TInsert(c) ==
  /\ pc[c] = "t_insert"
  /\ nextId <= MaxTeamId
  /\ tx' = [tx EXCEPT ![c] = nextId]
  /\ nextId' = nextId + 1
  /\ Goto(c, "t_owner")
  /\ UNCHANGED store

(* INSERT INTO team_members of the owner, in the same transaction.           *)
TOwner(c) ==
  /\ pc[c] = "t_owner"
  /\ Goto(c, "commit")
  /\ UNCHANGED <<store, nextId, tx>>

(* A row of team_members appears, on behalf of client c.                     *)
Enter(c, t, u, role) ==
  /\ roster' = [roster EXCEPT ![t][u] = role]
  /\ addedBy' = [addedBy EXCEPT ![t][u] = req[c].by]

(* Both rows become visible; COMMIT may succeed and yet return an error.     *)
Commit(c) ==
  /\ pc[c] = "commit"
  /\ creator' = [creator EXCEPT ![tx[c]] = req[c].by]
  /\ Enter(c, tx[c], req[c].by, "owner")
  /\ UNCHANGED users
  /\ Succeed(c, tx[c], req[c].by, "owner") \/ Unknown(c)

-----------------------------------------------------------------------------
(* Mutant: any member may invite.                                            *)
AnyoneCanInvite(role) == TRUE

CanInvite(role) == role \in {"owner", "admin"}

(* Mutant: the role "owner" can be granted.                                  *)
MayGrantAny(role) == role \in Roles

(* Mutant: TeamRole.IsValid is not called.                                   *)
MayGrantUnknown(role) == role # "owner"

MayGrant(role) == role \in Roles \ {"owner"}

(* Invite: SELECT the actor's role, then the checks that need no query.      *)
IActor(c) ==
  LET role == roster[req[c].team][req[c].by] IN
  /\ pc[c] = "i_actor"
  /\ \/ (role = NULL \/ ~CanInvite(role)) /\ Reject(c, "forbidden")
     \/ /\ role # NULL /\ CanInvite(role)
        /\ ~MayGrant(req[c].role)
        /\ Reject(c, "invalid_role")
     \/ /\ role # NULL /\ CanInvite(role)
        /\ MayGrant(req[c].role)
        /\ Goto(c, "i_user")
        /\ UNCHANGED <<store, nextId, tx>>

IUser(c) ==
  /\ pc[c] = "i_user"
  /\ IF req[c].who \in users
     THEN Goto(c, "i_add") /\ UNCHANGED <<store, nextId, tx>>
     ELSE Reject(c, "user_not_found")

(* Mutant: INSERT ... ON DUPLICATE KEY UPDATE role.                          *)
IAddUpsert(c) ==
  /\ pc[c] = "i_add"
  /\ Enter(c, req[c].team, req[c].who, req[c].role)
  /\ UNCHANGED <<users, creator>>
  /\ Succeed(c, req[c].team, req[c].who, req[c].role) \/ Unknown(c)

(* Mutant: INSERT IGNORE: a duplicate key is no error.                       *)
IAddIgnore(c) ==
  /\ pc[c] = "i_add"
  /\ IF roster[req[c].team][req[c].who] # NULL
     THEN UNCHANGED <<roster, addedBy>>
     ELSE Enter(c, req[c].team, req[c].who, req[c].role)
  /\ UNCHANGED <<users, creator>>
  /\ Succeed(c, req[c].team, req[c].who, req[c].role) \/ Unknown(c)

(* INSERT INTO team_members: the primary key alone decides between two       *)
(* invitations of one user. It may take effect and yet return an error.      *)
IAdd(c) ==
  /\ pc[c] = "i_add"
  /\ IF roster[req[c].team][req[c].who] # NULL
     THEN Reject(c, "already_member")
     ELSE /\ Enter(c, req[c].team, req[c].who, req[c].role)
          /\ UNCHANGED <<users, creator>>
          /\ Succeed(c, req[c].team, req[c].who, req[c].role) \/ Unknown(c)

-----------------------------------------------------------------------------
(* Any statement may fail: a database error or a cancelled request context.  *)
Fail(c) ==
  /\ pc[c] # "idle"
  /\ Reject(c, "internal")

(* The service process dies; the database rolls back what was open.          *)
Crash ==
  LET hit == {c \in Clients : pc[c] # "idle"} IN
  /\ hit # {}
  /\ pc' = [c \in Clients |-> "idle"]
  /\ tx' = [c \in Clients |-> NULL]
  /\ reply' = [c \in Clients |-> IF c \in hit THEN "lost" ELSE reply[c]]
  /\ UNCHANGED <<store, nextId, req, budget>>

(* The INSERT of AuthService.Register. No code removes an account.           *)
Register(u) ==
  /\ u \notin users
  /\ users' = users \cup {u}
  /\ UNCHANGED <<creator, roster, addedBy, told, nextId, pc, req, tx, reply, budget>>

Step(c) ==
  \/ TInsert(c) \/ TOwner(c) \/ Commit(c)
  \/ IActor(c) \/ IUser(c) \/ IAdd(c)

Next ==
  \/ \E c \in Clients : Arrive(c) \/ Step(c) \/ Fail(c)
  \/ Crash
  \/ \E u \in Users : Register(u)

Spec == Init /\ [][Next]_vars

-----------------------------------------------------------------------------
(* Properties.                                                               *)

(* What told keeps of an answer.                                            *)
Success == [role : Roles, by : Users]

(* The shape of every variable.                                              *)
TypeOK ==
  /\ users \in SUBSET Users
  /\ creator \in [TeamIds -> Users \cup {NULL}]
  /\ roster \in [TeamIds -> [Users -> Roles \cup {NULL}]]
  /\ addedBy \in [TeamIds -> [Users -> Users \cup {NULL}]]
  /\ told \in [TeamIds -> [Users -> Seq(Success)]]
  /\ nextId \in Nat \ {0}
  /\ pc \in [Clients -> PCs]
  /\ req \in [Clients -> Requests \cup {NULL}]
  /\ tx \in [Clients -> TeamIds \cup {NULL}]
  /\ reply \in [Clients -> Replies \cup {NULL}]
  /\ budget \in [{"create", "invite"} -> Nat]

(* A team has one owner, its creator, from the moment it can be seen, and no *)
(* failure, crash or sequence of invitations adds or removes one; a team     *)
(* that was never committed has no members.                                  *)
OwnerIsCreator ==
  \A t \in TeamIds, u \in Users :
    /\ roster[t][u] = "owner" <=> u = creator[t]
    /\ creator[t] = NULL => roster[t][u] = NULL

(* Whoever is in a team was brought there by one who is its owner or admin,  *)
(* although the role of the actor was read before, outside any transaction.  *)
AddedByInviter ==
  \A t \in TeamIds, u \in Users :
    roster[t][u] # NULL =>
      /\ addedBy[t][u] \in Users
      /\ roster[t][addedBy[t][u]] \in {"owner", "admin"}

(* A place in a team is answered with success at most once, though the same  *)
(* request be sent twice at a time, and from then on it is as that answer    *)
(* said: of several invitations of one user at most one is told 200, and the *)
(* user keeps its role; a founder who was told 201 is the owner of the team. *)
(* 409 is the answer only to the invitation of a member.                     *)
AnswersAreTrue ==
  /\ \A t \in TeamIds, u \in Users :
       told[t][u] \in {<<>>, <<[role |-> roster[t][u], by |-> addedBy[t][u]]>>}
  /\ \A c \in Clients :
       reply[c] = "already_member" => roster[req[c].team][req[c].who] # NULL

(* Membership is a roster that only grows, one entitled entry at a time.     *)
Roster == INSTANCE TeamRoster WITH roster <- roster, addedBy <- addedBy

Refinement == Roster!Spec
=============================================================================
