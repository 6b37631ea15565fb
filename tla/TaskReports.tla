---------------------------- MODULE TaskReports ----------------------------
(* The reports of Analytics over the tables as the service writes them: the  *)
(* writes are the commits of its requests, each report is one SELECT between *)
(* two of them.                                                              *)
EXTENDS Analytics

CONSTANTS
  Teams,
  Users,      \* ids of users
  Statuses,   \* statuses other than "done" that tasks may have
  MaxTaskId,  \* bound: AUTO_INCREMENT ends here
  MaxUpdates, \* bound: updates of a behaviour
  MaxTime     \* bound: the clock stops here

TaskIds == 1..MaxTaskId

ASSUME ReportsAssumption ==
  /\ {MaxTaskId, MaxUpdates, MaxTime, Week, Month} \subseteq Nat
  /\ TopRanks \in Nat \ {0}
  /\ Users \subseteq Nat /\ "todo" \in Statuses
  /\ NULL \notin Users /\ NULL \notin TaskIds

VARIABLES
  now,       \* the clock of MySQL
  members,   \* team_members, as pairs
  tasks,     \* the rows of tasks, by id
  touched,   \* history: when a column of each task was last changed
  finished,  \* history: when each task last became done, or NULL
  updates    \* updates that may still come

vars == <<now, members, tasks, touched, finished, updates>>

AllStatuses == Statuses \cup {"done"}

Row == [team : Teams, status : AllStatuses, assignee : Users \cup {NULL},
        by : Users, created : 0..MaxTime, updated : 0..MaxTime]

(* Every team has the owner it was created with.                             *)
Init ==
  /\ now = 0
  /\ \E owner \in [Teams -> Users] : members = {<<t, owner[t]>> : t \in Teams}
  /\ tasks = << >>
  /\ touched = [i \in TaskIds |-> 0]
  /\ finished = [i \in TaskIds |-> NULL]
  /\ updates = MaxUpdates

-----------------------------------------------------------------------------
(* Mutant: the assignee is not looked up.                                    *)
AnyAssignee(t) == Users \cup {NULL}

(* resolveAssignee.                                                          *)
Assignees(t) == {u \in Users : <<t, u>> \in members} \cup {NULL}

(* CreateTask, by a member of the team.                                      *)
Create(i) ==
  /\ i \notin DOMAIN tasks
  /\ \A j \in 1..(i - 1) : j \in DOMAIN tasks
  /\ \E m \in members : \E a \in Assignees(m[1]) :
       tasks' = [j \in DOMAIN tasks \cup {i} |->
         IF j = i THEN [team |-> m[1], status |-> "todo", assignee |-> a, by |-> m[2],
                        created |-> now, updated |-> now]
         ELSE tasks[j]]
  /\ touched' = [touched EXCEPT ![i] = now]
  /\ UNCHANGED <<now, members, finished, updates>>

(* Mutant: the column has no ON UPDATE CURRENT_TIMESTAMP.                    *)
KeepTime(row) == row.updated

(* Mutant: the service sends its own time, which is ahead.                   *)
OwnTime(row) == now + 1

(* updated_at ... ON UPDATE CURRENT_TIMESTAMP.                               *)
UpdatedAt(row) == now

(* UpdateTask of the status, the assignee, or another column.                *)
Update(i) ==
  /\ i \in DOMAIN tasks
  /\ updates > 0
  /\ updates' = updates - 1
  /\ \E s \in AllStatuses, a \in Assignees(tasks[i].team) :
       /\ tasks' = [tasks EXCEPT ![i].status = s, ![i].assignee = a,
                                 ![i].updated = UpdatedAt(tasks[i])]
       /\ finished' = [finished EXCEPT ![i] =
            IF s = "done" /\ tasks[i].status # "done" THEN now ELSE @]
  /\ touched' = [touched EXCEPT ![i] = now]
  /\ UNCHANGED <<now, members>>

(* Invite.                                                                   *)
Join ==
  /\ \E t \in Teams, u \in Users :
       <<t, u>> \notin members /\ members' = members \cup {<<t, u>>}
  /\ UNCHANGED <<now, tasks, touched, finished, updates>>

Tick ==
  /\ now < MaxTime
  /\ now' = now + 1
  /\ UNCHANGED <<members, tasks, touched, finished, updates>>

Next == Join \/ Tick \/ \E i \in TaskIds : Create(i) \/ Update(i)

Spec == Init /\ [][Next]_vars

-----------------------------------------------------------------------------
(* Properties.                                                               *)

(* The shape of every variable; the times of a row are ordered and past.     *)
TypeOK ==
  /\ now \in 0..MaxTime
  /\ members \subseteq Teams \X Users
  /\ DOMAIN tasks \subseteq TaskIds
  /\ \A i \in DOMAIN tasks :
       /\ tasks[i] \in Row
       /\ tasks[i].created <= tasks[i].updated /\ tasks[i].updated <= now
       /\ \E m \in members : m = <<tasks[i].team, tasks[i].by>>
  /\ touched \in [TaskIds -> 0..MaxTime]
  /\ finished \in [TaskIds -> 0..MaxTime \cup {NULL}]
  /\ updates \in 0..MaxUpdates

(* The join of members and tasks multiplies rows, and a team without tasks   *)
(* has none to join: the counts are still those of the tables, and such a    *)
(* team is listed with 0.                                                    *)
StatsAreExact ==
  TeamStats(Teams, members, tasks, now) =
    {[team |-> t,
      members |-> Cardinality({u \in Users : <<t, u>> \in members}),
      done |-> Cardinality({i \in DOMAIN tasks :
        /\ tasks[i].team = t /\ tasks[i].status = "done"
        /\ touched[i] + Week >= now})] : t \in Teams}

(* A task that is done, and became so within the week, is counted, although  *)
(* the query knows only when the row was changed last.                       *)
RecentlyDoneIsCounted ==
  \A i \in DOMAIN tasks :
    tasks[i].status = "done" /\ finished[i] + Week >= now => Done(tasks, now, i)

(* Each team gets at most TopRanks creators with the ranks 1, 2, ... without *)
(* gaps or ties; nobody who is left out created more than one of them.       *)
TopCreatorsAreTop ==
  \A t \in Teams :
    LET top == {c \in TopCreatorsPerTeam(Teams, tasks, now) : c.team = t}
        count(u) == Cardinality({i \in DOMAIN tasks :
          tasks[i].team = t /\ tasks[i].by = u /\ tasks[i].created + Month >= now})
    IN /\ {c.rank : c \in top} = 1..Cardinality(top)
       /\ Cardinality(top) <= TopRanks
       /\ \A c \in top : c.created = count(c.user)
       /\ \A u \in Users \ {c.user : c \in top} :
            count(u) > 0 => Cardinality(top) = TopRanks /\ \A c \in top : count(u) <= c.created

(* The report of tasks whose assignee is outside the team is empty for every *)
(* database that the service has written.                                    *)
NoInconsistentTask == InconsistentTasks(members, tasks) = {}
=============================================================================
