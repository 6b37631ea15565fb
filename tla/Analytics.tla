----------------------------- MODULE Analytics -----------------------------
(* The three queries of AnalyticsRepository, over the tables as one          *)
(* statement sees them: a set of teams, a set of <<team, user>> pairs, and a *)
(* function from the ids of the tasks to their rows. SQL's outer joins and   *)
(* window function are kept; ORDER BY of the results is not.                 *)
EXTENDS Integers, FiniteSets

CONSTANTS
  NULL,      \* SQL's NULL
  Week,      \* INTERVAL 7 DAY, in ticks of the clock
  Month,     \* INTERVAL 1 MONTH
  TopRanks   \* how many creators of a team are listed

(* A LEFT JOIN finds the rows that match, or NULL.                           *)
OrNull(S) == IF S = {} THEN {NULL} ELSE S

MembersOf(members, t) == {u \in {m[2] : m \in members} : <<t, u>> \in members}

TasksOf(tasks, t) == {i \in DOMAIN tasks : tasks[i].team = t}

(* teams t LEFT JOIN team_members LEFT JOIN tasks, the rows of one team:     *)
(* every member with every task.                                             *)
Joined(members, tasks, t) ==
  OrNull(MembersOf(members, t)) \X OrNull(TasksOf(tasks, t))

Done(tasks, now, i) ==
  i # NULL /\ tasks[i].status = "done" /\ tasks[i].updated >= now - Week

(* Mutant: COUNT without DISTINCT.                                           *)
CountRows(rows, column) == Cardinality({row \in rows : row[column] # NULL})

(* COUNT(DISTINCT ...) of a column: no NULL, and no value twice.             *)
CountDistinct(rows, column) == Cardinality({row[column] : row \in rows} \ {NULL})

TeamStats(teams, members, tasks, now) ==
  {[team |-> t,
    members |-> CountDistinct(Joined(members, tasks, t), 1),
    done |-> CountDistinct(
      {row \in Joined(members, tasks, t) : Done(tasks, now, row[2])}, 2)] : t \in teams}

(* WHERE created_at is in the last month, GROUP BY team and creator.         *)
Recent(tasks, t, now) == {i \in TasksOf(tasks, t) : tasks[i].created >= now - Month}

Created(tasks, t, u, now) ==
  Cardinality({i \in Recent(tasks, t, now) : tasks[i].by = u})

Creators(tasks, t, now) == {tasks[i].by : i \in Recent(tasks, t, now)}

(* Mutant: RANK() OVER (ORDER BY COUNT( * ) DESC).                           *)
AheadByCount(tasks, t, u, v, now) ==
  Created(tasks, t, u, now) > Created(tasks, t, v, now)

(* The order of the window: COUNT( * ) DESC, created_by.                     *)
Ahead(tasks, t, u, v, now) ==
  \/ Created(tasks, t, u, now) > Created(tasks, t, v, now)
  \/ Created(tasks, t, u, now) = Created(tasks, t, v, now) /\ u < v

(* ROW_NUMBER() in the partition of the team.                                *)
RowNumber(tasks, t, u, now) ==
  1 + Cardinality({v \in Creators(tasks, t, now) : Ahead(tasks, t, v, u, now)})

TopCreatorsPerTeam(teams, tasks, now) ==
  UNION {{[team |-> t, user |-> u, created |-> Created(tasks, t, u, now),
           rank |-> RowNumber(tasks, t, u, now)] :
            u \in {v \in Creators(tasks, t, now) : RowNumber(tasks, t, v, now) <= TopRanks}} :
         t \in teams}

(* Tasks whose assignee is not in their team.                                *)
InconsistentTasks(members, tasks) ==
  {i \in DOMAIN tasks :
     tasks[i].assignee # NULL /\ <<tasks[i].team, tasks[i].assignee>> \notin members}
=============================================================================
