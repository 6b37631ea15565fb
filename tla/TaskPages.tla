----------------------------- MODULE TaskPages -----------------------------
(* A client that walks through the pages of GET /tasks, while the tasks of   *)
(* the team are created and change their status. Each page is one SELECT;    *)
(* between two pages anything may happen. Pages are read here past the cache *)
(* (TaskListCache).                                                          *)
EXTENDS Integers, FiniteSets

CONSTANTS
  Statuses,     \* the statuses of tasks, and what a list may be filtered by
  DefaultLimit, \* the page size of a request without a limit
  MaxLimit,     \* the largest page size
  Limits,       \* the limits that clients ask for, NULL when they name none
  MaxTaskId,    \* bound: AUTO_INCREMENT ends here
  MaxUpdates,   \* bound: updates of a behaviour
  MaxWalks,     \* bound: walks of a behaviour
  NULL          \* no value

TaskIds == 1..MaxTaskId

(* What the constants are assumed to be.                                     *)
PagesAssumption ==
  /\ {MaxTaskId, MaxUpdates, MaxWalks} \subseteq Nat
  /\ {DefaultLimit, MaxLimit} \subseteq Nat \ {0}
  /\ DefaultLimit <= MaxLimit
  /\ \A l \in Limits : l = NULL \/ l \in Nat \ {0}
  /\ NULL \notin TaskIds /\ NULL \notin Statuses /\ "todo" \in Statuses

VARIABLES
  status,   \* status[i]: the status of task i, or NULL when there is no row
  open,     \* the rows whose creation is not yet committed
  nextId,   \* the AUTO_INCREMENT counter of tasks
  walk,     \* the walk of the client, or NULL
  updates,  \* updates that may still come
  walks     \* walks that may still come

vars == <<status, open, nextId, walk, updates, walks>>

Init ==
  /\ status = [i \in TaskIds |-> NULL]
  /\ open = {}
  /\ nextId = 1
  /\ walk = NULL
  /\ updates = MaxUpdates
  /\ walks = MaxWalks

-----------------------------------------------------------------------------
(* What a statement sees of the table.                                       *)
Committed == {i \in TaskIds : status[i] # NULL} \ open

(* WHERE team_id = ? AND status = ?, the latter when a status is asked for.  *)
Listed(filter) == {i \in Committed : filter = NULL \/ status[i] = filter}

(* Mutant: ORDER BY status, id DESC.                                         *)
ByStatus(i, j) ==
  LET first == CHOOSE s \in Statuses : TRUE IN
  \/ status[i] = first /\ status[j] # first
  \/ (status[i] = first) = (status[j] = first) /\ i > j

(* ORDER BY id DESC.                                                         *)
NewestFirst(i, j) == i > j

(* LIMIT limit OFFSET offset.                                                *)
Page(filter, limit, offset) ==
  {i \in Listed(filter) :
     LET place == Cardinality({j \in Listed(filter) : NewestFirst(j, i)}) IN
     offset <= place /\ place < offset + limit}

(* Mutant: the limit is not bounded.                                         *)
AnyLimit(limit) == IF limit = NULL THEN DefaultLimit ELSE limit

(* parseListTasksQuery: a limit that is too large is made smaller silently.  *)
EffectiveLimit(limit) ==
  CASE limit = NULL -> DefaultLimit
    [] limit # NULL /\ limit > MaxLimit -> MaxLimit
    [] OTHER -> limit

(* A client walks from page to page, and goes on by what it got, to an empty *)
(* page. History: "stay" are the tasks that have matched ever since, "left"  *)
(* and "came" count those that stopped and began to.                         *)
StartWalk ==
  /\ walk # NULL => walk.ended
  /\ walks > 0
  /\ walks' = walks - 1
  /\ \E filter \in Statuses \cup {NULL}, l \in Limits :
       walk' = [filter |-> filter, limit |-> EffectiveLimit(l), offset |-> 0,
                got |-> {}, last |-> {}, repeated |-> 0, ended |-> FALSE,
                stay |-> Listed(filter), left |-> 0, came |-> 0]
  /\ UNCHANGED <<status, open, nextId, updates>>

NextPage ==
  /\ walk # NULL /\ ~walk.ended
  /\ LET page == Page(walk.filter, walk.limit, walk.offset) IN
     walk' = [walk EXCEPT
       !.offset = @ + Cardinality(page),
       !.got = @ \cup page,
       !.last = page,
       !.repeated = @ + Cardinality(page \cap walk.got),
       !.ended = page = {}]
  /\ UNCHANGED <<status, open, nextId, updates, walks>>

(* What a committed write does to the list that is walked.                   *)
Watch ==
  IF walk = NULL \/ walk.ended THEN UNCHANGED walk
  ELSE \E filter \in {walk.filter} :
         walk' = [walk EXCEPT
           !.stay = @ \cap Listed(filter)',
           !.left = @ + Cardinality(Listed(filter) \ Listed(filter)'),
           !.came = @ + Cardinality(Listed(filter)' \ Listed(filter))]

-----------------------------------------------------------------------------
(* CreateTask: others see the row, perhaps below newer ones, when its        *)
(* transaction is committed.                                                 *)
Insert ==
  /\ nextId <= MaxTaskId
  /\ nextId' = nextId + 1
  /\ status' = [status EXCEPT ![nextId] = "todo"]
  /\ open' = open \cup {nextId}
  /\ UNCHANGED <<walk, updates, walks>>

CommitInsert(i) ==
  /\ i \in open
  /\ open' = open \ {i}
  /\ UNCHANGED <<status, nextId, updates, walks>>
  /\ Watch

RollbackInsert(i) ==
  /\ i \in open
  /\ open' = open \ {i}
  /\ status' = [status EXCEPT ![i] = NULL]
  /\ UNCHANGED <<nextId, walk, updates, walks>>

(* UpdateTask, at its commit.                                                *)
Update(i) ==
  /\ i \in Committed
  /\ updates > 0
  /\ updates' = updates - 1
  /\ \E s \in Statuses \ {status[i]} : status' = [status EXCEPT ![i] = s]
  /\ UNCHANGED <<open, nextId, walks>>
  /\ Watch

Next ==
  \/ StartWalk \/ NextPage \/ Insert
  \/ \E i \in TaskIds : CommitInsert(i) \/ RollbackInsert(i) \/ Update(i)

Spec == Init /\ [][Next]_vars

-----------------------------------------------------------------------------
(* Properties.                                                               *)

(* The shape of every variable; no page is longer than the largest one.      *)
TypeOK ==
  /\ status \in [TaskIds -> Statuses \cup {NULL}]
  /\ open \subseteq {i \in TaskIds : status[i] # NULL}
  /\ nextId \in 1..(MaxTaskId + 1)
  /\ walk # NULL =>
       /\ walk.limit \in 1..MaxLimit /\ Cardinality(walk.last) <= MaxLimit
       /\ walk.got \subseteq TaskIds /\ walk.stay \subseteq TaskIds
       /\ {walk.offset, walk.repeated, walk.left, walk.came} \subseteq Nat
  /\ updates \in 0..MaxUpdates /\ walks \in 0..MaxWalks

(* A walk misses no more of the tasks that were listed all the time than     *)
(* others left the list meanwhile, and repeats no more than came into it:    *)
(* new tasks, also those that are committed late, never hide others.         *)
WalkMissesOnlyForLeavers ==
  walk # NULL =>
    /\ walk.ended => Cardinality(walk.stay \ walk.got) <= walk.left
    /\ walk.repeated <= walk.came
=============================================================================
