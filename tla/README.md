# A formal model of the task manager service

The service is an HTTP API in Go over MySQL and Redis: users register, found
teams and invite each other; members of a team create, update, list and comment
on its tasks; every change of a task leaves entries in an audit trail; lists of
tasks are cached in Redis. This directory models it in TLA+, checks it
with TLC on small instances and proves the main safety properties, for every
value of the constants, with TLAPS. Paths are relative to the repository.

## The system

| component | state | operations | talks to |
|---|---|---|---|
| task service (`internal/service/task_service.go`, `repository/task_*`) | tables `tasks`, `task_history` | CreateTask, UpdateTask, ListTasks, GetHistory | MySQL inside and outside transactions, cache, membership |
| unit of work (`infrastructure/unit_of_work.go`, `repository/executor.go`) | the open transaction, carried by the context | Do: BEGIN, function, COMMIT or the deferred ROLLBACK | MySQL; every repository call picks transaction or pool |
| task list cache (`infrastructure/cache/task_cache.go`) | Redis keys `tasks:team:{id}:...` with a TTL | Get, Set, InvalidateTeam (SCAN, then DEL) | Redis |
| teams (`service/team_service.go`, `membership.go`, `repository/team_*`) | tables `teams`, `team_members` | CreateTeam (transaction), Invite (pool), ListTeams | MySQL, accounts |
| accounts and tokens (`service/auth_service.go`, `infrastructure/jwt.go`, `password.go`, `http/middleware/auth.go`) | table `users`; tokens are not stored | Register, Login, the check of a token | MySQL |
| comments (`service/comment_service.go`) | table `task_comments` | AddComment, ListComments | MySQL, membership |
| analytics (`repository/analytics_repository.go`) | none | three read-only queries | MySQL |
| HTTP handlers (`internal/http`) | none | parse and validate, call a service, map errors to codes | services |
| process (`cmd/service/main.go`) | listener, connection pools | start, signal, shutdown within 10 s, close | all |
| configuration, schema | files read once | | |

Requests run concurrently, one goroutine each; they share nothing in memory,
only MySQL (REPEATABLE READ, InnoDB row locks, at most 25 connections) and
Redis. What is hard about the code follows from that:

- **Interleaving.** UpdateTask reads a task from a snapshot, without a lock, and
  writes the whole row later. ListTasks reads MySQL and fills the cache later.
  Invite and CreateTask check on the pool and act on the check later.
- **Failure.** Any statement may fail, a request context may be cancelled, the
  process may die between any two statements, and a COMMIT (or an autocommitted
  INSERT) may take effect although its acknowledgement is lost.
- **Ordering.** SCAN is many round trips; commits, fills, deletions and expiry of
  several requests mix with it. History and comments are ordered by times of whole
  seconds that are taken long before a row can be seen. Pages are cut by OFFSET
  from a list that grows at its head.
- **Limits.** Requests wait for one pool of connections and for row locks;
  shutdown waits ten seconds for them and then closes MySQL and Redis
  under whatever still runs.
- **Meaning of a count.** MySQL reports *changed* rows; the code reads 0 as "no
  such task".

What makes each part correct: the task service never separates a row from its
audit entries, lets only members act and be assigned, and keeps what it
acknowledged; the cache gives a list only to members of its team, for the query
it answers, and does not stay stale; a team has exactly one owner at any time it can be
seen, and only owners and admins bring others in; an account is unique for its
e-mail and a token is good for one account and a limited time; the history of a
task is a log, and lists contain what was acknowledged; the process exits when it
is told to, with a code that is true, and no request waits for ever.

## The modules

| module | what it is | lines of the code |
|---|---|---|
| `TaskData` | the data of tasks: columns, commands as the handlers let them through, defaults, patching, audit entries | `entity/task.go`, `task_history.go`, handlers, `buildPatch`, `taskPatch` |
| `TaskLedger` | abstract specification: a task is the list of its committed versions, each with one group of audit entries added in the same step | |
| `TaskService` | CreateTask and UpdateTask, one action per SQL statement | `task_service.go`, `task_repository.go`, `task_history_repository.go`, `unit_of_work.go` |
| `TaskService_invariants`, `TaskService_proofs` | the proofs about `TaskService` | |
| `TaskListCache` | ListTasks and InvalidateTeam, one action per round trip | `task_service.go`, `task_cache.go` |
| `TeamRoster` | abstract specification: a roster that grows by founding a team or by an inviter's addition | |
| `TeamService` | CreateTeam and Invite, one action per SQL statement | `team_service.go`, `team_repository.go`, `team_member_repository.go`, `unit_of_work.go` |
| `TeamService_proofs` | the proofs about `TeamService` | |
| `AccountBook` | abstract specification: one account per address, sessions only against the stored secret of an account | |
| `AuthService` | Register, Login and the check of a token, with a clock | `auth_service.go`, `user_repository.go`, `jwt.go`, `password.go`, `middleware/auth.go`, `auth_handler` |
| `AuthService_proofs` | the proofs about `AuthService` | |
| `TaskListCache_proofs` | the proofs about `TaskListCache` | |
| `TaskTrail` | history and comments of a task, as they are written and listed concurrently | `comment_service.go`, `task_comment_repository.go`, `task_history_repository.go`, `task_service.go` |
| `TaskTrail_proofs` | the proofs about `TaskTrail` | |
| `Server` | the process from start to exit, and its requests as users of pool, row lock and Redis | `cmd/service/main.go`, `executor.go`, `unit_of_work.go`, `middleware/recovery.go`, the calls of each service |
| `Server_proofs` | the proofs about `Server` | |
| `TaskPages` | a client that walks the pages of a list while tasks come and change | `task_repository.go`, `task_handler` |
| `Analytics` | the three SQL queries as operators: joins, DISTINCT, window function | `analytics_repository.go` |
| `TaskReports` | the tables of tasks and members as the services write them, read by `Analytics` | `analytics_repository.go`, `migrations` |
| `TaskReads_proofs` | the proofs about `TaskPages`, `Analytics` and `TaskReports` | |
| `MCTaskService`, `MCTaskListCache`, `MCTeamService`, `MCAuthService`, `MCTaskTrail`, `MCServer`, `MCTaskReads` | the instances TLC checks: requests, symmetry | |

### TaskService

`rows[id]` and `history[id]` are the committed content of `tasks` and
`task_history`, with every version that was ever committed; `rows[id]` being
empty means that the task does not exist. `nextId` is the AUTO_INCREMENT
counter, which a rollback does not restore. `lock[id]` is the row lock. For each
client (a request in progress) `pc` is the statement that comes next, `req` the
request, `tx` the private side of its transaction: the task, the version its
snapshot shows, the row to write, the entries inserted so far. `reply` is the
answer of the last request.

| action | code |
|---|---|
| `Arrive` | a handler has parsed a request that the service will accept as a command |
| `CMember`, `CAssignee` | the two checks of CreateTask, on the pool |
| `CInsert`, `CHistory` | BEGIN and INSERT of the task with its SELECT; INSERT of the entry "created" |
| `URead` | BEGIN, SELECT of the task, membership checks, `buildPatch` with every early return |
| `UWrite` | UPDATE of the five columns: waits for the row lock; 0 changed rows is "not found" |
| `UHistory` | one INSERT of an audit entry; the last one goes on to COMMIT |
| `Commit`, `CommitUnknown` | COMMIT; COMMIT that took effect but returned an error |
| `Fail` | any statement returns an error; the deferred Rollback releases the locks |
| `Crash` | the process dies; MySQL rolls back every open transaction |
| `Join` | a committed INSERT into `team_members` by the team service |

Abstractions. All reads of UpdateTask come from the snapshot that its first
SELECT creates, so they are one step (`URead`); the writes act on the newest
committed row, as InnoDB does. An uncommitted row has no reader: under REPEATABLE READ no
other transaction sees it, and the only other effect, the row lock, is a variable. Text is
a small set of strings, among them the two the code treats in a special way
("" and "medium"). An assignee id at or below 0 is `Nobody`. Time stamps are left out.
Each state keeps the whole list of versions; this is bookkeeping of the database's commits,
and what the code can read of it is only the last version and its own snapshot.

### TaskListCache

A list is represented by its query and the number of commits to the team it
reflects, which is all that staleness can depend on. `cached[k]` is the
entry under key `k`; its field `at` is history (the commits at the time of the SET) and so is
`failed`. A reader goes through membership check, GET, SELECT, SET; a writer
starts with the commit of CreateTask or UpdateTask and then scans. SCAN promises
only that a key present during the whole scan is returned: `Scan` comes past
each key at a moment of its own, in any order. Errors of Redis are ignored as in the code:
`Get` treats one as a miss, `SetFails` and `InvalidationFails` go on.
`Expire` is the TTL, or an eviction.

### TeamService

`creator[t]` is the row of `teams`, `roster[t][u]` the row of `team_members`.
`addedBy` is a history variable, the actor of the request that inserted the row;
so is `told`, which keeps every answer of success (`Succeed`) under the place it was
about, so that an invitation answered twice shows, even if the two were equal. An
INSERT or COMMIT whose acknowledgement was lost tells nothing (`Unknown`).
CreateTeam's two inserts are private until `Commit`; no other request can touch
them, as the team id is new, so no statement of this service waits for another
one and no lock is modelled. Invite is three autocommitted statements:
`IActor` (role of the actor, then the checks that need no query), `IUser`,
`IAdd` (the primary key decides about duplicates; it may take effect and
still return an error). Accounts are never deleted; `Register` adds one.

`TaskService` and `TaskListCache` see membership only as sets that grow
(`Join`). That is sound because `TeamService` implements `TeamRoster`, in which
a place in a team, once taken, never changes, and each step adds one. `OthersSeeJoins` proves it
in the very words of those modules: each step is their action `Join`, or leaves
every membership alone.

### AuthService

`users[i]` is the row of `users`, `tokens` the tokens that clients have been
given; the service keeps none. A spelling of an e-mail is a value, and `Fold` is
what the case-insensitive collation of the column makes of it: the unique key and
the SELECT of Login compare folded addresses. A hash is a value that remembers what
bcrypt compares of the password, `Kept`: its first 72 bytes. Passwords of more
(`Long`) are refused when they are hashed, so a registration with one is answered 500, but not
when they are compared: Login has no check of length, and a long password opens the account
whose password bcrypt cannot tell from it. Nothing is assumed of `Kept`, so the proofs hold
whatever bcrypt keeps, and the properties speak of passwords as bcrypt tells them apart.

| action | code |
|---|---|
| `Arrive` | a handler has parsed a registration or a login |
| `RHash`, `RInsert`, `RRead` | bcrypt; the INSERT, decided by the unique key alone, which may take effect and still return an error; the SELECT for the answer |
| `LRead`, `LCheck` | SELECT by e-mail; bcrypt, and the token |
| `Call` | a request to a protected route: the middleware parses the token and passes it on or answers 401 |
| `Fail`, `Crash`, `Tick` | a statement fails; the process dies; time passes |

Claims of a token are whole seconds, so `exp` is rounded down (`NumericDate`). The
fields `at` and `password` of a token are history: when, and for which
password, it was issued.

### TaskTrail

`tables` has the rows of `task_history` and `task_comments`, `committed` the
requests whose rows others can see. MySQL takes the time of a row when its
statement starts (`CommentStart`) and the AUTO_INCREMENT id later
(`CommentId`); an INSERT into `task_comments` then waits for the row of the task
if an update holds it, because of the foreign key (`CommentInsert`). Entries of
an update stay invisible until its COMMIT (`Entry`, `End`). `acked`, and the
fields `by`, `of` and `after` of a row, are history: who wrote it, with how many
rows, after which answers. `List` is either SELECT. Here a crash is the same
as the failure of every request. Membership does not change in this module, as
`TaskService` covers that.

### Server

`Script` gives, for each route, what its handler asks of the pool and of
Redis, in order: a single statement, BEGIN, statements of the transaction, a
write that takes the row lock, an INSERT that waits for it, COMMIT, an access to
Redis. `Acquire` hands out a connection, `Execute` completes a step, `Fail` ends
the request with the deferred Rollback, `Hang` is a statement that never returns
(the code sets no timeout). `main` is where `run()` stands; its deferred calls
are `CloseRedis`, then `CloseDB`. `Select` may take either case when both a signal
and the listener's error are there. `harm` is history: a request that a closed pool
answered with an error, a commit whose invalidation a closed client skipped, a
request cut short by the exit.

### TaskPages, Analytics and TaskReports

The client of `TaskPages` asks for page after page and goes on by the number of
tasks it got. Each page is one SELECT (`Page`: filter, ORDER BY id DESC, LIMIT and
OFFSET); in between, transactions insert and commit tasks in any order and updates move
tasks in and out of the filter. `walk` keeps as history which tasks matched all
the time (`stay`), and how many left and came.

`Analytics` translates the SQL, duplicates and NULLs of the outer joins included.
`TaskReports` writes the tables with the commits of the services, with the column
defaults of `migrations` (`updated_at` ... ON UPDATE), and compares each report with a
count that does not know the query. `touched` and `finished` are history.

The two specifications share nothing. `MCTaskReads` runs both, one of the two in
each behaviour (`subject`).

## What the runs show

| run | question | result |
|---|---|---|
| `task_safety` | `TypeOK`, `AssigneeIsMember`, `ActorsAreMembers`, `HistoryPairsRows`, `OkIsDurable`, `LogExplainsSomeBase` (entries are the whole difference to some earlier version), `NoEmptyRevision`, and `Refinement` of TaskLedger, under every outcome of three concurrent requests, with failures, unknown commits and crashes | hold |
| `task_liveness` | `EveryRequestReplies`: nobody waits for a row lock for ever | holds |
| `task_partial` | `PartialUpdate`, README: an update is partial | violated |
| `task_history` | `HistoryRecordsEveryChange`, the trail is the history of the row | violated |
| `task_notfound` | `NotFoundMeansAbsent`, 404 is for tasks that do not exist | violated |
| `cache` | `TypeOK`; `StaleHasCause`: an entry that was fresh when set is missed by no later invalidation; `AnswersTheQuery`: lists reach only members, and only for their query; `EventuallyFresh`: the TTL clears every stale list in the end | hold |
| `cache_stale` | `InvalidatedMeansFresh`, README: a commit invalidates the cache | violated |
| `team` | `TypeOK`; `OwnerIsCreator`; `AddedByInviter`; `AnswersAreTrue`: a place is answered with success once and is then as that answer said; `Refinement` of TeamRoster | hold |
| `auth` | `TypeOK`; `AnswersAreTrue`: 201, 409 and a granted login stay true; `GoodLoginsAreAccepted`; `TokensLiveTheirTime`: a token is good for its TTL, less a part of a second, and never longer; `Refinement` of AccountBook | hold |
| `server` | `TypeOK`; `SuccessIsClean`: exit code 0 means that no request was harmed; `ReturnsClosed`; `ConnectionsComeBack`; `EveryRequestEnds`: no deadlock on pool and row lock; `ExitFollows`: a signal ends the process even under a statement that hangs | hold |
| `trail` | `TypeOK`; `HistoryIsALog`: what is committed later is listed later; `GroupsAreWhole`: an update's entries stand together, all of them; `CommentsInOrder`; `AcknowledgedIsListed` | hold |
| `reads` | `ShapesOK`; `StatsAreExact`, `RecentlyDoneIsCounted`, `TopCreatorsAreTop`, `NoInconsistentTask`: the reports agree with the tables; `WalkMissesOnlyForLeavers`: a walk through the pages misses no more tasks than left the list, and repeats no more than came | hold |

The four violated properties are statements of the README or of tests:

1. *Partial update* (`task_service.go:198`). Two updates overlap; the second
   writes all five columns of its snapshot and undoes a field its request
   does not mention.
2. *History* (`task_service.go:209`). After such an overlap the entries are the
   difference to the snapshot, not to the row that was overwritten: the field
   that was put back has no entry.
3. *404 for an existing task* (`task_repository.go:149`). The second of two equal
   updates changes no row, and 0 changed rows is answered "not found".
4. *Late fill* (`task_service.go:158`). A list read before a commit and set after
   its invalidation is served until its TTL, though nothing failed.

What does hold in spite of them is stated next to them. Entries always explain
the row relative to *some* committed version (`LogExplainsSomeBase`), and
`TaskLedger` allows exactly that. And each violation needs the overlap it
shows, which is proved: an update during which no other commits is partial and
recorded exactly (`WithoutRacesUpdatesAreExact`, for 1 and 2); "not found" for a task
that exists comes only from an UPDATE whose very values another request has
written since the SELECT (`WithoutRacesNotFoundIsTrue`, for 3); and when all invalidations
of a team have ended without an error, a stale list is one that was already stale when it was set
(`StaleEntriesWereSetLate`, for 4).

Two of the properties that hold say less than one might wish, because the code
promises no more. A request that lasts beyond the ten seconds of Shutdown is answered
500 by the closed pool or cut short, and its invalidation may be
skipped; what holds is that the exit code is then 1 (`SuccessIsClean`). And the report of
finished tasks goes by `updated_at`, so a task that was done long ago and is edited today
counts as done this week; what holds is that none that was finished this week is
left out (`RecentlyDoneIsCounted`).

### Bounds

- Task service: two clients suffice for every conflict of two transactions on
  a row; the passing runs have three (one holds the lock, one
  waits, one works from an older snapshot). `MaxCreates`, `MaxUpdates` bound the
  requests of a behaviour, `MaxTaskId` the ids (so that the id runs out once). The requests of
  `MCTaskService` meet every reply; any subset of the users may be members at
  first. Sequences longer than this are the business of the proofs.
- Cache: one reader of two keys and two writers, or two readers and a writer; one
  commit (`MaxCommits`), enough for a fill that spans a commit, its scan and its
  deletions. A second commit that overlaps the scan of the first is a matter of
  `StaleHasCause` and `AnswersTheQuery`, which are proved for any number.
- Teams: two clients, three users (owner, admin, invitee), two teams, two
  invitations: an admin is invited and then invites, or two invite the same user, with the
  same request or with different ones. Invitations to the first team have every role string, those
  to the second, which is there so that teams could be confused, the role "member".
  An id that is used up (`MaxTeamId`) stops further creates.
- Accounts: two clients, four requests, two spellings of one address and another address, two
  good passwords and an overlong one that bcrypt does not tell from one of them; it is used to
  register and to log in. A token lives for 3 ticks, two ticks are a
  second, and the clock runs to 4 (`MaxTime`): tokens are used before, at and after their end, with
  and without a rounded part. `MaxUserId` ends AUTO_INCREMENT.
- Trail: one task, four requests, two at a time, up to two entries per
  update, two seconds (`MaxTime`): rows of one second and of different ones, a comment
  that waits for an update, a list between them.
- Server: three slots, three requests, a pool of two, one statement that may
  hang; the routes are an update (BEGIN, row lock, Redis) and a single statement.
  With two connections and three requests the pool is exhausted and the
  lock is contended. The other routes are covered by the proofs, which hold for
  every subset of `Script`, except for liveness.
- Reads: reports over three tasks, two teams and two users, with `Week` and
  `Month` the current tick and the clock at 0 or 1, and one rank (`TopRanks`), so that rows are recent or
  not, and a creator is cut off. Pages of one, two and three over four tasks and three
  changes during a walk.
- Symmetry is used for clients, slots and users in safety runs, never in
  runs with liveness.
- `CHECK_DEADLOCK FALSE`: when the budgets of requests are used up the server is idle,
  which is not an error.

### Fairness

`TaskService` has weak fairness on every statement that does not wait
(a runnable goroutine runs, its statement returns) and strong fairness on `UWrite`, as InnoDB
grants a row lock in the order it was asked for. Neither `Arrive`, `Fail`,
`Crash` nor `Join` is fair. `TaskListCache` has weak fairness on the steps of
readers and writers and on `Expire`, which is the TTL of 5 minutes that every
SET carries. Errors and new requests are never assumed to happen.

`Server` has weak fairness on the steps of `run()` (among them the deadline of
Shutdown, which is a timer) and strong fairness on the progress of each request: `database/sql`
serves those that wait for a connection first come, first served, and InnoDB a row lock
likewise. A hung statement makes no progress. `Arrive`, `Fail`, `Hang`,
`Signal`, `ListenFails` and `Kill` are not fair.

## What is proved

Assumptions: `DataAssumption` (NULL, `Nobody` and `BadStatus` are no ordinary values; "" and
"medium" are texts), `ServiceAssumption`, `TeamAssumption` and `AuthAssumption` (requests
are of the shapes the handlers let through, bounds are natural numbers, NULL is not a
client, a user or an answer), `CacheAssumption` (`Miss` is none of the values it stands
in for), `TrailAssumption` and `ServerAssumption` (routes have a script, at least one connection),
`ReportsAssumption` and `PagesAssumption` (periods, bounds and limits are natural
numbers, the default limit is one of the allowed, "todo" is a status: it is the default of the
column). TLC evaluates them in every run of their module. No assumption
bounds the number of clients, users, teams, tasks, connections or requests.
In the reports users are numbers, as the window orders equal creators by them.

**TaskService.** `TypeCorrect`, `AssigneesAreMembers`, `OnlyMembersAct`,
`TaskAndTrailCommitTogether`, `EntriesExplainTheRow`, `EveryRevisionChanges`,
`AcknowledgedIsDurable`, `ImplementsLedger`; `CommittedStays`, `NoLockCycles`,
`WithoutRacesUpdatesAreExact` and `WithoutRacesNotFoundIsTrue`. None of the properties is
inductive by itself. The invariant has four layers, each preserved with the help of those
before it:

1. `Shape` (`TaskService_invariants`): types; a request fits the statement it is at; an
   open transaction works from a committed version; an update that passed its
   UPDATE has something left to record.
2. `Ids`: the id of an open create is below `nextId`, is used by no
   other transaction and has no rows.
3. `Membership` (`TaskService_invariants`): past its check the actor, and the assignee about to be written,
   are members of the team; a task keeps its team. As membership only grows, checks on the
   pool and in an old snapshot remain true until the commit.
4. `Bond` (`TaskService_proofs`): the entries inserted so far are a part of the
   difference to the snapshot; past its UPDATE a transaction holds the lock of
   the row, so the row differs from what it writes until it commits.

From these, `StoreSteps` says that a step of the system leaves the store alone, joins a member,
or appends one version with its entries. The ledger's `Create` and
`Revise`, and the properties of the trail, follow from it. Durability needs one
more invariant, `IntentOK`: until it commits, a transaction carries the values its request asks
for. With the lock (`Bond`) it also gives the exactness of an update without overlap: the version
it read is then the one it replaces. `LocksHeld`, that whoever holds a row lock is past its UPDATE of
that row, leaves no cycle of waiting transactions: who waits is at its UPDATE.
`Unanswered` (a request under way has no answer) says which step gave an answer.

**TeamService.** `TypeCorrect`, `OneOwner`, `InvitersOnly`, `AnswersStayTrue`, `ImplementsRoster`.
The layers are `Shape`; `FreshIds` (a team id belongs to one transaction and has
no rows before its commit); `Standing` (no members without a team, one owner,
every member added by an inviter, and whoever is past Invite's check still has the right). `RolesStay`, that no
row of `team_members` ever changes, is what carries the old check of Invite to its INSERT, and
each answer through the rest of the behaviour; it is a theorem of the specification,
`RolesStayTheSame`. `Places` adds to `AnswersAreTrue` that nothing was told of an empty place:
an answer of success comes with its row (`Fills`), so it is the first. `OthersSeeJoins` is what the models of the tasks assume of this one.

**AuthService.** `TypeCorrect`, `AnswersStayTrue`, `LoginsFindTheirAccount`,
`TokensLive`, `ImplementsAccountBook`. Two layers: `Shape` (types; the request fits the
step it is at) and `Sound` (one row per folded address, none at or above `nextId`; each
token, each row a request has read and each answer that names an account agrees with
the table). `RowsStay`, that no row of `users` ever changes, carries the row that
Login has read through the slow bcrypt, and every token through its life. The two facts
are theorems of their own: `AddressesAreUnique` and `AccountsStayTheSame`.

**TaskListCache.** `TypeCorrect`, `ListsAreForTheirReaders`, `InvalidationsMissNothing`.
The layers are `Shape`; `Private` (a list is under the key of its own query, and
whoever carries one is a member of its team); and `StaleHasCause` itself, which
is inductive given these: a key that was fresh when it was set before a commit is `Covered` by
the writer of that commit, as still to scan, or found and to be deleted, or it
went into `failed` (`CoverStep`). `StaleEntriesWereSetLate` follows with one more invariant, that
an entry is never set after the last commit (`SetInThePast`).

**Server.** `TypeCorrect`, `SuccessIsTrue`, `NothingIsLeftOpen`, `NothingIsLeaked`. The layers are
`Shape`; `Held`, which reads who has a connection for a transaction, one for a statement,
and the row lock off the step of each request (from `ScriptsAreScripted`: in each
script an "end" closes each "begin"); and `Phases`, which reads what is open and what harm is
possible off the place where `run()` stands. `NoCircularWait` is the safety part of
`EveryRequestEnds`, for all routes: the pool is waited for only by those that hold neither a connection nor
the row lock, and the row lock only by those that can be served once its
owner, who waits for nothing, is done. It needs `Opened`: nothing is served before the
pool is open. `CanProceed` spells out when `Progress` is enabled; TLC compared the two.

**TaskTrail.** `TypeCorrect`, `HistoryGrowsAtItsEnd`, `GroupsStayWhole`, `CommentsFollow`, `ListsAreComplete`. Four layers:
`Shape`; `Books` (a number identifies one request, rows are behind the clock and the counters,
an entry that is not committed belongs to a request at its entries); `Log` (in the history of a task
the committed entries precede the others, no two requests mix, and a request has written what it
has not left); `Talk` (a comment on its way has taken time and id after those that were
acknowledged when it was sent). The row lock is what `Log` rests on (`Exclusive`): all
uncommitted entries of a task are of the one request that holds its row.

**Reports and pages** (`TaskReads_proofs`). `ReadsTyped`, `StatsExact`, `RecentlyDoneCounted`,
`TopCreatorsTop`, `NoneInconsistent`, `WalkMisses`, and `ReadsCompose`, by which what is proved of
`TaskReports` and of `TaskPages` holds for the two together. All properties compare sizes
of sets, so the proofs rest on a few lemmas about positions in an ordered finite set: the
rank is one to one (`RankCounts`, from `FS_Injection`, without an induction), and
the ranks below n belong to n elements or to all (`RankWindow`).

- `ReportsInv`: rows and times are ordered, and the history variables follow the
  rows. `StatsExact` counts the rows of the join by a bijection from tasks, or members, to
  them (`MembersCounted`, `DoneCounted`); `TopCreatorsTop` reads ROW_NUMBER as 1 + rank in the window's order, which is
  total because its last key is the user's id.
- `PagesInv`: while a walk goes on, the tasks it has skipped (listed all the time, before its
  offset, never shown) are at most as many as left; and what it has repeated, with what was
  shown and is behind its offset again, is at most what came. It is inductive because a commit or
  an edit moves at most one task across the offset (`SkippedGrown`, `AgainGrown`,
  `AgainShrunk`, `SkippedShrunk`), and a page that is shorter than its limit has left nothing behind it.

**Only model-checked.** `EveryRequestReplies`, `EventuallyFresh`, `EveryRequestEnds` and
`ExitFollows`, as liveness under fairness and ENABLED are out of the
prover's reach; every other property of the passing runs is a theorem. Nothing is proved by
induction over data; the models are written without recursion.

## What is not modelled

- **bcrypt, the signature of tokens, MySQL, Redis**: external, modelled by what
  the code relies on. A token whose signature, method or subject is wrong is one that we did not
  issue (NULL in `Call`); `iat` is not checked by the code.
- **JSON, logging, HTTP details, configuration**: no state; the
  conditions the handlers impose on commands are in `IsCreate`, `IsUpdate`, `IsInvite`,
  `EffectiveLimit`. A panic of a handler is `Fail` of `Server`. An empty comment is refused
  by the handler without a trace.
- **Foreign keys and column lengths**: a foreign key cannot fail for ids that the code
  has read, as nothing is ever deleted; an overlong value is an error of the
  statement, which is `Fail`. The lock that the foreign key of a comment waits for is modelled.
- **Order of the reports** (ORDER BY of the queries): the results are sets.
- **A clock that goes back**: MySQL's seconds and the clock of tokens are monotone; `HistoryIsALog`
  would not hold otherwise.
- **Pages of the cache**: `TaskPages` reads past the cache. With it, a page may be up to a TTL
  old (`cache_stale`), independently of its neighbours, and nothing stronger than `StaleHasCause` holds.
- **A client that retries**: nothing recognises a repeated create. `CommitUnknown`
  models the lost answer; the duplicate it leads to is two creates of the model.
- **Generated mocks, tests, Docker files**.

## Plan

Done: all modules above, checked; every safety and action property of the passing runs proved, and the
refinement of the three abstract specifications. Left, in this order:

1. `TaskPages` over `TaskListCache`: pages cached one by one, each up to a TTL old, and
   what a walk can then still promise.
2. Liveness of `Server` with `create_task` and `add_comment` in the instance (a second route that
   waits for the row lock outside a transaction); `NoCircularWait` already covers them.
