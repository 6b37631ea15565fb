--------------------------- MODULE TaskListCache ---------------------------
(* TaskService.ListTasks over the Redis cache of task lists, against the     *)
(* requests that change tasks and then invalidate their team's lists. Redis, *)
(* MySQL and the two kinds of request run concurrently; an action is one     *)
(* round trip. A list is known by its query and by the number of commits to  *)
(* the team's tasks that it reflects.                                        *)
EXTENDS Integers

CONSTANTS
  Readers,    \* slots for concurrent ListTasks requests
  Writers,    \* slots for concurrent CreateTask and UpdateTask requests
  Teams, Users,
  Filters,    \* the rest of a query: status, assignee, limit and offset
  Miss,       \* no entry in the cache, no value
  MaxCommits  \* bound: commits to the tasks of one team

ASSUME CacheAssumption ==
  /\ MaxCommits \in Nat
  /\ Miss \notin [team : Teams, filter : Filters]

VARIABLES
  members,   \* members[t]: the users of team t
  commits,   \* commits[t]: how often the tasks of team t were committed
  cached,    \* cached[k]: the entry of Redis under key k, or Miss
  reader,    \* reader[r]: the ListTasks request in slot r
  writer,    \* writer[w]: the invalidation under way in slot w
  failed     \* history: the commits <<t, n>> whose invalidation did not complete

vars == <<members, commits, cached, reader, writer, failed>>

Queries == [team : Teams, filter : Filters]

(* Mutant: the key leaves the filters out.                                   *)
TeamKey(q) == <<q.team, CHOOSE f \in Filters : TRUE>>

(* The key names the team and every parameter of the query.                  *)
TeamTasksKey(q) == <<q.team, q.filter>>

Keys == {TeamTasksKey(q) : q \in Queries}

(* Mutant: only the list without filters is invalidated.                     *)
DefaultKeyOf(t) == {TeamTasksKey([team |-> t, filter |-> CHOOSE f \in Filters : TRUE])}

(* The keys matching the pattern "tasks:team:{id}:*".                        *)
KeysOf(t) == {k \in Keys : k[1] = t}

(* The answer to query q after n commits.                                    *)
Lists == [q : Queries, n : 0..MaxCommits]

(* An entry; "at" is a history field, the commits when it was set.           *)
CacheEntry == [list : Lists, at : 0..MaxCommits]

ReaderPCs == {"idle", "member", "get", "list", "set"}

WriterPCs == {"idle", "scan", "del"}

IdleReader(answer) ==
  [pc |-> "idle", q |-> Miss, by |-> Miss, got |-> Miss, answer |-> answer]

IdleWriter == [pc |-> "idle", team |-> Miss, n |-> 0, todo |-> {}, found |-> {}]

NoAnswer == [list |-> Miss, q |-> Miss, by |-> Miss]

Init ==
  /\ members \in [Teams -> SUBSET Users]
  /\ commits = [t \in Teams |-> 0]
  /\ cached = [k \in Keys |-> Miss]
  /\ reader = [r \in Readers |-> IdleReader(NoAnswer)]
  /\ writer = [w \in Writers |-> IdleWriter]
  /\ failed = {}

-----------------------------------------------------------------------------
(* ListTasks.                                                                *)
ReaderGoto(r, pc) == reader' = [reader EXCEPT ![r].pc = pc]

Answer(r, list) ==
  reader' = [reader EXCEPT ![r] =
    IdleReader([list |-> list, q |-> reader[r].q, by |-> reader[r].by])]

Ask(r) ==
  /\ reader[r].pc = "idle"
  /\ \E q \in Queries, u \in Users :
       reader' = [reader EXCEPT ![r] =
         [pc |-> "member", q |-> q, by |-> u, got |-> Miss, answer |-> NoAnswer]]
  /\ UNCHANGED <<members, commits, cached, writer, failed>>

(* isMember; an outsider is answered ErrForbidden, that is without a list.   *)
CheckMember(r) ==
  /\ reader[r].pc = "member"
  /\ IF reader[r].by \in members[reader[r].q.team]
     THEN ReaderGoto(r, "get")
     ELSE Answer(r, Miss)
  /\ UNCHANGED <<members, commits, cached, writer, failed>>

(* A hit is the answer; so much as an error of Redis, or a value that does   *)
(* not parse, is treated as a miss.                                          *)
Get(r) ==
  LET entry == cached[TeamTasksKey(reader[r].q)] IN
  /\ reader[r].pc = "get"
  /\ \/ entry # Miss /\ Answer(r, entry.list)
     \/ ReaderGoto(r, "list")
  /\ UNCHANGED <<members, commits, cached, writer, failed>>

(* SELECT ... LIMIT ... OFFSET: one consistent read of the team's tasks.     *)
List(r) ==
  /\ reader[r].pc = "list"
  /\ reader' = [reader EXCEPT ![r].pc = "set",
                              ![r].got = [q |-> reader[r].q,
                                          n |-> commits[reader[r].q.team]]]
  /\ UNCHANGED <<members, commits, cached, writer, failed>>

(* SET key list EX ttl. Its error is ignored.                                *)
Set(r) ==
  LET q == reader[r].q IN
  /\ reader[r].pc = "set"
  /\ cached' = [cached EXCEPT ![TeamTasksKey(q)] =
                  [list |-> reader[r].got, at |-> commits[q.team]]]
  /\ Answer(r, reader[r].got)
  /\ UNCHANGED <<members, commits, writer, failed>>

SetFails(r) ==
  /\ reader[r].pc = "set"
  /\ Answer(r, reader[r].got)
  /\ UNCHANGED <<members, commits, cached, writer, failed>>

(* Mutant: the error of the list is not checked; nothing is cached as a list. *)
ReadFailsUnchecked(r) ==
  /\ reader[r].pc \in {"member", "list"}
  /\ IF reader[r].pc = "list" THEN ReaderGoto(r, "set") ELSE Answer(r, Miss)
  /\ UNCHANGED <<members, commits, cached, writer, failed>>

(* An error of MySQL, in the membership check or in the list.                *)
ReadFails(r) ==
  /\ reader[r].pc \in {"member", "list"}
  /\ Answer(r, Miss)
  /\ UNCHANGED <<members, commits, cached, writer, failed>>

-----------------------------------------------------------------------------
(* CreateTask and UpdateTask, from their COMMIT on.                          *)
WriterDone(w) == writer' = [writer EXCEPT ![w] = IdleWriter]

(* The commit is written n; an update without changes invalidates as well    *)
(* and is written 0.                                                         *)
StartInvalidation(w, t, n) ==
  writer' = [writer EXCEPT ![w] =
    [pc |-> "scan", team |-> t, n |-> n, todo |-> KeysOf(t), found |-> {}]]

Commit(w, t) ==
  /\ writer[w].pc = "idle"
  /\ commits[t] < MaxCommits
  /\ commits' = [commits EXCEPT ![t] = @ + 1]
  /\ StartInvalidation(w, t, commits'[t])
  /\ UNCHANGED <<members, cached, reader, failed>>

CommitWithoutChange(w, t) ==
  /\ writer[w].pc = "idle"
  /\ StartInvalidation(w, t, 0)
  /\ UNCHANGED <<members, commits, cached, reader, failed>>

(* COMMIT took effect but returned an error: the request stops there.        *)
CommitUnknown(w, t) ==
  /\ writer[w].pc = "idle"
  /\ commits[t] < MaxCommits
  /\ commits' = [commits EXCEPT ![t] = @ + 1]
  /\ failed' = failed \cup {<<t, commits'[t]>>}
  /\ UNCHANGED <<members, cached, reader, writer>>

(* SCAN promises to return the keys that are there from its start to its     *)
(* end: it comes past every key at some moment of its own.                   *)
Scan(w) ==
  /\ writer[w].pc = "scan"
  /\ \E k \in writer[w].todo :
       writer' = [writer EXCEPT
         ![w].todo  = @ \ {k},
         ![w].found = IF cached[k] = Miss THEN @ ELSE @ \cup {k}]
  /\ UNCHANGED <<members, commits, cached, reader, failed>>

(* The end of the scan; without keys there is nothing to delete.             *)
Scanned(w) ==
  /\ writer[w].pc = "scan"
  /\ writer[w].todo = {}
  /\ IF writer[w].found = {}
     THEN WriterDone(w)
     ELSE writer' = [writer EXCEPT ![w].pc = "del"]
  /\ UNCHANGED <<members, commits, cached, reader, failed>>

Without(keys) == [k \in Keys |-> IF k \in keys THEN Miss ELSE cached[k]]

Del(w) ==
  /\ writer[w].pc = "del"
  /\ cached' = Without(writer[w].found)
  /\ WriterDone(w)
  /\ UNCHANGED <<members, commits, reader, failed>>

Lost(ws) == {<<writer[w].team, writer[w].n>> : w \in {v \in ws : writer[v].n > 0}}

(* SCAN or DEL fails, before or after DEL took effect, or the context of the *)
(* request is cancelled. The error is ignored and nothing is tried again.    *)
InvalidationFails(w) ==
  /\ writer[w].pc # "idle"
  /\ \/ UNCHANGED cached
     \/ writer[w].pc = "del" /\ cached' = Without(writer[w].found)
  /\ WriterDone(w)
  /\ failed' = failed \cup Lost({w})
  /\ UNCHANGED <<members, commits, reader>>

-----------------------------------------------------------------------------
(* Mutant: entries are set with a TTL of 0, which means that they stay.      *)
ExpireNever(k) == FALSE /\ UNCHANGED vars

(* The TTL of an entry is over, or Redis evicts it.                          *)
Expire(k) ==
  /\ cached[k] # Miss
  /\ cached' = [cached EXCEPT ![k] = Miss]
  /\ UNCHANGED <<members, commits, reader, writer, failed>>

(* The service process dies; Redis and MySQL keep what they have.            *)
Crash ==
  /\ \/ \E r \in Readers : reader[r].pc # "idle"
     \/ \E w \in Writers : writer[w].pc # "idle"
  /\ reader' = [r \in Readers |-> IF reader[r].pc = "idle" THEN reader[r]
                                                           ELSE IdleReader(NoAnswer)]
  /\ writer' = [w \in Writers |-> IdleWriter]
  /\ failed' = failed \cup Lost(Writers)
  /\ UNCHANGED <<members, commits, cached>>

Join(t, u) ==
  /\ u \notin members[t]
  /\ members' = [members EXCEPT ![t] = @ \cup {u}]
  /\ UNCHANGED <<commits, cached, reader, writer, failed>>

ReaderStep(r) == CheckMember(r) \/ Get(r) \/ List(r) \/ Set(r) \/ SetFails(r)

WriterStep(w) == Scan(w) \/ Scanned(w) \/ Del(w)

Start(w, t) == Commit(w, t) \/ CommitWithoutChange(w, t) \/ CommitUnknown(w, t)

Next ==
  \/ \E r \in Readers : Ask(r) \/ ReaderStep(r) \/ ReadFails(r)
  \/ \E w \in Writers, t \in Teams : Start(w, t)
  \/ \E w \in Writers : WriterStep(w) \/ InvalidationFails(w)
  \/ \E k \in Keys : Expire(k)
  \/ Crash
  \/ \E t \in Teams, u \in Users : Join(t, u)

Spec == Init /\ [][Next]_vars

(* Goroutines that can run do run, and Redis drops an entry after its TTL.   *)
Fairness ==
  /\ \A r \in Readers : WF_vars(ReaderStep(r))
  /\ \A w \in Writers : WF_vars(WriterStep(w))
  /\ \A k \in Keys : WF_vars(Expire(k))

FairSpec == Spec /\ Fairness

-----------------------------------------------------------------------------
(* Properties.                                                               *)

(* The shape of every variable.                                              *)
TypeOK ==
  /\ members \in [Teams -> SUBSET Users]
  /\ commits \in [Teams -> 0..MaxCommits]
  /\ cached \in [Keys -> CacheEntry \cup {Miss}]
  /\ reader \in [Readers -> [pc : ReaderPCs, q : Queries \cup {Miss},
                             by : Users \cup {Miss}, got : Lists \cup {Miss},
                             answer : [list : Lists \cup {Miss},
                                       q : Queries \cup {Miss},
                                       by : Users \cup {Miss}]]]
  /\ writer \in [Writers -> [pc : WriterPCs, team : Teams \cup {Miss},
                             n : 0..MaxCommits,
                             todo : SUBSET Keys, found : SUBSET Keys]]
  /\ failed \subseteq Teams \X (1..MaxCommits)

(* The invalidation of commit n of team t is under way and key k is still    *)
(* going to be deleted by it.                                                *)
Pending(t, n, k) ==
  \E w \in Writers :
    /\ writer[w].pc # "idle"
    /\ writer[w].team = t /\ writer[w].n = n
    /\ k \in writer[w].todo \cup writer[w].found

(* An entry that was fresh when it was set outlives a later commit of its    *)
(* team only while that commit's invalidation is on its way to it, or if it  *)
(* failed: SCAN and DEL, although not atomic and run by several requests at  *)
(* once, miss no entry that was there at the commit.                         *)
StaleHasCause ==
  \A k \in Keys :
    cached[k] # Miss /\ cached[k].list.n = cached[k].at =>
      \A n \in (cached[k].at + 1)..commits[k[1]] :
        <<k[1], n>> \in failed \/ Pending(k[1], n, k)

(* A list, cached or not, is answered only to a member of its team, and it   *)
(* is the list of the query that was asked.                                  *)
AnswersTheQuery ==
  \A r \in Readers :
    LET a == reader[r].answer IN
    a.list # Miss => a.list.q = a.q /\ a.by \in members[a.q.team]

(* Once the team's tasks stop changing, a stale entry does not stay: from    *)
(* some time on every entry shows the last commit, whatever failed before.   *)
EventuallyFresh ==
  <>[](\A k \in Keys : cached[k] # Miss => cached[k].list.n = commits[k[1]])

-----------------------------------------------------------------------------
(* What the documentation says and the code does not keep.                   *)

(* README.md: "when a task is created or updated the team's cache is         *)
(* invalidated". When every commit of a team was invalidated, without an     *)
(* error, no entry of the team predates the last one.                        *)
InvalidatedMeansFresh ==
  \A k \in Keys :
    \/ cached[k] = Miss
    \/ cached[k].list.n = commits[k[1]]
    \/ \E n \in 1..commits[k[1]] : <<k[1], n>> \in failed
    \/ \E w \in Writers : writer[w].pc # "idle" /\ writer[w].team = k[1]
=============================================================================
