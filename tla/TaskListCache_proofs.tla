------------------------ MODULE TaskListCache_proofs ------------------------
(* Proofs about TaskListCache, for any readers, writers, teams, users,       *)
(* filters and number of commits. The inductive invariant has three layers:  *)
(*   Shape    types, and what the step of a request says of its fields;      *)
(*   Private  every list is under its own key and on its way to a member;    *)
(*   StaleHasCause, which is inductive given the other two.                  *)
(* The last section proves which stale lists no invalidation removes.        *)
EXTENDS TaskListCache, TLAPS

Reader == [pc : ReaderPCs, q : Queries \cup {Miss}, by : Users \cup {Miss},
           got : Lists \cup {Miss},
           answer : [list : Lists \cup {Miss}, q : Queries \cup {Miss},
                     by : Users \cup {Miss}]]

Writer == [pc : WriterPCs, team : Teams \cup {Miss}, n : 0..MaxCommits,
           todo : SUBSET Keys, found : SUBSET Keys]

(* A request under way has a query; a list that it is about to set is one.   *)
Asking(x) ==
  /\ x.pc # "idle" => x.q \in Queries /\ x.by \in Users
  /\ x.pc = "set" => x.got \in Lists

(* An invalidation is about a team and its keys; it deletes after its scan.  *)
Invalidating(x) ==
  /\ x.pc = "idle" => x.n = 0
  /\ x.pc # "idle" => x.team \in Teams
  /\ x.pc = "del" => x.todo = {}

Shape ==
  /\ TypeOK
  /\ \A r \in Readers : Asking(reader[r])
  /\ \A w \in Writers : Invalidating(writer[w])

LEMMA KeysAreKeys ==
  /\ \A q \in Queries : /\ TeamTasksKey(q) \in Keys /\ q.team \in Teams
                        /\ TeamTasksKey(q)[1] = q.team
  /\ \A k \in Keys : k[1] \in Teams
  /\ \A p, q \in Queries : TeamTasksKey(p) = TeamTasksKey(q) => p = q
  /\ \A t \in Teams : KeysOf(t) \subseteq Keys
<1>1. \A q \in Queries : /\ TeamTasksKey(q) \in Keys /\ q.team \in Teams
                         /\ TeamTasksKey(q)[1] = q.team
  BY DEF Keys, Queries, TeamTasksKey
<1>2. \A k \in Keys : k[1] \in Teams
  BY <1>1 DEF Keys
<1>3. \A p, q \in Queries : TeamTasksKey(p) = TeamTasksKey(q) => p = q
  BY DEF Queries, TeamTasksKey
<1> QED
  BY <1>1, <1>2, <1>3 DEF KeysOf

LEMMA IdleReaderShape ==
  ASSUME NEW answer \in [list : Lists \cup {Miss}, q : Queries \cup {Miss},
                         by : Users \cup {Miss}]
  PROVE  IdleReader(answer) \in Reader /\ Asking(IdleReader(answer))
  BY DEF IdleReader, Reader, ReaderPCs, Asking

LEMMA IdleWriterShape == IdleWriter \in Writer /\ Invalidating(IdleWriter)
  BY CacheAssumption DEF IdleWriter, Writer, WriterPCs, Invalidating

LEMMA ShapeInit == Init => Shape
<1> SUFFICES ASSUME Init PROVE Shape
  OBVIOUS
<1>1. NoAnswer \in [list : Lists \cup {Miss}, q : Queries \cup {Miss},
                    by : Users \cup {Miss}]
  BY DEF NoAnswer
<1>2. reader \in [Readers -> Reader] /\ \A r \in Readers : Asking(reader[r])
  BY <1>1, IdleReaderShape DEF Init
<1>3. writer \in [Writers -> Writer] /\ \A w \in Writers : Invalidating(writer[w])
  BY IdleWriterShape DEF Init
<1>4. commits \in [Teams -> 0..MaxCommits]
  BY CacheAssumption DEF Init
<1> QED
  BY <1>2, <1>3, <1>4 DEF Init, Shape, TypeOK, Reader, Writer

(* Steps of one reader, and of one writer, give it a new record and leave    *)
(* the others alone.                                                         *)
LEMMA OneReader ==
  ASSUME Shape, NEW r \in Readers, NEW x \in Reader, Asking(x),
         reader' = [reader EXCEPT ![r] = x],
         cached' \in [Keys -> CacheEntry \cup {Miss}],
         UNCHANGED <<members, commits, writer, failed>>
  PROVE  Shape'
  BY DEF Shape, TypeOK, Reader

LEMMA OneWriter ==
  ASSUME Shape, NEW w \in Writers, NEW x \in Writer, Invalidating(x),
         writer' = [writer EXCEPT ![w] = x],
         commits' \in [Teams -> 0..MaxCommits],
         cached' \in [Keys -> CacheEntry \cup {Miss}],
         failed' \subseteq Teams \X (1..MaxCommits),
         UNCHANGED <<members, reader>>
  PROVE  Shape'
  BY DEF Shape, TypeOK, Writer

LEMMA AnswerShape ==
  ASSUME Shape, NEW r \in Readers, NEW list \in Lists \cup {Miss}, Answer(r, list),
         cached' \in [Keys -> CacheEntry \cup {Miss}],
         UNCHANGED <<members, commits, writer, failed>>
  PROVE  Shape'
<1>1. [list |-> list, q |-> reader[r].q, by |-> reader[r].by]
        \in [list : Lists \cup {Miss}, q : Queries \cup {Miss}, by : Users \cup {Miss}]
  BY DEF Shape, TypeOK
<1> QED
  BY <1>1, IdleReaderShape, OneReader DEF Answer

LEMMA GotoShape ==
  ASSUME Shape, NEW r \in Readers, NEW pc \in {"get", "list"}, reader[r].pc # "idle",
         ReaderGoto(r, pc), UNCHANGED <<members, commits, cached, writer, failed>>
  PROVE  Shape'
<1> DEFINE x == [reader[r] EXCEPT !.pc = pc]
<1>1. reader[r] \in Reader
  BY DEF Shape, TypeOK, Reader
<1>2. x \in Reader /\ x.pc = pc /\ x.q = reader[r].q /\ x.by = reader[r].by
  BY <1>1 DEF Reader, ReaderPCs
<1>3. Asking(x)
  BY <1>2 DEF Shape, Asking
<1>4. reader' = [reader EXCEPT ![r] = x]
  BY DEF ReaderGoto
<1>5. cached' \in [Keys -> CacheEntry \cup {Miss}]
  BY DEF Shape, TypeOK
<1> QED
  BY <1>2, <1>3, <1>4, <1>5, OneReader

LEMMA ReaderShape ==
  ASSUME Shape, NEW r \in Readers, Ask(r) \/ ReaderStep(r) \/ ReadFails(r)
  PROVE  Shape'
<1>1. cached \in [Keys -> CacheEntry \cup {Miss}]
  BY DEF Shape, TypeOK
<1>2. CASE Ask(r)
  <2>1. PICK q \in Queries, u \in Users :
          reader' = [reader EXCEPT ![r] =
            [pc |-> "member", q |-> q, by |-> u, got |-> Miss, answer |-> NoAnswer]]
    BY <1>2 DEF Ask
  <2>2. /\ [pc |-> "member", q |-> q, by |-> u, got |-> Miss, answer |-> NoAnswer] \in Reader
        /\ Asking([pc |-> "member", q |-> q, by |-> u, got |-> Miss, answer |-> NoAnswer])
    BY DEF Reader, ReaderPCs, NoAnswer, Asking
  <2> QED
    BY <1>1, <1>2, <2>1, <2>2, OneReader DEF Ask
<1>3. CASE CheckMember(r)
  BY <1>1, <1>3, AnswerShape, GotoShape DEF CheckMember
<1>4. CASE Get(r)
  <2>1. reader[r].q \in Queries
    BY <1>4 DEF Get, Shape, Asking
  <2>2. cached[TeamTasksKey(reader[r].q)] \in CacheEntry \cup {Miss}
    BY <1>1, <2>1, KeysAreKeys
  <2>3. CASE ReaderGoto(r, "list")
    BY <1>4, <2>3, GotoShape DEF Get
  <2>4. CASE cached[TeamTasksKey(reader[r].q)] # Miss
             /\ Answer(r, cached[TeamTasksKey(reader[r].q)].list)
    BY <1>1, <1>4, <2>2, <2>4, AnswerShape DEF Get, CacheEntry
  <2> QED
    BY <1>4, <2>3, <2>4 DEF Get
<1>5. CASE List(r)
  <2> DEFINE got == [q |-> reader[r].q, n |-> commits[reader[r].q.team]]
             x == [reader[r] EXCEPT !.pc = "set", !.got = got]
  <2>1. reader[r].q \in Queries /\ reader[r].by \in Users /\ reader[r] \in Reader
    BY <1>5 DEF List, Shape, TypeOK, Asking, Reader
  <2>2. got \in Lists
    BY <2>1, KeysAreKeys DEF Shape, TypeOK, Lists
  <2>3. /\ x \in Reader /\ x.pc = "set" /\ x.got = got
        /\ x.q = reader[r].q /\ x.by = reader[r].by
    <3> HIDE DEF got
    <3> QED
      BY <2>1, <2>2 DEF Reader, ReaderPCs
  <2>4. Asking(x)
    BY <2>1, <2>2, <2>3 DEF Asking
  <2>5. reader' = [reader EXCEPT ![r] = x]
    BY <1>5 DEF List
  <2> HIDE DEF x
  <2> QED
    BY <1>1, <1>5, <2>3, <2>4, <2>5, OneReader DEF List
<1>6. CASE Set(r)
  <2>1. reader[r].q \in Queries /\ reader[r].got \in Lists
    BY <1>6 DEF Set, Shape, Asking
  <2>2. commits[reader[r].q.team] \in 0..MaxCommits
    BY <2>1, KeysAreKeys DEF Shape, TypeOK
  <2>3. [list |-> reader[r].got, at |-> commits[reader[r].q.team]] \in CacheEntry
    BY <2>1, <2>2 DEF CacheEntry
  <2>4. cached' \in [Keys -> CacheEntry \cup {Miss}]
    BY <1>1, <1>6, <2>3 DEF Set
  <2> QED
    BY <1>6, <2>1, <2>4, AnswerShape DEF Set
<1>7. CASE SetFails(r)
  <2>1. reader[r].got \in Lists
    BY <1>7 DEF SetFails, Shape, Asking
  <2> QED
    BY <1>1, <1>7, <2>1, AnswerShape DEF SetFails
<1>8. CASE ReadFails(r)
  BY <1>1, <1>8, AnswerShape DEF ReadFails
<1> QED
  BY <1>2, <1>3, <1>4, <1>5, <1>6, <1>7, <1>8 DEF ReaderStep

LEMMA IdleAgainShape ==
  ASSUME Shape, NEW w \in Writers, WriterDone(w),
         cached' \in [Keys -> CacheEntry \cup {Miss}],
         failed' \subseteq Teams \X (1..MaxCommits),
         UNCHANGED <<members, commits, reader>>
  PROVE  Shape'
<1>1. commits' \in [Teams -> 0..MaxCommits]
  BY DEF Shape, TypeOK
<1> QED
  BY <1>1, IdleWriterShape, OneWriter DEF WriterDone

LEMMA WithoutShape ==
  ASSUME Shape, NEW keys
  PROVE  Without(keys) \in [Keys -> CacheEntry \cup {Miss}]
  BY DEF Shape, TypeOK, Without

LEMMA LostShape ==
  ASSUME Shape, NEW ws \in SUBSET Writers
  PROVE  Lost(ws) \subseteq Teams \X (1..MaxCommits)
<1>1. ASSUME NEW w \in Writers, writer[w].n > 0
      PROVE  writer[w].team \in Teams /\ writer[w].n \in 1..MaxCommits
  <2>1. writer[w] \in Writer
    BY DEF Shape, TypeOK, Writer
  <2>2. writer[w].n \in 0..MaxCommits
    BY <2>1 DEF Writer
  <2>3. writer[w].pc # "idle"
    BY <1>1 DEF Shape, Invalidating
  <2> QED
    BY <1>1, <2>2, <2>3, CacheAssumption DEF Shape, Invalidating
<1> QED
  BY <1>1 DEF Lost

LEMMA StartShape ==
  ASSUME Shape, NEW w \in Writers, NEW t \in Teams, NEW n \in 0..MaxCommits,
         StartInvalidation(w, t, n),
         commits' \in [Teams -> 0..MaxCommits],
         UNCHANGED <<members, cached, reader, failed>>
  PROVE  Shape'
<1> DEFINE x == [pc |-> "scan", team |-> t, n |-> n, todo |-> KeysOf(t), found |-> {}]
<1>1. KeysOf(t) \in SUBSET Keys
  BY KeysAreKeys
<1>2. x \in Writer /\ x.pc = "scan" /\ x.team = t
  <2> HIDE DEF x
  <2>1. \A todo \in SUBSET Keys :
          [pc |-> "scan", team |-> t, n |-> n, todo |-> todo, found |-> {}] \in Writer
    BY DEF Writer, WriterPCs
  <2> QED
    BY <1>1, <2>1 DEF x
<1>3. Invalidating(x)
  BY <1>2 DEF Invalidating
<1>4. writer' = [writer EXCEPT ![w] = x]
  BY DEF StartInvalidation
<1>5. cached' \in [Keys -> CacheEntry \cup {Miss}] /\ failed' \subseteq Teams \X (1..MaxCommits)
  BY DEF Shape, TypeOK
<1> HIDE DEF x
<1> QED
  BY <1>2, <1>3, <1>4, <1>5, OneWriter

(* A commit moves the counter of its team by one.                            *)
LEMMA CommitsGrow ==
  ASSUME Shape, NEW t \in Teams, commits[t] < MaxCommits,
         commits' = [commits EXCEPT ![t] = @ + 1]
  PROVE  /\ commits' \in [Teams -> 0..MaxCommits]
         /\ commits'[t] = commits[t] + 1 /\ commits'[t] \in 1..MaxCommits
         /\ \A s \in Teams \ {t} : commits'[s] = commits[s]
<1>1. commits[t] \in 0..MaxCommits /\ MaxCommits \in Nat
  BY CacheAssumption DEF Shape, TypeOK
<1>2. commits[t] + 1 \in 1..MaxCommits
  BY <1>1
<1>3. commits[t] + 1 \in 0..MaxCommits
  BY <1>1
<1> QED
  BY <1>2, <1>3 DEF Shape, TypeOK

LEMMA WriterShape ==
  ASSUME Shape, NEW w \in Writers,
         (\E t \in Teams : Start(w, t)) \/ WriterStep(w) \/ InvalidationFails(w)
  PROVE  Shape'
<1>1. /\ commits \in [Teams -> 0..MaxCommits] /\ writer[w] \in Writer
      /\ cached \in [Keys -> CacheEntry \cup {Miss}]
      /\ failed \subseteq Teams \X (1..MaxCommits)
      /\ MaxCommits \in Nat
  BY CacheAssumption DEF Shape, TypeOK, Writer
<1>2. ASSUME NEW t \in Teams, Commit(w, t) PROVE Shape'
  <2>1. commits'[t] \in 0..MaxCommits /\ commits' \in [Teams -> 0..MaxCommits]
    BY <1>1, <1>2, CommitsGrow DEF Commit
  <2> QED
    BY <1>2, <2>1, StartShape DEF Commit
<1>3. ASSUME NEW t \in Teams, CommitWithoutChange(w, t) PROVE Shape'
  <2>1. 0 \in 0..MaxCommits
    BY <1>1
  <2> QED
    BY <1>1, <1>3, <2>1, StartShape DEF CommitWithoutChange
<1>4. ASSUME NEW t \in Teams, CommitUnknown(w, t) PROVE Shape'
  <2>1. commits'[t] \in 1..MaxCommits /\ commits' \in [Teams -> 0..MaxCommits]
    BY <1>4, CommitsGrow DEF CommitUnknown
  <2>2. failed' \subseteq Teams \X (1..MaxCommits)
    BY <1>1, <1>4, <2>1 DEF CommitUnknown
  <2> QED
    BY <1>4, <2>1, <2>2 DEF CommitUnknown, Shape, TypeOK
<1>5. CASE Scan(w)
  <2>1. PICK k \in writer[w].todo :
          writer' = [writer EXCEPT
            ![w].todo  = @ \ {k},
            ![w].found = IF cached[k] = Miss THEN @ ELSE @ \cup {k}]
    BY <1>5 DEF Scan
  <2>2. writer[w].todo \in SUBSET Keys /\ writer[w].found \in SUBSET Keys
    BY <1>1 DEF Writer
  <2> DEFINE todo == writer[w].todo \ {k}
             found == IF cached[k] = Miss THEN writer[w].found ELSE writer[w].found \cup {k}
             x == [writer[w] EXCEPT !.todo = todo, !.found = found]
  <2>3. todo \in SUBSET Keys /\ found \in SUBSET Keys
    BY <2>1, <2>2
  <2>4. writer' = [writer EXCEPT ![w] = x]
    BY <2>1
  <2>5. /\ x \in Writer /\ x.pc = writer[w].pc /\ x.team = writer[w].team
        /\ x.n = writer[w].n
    <3> HIDE DEF todo, found
    <3> QED
      BY <1>1, <2>3 DEF Writer
  <2>6. Invalidating(x)
    BY <1>5, <2>5 DEF Scan, Shape, Invalidating
  <2> HIDE DEF x
  <2> QED
    BY <1>1, <1>5, <2>4, <2>5, <2>6, OneWriter DEF Scan
<1>6. CASE Scanned(w)
  <2> DEFINE x == [writer[w] EXCEPT !.pc = "del"]
  <2>1. CASE WriterDone(w)
    BY <1>1, <1>6, <2>1, IdleAgainShape DEF Scanned
  <2>2. CASE writer' = [writer EXCEPT ![w].pc = "del"]
    <3>1. /\ x \in Writer /\ x.pc = "del" /\ x.team = writer[w].team
          /\ x.n = writer[w].n /\ x.todo = {}
      BY <1>1, <1>6 DEF Scanned, Writer, WriterPCs
    <3>2. Invalidating(x)
      BY <1>6, <3>1 DEF Scanned, Shape, Invalidating
    <3>3. writer' = [writer EXCEPT ![w] = x]
      BY <2>2
    <3> HIDE DEF x
    <3> QED
      BY <1>1, <1>6, <3>1, <3>2, <3>3, OneWriter DEF Scanned
  <2> QED
    BY <1>6, <2>1, <2>2 DEF Scanned
<1>7. CASE Del(w)
  BY <1>1, <1>7, WithoutShape, IdleAgainShape DEF Del
<1>8. CASE InvalidationFails(w)
  <2>1. failed' \subseteq Teams \X (1..MaxCommits)
    BY <1>1, <1>8, LostShape DEF InvalidationFails
  <2>2. cached' \in [Keys -> CacheEntry \cup {Miss}]
    BY <1>1, <1>8, WithoutShape DEF InvalidationFails
  <2> QED
    BY <1>8, <2>1, <2>2, IdleAgainShape DEF InvalidationFails
<1> QED
  BY <1>2, <1>3, <1>4, <1>5, <1>6, <1>7, <1>8 DEF Start, WriterStep

LEMMA EnvironmentShape ==
  ASSUME Shape,
         (\E k \in Keys : Expire(k)) \/ Crash \/ (\E t \in Teams, u \in Users : Join(t, u))
  PROVE  Shape'
<1>1. CASE \E k \in Keys : Expire(k)
  BY <1>1 DEF Expire, Shape, TypeOK
<1>2. CASE \E t \in Teams, u \in Users : Join(t, u)
  BY <1>2 DEF Join, Shape, TypeOK
<1>3. CASE Crash
  <2>1. NoAnswer \in [list : Lists \cup {Miss}, q : Queries \cup {Miss},
                      by : Users \cup {Miss}]
    BY DEF NoAnswer
  <2>2. IdleReader(NoAnswer) \in Reader /\ Asking(IdleReader(NoAnswer))
    BY <2>1, IdleReaderShape
  <2>3. reader' \in [Readers -> Reader] /\ \A r \in Readers : Asking(reader'[r])
    BY <1>3, <2>2 DEF Crash, Shape, TypeOK, Reader
  <2>4. writer' \in [Writers -> Writer] /\ \A w \in Writers : Invalidating(writer'[w])
    BY <1>3, IdleWriterShape DEF Crash
  <2>5. failed' \subseteq Teams \X (1..MaxCommits)
    BY <1>3, LostShape DEF Crash, Shape, TypeOK
  <2> QED
    BY <1>3, <2>3, <2>4, <2>5 DEF Crash, Shape, TypeOK, Reader, Writer
<1> QED
  BY <1>1, <1>2, <1>3

LEMMA ShapeStep == Shape /\ [Next]_vars => Shape'
<1>1. Shape /\ UNCHANGED vars => Shape'
  BY DEF vars, Shape, TypeOK
<1> QED
  BY <1>1, ReaderShape, WriterShape, EnvironmentShape DEF Next

-----------------------------------------------------------------------------
(* A reader past its check is a member, has the list of its own query, and   *)
(* an answer is what AnswersTheQuery says of it.                             *)
Rightful(x, m) ==
  /\ x.pc \in {"get", "list", "set"} => x.by \in m[x.q.team]
  /\ x.pc = "set" => x.got.q = x.q
  /\ x.answer.list # Miss =>
       x.answer.list.q = x.answer.q /\ x.answer.by \in m[x.answer.q.team]

UnderOwnKey == \A k \in Keys : cached[k] # Miss => TeamTasksKey(cached[k].list.q) = k

Private == UnderOwnKey /\ \A r \in Readers : Rightful(reader[r], members)

LEMMA NoAnswerIsRightful ==
  ASSUME NEW m PROVE Rightful(IdleReader(NoAnswer), m)
  BY DEF Rightful, IdleReader, NoAnswer

LEMMA PrivateInit == Init => Private
  BY NoAnswerIsRightful DEF Init, Private, UnderOwnKey

(* One reader changes.                                                       *)
LEMMA OnePrivate ==
  ASSUME Shape, Private, NEW r \in Readers, NEW x, Rightful(x, members),
         reader' = [reader EXCEPT ![r] = x], UnderOwnKey',
         UNCHANGED members
  PROVE  Private'
<1>1. \A s \in Readers : reader'[s] = IF s = r THEN x ELSE reader[s]
  BY DEF Shape, TypeOK
<1> QED
  BY <1>1 DEF Private

(* A list for its own query, to a member or to nobody.                       *)
LEMMA AnswerPrivate ==
  ASSUME Shape, Private, NEW r \in Readers, NEW list, Answer(r, list), UnderOwnKey',
         list # Miss => list.q = reader[r].q /\ reader[r].by \in members[reader[r].q.team],
         UNCHANGED members
  PROVE  Private'
<1> DEFINE x == IdleReader([list |-> list, q |-> reader[r].q, by |-> reader[r].by])
<1>1. Rightful(x, members)
  BY DEF Rightful, IdleReader
<1>2. reader' = [reader EXCEPT ![r] = x]
  BY DEF Answer
<1> HIDE DEF x
<1> QED
  BY <1>1, <1>2, OnePrivate

LEMMA GotoPrivate ==
  ASSUME Shape, Private, NEW r \in Readers, NEW pc \in {"get", "list"}, ReaderGoto(r, pc),
         reader[r].by \in members[reader[r].q.team], UNCHANGED <<members, cached>>
  PROVE  Private'
<1> DEFINE x == [reader[r] EXCEPT !.pc = pc]
<1>1. reader[r] \in Reader
  BY DEF Shape, TypeOK, Reader
<1>2. /\ x.pc = pc /\ x.q = reader[r].q /\ x.by = reader[r].by
      /\ x.answer = reader[r].answer
  BY <1>1 DEF Reader
<1>3. Rightful(x, members)
  <2> HIDE DEF x
  <2> QED
    BY <1>2 DEF Private, Rightful
<1>4. reader' = [reader EXCEPT ![r] = x]
  BY DEF ReaderGoto
<1>5. UnderOwnKey'
  BY DEF Private, UnderOwnKey
<1> HIDE DEF x
<1> QED
  BY <1>3, <1>4, <1>5, OnePrivate

LEMMA ReaderPrivate ==
  ASSUME Shape, Private, NEW r \in Readers, Ask(r) \/ ReaderStep(r) \/ ReadFails(r)
  PROVE  Private'
<1>1. ASSUME cached' = cached PROVE UnderOwnKey'
  BY <1>1 DEF Private, UnderOwnKey
<1>2. CASE Ask(r)
  <2>1. PICK q \in Queries, u \in Users :
          reader' = [reader EXCEPT ![r] =
            [pc |-> "member", q |-> q, by |-> u, got |-> Miss, answer |-> NoAnswer]]
    BY <1>2 DEF Ask
  <2>2. Rightful([pc |-> "member", q |-> q, by |-> u, got |-> Miss, answer |-> NoAnswer],
                 members)
    BY DEF Rightful, NoAnswer
  <2> QED
    BY <1>1, <1>2, <2>1, <2>2, OnePrivate DEF Ask
<1>3. CASE CheckMember(r)
  BY <1>1, <1>3, AnswerPrivate, GotoPrivate DEF CheckMember
<1>4. CASE Get(r)
  <2>1. reader[r].q \in Queries /\ reader[r].by \in members[reader[r].q.team]
    BY <1>4 DEF Get, Shape, Asking, Private, Rightful
  <2> DEFINE k == TeamTasksKey(reader[r].q)
  <2>2. k \in Keys /\ cached[k] \in CacheEntry \cup {Miss}
    BY <2>1, KeysAreKeys DEF Shape, TypeOK
  <2>3. cached[k] # Miss => cached[k].list.q = reader[r].q
    <3> HIDE DEF k
    <3>1. ASSUME cached[k] # Miss
          PROVE  cached[k].list.q \in Queries /\ TeamTasksKey(cached[k].list.q) = k
      BY <2>2, <3>1 DEF CacheEntry, Lists, Private, UnderOwnKey
    <3> QED
      BY <2>1, <3>1, KeysAreKeys DEF k
  <2>4. CASE ReaderGoto(r, "list")
    BY <1>4, <2>1, <2>4, GotoPrivate DEF Get
  <2>5. CASE cached[k] # Miss /\ Answer(r, cached[k].list)
    BY <1>1, <1>4, <2>1, <2>3, <2>5, AnswerPrivate DEF Get
  <2> QED
    BY <1>4, <2>4, <2>5 DEF Get
<1>5. CASE List(r)
  <2> DEFINE got == [q |-> reader[r].q, n |-> commits[reader[r].q.team]]
             x == [reader[r] EXCEPT !.pc = "set", !.got = got]
  <2>1. reader[r] \in Reader /\ reader[r].by \in members[reader[r].q.team]
    BY <1>5 DEF List, Shape, TypeOK, Reader, Private, Rightful
  <2>2. /\ x.pc = "set" /\ x.got.q = x.q /\ x.q = reader[r].q /\ x.by = reader[r].by
        /\ x.answer = reader[r].answer
    BY <2>1 DEF Reader
  <2>3. reader' = [reader EXCEPT ![r] = x]
    BY <1>5 DEF List
  <2> HIDE DEF x
  <2>4. Rightful(x, members)
    BY <2>1, <2>2 DEF Private, Rightful
  <2> QED
    BY <1>1, <1>5, <2>3, <2>4, OnePrivate DEF List
<1>6. CASE Set(r) \/ SetFails(r)
  <2>1. /\ reader[r].q \in Queries /\ reader[r].got.q = reader[r].q
        /\ reader[r].by \in members[reader[r].q.team]
    BY <1>6 DEF Set, SetFails, Shape, Asking, Private, Rightful
  <2>2. CASE Set(r)
    <3>1. /\ cached' = [cached EXCEPT ![TeamTasksKey(reader[r].q)] =
                          [list |-> reader[r].got, at |-> commits[reader[r].q.team]]]
          /\ Answer(r, reader[r].got) /\ UNCHANGED members
      BY <2>2 DEF Set
    <3>2. UnderOwnKey'
      BY <2>1, <3>1 DEF Shape, TypeOK, Private, UnderOwnKey
    <3> QED
      BY <2>1, <3>1, <3>2, AnswerPrivate
  <2>3. CASE SetFails(r)
    BY <1>1, <2>1, <2>3, AnswerPrivate DEF SetFails
  <2> QED
    BY <1>6, <2>2, <2>3
<1>7. CASE ReadFails(r)
  BY <1>1, <1>7, AnswerPrivate DEF ReadFails
<1> QED
  BY <1>2, <1>3, <1>4, <1>5, <1>6, <1>7 DEF ReaderStep

(* Deleting entries and letting members in leaves the rest as it was.        *)
LEMMA FewerPrivate ==
  ASSUME Private, UNCHANGED <<members, reader>>,
         \A k \in Keys : cached'[k] \in {cached[k], Miss}
  PROVE  Private'
  BY DEF Private, UnderOwnKey

LEMMA JoinPrivate ==
  ASSUME Shape, Private, NEW t \in Teams, NEW u \in Users, Join(t, u)
  PROVE  Private'
<1>1. \A s \in Teams : members[s] \subseteq members'[s]
  BY DEF Join, Shape, TypeOK
<1>2. ASSUME NEW r \in Readers PROVE Rightful(reader[r], members')
  <2>1. /\ reader[r] \in Reader
        /\ reader[r].pc # "idle" => reader[r].q \in Queries
    BY DEF Shape, TypeOK, Reader, Asking
  <2>2. reader[r].pc # "idle" => reader[r].q.team \in Teams
    BY <2>1, KeysAreKeys
  <2>3. reader[r].answer.list # Miss => reader[r].answer.list.q.team \in Teams
    BY <2>1, KeysAreKeys DEF Reader, Lists
  <2> QED
    BY <1>1, <2>2, <2>3 DEF Private, Rightful
<1>3. UNCHANGED <<reader, cached>>
  BY DEF Join
<1>4. UnderOwnKey'
  BY <1>3 DEF Private, UnderOwnKey
<1> QED
  BY <1>2, <1>3, <1>4 DEF Private

LEMMA PrivateStep == Shape /\ Private /\ [Next]_vars => Private'
<1> SUFFICES ASSUME Shape, Private, [Next]_vars PROVE Private'
  OBVIOUS
<1>1. ASSUME NEW w \in Writers,
             (\E t \in Teams : Start(w, t)) \/ WriterStep(w) \/ InvalidationFails(w)
      PROVE  Private'
  <2>1. UNCHANGED <<members, reader>>
    BY <1>1 DEF Start, Commit, CommitWithoutChange, CommitUnknown, WriterStep, Scan,
               Scanned, Del, InvalidationFails
  <2>2. cached' = cached \/ cached' = Without(writer[w].found)
    BY <1>1 DEF Start, Commit, CommitWithoutChange, CommitUnknown, WriterStep, Scan,
               Scanned, Del, InvalidationFails
  <2>3. \A k \in Keys : cached'[k] \in {cached[k], Miss}
    BY <2>2 DEF Without
  <2> QED
    BY <2>1, <2>3, FewerPrivate
<1>2. CASE \E k \in Keys : Expire(k)
  <2>1. \A k \in Keys : cached'[k] \in {cached[k], Miss}
    BY <1>2 DEF Expire, Shape, TypeOK
  <2> QED
    BY <1>2, <2>1, FewerPrivate DEF Expire
<1>3. CASE Crash
  <2>1. UNCHANGED <<members, cached>>
    BY <1>3 DEF Crash
  <2>2. ASSUME NEW r \in Readers PROVE Rightful(reader'[r], members)
    BY <1>3, NoAnswerIsRightful DEF Crash, Private
  <2> QED
    BY <2>1, <2>2 DEF Private, UnderOwnKey
<1>4. CASE UNCHANGED vars
  BY <1>4 DEF vars, Private, UnderOwnKey
<1> QED
  BY <1>1, <1>2, <1>3, <1>4, ReaderPrivate, JoinPrivate DEF Next

-----------------------------------------------------------------------------
(* Commit n, of the team of key k, has failed to invalidate or is going to   *)
(* delete the key.                                                           *)
Covered(k, n) == <<k[1], n>> \in failed \/ Pending(k[1], n, k)

LEMMA StaleInit == Init => StaleHasCause
  BY DEF Init, StaleHasCause

(* A step that sets no entry, keeps what covers the entries it leaves, and   *)
(* covers every key of a team by the commit it makes.                        *)
LEMMA CoverStep ==
  ASSUME Shape, Shape', StaleHasCause,
         \A k \in Keys : cached'[k] \in {cached[k], Miss},
         \A k \in Keys : \A n \in 1..MaxCommits :
           cached'[k] # Miss /\ Covered(k, n) => Covered(k, n)',
         \A k \in Keys : \A n \in 1..MaxCommits :
           commits[k[1]] < n /\ n <= commits'[k[1]] => Covered(k, n)'
  PROVE  StaleHasCause'
<1>1. ASSUME NEW k \in Keys, cached'[k] # Miss, cached'[k].list.n = cached'[k].at,
             NEW n \in (cached'[k].at + 1)..commits'[k[1]]
      PROVE  Covered(k, n)'
  <2>1. cached'[k] = cached[k] /\ cached[k] \in CacheEntry
    BY <1>1 DEF Shape, TypeOK
  <2>2. cached[k].at \in 0..MaxCommits
    BY <2>1 DEF CacheEntry
  <2>3. commits[k[1]] \in 0..MaxCommits /\ commits'[k[1]] \in 0..MaxCommits
    BY KeysAreKeys DEF Shape, TypeOK
  <2>4. MaxCommits \in Nat
    BY CacheAssumption
  <2>5. n \in 1..MaxCommits /\ cached[k].at + 1 <= n /\ n <= commits'[k[1]]
    BY <1>1, <2>1, <2>2, <2>3, <2>4
  <2>6. CASE commits[k[1]] < n
    BY <2>5, <2>6
  <2>7. CASE n <= commits[k[1]]
    <3>1. n \in (cached[k].at + 1)..commits[k[1]]
      BY <2>2, <2>3, <2>5, <2>7
    <3>2. Covered(k, n)
      BY <1>1, <2>1, <3>1 DEF StaleHasCause, Covered
    <3> QED
      BY <1>1, <2>5, <3>2
  <2> QED
    BY <2>3, <2>5, <2>6, <2>7
<1> QED
  BY <1>1 DEF StaleHasCause, Covered

(* Nobody's cover changes while the writers, the failures and the entries    *)
(* stay.                                                                     *)
LEMMA StaleStays ==
  ASSUME StaleHasCause, UNCHANGED <<commits, cached, writer, failed>>
  PROVE  StaleHasCause'
  BY DEF StaleHasCause, Pending

LEMMA ReaderStale ==
  ASSUME Shape, StaleHasCause, NEW r \in Readers, Ask(r) \/ ReaderStep(r) \/ ReadFails(r)
  PROVE  StaleHasCause'
<1>1. CASE Set(r)
  <2> DEFINE q == reader[r].q
             e == [list |-> reader[r].got, at |-> commits[q.team]]
  <2>1. q \in Queries /\ TeamTasksKey(q) \in Keys /\ TeamTasksKey(q)[1] = q.team
    BY <1>1, KeysAreKeys DEF Set, Shape, Asking
  <2>2. commits[q.team] \in 0..MaxCommits
    BY <2>1, KeysAreKeys DEF Shape, TypeOK
  <2>3. /\ cached' = [cached EXCEPT ![TeamTasksKey(q)] = e]
        /\ UNCHANGED <<commits, writer, failed>>
    BY <1>1 DEF Set
  <2>4. e.at = commits[q.team]
    OBVIOUS
  <2>5. \A k \in Keys : cached'[k] = IF k = TeamTasksKey(q) THEN e ELSE cached[k]
    BY <2>3 DEF Shape, TypeOK
  <2>6. (e.at + 1)..commits[q.team] = {}
    BY <2>2, <2>4
  <2> HIDE DEF e
  <2>7. \A k \in Keys : \A n : Pending(k[1], n, k)' <=> Pending(k[1], n, k)
    BY <2>3 DEF Pending
  <2> QED
    BY <2>1, <2>3, <2>5, <2>6, <2>7 DEF StaleHasCause
<1>2. CASE ~Set(r)
  BY <1>2, StaleStays
     DEF Ask, ReaderStep, CheckMember, Get, List, SetFails, ReadFails
<1> QED
  BY <1>1, <1>2

(* The writers other than w keep what they are going to delete.              *)
LEMMA OthersCover ==
  ASSUME Shape, NEW w \in Writers, NEW x, writer' = [writer EXCEPT ![w] = x],
         NEW k \in Keys, NEW n \in 1..MaxCommits, failed \subseteq failed', Covered(k, n),
         \/ writer[w].pc = "idle" \/ writer[w].team # k[1] \/ writer[w].n # n
         \/ k \notin writer[w].todo \cup writer[w].found
  PROVE  Covered(k, n)'
<1>1. \A v \in Writers \ {w} : writer'[v] = writer[v]
  BY DEF Shape, TypeOK
<1>2. CASE <<k[1], n>> \in failed
  BY <1>2 DEF Covered
<1>3. CASE Pending(k[1], n, k)
  <2>1. PICK v \in Writers :
          /\ writer[v].pc # "idle" /\ writer[v].team = k[1] /\ writer[v].n = n
          /\ k \in writer[v].todo \cup writer[v].found
    BY <1>3 DEF Pending
  <2>2. v # w
    BY <2>1
  <2>3. writer'[v] = writer[v]
    BY <1>1, <2>2
  <2>4. Pending(k[1], n, k)'
    BY <2>1, <2>3 DEF Pending
  <2> QED
    BY <2>4 DEF Covered
<1> QED
  BY <1>2, <1>3 DEF Covered

(* Writer w goes on with all it still has to do for key k.                   *)
LEMMA GoesOnCovering ==
  ASSUME Shape, NEW w \in Writers, NEW x, writer' = [writer EXCEPT ![w] = x],
         NEW k \in Keys, NEW n \in 1..MaxCommits, failed \subseteq failed', Covered(k, n),
         x.pc # "idle", x.team = writer[w].team, x.n = writer[w].n,
         k \in writer[w].todo \cup writer[w].found => k \in x.todo \cup x.found
  PROVE  Covered(k, n)'
<1>1. writer'[w] = x
  BY DEF Shape, TypeOK
<1>2. CASE /\ writer[w].pc # "idle" /\ writer[w].team = k[1] /\ writer[w].n = n
           /\ k \in writer[w].todo \cup writer[w].found
  <2>1. Pending(k[1], n, k)'
    BY <1>1, <1>2 DEF Pending
  <2> QED
    BY <2>1 DEF Covered
<1>3. CASE ~ (/\ writer[w].pc # "idle" /\ writer[w].team = k[1] /\ writer[w].n = n
              /\ k \in writer[w].todo \cup writer[w].found)
  BY <1>3, OthersCover
<1> QED
  BY <1>2, <1>3

(* A commit covers its keys: by the invalidation it starts, or as failed.    *)
LEMMA StartStale ==
  ASSUME Shape, Shape', StaleHasCause, NEW w \in Writers, NEW t \in Teams, Start(w, t)
  PROVE  StaleHasCause'
<1>1. cached' = cached /\ failed \subseteq failed'
  BY DEF Start, Commit, CommitWithoutChange, CommitUnknown
<1>2. \A k \in Keys : cached'[k] \in {cached[k], Miss}
  BY <1>1
<1>3. \A k \in Keys : \A n \in 1..MaxCommits : Covered(k, n) => Covered(k, n)'
  <2>1. CASE UNCHANGED writer
    BY <1>1, <2>1 DEF Covered, Pending
  <2>2. ASSUME NEW n \in 0..MaxCommits, StartInvalidation(w, t, n), writer[w].pc = "idle"
        PROVE  \A k \in Keys : \A m \in 1..MaxCommits : Covered(k, m) => Covered(k, m)'
    BY <1>1, <2>2, OthersCover DEF StartInvalidation
  <2>3. CASE Commit(w, t)
    <3>1. commits'[t] \in 0..MaxCommits
      BY DEF Shape, TypeOK
    <3> QED
      BY <2>2, <2>3, <3>1 DEF Commit
  <2>4. CASE CommitWithoutChange(w, t)
    <3>1. 0 \in 0..MaxCommits
      BY CacheAssumption
    <3> QED
      BY <2>2, <2>4, <3>1 DEF CommitWithoutChange
  <2> QED
    BY <2>1, <2>3, <2>4 DEF Start, CommitUnknown
<1>4. \A k \in Keys : \A n \in 1..MaxCommits :
        commits[k[1]] < n /\ n <= commits'[k[1]] => Covered(k, n)'
  <2> SUFFICES ASSUME NEW k \in Keys, NEW n \in 1..MaxCommits,
                      commits[k[1]] < n, n <= commits'[k[1]]
               PROVE  Covered(k, n)'
    OBVIOUS
  <2>1. k[1] \in Teams /\ commits[k[1]] \in 0..MaxCommits
    BY KeysAreKeys DEF Shape, TypeOK
  <2>2. ~CommitWithoutChange(w, t)
    BY <2>1 DEF CommitWithoutChange
  <2>3. commits[t] < MaxCommits /\ commits' = [commits EXCEPT ![t] = @ + 1]
    BY <2>2 DEF Start, Commit, CommitUnknown
  <2>4. k[1] = t /\ n = commits'[t]
    <3>1. k[1] = t
      BY <2>1, <2>3, CommitsGrow
    <3>2. commits'[t] = commits[t] + 1
      BY <2>3, CommitsGrow
    <3> QED
      BY <2>1, <3>1, <3>2
  <2>5. CASE CommitUnknown(w, t)
    BY <2>4, <2>5 DEF CommitUnknown, Covered
  <2>6. CASE Commit(w, t)
    <3>1. writer'[w] = [pc |-> "scan", team |-> t, n |-> commits'[t],
                        todo |-> KeysOf(t), found |-> {}]
      BY <2>6 DEF Commit, StartInvalidation, Shape, TypeOK
    <3>2. k \in KeysOf(t)
      BY <2>4 DEF KeysOf
    <3>3. Pending(k[1], n, k)'
      BY <2>4, <3>1, <3>2 DEF Pending
    <3> QED
      BY <3>3 DEF Covered
  <2> QED
    BY <2>2, <2>5, <2>6 DEF Start
<1> QED
  BY <1>2, <1>3, <1>4, CoverStep

(* Without a commit there is nothing new to cover.                           *)
LEMMA NothingNew ==
  ASSUME Shape, UNCHANGED commits
  PROVE  \A k \in Keys : \A n \in 1..MaxCommits :
           commits[k[1]] < n /\ n <= commits'[k[1]] => Covered(k, n)'
<1>1. \A k \in Keys : commits[k[1]] \in 0..MaxCommits
  BY KeysAreKeys DEF Shape, TypeOK
<1> QED
  BY <1>1

LEMMA WriterStale ==
  ASSUME Shape, Shape', StaleHasCause, NEW w \in Writers, WriterStep(w)
  PROVE  StaleHasCause'
<1>1. UNCHANGED <<commits, failed>>
  BY DEF WriterStep, Scan, Scanned, Del
<1>2. writer[w] \in Writer /\ Invalidating(writer[w])
  BY DEF Shape, TypeOK, Writer
<1>3. CASE Scan(w)
  <2>1. PICK j \in writer[w].todo :
          writer' = [writer EXCEPT
            ![w].todo  = @ \ {j},
            ![w].found = IF cached[j] = Miss THEN @ ELSE @ \cup {j}]
    BY <1>3 DEF Scan
  <2> DEFINE found == IF cached[j] = Miss THEN writer[w].found ELSE writer[w].found \cup {j}
             x == [writer[w] EXCEPT !.todo = writer[w].todo \ {j}, !.found = found]
  <2>2. writer' = [writer EXCEPT ![w] = x]
    BY <2>1
  <2>3. /\ x.pc = writer[w].pc /\ x.team = writer[w].team /\ x.n = writer[w].n
        /\ x.todo = writer[w].todo \ {j} /\ x.found = found
    <3> HIDE DEF found
    <3> QED
      BY <1>2 DEF Writer
  <2>4. \A k \in Keys : cached[k] # Miss =>
          (k \in writer[w].todo \cup writer[w].found => k \in x.todo \cup x.found)
    BY <2>3
  <2> HIDE DEF x
  <2>5. x.pc # "idle" /\ cached' = cached
    BY <1>3, <2>3 DEF Scan
  <2>6. \A k \in Keys : \A n \in 1..MaxCommits :
          cached'[k] # Miss /\ Covered(k, n) => Covered(k, n)'
    BY <1>1, <2>2, <2>3, <2>4, <2>5, GoesOnCovering
  <2> QED
    BY <1>1, <2>5, <2>6, NothingNew, CoverStep
<1>4. CASE Scanned(w)
  <2>1. cached' = cached /\ writer[w].todo = {} /\ writer[w].pc # "idle"
    BY <1>4 DEF Scanned
  <2>2. CASE writer[w].found = {} /\ WriterDone(w)
    <3>1. \A k \in Keys : \A n \in 1..MaxCommits : Covered(k, n) => Covered(k, n)'
      BY <1>1, <2>1, <2>2, OthersCover DEF WriterDone
    <3> QED
      BY <1>1, <2>1, <3>1, NothingNew, CoverStep
  <2>3. CASE writer' = [writer EXCEPT ![w].pc = "del"]
    <3> DEFINE x == [writer[w] EXCEPT !.pc = "del"]
    <3>1. writer' = [writer EXCEPT ![w] = x]
      BY <2>3
    <3>2. /\ x.pc # "idle" /\ x.team = writer[w].team /\ x.n = writer[w].n
          /\ x.todo = writer[w].todo /\ x.found = writer[w].found
      BY <1>2 DEF Writer
    <3> HIDE DEF x
    <3>3. \A k \in Keys : \A n \in 1..MaxCommits : Covered(k, n) => Covered(k, n)'
      BY <1>1, <3>1, <3>2, GoesOnCovering
    <3> QED
      BY <1>1, <2>1, <3>3, NothingNew, CoverStep
  <2> QED
    BY <1>4, <2>2, <2>3 DEF Scanned
<1>5. CASE Del(w)
  <2>1. /\ writer[w].pc = "del" /\ cached' = Without(writer[w].found) /\ WriterDone(w)
        /\ writer[w].todo = {}
    BY <1>2, <1>5 DEF Del, Invalidating
  <2>2. \A k \in Keys : cached'[k] = IF k \in writer[w].found THEN Miss ELSE cached[k]
    BY <2>1 DEF Without
  <2>3. \A k \in Keys : \A n \in 1..MaxCommits :
          cached'[k] # Miss /\ Covered(k, n) => Covered(k, n)'
    BY <1>1, <2>1, <2>2, OthersCover DEF WriterDone
  <2> QED
    BY <1>1, <2>2, <2>3, NothingNew, CoverStep
<1> QED
  BY <1>3, <1>4, <1>5 DEF WriterStep

(* What an invalidation that fails had not yet deleted is covered as failed. *)
LEMMA FailureStale ==
  ASSUME Shape, Shape', StaleHasCause, NEW w \in Writers, InvalidationFails(w)
  PROVE  StaleHasCause'
<1>1. /\ WriterDone(w) /\ failed' = failed \cup Lost({w}) /\ UNCHANGED commits
      /\ cached' = cached \/ cached' = Without(writer[w].found)
  BY DEF InvalidationFails
<1>2. \A k \in Keys : cached'[k] \in {cached[k], Miss}
  BY <1>1 DEF Without
<1>3. \A k \in Keys : \A n \in 1..MaxCommits :
        cached'[k] # Miss /\ Covered(k, n) => Covered(k, n)'
  <2> SUFFICES ASSUME NEW k \in Keys, NEW n \in 1..MaxCommits, Covered(k, n)
               PROVE  Covered(k, n)'
    OBVIOUS
  <2>1. CASE writer[w].team = k[1] /\ writer[w].n = n
    <3>1. <<k[1], n>> \in Lost({w})
      BY <2>1 DEF Lost
    <3> QED
      BY <1>1, <3>1 DEF Covered
  <2>2. CASE ~(writer[w].team = k[1] /\ writer[w].n = n)
    BY <1>1, <2>2, OthersCover DEF WriterDone
  <2> QED
    BY <2>1, <2>2
<1> QED
  BY <1>1, <1>2, <1>3, NothingNew, CoverStep

LEMMA EnvironmentStale ==
  ASSUME Shape, Shape', StaleHasCause,
         (\E k \in Keys : Expire(k)) \/ Crash \/ (\E t \in Teams, u \in Users : Join(t, u))
  PROVE  StaleHasCause'
<1>1. CASE \E k \in Keys : Expire(k)
  <2>1. \A k \in Keys : cached'[k] \in {cached[k], Miss}
    BY <1>1 DEF Expire, Shape, TypeOK
  <2>2. UNCHANGED <<commits, writer, failed>>
    BY <1>1 DEF Expire
  <2>3. \A k \in Keys : \A n \in 1..MaxCommits : Covered(k, n) => Covered(k, n)'
    BY <2>2 DEF Covered, Pending
  <2> QED
    BY <2>1, <2>2, <2>3, NothingNew, CoverStep
<1>2. CASE \E t \in Teams, u \in Users : Join(t, u)
  BY <1>2, StaleStays DEF Join
<1>3. CASE Crash
  <2>1. UNCHANGED <<commits, cached>> /\ failed' = failed \cup Lost(Writers)
    BY <1>3 DEF Crash
  <2>2. \A k \in Keys : \A n \in 1..MaxCommits : Covered(k, n) => Covered(k, n)'
    <3> SUFFICES ASSUME NEW k \in Keys, NEW n \in 1..MaxCommits, Covered(k, n)
                 PROVE  <<k[1], n>> \in failed'
      BY DEF Covered
    <3>1. CASE Pending(k[1], n, k)
      <4>1. PICK v \in Writers : writer[v].team = k[1] /\ writer[v].n = n
        BY <3>1 DEF Pending
      <4>2. <<k[1], n>> \in Lost(Writers)
        BY <4>1 DEF Lost
      <4> QED
        BY <2>1, <4>2
    <3> QED
      BY <2>1, <3>1 DEF Covered
  <2> QED
    BY <2>1, <2>2, NothingNew, CoverStep
<1> QED
  BY <1>1, <1>2, <1>3

LEMMA StaleStep == Shape /\ StaleHasCause /\ [Next]_vars => StaleHasCause'
<1> SUFFICES ASSUME Shape, StaleHasCause, [Next]_vars PROVE StaleHasCause'
  OBVIOUS
<1>1. Shape'
  BY ShapeStep
<1>2. CASE UNCHANGED vars
  BY <1>2, StaleStays DEF vars
<1> QED
  BY <1>1, <1>2, ReaderStale, StartStale, WriterStale, FailureStale, EnvironmentStale DEF Next

-----------------------------------------------------------------------------
Inv == Shape /\ Private /\ StaleHasCause

(* The inductive invariant.                                                  *)
THEOREM Invariance == Spec => []Inv
<1>1. Init => Inv
  BY ShapeInit, PrivateInit, StaleInit DEF Inv
<1>2. Inv /\ [Next]_vars => Inv'
  BY ShapeStep, PrivateStep, StaleStep DEF Inv
<1> QED
  BY <1>1, <1>2, PTL DEF Spec

(* Every variable keeps its type.                                            *)
THEOREM TypeCorrect == Spec => []TypeOK
<1>1. Inv => TypeOK
  BY DEF Inv, Shape
<1> QED
  BY <1>1, Invariance, PTL

(* Lists, cached or not, are answered to members only, and for their query.  *)
THEOREM ListsAreForTheirReaders == Spec => []AnswersTheQuery
<1>1. Inv => AnswersTheQuery
  BY DEF Inv, Private, Rightful, AnswersTheQuery
<1> QED
  BY <1>1, Invariance, PTL

(* No invalidation misses an entry that was fresh when it was set: if one    *)
(* survives a commit, the invalidation is still coming to it, or has failed. *)
THEOREM InvalidationsMissNothing == Spec => []StaleHasCause
<1>1. Inv => StaleHasCause
  BY DEF Inv
<1> QED
  BY <1>1, Invariance, PTL

-----------------------------------------------------------------------------
(* README.md says that a change invalidates the cache of its team. That is   *)
(* so but for lists that were read before a commit and set after it.         *)

(* Every commit of team t was invalidated, to the end and without an error.  *)
Invalidated(t) ==
  /\ \A n \in 1..commits[t] : <<t, n>> \notin failed
  /\ \A w \in Writers : ~(writer[w].pc # "idle" /\ writer[w].team = t)

(* The entry was already old when it was set.                                *)
SetLate(k) == cached[k].list.n # cached[k].at

OnlyLateSetsAreStale ==
  \A k \in Keys :
    cached[k] # Miss /\ Invalidated(k[1]) /\ ~SetLate(k) =>
      cached[k].list.n = commits[k[1]]

(* An entry is set at or before the last commit.                             *)
SetInThePast ==
  \A k \in Keys : cached[k] # Miss => cached[k].at <= commits[k[1]]

LEMMA SetInThePastStep == Shape /\ SetInThePast /\ [Next]_vars => SetInThePast'
<1> SUFFICES ASSUME Shape, SetInThePast, [Next]_vars PROVE SetInThePast'
  OBVIOUS
<1>1. /\ commits \in [Teams -> 0..MaxCommits] /\ \A k \in Keys : k[1] \in Teams
      /\ cached \in [Keys -> CacheEntry \cup {Miss}] /\ MaxCommits \in Nat
      /\ \A k \in Keys : cached[k] # Miss => cached[k].at \in 0..MaxCommits
  BY KeysAreKeys, CacheAssumption DEF Shape, TypeOK, CacheEntry
<1>2. ASSUME UNCHANGED cached, \A t \in Teams : commits'[t] >= commits[t],
             commits' \in [Teams -> 0..MaxCommits]
      PROVE  SetInThePast'
  BY <1>1, <1>2 DEF SetInThePast
<1>3. ASSUME UNCHANGED commits, \A k \in Keys : cached'[k] = Miss \/ cached'[k] = cached[k]
      PROVE  SetInThePast'
  BY <1>3 DEF SetInThePast
<1>4. ASSUME NEW r \in Readers, Set(r) PROVE SetInThePast'
  <2> DEFINE q == reader[r].q
  <2>1. /\ q \in Queries /\ commits' = commits
        /\ cached' = [cached EXCEPT ![TeamTasksKey(q)] =
                        [list |-> reader[r].got, at |-> commits[q.team]]]
    BY <1>4 DEF Set, Shape, Asking
  <2>2. TeamTasksKey(q) \in Keys /\ TeamTasksKey(q)[1] = q.team /\ q.team \in Teams
    BY <2>1, KeysAreKeys
  <2>3. ASSUME NEW k \in Keys, cached'[k] # Miss PROVE cached'[k].at <= commits'[k[1]]
    <3>1. CASE k = TeamTasksKey(q)
      <4>1. cached'[k].at = commits[q.team]
        BY <1>1, <2>1, <2>2, <3>1
      <4>2. commits[q.team] \in Int
        BY <1>1, <2>2
      <4> QED
        BY <2>1, <2>2, <3>1, <4>1, <4>2
    <3>2. CASE k # TeamTasksKey(q)
      <4>1. cached'[k] = cached[k]
        BY <1>1, <2>1, <2>2, <3>2
      <4> QED
        BY <2>1, <2>3, <4>1 DEF SetInThePast
    <3> QED
      BY <3>1, <3>2
  <2> QED
    BY <2>3 DEF SetInThePast
<1>5. ASSUME NEW w \in Writers, NEW t \in Teams, Commit(w, t) \/ CommitUnknown(w, t)
      PROVE  SetInThePast'
  <2>1. commits' = [commits EXCEPT ![t] = @ + 1] /\ commits[t] < MaxCommits /\ UNCHANGED cached
    BY <1>5 DEF Commit, CommitUnknown
  <2> QED
    BY <1>1, <1>2, <2>1
<1>6. ASSUME NEW w \in Writers,
             (\E t \in Teams : CommitWithoutChange(w, t)) \/ Scan(w) \/ Scanned(w)
      PROVE  SetInThePast'
  BY <1>3, <1>6 DEF CommitWithoutChange, Scan, Scanned
<1>7. ASSUME NEW w \in Writers, Del(w) \/ InvalidationFails(w) PROVE SetInThePast'
  BY <1>3, <1>7 DEF Del, InvalidationFails, Without
<1>8. ASSUME NEW r \in Readers,
             Ask(r) \/ CheckMember(r) \/ Get(r) \/ List(r) \/ SetFails(r) \/ ReadFails(r)
      PROVE  SetInThePast'
  BY <1>3, <1>8 DEF Ask, CheckMember, Get, List, SetFails, ReadFails
<1>9. ASSUME NEW k \in Keys, Expire(k) PROVE SetInThePast'
  BY <1>1, <1>3, <1>9 DEF Expire
<1>10. CASE Crash \/ (\E t \in Teams, u \in Users : Join(t, u)) \/ UNCHANGED vars
  BY <1>3, <1>10 DEF Crash, Join, vars
<1> QED
  BY <1>4, <1>5, <1>6, <1>7, <1>8, <1>9, <1>10 DEF Next, ReaderStep, WriterStep, Start

(* Of all the entries that survive the invalidations, a stale one was set by *)
(* a ListTasks that had read the table before a commit. No other order of    *)
(* the round trips of any number of requests leaves one.                     *)
THEOREM StaleEntriesWereSetLate == Spec => []OnlyLateSetsAreStale
<1>1. Init => SetInThePast
  BY DEF Init, SetInThePast
<1>2. Inv /\ SetInThePast => OnlyLateSetsAreStale
  <2> SUFFICES ASSUME Inv, SetInThePast, NEW k \in Keys, cached[k] # Miss,
                      Invalidated(k[1]), ~SetLate(k)
               PROVE  cached[k].list.n = commits[k[1]]
    BY DEF OnlyLateSetsAreStale
  <2>1. /\ cached[k].list.n = cached[k].at /\ cached[k].at \in Nat
        /\ commits[k[1]] \in Nat /\ cached[k].at <= commits[k[1]]
    BY KeysAreKeys, CacheAssumption
       DEF SetLate, SetInThePast, Inv, Shape, TypeOK, CacheEntry
  <2>2. ASSUME cached[k].at < commits[k[1]] PROVE FALSE
    <3>1. commits[k[1]] \in (cached[k].at + 1)..commits[k[1]] /\ commits[k[1]] \in 1..commits[k[1]]
      BY <2>1, <2>2
    <3>2. <<k[1], commits[k[1]]>> \in failed \/ Pending(k[1], commits[k[1]], k)
      BY <2>1, <3>1 DEF Inv, StaleHasCause
    <3> QED
      BY <3>1, <3>2 DEF Invalidated, Pending
  <2> QED
    BY <2>1, <2>2
<1> QED
  BY <1>1, <1>2, SetInThePastStep, Invariance, PTL DEF Spec, Inv
=============================================================================
