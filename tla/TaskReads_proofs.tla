-------------------------- MODULE TaskReads_proofs --------------------------
(* Proofs about what is read from the table tasks: the reports (TaskReports) *)
(* and the walk through the pages of a list (TaskPages), for any number of   *)
(* teams, users and tasks. The parts of the module:                          *)
(*   positions   ranks in a finite, totally ordered set, by FS_Injection and *)
(*               without induction: the rank is one to one, and a row number *)
(*               at most n belongs to n rows;                                *)
(*   reports     ReportsInv, and what the queries say of such tables;        *)
(*   pages       PagesInv: a walk has skipped no more than left the list and *)
(*               repeats no more than came, as a change moves at most one task *)
(*               across the offset.                                          *)
EXTENDS MCTaskReads, FiniteSetTheorems, TLAPS

-----------------------------------------------------------------------------
(* Positions in a finite set that is totally ordered.                        *)

(* R orders S, strictly and totally.                                         *)
Orders(R, S) ==
  /\ \A x \in S : <<x, x>> \notin R
  /\ \A x, y, z \in S : <<x, y>> \in R /\ <<y, z>> \in R => <<x, z>> \in R
  /\ \A x, y \in S : x = y \/ <<x, y>> \in R \/ <<y, x>> \in R

(* How many elements of S come before x.                                     *)
Rank(R, S) == [x \in S |-> Cardinality({y \in S : <<y, x>> \in R})]

(* What comes first has fewer before it.                                     *)
LEMMA RankGrows ==
  ASSUME NEW S, IsFiniteSet(S), NEW R, Orders(R, S),
         NEW x \in S, NEW y \in S, <<x, y>> \in R
  PROVE  Rank(R, S)[x] < Rank(R, S)[y]
<1> DEFINE before(z) == {w \in S : <<w, z>> \in R}
<1>1. before(x) \subseteq before(y) /\ x \in before(y) /\ x \notin before(x)
  BY DEF Orders
<1>2. IsFiniteSet(before(y)) /\ Cardinality(before(y)) \in Nat
  BY before(y) \in SUBSET S, FS_Subset, FS_CardinalityType
<1>3. Cardinality(before(x)) <= Cardinality(before(y)) /\ Cardinality(before(x)) # Cardinality(before(y))
  BY <1>1, <1>2, before(x) \in SUBSET before(y), FS_Subset
<1>4. Cardinality(before(x)) \in Nat
  BY before(x) \in SUBSET S, FS_Subset, FS_CardinalityType
<1>5. QED
  BY <1>2, <1>3, <1>4 DEF Rank

(* The ranks are 0, 1, ... without gaps or ties.                             *)
LEMMA RankCounts ==
  ASSUME NEW S, IsFiniteSet(S), NEW R, Orders(R, S)
  PROVE  /\ Cardinality(S) \in Nat
         /\ Rank(R, S) \in Injection(S, 0..(Cardinality(S) - 1))
         /\ Rank(R, S) \in Surjection(S, 0..(Cardinality(S) - 1))
<1> DEFINE n == Cardinality(S)
<1> DEFINE T == 0..(n - 1)
<1>1. n \in Nat
  BY FS_CardinalityType
<1>2. ASSUME NEW x \in S
      PROVE  Rank(R, S)[x] \in T
  <2> DEFINE B == {w \in S : <<w, x>> \in R}
  <2>1. IsFiniteSet(B) /\ Cardinality(B) <= n /\ (n = Cardinality(B) => S = B)
    BY B \in SUBSET S, FS_Subset
  <2>2. x \notin B
    BY DEF Orders
  <2>3. Cardinality(B) \in Nat
    BY <2>1, FS_CardinalityType
  <2>4. QED
    BY <1>1, <2>1, <2>2, <2>3 DEF Rank
<1>3. Rank(R, S) \in [S -> T]
  BY <1>2 DEF Rank
<1>4. ASSUME NEW x \in S, NEW y \in S, Rank(R, S)[x] = Rank(R, S)[y]
      PROVE  x = y
  <2>1. CASE <<x, y>> \in R
    BY <1>2, <1>1, <1>4, <2>1, RankGrows
  <2>2. CASE <<y, x>> \in R
    BY <1>2, <1>1, <1>4, <2>2, RankGrows
  <2>3. QED
    BY <2>1, <2>2 DEF Orders
<1>5. Rank(R, S) \in Injection(S, T)
  BY <1>3, <1>4 DEF Injection, IsInjective
<1>6. IsFiniteSet(T) /\ Cardinality(T) = n
  BY <1>1, FS_Interval
<1>7. Rank(R, S) \in Surjection(S, T)
  BY <1>5, <1>6, FS_Injection
<1>8. QED
  BY <1>1, <1>5, <1>7

(* Those with a rank in an interval are as many as it has ranks.             *)
LEMMA RankWindow ==
  ASSUME NEW S, IsFiniteSet(S), NEW R, Orders(R, S), NEW a \in Nat, NEW b \in Nat,
         a <= b, b <= Cardinality(S)
  PROVE  LET W == {x \in S : a <= Rank(R, S)[x] /\ Rank(R, S)[x] < b}
         IN  IsFiniteSet(W) /\ Cardinality(W) = b - a
<1> DEFINE n == Cardinality(S)
<1> DEFINE W == {x \in S : a <= Rank(R, S)[x] /\ Rank(R, S)[x] < b}
<1> DEFINE f == [x \in W |-> Rank(R, S)[x]]
<1> HIDE DEF f
<1>1. n \in Nat /\ Rank(R, S) \in Injection(S, 0..(n - 1)) /\ Rank(R, S) \in Surjection(S, 0..(n - 1))
  BY RankCounts
<1>2. f \in [W -> a..(b - 1)]
  BY <1>1 DEF Injection, f
<1>3. f \in Injection(W, a..(b - 1))
  BY <1>1, <1>2 DEF Injection, IsInjective, f
<1>4. \A r \in a..(b - 1) : \E x \in W : f[x] = r
  BY <1>1, a..(b - 1) \subseteq 0..(n - 1) DEF Surjection, f
<1>5. f \in Surjection(W, a..(b - 1))
  BY <1>2, <1>4 DEF Surjection
<1>6. IsFiniteSet(a..(b - 1)) /\ Cardinality(a..(b - 1)) = b - a
  <2>1. PICK e \in Int : e = b - 1
    OBVIOUS
  <2>2. IsFiniteSet(a..e) /\ Cardinality(a..e) = IF a > e THEN 0 ELSE e - a + 1
    BY FS_Interval
  <2>3. QED
    BY <2>1, <2>2
<1>7. QED
  BY <1>3, <1>5, <1>6, FS_Injection
-----------------------------------------------------------------------------
(* A list of ids, newest first, and its pages.                               *)

(* A list of ids, newest first: the place of x is how many come before it.   *)
Place(L, x) == Cardinality({j \in L : j > x})

Newer(L) == {p \in L \X L : p[1] > p[2]}

LEMMA NewerOrders ==
  ASSUME NEW L \in SUBSET Int
  PROVE  Orders(Newer(L), L)
BY DEF Orders, Newer

LEMMA PlaceIsRank ==
  ASSUME NEW L \in SUBSET Int, NEW x \in L
  PROVE  Place(L, x) = Rank(Newer(L), L)[x]
<1>1. {j \in L : j > x} = {j \in L : <<j, x>> \in Newer(L)}
  BY DEF Newer
<1>2. QED
  BY <1>1 DEF Place, Rank

LEMMA PlaceNat ==
  ASSUME NEW L \in SUBSET Int, IsFiniteSet(L), NEW x \in Int
  PROVE  Place(L, x) \in Nat
BY {j \in L : j > x} \in SUBSET L, FS_Subset, FS_CardinalityType DEF Place

(* No two share a place.                                                     *)
LEMMA PlacesDiffer ==
  ASSUME NEW L \in SUBSET Int, IsFiniteSet(L), NEW x \in L, NEW y \in L, x < y
  PROVE  Place(L, y) < Place(L, x)
<1>1. <<y, x>> \in Newer(L)
  BY DEF Newer
<1>2. QED
  BY <1>1, NewerOrders, RankGrows, PlaceIsRank

(* A new member moves those below it by one place.                           *)
LEMMA PlaceMoves ==
  ASSUME NEW L \in SUBSET Int, IsFiniteSet(L), NEW i \in Int, i \notin L, NEW x \in Int
  PROVE  Place(L \cup {i}, x) = IF i > x THEN Place(L, x) + 1 ELSE Place(L, x)
<1> DEFINE B == {j \in L : j > x}
<1>1. IsFiniteSet(B) /\ i \notin B
  BY B \in SUBSET L, FS_Subset
<1>2. CASE i > x
  <2>1. {j \in L \cup {i} : j > x} = B \cup {i}
    BY <1>2
  <2>2. QED
    BY <1>1, <1>2, <2>1, FS_AddElement DEF Place
<1>3. CASE ~(i > x)
  <2>1. {j \in L \cup {i} : j > x} = B
    BY <1>3
  <2>2. QED
    BY <1>3, <2>1 DEF Place
<1>4. QED
  BY <1>2, <1>3

(* The elements of A outside B are one at most.                              *)
LEMMA OneMore ==
  ASSUME NEW A, NEW B, IsFiniteSet(B), \A x, y \in A \ B : x = y
  PROVE  IsFiniteSet(A) /\ Cardinality(A) <= Cardinality(B) + 1
<1>1. PICK z : A \subseteq B \cup {z}
  <2>1. CASE A \subseteq B
    BY <2>1
  <2>2. CASE ~(A \subseteq B)
    <3>1. PICK z \in A : z \notin B
      BY <2>2
    <3>2. A \subseteq B \cup {z}
      BY <3>1
    <3>3. QED
      BY <3>2
  <2>3. QED
    BY <2>1, <2>2
<1>2. /\ IsFiniteSet(B \cup {z})
      /\ Cardinality(B \cup {z}) <= Cardinality(B) + 1
      /\ Cardinality(B \cup {z}) \in Nat /\ Cardinality(B) \in Nat
  <2>1. IsFiniteSet(B \cup {z}) /\ Cardinality(B \cup {z}) = IF z \in B THEN Cardinality(B) ELSE Cardinality(B) + 1
    BY FS_AddElement
  <2>2. Cardinality(B) \in Nat
    BY FS_CardinalityType
  <2>3. QED
    BY <2>1, <2>2
<1>3. IsFiniteSet(A) /\ Cardinality(A) <= Cardinality(B \cup {z})
  BY <1>1, <1>2, A \in SUBSET (B \cup {z}), FS_Subset
<1>4. Cardinality(A) \in Nat
  BY <1>3, FS_CardinalityType
<1>5. QED
  BY <1>2, <1>3, <1>4

(* A subset has no more elements.                                            *)
LEMMA NoMore ==
  ASSUME NEW A, NEW B, IsFiniteSet(B), A \subseteq B
  PROVE  /\ IsFiniteSet(A) /\ Cardinality(A) \in Nat /\ Cardinality(B) \in Nat
         /\ Cardinality(A) <= Cardinality(B)
BY A \in SUBSET B, FS_Subset, FS_CardinalityType

-----------------------------------------------------------------------------
(* The offset of a walk has gone past them, although they are not in what it *)
(* got; it has not gone past them, although they are.                        *)
Skipped(L, stay, got, offset) == {x \in stay \ got : Place(L, x) < offset}

Again(L, got, offset) == {x \in got \cap L : Place(L, x) >= offset}

(* What a new member i of a list does to them.                               *)
LEMMA SkippedGrown ==
  ASSUME NEW L \in SUBSET Int, IsFiniteSet(L), NEW i \in Int, i \notin L,
         NEW stay \in SUBSET L, NEW got, NEW offset \in Nat
  PROVE  Skipped(L \cup {i}, stay, got, offset) \subseteq Skipped(L, stay, got, offset)
<1>1. ASSUME NEW x \in stay
      PROVE  Place(L \cup {i}, x) >= Place(L, x) /\ Place(L, x) \in Nat
                /\ Place(L \cup {i}, x) \in Nat
  BY PlaceMoves, PlaceNat
<1>2. ASSUME NEW x, x \in Skipped(L \cup {i}, stay, got, offset)
      PROVE  x \in Skipped(L, stay, got, offset)
  <2>1. x \in stay /\ x \notin got /\ Place(L \cup {i}, x) < offset
    BY <1>2 DEF Skipped
  <2>2. Place(L, x) < offset
    BY <1>1, <2>1
  <2>3. QED
    BY <2>1, <2>2 DEF Skipped
<1>3. QED
  BY <1>2

LEMMA AgainGrown ==
  ASSUME NEW L \in SUBSET Int, IsFiniteSet(L), NEW i \in Int, i \notin L,
         NEW got, NEW offset \in Nat,
         NEW x \in Again(L \cup {i}, got, offset) \ Again(L, got, offset),
         NEW y \in Again(L \cup {i}, got, offset) \ Again(L, got, offset)
  PROVE  x = y
<1> DEFINE New == Again(L \cup {i}, got, offset) \ Again(L, got, offset)
<1>1. Place(L, i) \in Nat /\ Place(L \cup {i}, i) = Place(L, i)
  BY PlaceMoves, PlaceNat
<1>2. ASSUME NEW z \in New, z # i
      PROVE  z \in L /\ z < i /\ Place(L, z) = offset - 1
  <2>1. z \in L /\ z \in got /\ Place(L \cup {i}, z) >= offset /\ ~(Place(L, z) >= offset)
    BY <1>2 DEF Again
  <2>2. Place(L, z) \in Nat /\ Place(L \cup {i}, z) = IF i > z THEN Place(L, z) + 1 ELSE Place(L, z)
    BY <2>1, PlaceMoves, PlaceNat
  <2>3. QED
    BY <2>1, <2>2
<1>3. ASSUME NEW z \in New, z # i
      PROVE  i \notin New
  <2>1. z \in L /\ z < i /\ Place(L, z) = offset - 1
    BY <1>2, <1>3
  <2>2. Place(L, i) < Place(L, z) \/ Place(L, i) = Place(L, z)
    <3>1. {j \in L : j > i} \subseteq {j \in L : j > z}
      <4>1. z \in Int /\ z < i
        BY <2>1
      <4>2. \A j \in Int : j > i => j > z
        BY <4>1
      <4>3. QED
        BY <4>2
    <3>2. Place(L, i) <= Place(L, z) /\ Place(L, z) \in Nat
      BY <3>1, NoMore, NoMore DEF Place
    <3>3. QED
      BY <1>1, <3>2
  <2>3. ~(Place(L \cup {i}, i) >= offset)
    BY <1>1, <2>1, <2>2
  <2>4. QED
    BY <2>3 DEF Again
<1>4. CASE x = i \/ y = i
  BY <1>3, <1>4
<1>5. CASE x # i /\ y # i
  <2>1. x \in L /\ y \in L /\ Place(L, x) = Place(L, y)
    BY <1>2, <1>5
  <2>2. Place(L, x) \in Nat
    BY <2>1, PlaceNat
  <2>3. ~(x < y) /\ ~(y < x)
    BY <2>1, <2>2, PlacesDiffer
  <2>4. QED
    BY <2>1, <2>3
<1>6. QED
  BY <1>4, <1>5

(* What the loss of the member i of a list does to them.                     *)
LEMMA AgainShrunk ==
  ASSUME NEW L \in SUBSET Int, IsFiniteSet(L), NEW i \in L,
         NEW got, NEW offset \in Nat
  PROVE  Again(L \ {i}, got, offset) \subseteq Again(L, got, offset)
<1> DEFINE M == L \ {i}
<1>1. M \in SUBSET Int /\ IsFiniteSet(M) /\ i \in Int /\ i \notin M /\ L = M \cup {i}
  BY M \in SUBSET L, FS_Subset
<1>2. ASSUME NEW x \in M
      PROVE  Place(L, x) >= Place(M, x) /\ Place(M, x) \in Nat /\ Place(L, x) \in Nat
  <2> HIDE DEF M
  <2>1. Place(M, x) \in Nat /\ Place(M \cup {i}, x) = IF i > x THEN Place(M, x) + 1 ELSE Place(M, x)
    BY <1>1, PlaceMoves, PlaceNat
  <2>2. QED
    BY <1>1, <2>1
<1>3. ASSUME NEW x, x \in Again(M, got, offset)
      PROVE  x \in Again(L, got, offset)
  <2>1. x \in got /\ x \in M /\ Place(M, x) >= offset
    BY <1>3 DEF Again
  <2>2. x \in L /\ Place(L, x) >= offset
    BY <1>2, <2>1
  <2>3. QED
    BY <2>1, <2>2 DEF Again
<1>4. QED
  BY <1>3

LEMMA SkippedShrunk ==
  ASSUME NEW L \in SUBSET Int, IsFiniteSet(L), NEW i \in L,
         NEW stay \in SUBSET L, NEW got, NEW offset \in Nat,
         NEW x \in Skipped(L \ {i}, stay \ {i}, got, offset) \ Skipped(L, stay, got, offset),
         NEW y \in Skipped(L \ {i}, stay \ {i}, got, offset) \ Skipped(L, stay, got, offset)
  PROVE  x = y
<1> DEFINE M == L \ {i}
<1> DEFINE New == Skipped(L \ {i}, stay \ {i}, got, offset) \ Skipped(L, stay, got, offset)
<1>1. M \in SUBSET Int /\ IsFiniteSet(M) /\ i \in Int /\ i \notin M /\ L = M \cup {i}
  BY M \in SUBSET L, FS_Subset
<1>2. ASSUME NEW z \in New
      PROVE  z \in L /\ Place(L, z) = offset /\ Place(L, z) \in Nat
  <2>1. z \in M /\ Place(M, z) < offset /\ ~(Place(L, z) < offset)
    BY DEF Skipped
  <2> HIDE DEF M
  <2>2. Place(M, z) \in Nat /\ Place(M \cup {i}, z) = IF i > z THEN Place(M, z) + 1 ELSE Place(M, z)
    BY <1>1, <2>1, PlaceMoves, PlaceNat
  <2>3. QED
    BY <1>1, <2>1, <2>2
<1>3. x \in L /\ y \in L /\ Place(L, x) = Place(L, y) /\ Place(L, x) \in Nat
  BY <1>2
<1>4. ~(x < y) /\ ~(y < x)
  BY <1>3, PlacesDiffer
<1>5. QED
  BY <1>3, <1>4

(* LIMIT limit OFFSET offset of the list L.                                  *)
PageOf(L, offset, limit) ==
  {x \in L : offset <= Place(L, x) /\ Place(L, x) < offset + limit}

(* A page is the stretch of the list that its offset and its length name; it *)
(* is empty only behind the end of the list.                                 *)
LEMMA PageSize ==
  ASSUME NEW L \in SUBSET Int, IsFiniteSet(L), NEW offset \in Nat, NEW limit \in Nat \ {0}
  PROVE  LET P == PageOf(L, offset, limit) IN
         /\ IsFiniteSet(P) /\ Cardinality(P) \in Nat /\ Cardinality(P) <= limit
         /\ P = {} => Cardinality(P) = 0 /\ \A x \in L : Place(L, x) < offset
         /\ \A x \in L : x \in P <=> offset <= Place(L, x) /\ Place(L, x) < offset + Cardinality(P)
<1> DEFINE P == PageOf(L, offset, limit)
<1> DEFINE n == Cardinality(L)
<1>1. n \in Nat /\ \A x \in L : Place(L, x) \in 0..(n - 1)
  <2>1. Orders(Newer(L), L)
    BY NewerOrders
  <2>2. n \in Nat /\ Rank(Newer(L), L) \in Injection(L, 0..(n - 1))
    BY <2>1, RankCounts
  <2>3. \A x \in L : Rank(Newer(L), L)[x] \in 0..(n - 1)
    BY <2>2 DEF Injection
  <2>4. QED
    BY <2>2, <2>3, PlaceIsRank
<1>2. CASE offset >= n
  <2>1. P = {}
    <3> HIDE DEF n
    <3>1. \A x \in L : ~(offset <= Place(L, x))
      BY <1>1, <1>2
    <3>2. QED
      BY <3>1 DEF PageOf
  <2>2. IsFiniteSet(P) /\ Cardinality(P) = 0
    BY <2>1, FS_EmptySet
  <2>3. QED
    BY <1>1, <1>2, <2>1, <2>2
<1>3. CASE offset < n
  <2> DEFINE b == IF offset + limit <= n THEN offset + limit ELSE n
  <2>1. b \in Nat /\ offset < b /\ b <= n /\ b <= offset + limit
    BY <1>1, <1>3
  <2>2. \A x \in L : x \in P <=> offset <= Place(L, x) /\ Place(L, x) < b
    BY <1>1, <1>3 DEF PageOf
  <2> HIDE DEF b
  <2>3. P = {x \in L : offset <= Rank(Newer(L), L)[x] /\ Rank(Newer(L), L)[x] < b}
    BY <2>2, PlaceIsRank DEF PageOf
  <2>4. IsFiniteSet(P) /\ Cardinality(P) = b - offset
    <3> HIDE DEF P
    <3>1. Orders(Newer(L), L) /\ offset <= b
      BY <2>1, NewerOrders
    <3>2. QED
      BY <2>1, <2>3, <3>1, RankWindow
  <2>5. P # {}
    BY <2>1, <2>4, FS_EmptySet
  <2>6. Cardinality(P) \in Nat /\ Cardinality(P) <= limit /\ offset + Cardinality(P) = b
    BY <2>1, <2>4
  <2>7. QED
    BY <2>2, <2>4, <2>5, <2>6
<1>4. QED
  BY <1>1, <1>2, <1>3
-----------------------------------------------------------------------------
(* The tables as the service writes them.                                    *)

(* The history variables follow the rows, and who is assigned is a member.   *)
RowOK(i) ==
  /\ touched[i] = tasks[i].updated
  /\ tasks[i].status = "done" =>
       finished[i] \in 0..MaxTime /\ finished[i] <= tasks[i].updated
  /\ tasks[i].assignee # NULL => <<tasks[i].team, tasks[i].assignee>> \in members

ReportsInv == TypeOK /\ \A i \in DOMAIN tasks : RowOK(i)

LEMMA ReportsInit == Init => ReportsInv
<1> SUFFICES ASSUME Init PROVE ReportsInv
  OBVIOUS
<1>1. DOMAIN tasks = {}
  BY DEF Init
<1>2. members \subseteq Teams \X Users
  BY DEF Init
<1>3. QED
  BY <1>1, <1>2, ReportsAssumption DEF Init, ReportsInv, TypeOK, RowOK

LEMMA ReportsCreate ==
  ASSUME ReportsInv, NEW i \in TaskIds, Create(i)
  PROVE  ReportsInv'
<1>1. PICK m \in members : \E a \in Assignees(m[1]) :
        tasks' = [j \in DOMAIN tasks \cup {i} |->
          IF j = i THEN [team |-> m[1], status |-> "todo", assignee |-> a, by |-> m[2],
                         created |-> now, updated |-> now]
          ELSE tasks[j]]
  BY DEF Create
<1>2. PICK a \in Assignees(m[1]) :
        tasks' = [j \in DOMAIN tasks \cup {i} |->
          IF j = i THEN [team |-> m[1], status |-> "todo", assignee |-> a, by |-> m[2],
                         created |-> now, updated |-> now]
          ELSE tasks[j]]
  BY <1>1
<1>3. /\ m \in Teams \X Users /\ m = <<m[1], m[2]>>
      /\ a \in Users \cup {NULL}
      /\ a # NULL => <<m[1], a>> \in members
      /\ m[1] \in Teams /\ m[2] \in Users
      /\ now \in 0..MaxTime /\ now \in Nat /\ MaxTime \in Nat /\ "todo" \in AllStatuses
  BY ReportsAssumption DEF ReportsInv, TypeOK, Assignees, AllStatuses
<1>4. i \notin DOMAIN tasks /\ DOMAIN tasks' = DOMAIN tasks \cup {i}
  BY <1>2 DEF Create
<1>5. \A j \in DOMAIN tasks : tasks'[j] = tasks[j] /\ touched'[j] = touched[j]
  BY <1>2, <1>4 DEF Create, ReportsInv, TypeOK
<1>6. tasks'[i] = [team |-> m[1], status |-> "todo", assignee |-> a, by |-> m[2],
                   created |-> now, updated |-> now]
  BY <1>2
<1>7. /\ tasks'[i].team = m[1] /\ tasks'[i].status = "todo" /\ tasks'[i].assignee = a
      /\ tasks'[i].by = m[2] /\ tasks'[i].created = now /\ tasks'[i].updated = now
  BY <1>6
<1>8. touched' \in [TaskIds -> 0..MaxTime] /\ touched'[i] = now
  BY <1>3 DEF Create, ReportsInv, TypeOK
<1>9. UNCHANGED <<now, members, finished, updates>>
  BY DEF Create
<1>10. tasks'[i] \in Row
  BY <1>3, <1>6 DEF Row
<1>11. TypeOK'
  <2>1. ASSUME NEW j \in DOMAIN tasks'
        PROVE  /\ tasks'[j] \in Row
               /\ tasks'[j].created <= tasks'[j].updated /\ tasks'[j].updated <= now'
               /\ \E k \in members' : k = <<tasks'[j].team, tasks'[j].by>>
    <3>1. CASE j = i
      BY <3>1, <1>3, <1>7, <1>9, <1>10
    <3>2. CASE j # i
      BY <3>2, <1>4, <1>5, <1>9 DEF ReportsInv, TypeOK
    <3>3. QED
      BY <3>1, <3>2
  <2>2. DOMAIN tasks' \subseteq TaskIds
    BY <1>4 DEF ReportsInv, TypeOK
  <2>3. QED
    BY <2>1, <2>2, <1>8, <1>9 DEF ReportsInv, TypeOK
<1>12. ASSUME NEW j \in DOMAIN tasks'
       PROVE  RowOK(j)'
  <2>1. CASE j = i
    <3>1. tasks'[i].status # "done" /\ touched'[i] = tasks'[i].updated
      BY <1>7, <1>8
    <3>2. tasks'[i].assignee # NULL => <<tasks'[i].team, tasks'[i].assignee>> \in members'
      BY <1>3, <1>7, <1>9
    <3>3. QED
      BY <2>1, <3>1, <3>2 DEF RowOK
  <2>2. CASE j # i
    BY <2>2, <1>4, <1>5, <1>9 DEF RowOK, ReportsInv
  <2>3. QED
    BY <2>1, <2>2
<1>13. QED
  BY <1>11, <1>12 DEF ReportsInv

LEMMA ReportsUpdate ==
  ASSUME ReportsInv, NEW i \in TaskIds, Update(i)
  PROVE  ReportsInv'
<1>1. PICK s \in AllStatuses, a \in Assignees(tasks[i].team) :
        /\ tasks' = [tasks EXCEPT ![i].status = s, ![i].assignee = a,
                                  ![i].updated = UpdatedAt(tasks[i])]
        /\ finished' = [finished EXCEPT ![i] =
             IF s = "done" /\ tasks[i].status # "done" THEN now ELSE @]
  BY DEF Update
<1>2. /\ i \in DOMAIN tasks /\ RowOK(i)
      /\ tasks[i] \in Row /\ tasks[i].created <= tasks[i].updated /\ tasks[i].updated <= now
      /\ \E m \in members : m = <<tasks[i].team, tasks[i].by>>
  BY DEF Update, ReportsInv, TypeOK
<1>3. /\ a \in Users \cup {NULL}
      /\ a # NULL => <<tasks[i].team, a>> \in members
      /\ now \in 0..MaxTime /\ now \in Nat /\ MaxTime \in Nat
  BY ReportsAssumption DEF ReportsInv, TypeOK, Assignees
<1>4. DOMAIN tasks' = DOMAIN tasks /\ \A j \in DOMAIN tasks \ {i} : tasks'[j] = tasks[j]
  BY <1>1, <1>2
<1>5. tasks'[i] = [tasks[i] EXCEPT !.status = s, !.assignee = a, !.updated = now]
  BY <1>1, <1>2 DEF UpdatedAt
<1>6. /\ tasks'[i] \in Row
      /\ tasks'[i].team = tasks[i].team /\ tasks'[i].by = tasks[i].by
      /\ tasks'[i].created = tasks[i].created /\ tasks'[i].updated = now
      /\ tasks'[i].status = s /\ tasks'[i].assignee = a
  <2>1. \A row \in Row : LET new == [row EXCEPT !.status = s, !.assignee = a, !.updated = now] IN
          /\ new \in Row
          /\ new.team = row.team /\ new.by = row.by /\ new.created = row.created
          /\ new.updated = now /\ new.status = s /\ new.assignee = a
    BY <1>3 DEF Row
  <2>2. QED
    BY <2>1, <1>2, <1>5
<1>7. /\ touched' \in [TaskIds -> 0..MaxTime] /\ touched'[i] = now
      /\ \A j \in DOMAIN tasks \ {i} : touched'[j] = touched[j]
      /\ finished' \in [TaskIds -> 0..MaxTime \cup {NULL}]
      /\ \A j \in DOMAIN tasks \ {i} : finished'[j] = finished[j]
      /\ finished'[i] = IF s = "done" /\ tasks[i].status # "done" THEN now ELSE finished[i]
  <2>1. touched' = [touched EXCEPT ![i] = now] /\ touched \in [TaskIds -> 0..MaxTime]
        /\ finished \in [TaskIds -> 0..MaxTime \cup {NULL}] /\ DOMAIN tasks \subseteq TaskIds
    BY DEF Update, ReportsInv, TypeOK
  <2>2. QED
    BY <2>1, <1>1, <1>3
<1>8. UNCHANGED <<now, members>> /\ updates' \in 0..MaxUpdates
  BY ReportsAssumption DEF Update, ReportsInv, TypeOK
<1>9. TypeOK'
  <2>1. ASSUME NEW j \in DOMAIN tasks'
        PROVE  /\ tasks'[j] \in Row
               /\ tasks'[j].created <= tasks'[j].updated /\ tasks'[j].updated <= now'
               /\ \E k \in members' : k = <<tasks'[j].team, tasks'[j].by>>
    <3>1. CASE j = i
      <4>1. tasks[i].created \in Int /\ tasks[i].updated \in Int
        BY <1>2, ReportsAssumption DEF Row
      <4>2. tasks'[i].created <= tasks'[i].updated /\ tasks'[i].updated <= now'
        BY <4>1, <1>2, <1>3, <1>6, <1>8
      <4>3. QED
        BY <4>2, <3>1, <1>2, <1>6, <1>8
    <3>2. CASE j # i
      BY <3>2, <1>4, <1>8 DEF ReportsInv, TypeOK
    <3>3. QED
      BY <3>1, <3>2
  <2>2. QED
    BY <2>1, <1>4, <1>7, <1>8 DEF ReportsInv, TypeOK
<1>10. ASSUME NEW j \in DOMAIN tasks'
       PROVE  RowOK(j)'
  <2>1. CASE j = i
    <3>1. s = "done" => finished'[i] \in 0..MaxTime /\ finished'[i] <= now
      <4>1. tasks[i].updated \in Int /\ (tasks[i].status = "done" =>
              finished[i] \in 0..MaxTime /\ finished[i] <= tasks[i].updated)
        BY <1>2 DEF RowOK, Row
      <4>2. QED
        BY <4>1, <1>2, <1>3, <1>7
    <3>2. QED
      BY <2>1, <3>1, <1>3, <1>6, <1>7, <1>8 DEF RowOK
  <2>2. CASE j # i
    BY <2>2, <1>4, <1>7, <1>8 DEF RowOK, ReportsInv
  <2>3. QED
    BY <2>1, <2>2
<1>11. QED
  BY <1>9, <1>10 DEF ReportsInv

LEMMA ReportsNext == ReportsInv /\ [Next]_vars => ReportsInv'
<1> SUFFICES ASSUME ReportsInv, [Next]_vars PROVE ReportsInv'
  OBVIOUS
<1>1. CASE Join
  BY <1>1 DEF Join, ReportsInv, TypeOK, RowOK
<1>2. CASE Tick
  <2>1. /\ now' \in 0..MaxTime /\ now \in Nat /\ now' = now + 1
        /\ UNCHANGED <<members, tasks, touched, finished, updates>>
    BY <1>2, ReportsAssumption DEF Tick, ReportsInv, TypeOK
  <2>2. \A i \in DOMAIN tasks : tasks[i].updated \in Nat /\ tasks[i].updated <= now'
    BY <2>1, ReportsAssumption DEF ReportsInv, TypeOK, Row
  <2>3. TypeOK'
    BY <2>1, <2>2 DEF ReportsInv, TypeOK
  <2>4. QED
    BY <2>1, <2>3 DEF ReportsInv, RowOK
<1>3. CASE \E i \in TaskIds : Create(i) \/ Update(i)
  BY <1>3, ReportsCreate, ReportsUpdate
<1>4. CASE UNCHANGED vars
  BY <1>4 DEF vars, ReportsInv, TypeOK, RowOK
<1>5. QED
  BY <1>1, <1>2, <1>3, <1>4 DEF Next

(* The tables keep their shape, times are ordered, and the bookkeeping of    *)
(* the histories follows the rows.                                           *)
THEOREM ReportsInvariant == Spec => []ReportsInv
<1>1. QED
  BY ReportsInit, ReportsNext, PTL DEF Spec

-----------------------------------------------------------------------------
(* What the reports say of such tables.                                      *)

LEMMA MembersCounted ==
  ASSUME ReportsInv, NEW t \in Teams
  PROVE  CountDistinct(Joined(members, tasks, t), 1)
           = Cardinality({u \in Users : <<t, u>> \in members})
<1> DEFINE M == {u \in Users : <<t, u>> \in members}
<1>1. MembersOf(members, t) = M
  <2>1. members \subseteq Teams \X Users
    BY DEF ReportsInv, TypeOK
  <2>2. \A u : <<t, u>> \in members => u \in Users
    BY <2>1
  <2>3. \A u : <<t, u>> \in members => u \in {m[2] : m \in members}
    <3>1. \A u : <<t, u>>[2] = u
      OBVIOUS
    <3>2. QED
      BY <3>1
  <2>4. QED
    BY <2>2, <2>3 DEF MembersOf
<1>2. NULL \notin M
  BY ReportsAssumption
<1>3. OrNull(M) # {} /\ OrNull(TasksOf(tasks, t)) # {}
  BY DEF OrNull
<1>4. {row[1] : row \in OrNull(M) \X OrNull(TasksOf(tasks, t))} = OrNull(M)
  <2> DEFINE A == OrNull(M)
  <2> DEFINE B == OrNull(TasksOf(tasks, t))
  <2>1. A # {} /\ B # {}
    BY <1>3
  <2> HIDE DEF A, B
  <2>2. \A a \in A, b \in B : <<a, b>> \in A \X B /\ <<a, b>>[1] = a /\ <<a, b>>[2] = b
    OBVIOUS
  <2>3. /\ \A row \in A \X B : row[1] \in A
        /\ \A a \in A : \E row \in A \X B : row[1] = a
    BY <2>1, <2>2
  <2>4. {row[1] : row \in A \X B} = A
    BY <2>3
  <2>5. QED
    BY <2>4 DEF A, B
<1>5. OrNull(M) \ {NULL} = M
  BY <1>2 DEF OrNull
<1>6. QED
  BY <1>1, <1>4, <1>5 DEF CountDistinct, Joined

LEMMA RowTimes ==
  ASSUME ReportsInv, NEW i \in DOMAIN tasks
  PROVE  /\ i \in TaskIds /\ i # NULL /\ tasks[i] \in Row
         /\ tasks[i].updated \in Int /\ tasks[i].created \in Int
         /\ now \in Int /\ Week \in Int /\ Month \in Int
<1>1. i \in TaskIds /\ tasks[i] \in Row /\ now \in 0..MaxTime
  BY DEF ReportsInv, TypeOK
<1>2. i # NULL /\ Week \in Nat /\ Month \in Nat
  BY <1>1, ReportsAssumption
<1>3. QED
  BY <1>1, <1>2 DEF Row

LEMMA DoneCounted ==
  ASSUME ReportsInv, NEW t \in Teams
  PROVE  CountDistinct({row \in Joined(members, tasks, t) : Done(tasks, now, row[2])}, 2)
           = Cardinality({i \in DOMAIN tasks :
               /\ tasks[i].team = t /\ tasks[i].status = "done"
               /\ touched[i] + Week >= now})
<1> DEFINE T == TasksOf(tasks, t)
<1> DEFINE D == {i \in DOMAIN tasks : Done(tasks, now, i)}
<1> DEFINE M == MembersOf(members, t)
<1> HIDE DEF D, M, T
<1>1. OrNull(T) # {} /\ OrNull(M) # {}
  BY DEF OrNull
<1>2. {row[2] : row \in {r \in OrNull(M) \X OrNull(T) : r[2] \in D}} = OrNull(T) \cap D
  <2> DEFINE A == OrNull(M)
  <2> DEFINE B == OrNull(T)
  <2>1. A # {} /\ B # {}
    BY <1>1
  <2> HIDE DEF A, B
  <2>2. \A a \in A, b \in B : <<a, b>> \in A \X B /\ <<a, b>>[1] = a /\ <<a, b>>[2] = b
    OBVIOUS
  <2>3. /\ \A row \in A \X B : row[2] \in B
        /\ \A b \in B : \E row \in A \X B : row[2] = b
    BY <2>1, <2>2
  <2>4. {row[2] : row \in {r \in A \X B : r[2] \in D}} = B \cap D
    BY <2>3
  <2>5. QED
    BY <2>4 DEF A, B
<1>3. NULL \notin D /\ NULL \notin T
  BY ReportsAssumption DEF D, T, Done, TasksOf, ReportsInv, TypeOK
<1>4. (OrNull(T) \cap D) \ {NULL} = T \cap D
  BY <1>3 DEF OrNull
<1>5. T \cap D = {i \in DOMAIN tasks :
         tasks[i].team = t /\ tasks[i].status = "done" /\ touched[i] + Week >= now}
  <2>1. ASSUME NEW i \in DOMAIN tasks
        PROVE  i \in D <=> tasks[i].status = "done" /\ touched[i] + Week >= now
    <3>1. touched[i] = tasks[i].updated /\ i # NULL
          /\ tasks[i].updated \in Int /\ now \in Int /\ Week \in Int
      BY RowTimes DEF ReportsInv, RowOK
    <3>2. tasks[i].updated >= now - Week <=> touched[i] + Week >= now
      BY <3>1
    <3>3. QED
      BY <3>1, <3>2 DEF D, Done
  <2>2. QED
    BY <2>1 DEF T, TasksOf
<1>6. {row \in Joined(members, tasks, t) : Done(tasks, now, row[2])} =
        {r \in OrNull(M) \X OrNull(T) : r[2] \in D}
  <2>1. \A r \in OrNull(M) \X OrNull(T) : r[2] \in T \cup {NULL}
    BY DEF OrNull
  <2>2. \A i \in T : Done(tasks, now, i) <=> i \in D
    BY DEF T, D, TasksOf
  <2>3. ~Done(tasks, now, NULL)
    BY DEF Done
  <2>4. \A r \in OrNull(M) \X OrNull(T) : Done(tasks, now, r[2]) <=> r[2] \in D
    BY <2>1, <2>2, <2>3, <1>3
  <2>5. QED
    BY <2>4 DEF Joined, M, T
<1>7. QED
  BY <1>2, <1>4, <1>5, <1>6 DEF CountDistinct

(* The statistics of a team are those of the tables, whatever the outer      *)
(* joins multiply or leave out.                                              *)
THEOREM StatsExact == Spec => []StatsAreExact
<1>1. ReportsInv => StatsAreExact
  <2> SUFFICES ASSUME ReportsInv PROVE StatsAreExact
    OBVIOUS
  <2> DEFINE listed(t) == CountDistinct(Joined(members, tasks, t), 1)
  <2> DEFINE finishing(t) ==
        CountDistinct({row \in Joined(members, tasks, t) : Done(tasks, now, row[2])}, 2)
  <2> DEFINE belong(t) == Cardinality({u \in Users : <<t, u>> \in members})
  <2> DEFINE ready(t) == Cardinality({i \in DOMAIN tasks :
        tasks[i].team = t /\ tasks[i].status = "done" /\ touched[i] + Week >= now})
  <2>1. \A t \in Teams : listed(t) = belong(t) /\ finishing(t) = ready(t)
    BY MembersCounted, DoneCounted
  <2>2. TeamStats(Teams, members, tasks, now) =
          {[team |-> t, members |-> listed(t), done |-> finishing(t)] : t \in Teams}
    BY DEF TeamStats
  <2>3. StatsAreExact <=> TeamStats(Teams, members, tasks, now) =
          {[team |-> t, members |-> belong(t), done |-> ready(t)] : t \in Teams}
    BY DEF StatsAreExact
  <2> HIDE DEF listed, finishing, belong, ready
  <2>4. {[team |-> t, members |-> listed(t), done |-> finishing(t)] : t \in Teams} =
          {[team |-> t, members |-> belong(t), done |-> ready(t)] : t \in Teams}
    BY <2>1
  <2>5. QED
    BY <2>2, <2>3, <2>4
<1>2. QED
  BY <1>1, ReportsInvariant, PTL

(* A task that became done within the week counts as done within the week:   *)
(* the time of its last change cannot be older.                              *)
THEOREM RecentlyDoneCounted == Spec => []RecentlyDoneIsCounted
<1>1. ReportsInv => RecentlyDoneIsCounted
  <2> SUFFICES ASSUME ReportsInv, NEW i \in DOMAIN tasks,
                      tasks[i].status = "done", finished[i] + Week >= now
               PROVE  Done(tasks, now, i)
    BY DEF RecentlyDoneIsCounted
  <2>1. /\ finished[i] \in 0..MaxTime /\ finished[i] <= tasks[i].updated
        /\ tasks[i].updated \in Int /\ now \in Int /\ Week \in Int /\ i # NULL
    BY RowTimes DEF ReportsInv, RowOK
  <2>2. tasks[i].updated >= now - Week
    BY <2>1
  <2>3. QED
    BY <2>1, <2>2 DEF Done
<1>2. QED
  BY <1>1, ReportsInvariant, PTL

(* No task is ever assigned to somebody outside its team.                    *)
THEOREM NoneInconsistent == Spec => []NoInconsistentTask
<1>1. ReportsInv => NoInconsistentTask
  BY DEF ReportsInv, RowOK, NoInconsistentTask, InconsistentTasks
<1>2. QED
  BY <1>1, ReportsInvariant, PTL

(* The order of the window function, on the creators of one team.            *)
Window(t) ==
  {p \in Creators(tasks, t, now) \X Creators(tasks, t, now) :
     Ahead(tasks, t, p[1], p[2], now)}

LEMMA CreatorsFinite ==
  ASSUME ReportsInv, NEW t \in Teams
  PROVE  /\ IsFiniteSet(Creators(tasks, t, now)) /\ Creators(tasks, t, now) \subseteq Users
         /\ \A u : Created(tasks, t, u, now) \in Nat
         /\ \A u : Created(tasks, t, u, now) > 0 => u \in Creators(tasks, t, now)
<1> DEFINE S == Recent(tasks, t, now)
<1> DEFINE C == Creators(tasks, t, now)
<1>1. IsFiniteSet(S) /\ \A i \in S : tasks[i].by \in Users
  <2>1. S \subseteq DOMAIN tasks
    BY DEF Recent, TasksOf
  <2>2. IsFiniteSet(TaskIds) /\ DOMAIN tasks \subseteq TaskIds
    <3>1. MaxTaskId \in Int /\ \A b \in Int : IsFiniteSet(1..b)
      BY ReportsAssumption, FS_Interval
    <3>2. QED
      BY <3>1 DEF TaskIds, ReportsInv, TypeOK
  <2>3. S \in SUBSET TaskIds
    BY <2>1, <2>2
  <2>4. IsFiniteSet(S)
    BY <2>2, <2>3, FS_Subset
  <2>5. \A i \in DOMAIN tasks : tasks[i].by \in Users
    BY RowTimes DEF Row
  <2>6. QED
    BY <2>1, <2>4, <2>5
<1>2. C = {tasks[i].by : i \in S}
  BY DEF Creators
<1>3. IsFiniteSet(C)
  <2> DEFINE f == [i \in S |-> tasks[i].by]
  <2>1. f \in Surjection(S, C)
    BY <1>2 DEF Surjection
  <2>2. QED
    BY <1>1, <2>1, FS_Surjection
<1>4. ASSUME NEW u
      PROVE  Created(tasks, t, u, now) \in Nat /\ (Created(tasks, t, u, now) > 0 => u \in C)
  <2> DEFINE by == {i \in S : tasks[i].by = u}
  <2>1. IsFiniteSet(by)
    BY <1>1, by \in SUBSET S, FS_Subset
  <2>2. Cardinality(by) \in Nat /\ (by = {} => Cardinality(by) = 0)
    BY <2>1, FS_CardinalityType, FS_EmptySet
  <2>3. by # {} => u \in C
    BY <1>2
  <2>4. QED
    BY <2>2, <2>3 DEF Created
<1>5. QED
  BY <1>1, <1>2, <1>3, <1>4

LEMMA WindowOrders ==
  ASSUME ReportsInv, NEW t \in Teams
  PROVE  Orders(Window(t), Creators(tasks, t, now))
<1> DEFINE C == Creators(tasks, t, now)
<1> DEFINE n(u) == Created(tasks, t, u, now)
<1>1. \A u \in C : n(u) \in Nat /\ u \in Nat
  BY CreatorsFinite, ReportsAssumption
<1>2. \A u, v \in C : <<u, v>> \in Window(t) <=> n(u) > n(v) \/ (n(u) = n(v) /\ u < v)
  BY DEF Window, Ahead
<1> HIDE DEF C, n
<1>3. \A x \in C : <<x, x>> \notin Window(t)
  BY <1>1, <1>2
<1>4. \A x, y, z \in C :
        <<x, y>> \in Window(t) /\ <<y, z>> \in Window(t) => <<x, z>> \in Window(t)
  BY <1>1, <1>2
<1>5. \A x, y \in C : x = y \/ <<x, y>> \in Window(t) \/ <<y, x>> \in Window(t)
  <2> SUFFICES ASSUME NEW x \in C, NEW y \in C, x # y
               PROVE  <<x, y>> \in Window(t) \/ <<y, x>> \in Window(t)
    OBVIOUS
  <2>1. n(x) \in Nat /\ n(y) \in Nat /\ (x < y \/ y < x)
    BY <1>1
  <2>2. n(x) > n(y) \/ n(y) > n(x) \/ n(x) = n(y)
    BY <2>1
  <2>3. QED
    BY <1>2, <2>1, <2>2
<1>6. QED
  BY <1>3, <1>4, <1>5 DEF Orders, C

LEMMA RowNumberIsRank ==
  ASSUME ReportsInv, NEW t \in Teams, NEW u \in Creators(tasks, t, now)
  PROVE  RowNumber(tasks, t, u, now) = 1 + Rank(Window(t), Creators(tasks, t, now))[u]
<1>1. {v \in Creators(tasks, t, now) : Ahead(tasks, t, v, u, now)} =
      {v \in Creators(tasks, t, now) : <<v, u>> \in Window(t)}
  BY DEF Window
<1>2. QED
  BY <1>1 DEF RowNumber, Rank

(* The creators of a team that the report lists, and how many there are.     *)
TopOf(t) == {c \in TopCreatorsPerTeam(Teams, tasks, now) : c.team = t}

Entry(t, u) == [team |-> t, user |-> u, created |-> Created(tasks, t, u, now),
                rank |-> RowNumber(tasks, t, u, now)]

LEMMA TopEntries ==
  ASSUME NEW t \in Teams
  PROVE  /\ \A c \in TopOf(t) :
              /\ c.user \in Creators(tasks, t, now) /\ c = Entry(t, c.user)
              /\ c.rank = RowNumber(tasks, t, c.user, now) /\ c.rank <= TopRanks
              /\ c.created = Created(tasks, t, c.user, now)
         /\ \A u \in Creators(tasks, t, now) :
              RowNumber(tasks, t, u, now) <= TopRanks =>
                Entry(t, u) \in TopOf(t) /\ Entry(t, u).user = u
                /\ Entry(t, u).rank = RowNumber(tasks, t, u, now)
<1> DEFINE Top(s) == {Entry(s, u) : u \in
             {v \in Creators(tasks, s, now) : RowNumber(tasks, s, v, now) <= TopRanks}}
<1>1. TopCreatorsPerTeam(Teams, tasks, now) = UNION {Top(s) : s \in Teams}
  BY DEF TopCreatorsPerTeam, Entry
<1>2. \A s, u : /\ Entry(s, u).team = s /\ Entry(s, u).user = u
                /\ Entry(s, u).created = Created(tasks, s, u, now)
                /\ Entry(s, u).rank = RowNumber(tasks, s, u, now)
  BY DEF Entry
<1>3. ASSUME NEW c \in TopOf(t)
      PROVE  \E u \in Creators(tasks, t, now) : c = Entry(t, u) /\ RowNumber(tasks, t, u, now) <= TopRanks
  <2>1. PICK s \in Teams : c \in Top(s)
    BY <1>1 DEF TopOf
  <2>2. PICK u \in Creators(tasks, s, now) : c = Entry(s, u) /\ RowNumber(tasks, s, u, now) <= TopRanks
    BY <2>1
  <2>3. s = t
    BY <2>2, <1>2 DEF TopOf
  <2>4. QED
    BY <2>2, <2>3
<1>4. ASSUME NEW u \in Creators(tasks, t, now), RowNumber(tasks, t, u, now) <= TopRanks
      PROVE  Entry(t, u) \in TopOf(t)
  <2>1. Entry(t, u) \in Top(t)
    BY <1>4
  <2>2. QED
    BY <2>1, <1>1, <1>2 DEF TopOf
<1>5. QED
  BY <1>2, <1>3, <1>4

LEMMA TopRanked ==
  ASSUME ReportsInv, NEW t \in Teams
  PROVE  LET n == Cardinality(Creators(tasks, t, now)) IN
         /\ n \in Nat
         /\ Cardinality(TopOf(t)) = IF n <= TopRanks THEN n ELSE TopRanks
         /\ {c.rank : c \in TopOf(t)} = 1..Cardinality(TopOf(t))
<1> DEFINE C == Creators(tasks, t, now)
<1> DEFINE n == Cardinality(C)
<1> DEFINE k == IF n <= TopRanks THEN n ELSE TopRanks
<1> DEFINE rank == Rank(Window(t), C)
<1> DEFINE f == [c \in TopOf(t) |-> c.rank]
<1>1. n \in Nat /\ rank \in Injection(C, 0..(n - 1)) /\ rank \in Surjection(C, 0..(n - 1))
  BY CreatorsFinite, WindowOrders, RankCounts
<1>2. \A u \in C : RowNumber(tasks, t, u, now) = 1 + rank[u]
  BY RowNumberIsRank
<1>3. TopRanks \in Nat /\ k \in Nat /\ k <= n /\ k <= TopRanks
  BY <1>1, ReportsAssumption
<1> HIDE DEF C, n, rank
<1>4. \A u \in C : rank[u] \in 0..(n - 1)
  BY <1>1 DEF Injection
<1>5. \A c \in TopOf(t) : c.user \in C /\ c = Entry(t, c.user)
                          /\ c.rank = 1 + rank[c.user] /\ c.rank <= TopRanks
  BY <1>2, TopEntries DEF C
<1>6. f \in [TopOf(t) -> 1..k]
  BY <1>1, <1>3, <1>4, <1>5
<1>7. \A c, d \in TopOf(t) : c.rank = d.rank => c = d
  <2>1. \A u, v \in C : rank[u] = rank[v] => u = v
    BY <1>1 DEF Injection, IsInjective
  <2>2. \A c, d \in TopOf(t) : c.rank = d.rank => rank[c.user] = rank[d.user]
    BY <1>4, <1>5
  <2>3. \A c, d \in TopOf(t) : c.rank = d.rank => c.user = d.user
    BY <2>1, <2>2, <1>5
  <2>4. QED
    BY <2>3, <1>5
<1>8. f \in Injection(TopOf(t), 1..k)
  BY <1>6, <1>7 DEF Injection, IsInjective
<1>9. \A r \in 1..k : \E c \in TopOf(t) : c.rank = r
  <2> SUFFICES ASSUME NEW r \in 1..k PROVE \E c \in TopOf(t) : c.rank = r
    OBVIOUS
  <2>1. r - 1 \in 0..(n - 1) /\ r <= TopRanks
    BY <1>1, <1>3
  <2>2. PICK u \in C : rank[u] = r - 1
    BY <2>1, <1>1 DEF Surjection
  <2>3. RowNumber(tasks, t, u, now) = r
    BY <2>2, <1>2, <1>3
  <2>4. QED
    BY <2>1, <2>2, <2>3, TopEntries DEF C
<1>10. f \in Surjection(TopOf(t), 1..k)
  BY <1>6, <1>9 DEF Surjection
<1>11. IsFiniteSet(1..k) /\ Cardinality(1..k) = k
  <2>1. \A b \in Nat : IsFiniteSet(1..b) /\ Cardinality(1..b) = b
    <3>1. \A b \in Int : IsFiniteSet(1..b) /\ Cardinality(1..b) = IF 1 > b THEN 0 ELSE b - 1 + 1
      BY FS_Interval
    <3>2. QED
      BY <3>1
  <2>2. QED
    BY <2>1, <1>3
<1>12. Cardinality(TopOf(t)) = k
  BY <1>8, <1>10, <1>11, FS_Injection
<1>13. {c.rank : c \in TopOf(t)} = 1..k
  BY <1>6, <1>9
<1>14. QED
  BY <1>1, <1>12, <1>13 DEF n, C

(* The creators listed for a team are the first of it by the number of their *)
(* tasks, at most TopRanks of them, ranked without gaps or ties.             *)
THEOREM TopCreatorsTop == Spec => []TopCreatorsAreTop
<1>1. ReportsInv => TopCreatorsAreTop
  <2> SUFFICES ASSUME ReportsInv, NEW t \in Teams
               PROVE  LET top == TopOf(t)
                          count(u) == Cardinality({i \in DOMAIN tasks :
                            /\ tasks[i].team = t /\ tasks[i].by = u
                            /\ tasks[i].created + Month >= now})
                      IN /\ {c.rank : c \in top} = 1..Cardinality(top)
                         /\ Cardinality(top) <= TopRanks
                         /\ \A c \in top : c.created = count(c.user)
                         /\ \A u \in Users \ {c.user : c \in top} :
                              count(u) > 0 => /\ Cardinality(top) = TopRanks
                                              /\ \A c \in top : count(u) <= c.created
    BY DEF TopCreatorsAreTop, TopOf
  <2> DEFINE top == TopOf(t)
  <2> DEFINE count(u) == Cardinality({i \in DOMAIN tasks :
        tasks[i].team = t /\ tasks[i].by = u /\ tasks[i].created + Month >= now})
  <2> DEFINE C == Creators(tasks, t, now)
  <2>1. \A u : count(u) = Created(tasks, t, u, now)
    <3>1. \A i \in DOMAIN tasks : tasks[i].created + Month >= now <=> tasks[i].created >= now - Month
      BY RowTimes
    <3>2. \A u : {i \in DOMAIN tasks :
                    tasks[i].team = t /\ tasks[i].by = u /\ tasks[i].created + Month >= now}
                 = {i \in Recent(tasks, t, now) : tasks[i].by = u}
      BY <3>1 DEF Recent, TasksOf
    <3>3. QED
      BY <3>2 DEF Created
  <2> HIDE DEF count
  <2>2. /\ Cardinality(C) \in Nat /\ TopRanks \in Nat
        /\ Cardinality(top) = IF Cardinality(C) <= TopRanks THEN Cardinality(C) ELSE TopRanks
        /\ {c.rank : c \in top} = 1..Cardinality(top)
    BY TopRanked, ReportsAssumption
  <2>3. \A c \in top : c.created = count(c.user)
    BY <2>1, TopEntries
  <2>4. ASSUME NEW u \in Users \ {c.user : c \in top}, count(u) > 0
        PROVE  Cardinality(top) = TopRanks /\ \A c \in top : count(u) <= c.created
    <3> DEFINE rank == Rank(Window(t), C)
    <3>1. u \in C
      BY <2>1, <2>4, CreatorsFinite
    <3>2. rank[u] \in 0..(Cardinality(C) - 1)
      BY <3>1, CreatorsFinite, WindowOrders, RankCounts DEF Injection
    <3>3. ~(RowNumber(tasks, t, u, now) <= TopRanks)
      BY <3>1, <2>4, TopEntries
    <3>4. RowNumber(tasks, t, u, now) = 1 + rank[u]
      BY <3>1, RowNumberIsRank
    <3>5. Cardinality(top) = TopRanks
      BY <2>2, <3>2, <3>3, <3>4
    <3>6. ASSUME NEW c \in top
          PROVE  count(u) <= c.created
      <4>1. c.user \in C /\ c.user # u /\ RowNumber(tasks, t, c.user, now) <= TopRanks
        BY <2>4, TopEntries
      <4>2. rank[c.user] \in Int /\ RowNumber(tasks, t, c.user, now) = 1 + rank[c.user]
        BY <4>1, CreatorsFinite, WindowOrders, RankCounts, RowNumberIsRank DEF Injection
      <4>3. ~(rank[u] < rank[c.user])
        BY <4>1, <4>2, <3>2, <3>3, <3>4, <2>2
      <4>4. <<u, c.user>> \notin Window(t)
        BY <4>1, <4>3, <3>1, CreatorsFinite, WindowOrders, RankGrows
      <4>5. ~(Created(tasks, t, u, now) > Created(tasks, t, c.user, now))
        BY <4>1, <4>4, <3>1 DEF Window, Ahead
      <4>6. QED
        BY <4>5, <2>1, <2>3, CreatorsFinite
    <3>7. QED
      BY <3>5, <3>6
  <2>5. Cardinality(top) <= TopRanks
    BY <2>2
  <2>6. QED
    BY <2>2, <2>3, <2>4, <2>5 DEF count
<1>2. QED
  BY <1>1, ReportsInvariant, PTL

-----------------------------------------------------------------------------
(* The walk through the pages.                                               *)

Walks ==
  [filter : AllStatuses \cup {NULL}, limit : 1..MaxLimit, offset : Nat,
   got : SUBSET Pages!TaskIds, last : SUBSET Pages!TaskIds, repeated : Nat, ended : BOOLEAN,
   stay : SUBSET Pages!TaskIds, left : Nat, came : Nat]

(* The list that is walked.                                                  *)
List == Pages!Listed(walk.filter)

TableOK ==
  /\ status \in [Pages!TaskIds -> AllStatuses \cup {NULL}]
  /\ open \subseteq {i \in Pages!TaskIds : status[i] # NULL}
  /\ nextId \in 1..(MaxListed + 1)
  /\ \A i \in Pages!TaskIds : status[i] # NULL => i < nextId
  /\ changes \in 0..MaxChanges /\ walks \in 0..MaxWalks

(* While a walk goes on, what its offset has skipped is paid for by a task   *)
(* that left, and what it has repeated or will repeat by one that came.      *)
Underway(w, L) ==
  /\ w.stay \subseteq L
  /\ Cardinality(Skipped(L, w.stay, w.got, w.offset)) <= w.left
  /\ w.repeated + Cardinality(Again(L, w.got, w.offset)) <= w.came

Finished(w) == Cardinality(w.stay \ w.got) <= w.left /\ w.repeated <= w.came

WalkOK ==
  walk # NULL =>
    /\ walk \in Walks /\ Cardinality(walk.last) <= MaxLimit
    /\ IF walk.ended THEN Finished(walk) ELSE Underway(walk, List)

PagesInv == TableOK /\ WalkOK

(* Cardinality by either of its names.                                       *)
LEMMA SameCardinality == \A S : Pages!Cardinality(S) = Cardinality(S)
BY DEF Pages!Cardinality, Cardinality

LEMMA PagesTyped == PagesInv => Pages!TypeOK
<1> SUFFICES ASSUME PagesInv PROVE Pages!TypeOK
  OBVIOUS
<1>1. walk # NULL =>
        /\ walk.limit \in 1..MaxLimit /\ Cardinality(walk.last) <= MaxLimit
        /\ walk.got \subseteq Pages!TaskIds /\ walk.stay \subseteq Pages!TaskIds
        /\ walk.offset \in Nat /\ walk.repeated \in Nat /\ walk.left \in Nat /\ walk.came \in Nat
  BY DEF PagesInv, WalkOK, Walks
<1>2. QED
  BY <1>1, SameCardinality DEF PagesInv, TableOK, Pages!TypeOK

(* What is assumed of the constants, and what follows for lists.             *)
LEMMA Bounds ==
  /\ MaxListed \in Nat /\ MaxChanges \in Nat /\ MaxWalks \in Nat /\ MaxLimit \in Nat \ {0}
  /\ DefaultLimit \in 1..MaxLimit /\ Pages!TaskIds = 1..MaxListed
  /\ "todo" \in AllStatuses /\ NULL \notin AllStatuses
  /\ \A l \in Limits : l = NULL \/ l \in Nat \ {0}
BY PagesAssumed DEF Pages!PagesAssumption, Pages!TaskIds

LEMMA ListFinite ==
  ASSUME NEW f
  PROVE  /\ Pages!Listed(f) \subseteq Pages!TaskIds /\ Pages!Listed(f) \subseteq Int
         /\ IsFiniteSet(Pages!Listed(f))
<1>1. Pages!Listed(f) \subseteq Pages!TaskIds
  BY DEF Pages!Listed, Pages!Committed
<1>2. Pages!TaskIds \subseteq Int /\ IsFiniteSet(Pages!TaskIds)
  <2>1. \A b \in Int : IsFiniteSet(1..b)
    BY FS_Interval
  <2>2. QED
    BY <2>1, Bounds
<1>3. Pages!Listed(f) \in SUBSET Pages!TaskIds
  BY <1>1
<1>4. QED
  BY <1>1, <1>2, <1>3, FS_Subset

LEMMA IdsFinite ==
  ASSUME NEW S \in SUBSET Pages!TaskIds
  PROVE  IsFiniteSet(S) /\ Cardinality(S) \in Nat
<1>1. IsFiniteSet(Pages!TaskIds)
  <2>1. \A b \in Int : IsFiniteSet(1..b)
    BY FS_Interval
  <2>2. QED
    BY <2>1, Bounds
<1>2. QED
  BY <1>1, FS_Subset, FS_CardinalityType

LEMMA PagesInit == Pages!Init => PagesInv
<1> SUFFICES ASSUME Pages!Init PROVE PagesInv
  OBVIOUS
<1>1. TableOK
  BY Bounds DEF Pages!Init, TableOK
<1>2. WalkOK
  BY DEF Pages!Init, WalkOK
<1>3. QED
  BY <1>1, <1>2 DEF PagesInv

LEMMA PagesStart ==
  ASSUME PagesInv, Pages!StartWalk
  PROVE  PagesInv'
<1>1. PICK f \in AllStatuses \cup {NULL}, l \in Limits :
        walk' = [filter |-> f, limit |-> Pages!EffectiveLimit(l), offset |-> 0,
                 got |-> {}, last |-> {}, repeated |-> 0, ended |-> FALSE,
                 stay |-> Pages!Listed(f), left |-> 0, came |-> 0]
  BY DEF Pages!StartWalk
<1>2. /\ UNCHANGED <<status, open, nextId, changes>> /\ walks > 0 /\ walks' = walks - 1
  BY DEF Pages!StartWalk
<1>3. TableOK'
  BY <1>2, Bounds DEF PagesInv, TableOK
<1>4. Pages!EffectiveLimit(l) \in 1..MaxLimit
  BY Bounds DEF Pages!EffectiveLimit
<1>5. /\ walk'.filter = f /\ walk'.offset = 0 /\ walk'.got = {} /\ walk'.last = {}
      /\ walk'.repeated = 0 /\ walk'.ended = FALSE /\ walk'.stay = Pages!Listed(f)
      /\ walk'.left = 0 /\ walk'.came = 0
  BY <1>1
<1>6. walk' \in Walks
  BY <1>1, <1>4, ListFinite DEF Walks
<1>7. Cardinality(walk'.last) <= MaxLimit
  BY <1>5, FS_EmptySet, Bounds
<1>8. List' = Pages!Listed(f)
  BY <1>2, <1>5 DEF List, Pages!Listed, Pages!Committed
<1>9. Underway(walk', List')
  <2> DEFINE L == Pages!Listed(f)
  <2>1. Skipped(L, L, {}, 0) = {}
    <3>1. \A x \in L : Place(L, x) \in Nat
      BY ListFinite, PlaceNat
    <3>2. QED
      BY <3>1 DEF Skipped
  <2>2. Again(L, {}, 0) = {}
    BY DEF Again
  <2> HIDE DEF L
  <2>3. Cardinality({}) = 0
    BY FS_EmptySet
  <2>4. QED
    BY <1>5, <1>8, <2>1, <2>2, <2>3 DEF Underway, L
<1>10. WalkOK'
  BY <1>5, <1>6, <1>7, <1>9 DEF WalkOK
<1>11. QED
  BY <1>3, <1>10 DEF PagesInv

LEMMA PagesTurn ==
  ASSUME PagesInv, Pages!NextPage
  PROVE  PagesInv'
<1> DEFINE L == List
<1> DEFINE P == Pages!Page(walk.filter, walk.limit, walk.offset)
<1>1. /\ walk # NULL /\ ~walk.ended
      /\ walk' = [walk EXCEPT !.offset = @ + Cardinality(P), !.got = @ \cup P, !.last = P,
                              !.repeated = @ + Cardinality(P \cap walk.got), !.ended = P = {}]
      /\ UNCHANGED <<status, open, nextId, changes, walks>>
  BY SameCardinality, Zenon DEF Pages!NextPage
<1>2. /\ walk \in Walks /\ Underway(walk, L)
      /\ walk.offset \in Nat /\ walk.limit \in Nat \ {0} /\ walk.limit <= MaxLimit
      /\ walk.got \subseteq Pages!TaskIds /\ walk.stay \subseteq Pages!TaskIds
      /\ walk.left \in Nat /\ walk.came \in Nat /\ walk.repeated \in Nat
  BY <1>1, Bounds DEF PagesInv, WalkOK, Walks
<1>3. L \subseteq Pages!TaskIds /\ L \in SUBSET Int /\ IsFiniteSet(L)
  BY ListFinite DEF List
<1>4. P = PageOf(L, walk.offset, walk.limit)
  <2>1. \A i : Cardinality({j \in L : Pages!NewestFirst(j, i)}) = Place(L, i)
    BY DEF Pages!NewestFirst, Place
  <2>2. P = {i \in L :
          LET place == Cardinality({j \in L : Pages!NewestFirst(j, i)})
          IN  walk.offset <= place /\ place < walk.offset + walk.limit}
    BY SameCardinality DEF Pages!Page, List
  <2>3. QED
    BY <2>1, <2>2 DEF PageOf
<1> HIDE DEF L, P
<1>5. /\ IsFiniteSet(P) /\ Cardinality(P) \in Nat /\ Cardinality(P) <= walk.limit
      /\ P = {} => Cardinality(P) = 0 /\ \A x \in L : Place(L, x) < walk.offset
      /\ \A x \in L : x \in P <=>
           walk.offset <= Place(L, x) /\ Place(L, x) < walk.offset + Cardinality(P)
  BY <1>2, <1>3, <1>4, PageSize
<1>6. P \subseteq L /\ P \subseteq Pages!TaskIds
  BY <1>3, <1>4 DEF PageOf
<1>7. Cardinality(P \cap walk.got) \in Nat
  BY <1>6, IdsFinite, P \cap walk.got \in SUBSET Pages!TaskIds
<1>8. /\ walk' \in Walks
      /\ walk'.filter = walk.filter /\ walk'.stay = walk.stay
      /\ walk'.left = walk.left /\ walk'.came = walk.came
      /\ walk'.offset = walk.offset + Cardinality(P) /\ walk'.got = walk.got \cup P
      /\ walk'.last = P /\ walk'.repeated = walk.repeated + Cardinality(P \cap walk.got)
      /\ walk'.ended = (P = {})
  <2> DEFINE o == walk.offset + Cardinality(P)
  <2> DEFINE g == walk.got \cup P
  <2> DEFINE r == walk.repeated + Cardinality(P \cap walk.got)
  <2> DEFINE e == (P = {})
  <2>1. o \in Nat /\ g \in SUBSET Pages!TaskIds /\ P \in SUBSET Pages!TaskIds /\ r \in Nat
        /\ e \in BOOLEAN
    BY <1>2, <1>5, <1>6, <1>7
  <2>2. walk' = [walk EXCEPT !.offset = o, !.got = g, !.last = P, !.repeated = r, !.ended = e]
    BY <1>1
  <2>3. PICK new : new = walk'
    OBVIOUS
  <2>4. /\ new \in Walks
        /\ new.filter = walk.filter /\ new.stay = walk.stay /\ new.left = walk.left
        /\ new.came = walk.came /\ new.offset = o /\ new.got = g /\ new.last = P
        /\ new.repeated = r /\ new.ended = e
    <3>1. new = [walk EXCEPT !.offset = o, !.got = g, !.last = P, !.repeated = r, !.ended = e]
      BY <2>2, <2>3
    <3> HIDE DEF o, g, r, e
    <3>2. walk \in Walks
      BY <1>2
    <3>3. new \in Walks
      BY <2>1, <3>1, <3>2 DEF Walks
    <3>4. /\ new.filter = walk.filter /\ new.stay = walk.stay /\ new.left = walk.left
          /\ new.came = walk.came /\ new.offset = o /\ new.got = g /\ new.last = P
          /\ new.repeated = r
      BY <2>1, <3>1, <3>2 DEF Walks
    <3>5. new.ended = e
      BY <2>1, <3>1, <3>2 DEF Walks
    <3>6. QED
      BY <3>3, <3>4, <3>5
  <2>5. QED
    BY <2>3, <2>4
<1>9. TableOK'
  BY <1>1 DEF PagesInv, TableOK
<1>10. Cardinality(walk'.last) <= MaxLimit
  BY <1>2, <1>5, <1>8, Bounds
<1>11. \A x \in L : Place(L, x) \in Nat
  BY <1>3, PlaceNat
<1>12. CASE P = {}
  <2>1. walk.stay \ walk.got \subseteq Skipped(L, walk.stay, walk.got, walk.offset)
    BY <1>2, <1>5, <1>12 DEF Skipped, Underway
  <2>2. Skipped(L, walk.stay, walk.got, walk.offset) \in SUBSET Pages!TaskIds
    BY <1>2 DEF Skipped
  <2>3. Cardinality(walk.stay \ walk.got) <= walk.left
    <3>1. IsFiniteSet(Skipped(L, walk.stay, walk.got, walk.offset))
      BY <2>2, IdsFinite
    <3>2. QED
      BY <1>2, <2>1, <3>1, NoMore DEF Underway
  <2>4. walk.repeated <= walk.came /\ Cardinality(P \cap walk.got) = 0
    <3>1. Again(L, walk.got, walk.offset) \in SUBSET Pages!TaskIds
      BY <1>2 DEF Again
    <3>2. Cardinality(Again(L, walk.got, walk.offset)) \in Nat
      BY <3>1, IdsFinite
    <3>3. QED
      BY <1>2, <1>12, <3>2, FS_EmptySet, P \cap walk.got = {} DEF Underway
  <2>5. Finished(walk')
    BY <1>2, <1>8, <1>12, <2>3, <2>4 DEF Finished
  <2>6. QED
    BY <1>8, <1>9, <1>10, <1>12, <2>5 DEF PagesInv, WalkOK
<1>13. CASE P # {}
  <2> DEFINE offset == walk.offset + Cardinality(P)
  <2> DEFINE got == walk.got \cup P
  <2> HIDE DEF offset, got
  <2>1. List' = L
    BY <1>1, <1>8 DEF List, L, Pages!Listed, Pages!Committed
  <2>2. Skipped(L, walk.stay, got, offset) \subseteq Skipped(L, walk.stay, walk.got, walk.offset)
    <3> SUFFICES ASSUME NEW x \in Skipped(L, walk.stay, got, offset)
                 PROVE  x \in Skipped(L, walk.stay, walk.got, walk.offset)
      OBVIOUS
    <3>1. x \in walk.stay /\ x \in L /\ x \notin walk.got /\ x \notin P /\ Place(L, x) < offset
      BY <1>2 DEF Skipped, Underway, got
    <3>2. Place(L, x) < walk.offset
      BY <1>2, <1>5, <1>11, <3>1 DEF offset
    <3>3. QED
      BY <3>1, <3>2 DEF Skipped
  <2>3. Again(L, got, offset) \cup (P \cap walk.got) \subseteq Again(L, walk.got, walk.offset)
        /\ Again(L, got, offset) \cap (P \cap walk.got) = {}
    <3>1. ASSUME NEW x \in Again(L, got, offset)
          PROVE  x \notin P /\ x \in Again(L, walk.got, walk.offset)
      <4>1. x \in L /\ x \in got /\ Place(L, x) >= offset
        BY DEF Again
      <4>2. x \notin P /\ Place(L, x) >= walk.offset
        BY <1>2, <1>5, <1>11, <4>1 DEF offset
      <4>3. QED
        BY <4>1, <4>2 DEF Again, got
    <3>2. ASSUME NEW x \in P \cap walk.got
          PROVE  x \in Again(L, walk.got, walk.offset)
      <4>1. x \in L /\ walk.offset <= Place(L, x) /\ Place(L, x) \in Nat
        BY <1>5, <1>6, <1>11
      <4>2. QED
        BY <4>1, <1>2 DEF Again
    <3>3. QED
      BY <3>1, <3>2
  <2>4. Cardinality(Skipped(L, walk.stay, got, offset)) <= walk.left
    <3>1. Skipped(L, walk.stay, walk.got, walk.offset) \in SUBSET Pages!TaskIds
      BY <1>2 DEF Skipped
    <3>2. IsFiniteSet(Skipped(L, walk.stay, walk.got, walk.offset))
      BY <3>1, IdsFinite
    <3>3. QED
      BY <1>2, <2>2, <3>2, NoMore DEF Underway
  <2>5. walk.repeated + Cardinality(P \cap walk.got) + Cardinality(Again(L, got, offset)) <= walk.came
    <3> DEFINE A == Again(L, got, offset)
    <3> DEFINE B == P \cap walk.got
    <3> DEFINE C == Again(L, walk.got, walk.offset)
    <3>1. C \in SUBSET Pages!TaskIds /\ A \in SUBSET Pages!TaskIds /\ B \in SUBSET Pages!TaskIds
      BY <1>2, <1>3, <1>6 DEF Again
    <3>2. A \cup B \subseteq C /\ A \cap B = {}
      BY <2>3
    <3> HIDE DEF A, B, C
    <3>3. /\ IsFiniteSet(A) /\ IsFiniteSet(B) /\ IsFiniteSet(C)
          /\ Cardinality(A) \in Nat /\ Cardinality(B) \in Nat /\ Cardinality(C) \in Nat
      BY <3>1, IdsFinite
    <3>4. Cardinality(A \cup B) = Cardinality(A) + Cardinality(B)
      <4>1. Cardinality(A \cup B) = Cardinality(A) + Cardinality(B) - Cardinality(A \cap B)
        BY <3>3, FS_Union
      <4>2. QED
        BY <4>1, <3>2, <3>3, FS_EmptySet, A \cap B = {}, Cardinality(A \cap B) = 0
    <3>5. Cardinality(A \cup B) <= Cardinality(C)
      BY <3>2, <3>3, NoMore
    <3>6. walk.repeated + Cardinality(C) <= walk.came
      BY <1>2 DEF Underway, C
    <3>7. walk.repeated + Cardinality(B) + Cardinality(A) <= walk.came
      BY <1>2, <3>3, <3>4, <3>5, <3>6
    <3>8. QED
      BY <3>7 DEF A, B
  <2>6. Underway(walk', List')
    BY <1>2, <1>8, <2>1, <2>4, <2>5 DEF Underway, offset, got
  <2>7. QED
    BY <1>8, <1>9, <1>10, <1>13, <2>6 DEF PagesInv, WalkOK
<1>14. QED
  BY <1>12, <1>13

(* A list changes by one task at most: it is the same, has a new member, or  *)
(* has lost one.                                                             *)
Moved(L, M, i) ==
  M = L \/ (i \notin L /\ M = L \cup {i}) \/ (i \in L /\ M = L \ {i})

(* The walk takes notice of such a change.                                   *)
LEMMA WalkWatches ==
  ASSUME PagesInv, Pages!Watch, NEW i \in Pages!TaskIds,
         \A f : Moved(Pages!Listed(f), Pages!Listed(f)', i)
  PROVE  WalkOK'
<1>1. CASE walk = NULL \/ walk.ended
  <2>1. walk' = walk
    BY <1>1 DEF Pages!Watch
  <2>2. QED
    BY <1>1, <2>1 DEF PagesInv, WalkOK
<1>2. CASE ~(walk = NULL \/ walk.ended)
  <2> DEFINE L == List
  <2>1. PICK f : f = walk.filter
    OBVIOUS
  <2> DEFINE M == Pages!Listed(f)'
  <2>2. L = Pages!Listed(f)
    BY <2>1 DEF List
  <2>3. walk' = [walk EXCEPT !.stay = @ \cap M, !.left = @ + Cardinality(L \ M),
                             !.came = @ + Cardinality(M \ L)]
    <3>1. \E g \in {walk.filter} :
            walk' = [walk EXCEPT
              !.stay = @ \cap Pages!Listed(g)',
              !.left = @ + Cardinality(Pages!Listed(g) \ Pages!Listed(g)'),
              !.came = @ + Cardinality(Pages!Listed(g)' \ Pages!Listed(g))]
      BY <1>2, SameCardinality, Zenon DEF Pages!Watch
    <3>2. QED
      BY <3>1, <2>1, <2>2
  <2>4. /\ walk \in Walks /\ Cardinality(walk.last) <= MaxLimit /\ Underway(walk, L)
        /\ walk.offset \in Nat /\ walk.got \subseteq Pages!TaskIds
        /\ walk.stay \subseteq Pages!TaskIds
        /\ walk.left \in Nat /\ walk.came \in Nat /\ walk.repeated \in Nat
    BY <1>2 DEF PagesInv, WalkOK, Walks
  <2>5. L \subseteq Pages!TaskIds /\ L \in SUBSET Int /\ IsFiniteSet(L)
    BY <2>2, ListFinite
  <2>6. Moved(L, M, i)
    BY <2>2
  <2>7. i \in Int
    BY Bounds
  <2> HIDE DEF L, M
  <2>8. /\ M \subseteq Pages!TaskIds
        /\ Cardinality(L \ M) \in Nat /\ Cardinality(M \ L) \in Nat
        /\ M = L => Cardinality(L \ M) = 0 /\ Cardinality(M \ L) = 0
        /\ i \notin L /\ M = L \cup {i} => Cardinality(L \ M) = 0 /\ Cardinality(M \ L) = 1
        /\ i \in L /\ M = L \ {i} => Cardinality(L \ M) = 1 /\ Cardinality(M \ L) = 0
    <3>1. M \subseteq Pages!TaskIds
      BY <2>5, <2>6 DEF Moved
    <3>2. Cardinality({}) = 0 /\ Cardinality({i}) = 1
      BY FS_EmptySet, FS_Singleton
    <3>3. CASE M = L
      BY <3>1, <3>2, <3>3, L \ M = {}, M \ L = {}
    <3>4. CASE i \notin L /\ M = L \cup {i}
      BY <3>1, <3>2, <3>4, L \ M = {}, M \ L = {i}
    <3>5. CASE i \in L /\ M = L \ {i}
      BY <3>1, <3>2, <3>5, L \ M = {i}, M \ L = {}
    <3>6. QED
      BY <2>6, <3>3, <3>4, <3>5 DEF Moved
  <2>9. /\ walk' \in Walks
        /\ walk'.filter = walk.filter /\ walk'.offset = walk.offset /\ walk'.got = walk.got
        /\ walk'.last = walk.last /\ walk'.repeated = walk.repeated
        /\ walk'.stay = walk.stay \cap M
        /\ walk'.left = walk.left + Cardinality(L \ M)
        /\ walk'.came = walk.came + Cardinality(M \ L)
        /\ ~walk'.ended
    <3> DEFINE s == walk.stay \cap M
    <3> DEFINE l == walk.left + Cardinality(L \ M)
    <3> DEFINE c == walk.came + Cardinality(M \ L)
    <3>1. s \in SUBSET Pages!TaskIds /\ l \in Nat /\ c \in Nat
      BY <2>4, <2>8
    <3>2. walk' = [walk EXCEPT !.stay = s, !.left = l, !.came = c]
      BY <2>3
    <3>3. walk \in Walks /\ ~walk.ended
      BY <1>2, <2>4
    <3> HIDE DEF s, l, c
    <3>4. walk' \in Walks
      BY <3>1, <3>2, <3>3 DEF Walks
    <3>5. /\ walk'.filter = walk.filter /\ walk'.offset = walk.offset /\ walk'.got = walk.got
          /\ walk'.last = walk.last /\ walk'.repeated = walk.repeated
          /\ walk'.stay = s /\ walk'.left = l /\ walk'.came = c
      BY <3>1, <3>2, <3>3 DEF Walks
    <3>6. ~walk'.ended
      BY <3>1, <3>2, <3>3 DEF Walks
    <3>7. QED
      BY <3>4, <3>5, <3>6 DEF s, l, c
  <2>10. List' = M
    BY <2>1, <2>9 DEF List, M, Pages!Listed, Pages!Committed
  <2> DEFINE Skips(S, T) == Skipped(S, T, walk.got, walk.offset)
  <2> DEFINE Repeats(S) == Again(S, walk.got, walk.offset)
  <2>11. /\ Skips(L, walk.stay) \in SUBSET Pages!TaskIds /\ Repeats(L) \in SUBSET Pages!TaskIds
         /\ IsFiniteSet(Skips(L, walk.stay)) /\ Cardinality(Skips(L, walk.stay)) \in Nat
         /\ IsFiniteSet(Repeats(L)) /\ Cardinality(Repeats(L)) \in Nat
         /\ Cardinality(Skips(L, walk.stay)) <= walk.left
         /\ walk.repeated + Cardinality(Repeats(L)) <= walk.came
         /\ walk.stay \in SUBSET L
    <3>1. Skips(L, walk.stay) \in SUBSET Pages!TaskIds /\ Repeats(L) \in SUBSET Pages!TaskIds
      BY <2>4 DEF Skipped, Again
    <3>2. /\ Cardinality(Skips(L, walk.stay)) <= walk.left
          /\ walk.repeated + Cardinality(Repeats(L)) <= walk.came
          /\ walk.stay \in SUBSET L
      BY <2>4 DEF Underway
    <3> HIDE DEF Skips, Repeats
    <3>3. QED
      BY <3>1, <3>2, IdsFinite
  <2>12. /\ Skips(M, walk.stay \cap M) \in SUBSET Pages!TaskIds /\ Repeats(M) \in SUBSET Pages!TaskIds
         /\ Cardinality(Skips(M, walk.stay \cap M)) \in Nat /\ Cardinality(Repeats(M)) \in Nat
    <3>1. Skips(M, walk.stay \cap M) \in SUBSET Pages!TaskIds /\ Repeats(M) \in SUBSET Pages!TaskIds
      BY <2>4 DEF Skipped, Again
    <3> HIDE DEF Skips, Repeats
    <3>2. QED
      BY <3>1, IdsFinite
  <2>13. /\ Cardinality(Skips(M, walk.stay \cap M)) <= walk.left + Cardinality(L \ M)
         /\ walk.repeated + Cardinality(Repeats(M)) <= walk.came + Cardinality(M \ L)
    <3>1. CASE M = L
      <4>1. walk.stay \cap M = walk.stay
        BY <2>11, <3>1
      <4>2. QED
        BY <2>4, <2>8, <2>11, <3>1, <4>1
    <3>2. CASE i \notin L /\ M = L \cup {i}
      <4>1. walk.stay \cap M = walk.stay
        BY <2>11, <3>2
      <4>2. Skips(M, walk.stay) \subseteq Skips(L, walk.stay)
        BY <2>4, <2>5, <2>7, <2>11, <3>2, SkippedGrown
      <4>3. \A x, y \in Repeats(M) \ Repeats(L) : x = y
        BY <2>4, <2>5, <2>7, <3>2, AgainGrown
      <4> HIDE DEF Skips, Repeats
      <4>4. Cardinality(Skips(M, walk.stay)) <= Cardinality(Skips(L, walk.stay))
        BY <2>11, <4>2, NoMore
      <4>5. Cardinality(Repeats(M)) <= Cardinality(Repeats(L)) + 1
        BY <2>11, <4>3, OneMore
      <4>6. Cardinality(L \ M) = 0 /\ Cardinality(M \ L) = 1
        BY <2>8, <3>2
      <4>7. Cardinality(Skips(M, walk.stay \cap M)) <= walk.left + Cardinality(L \ M)
        <5>1. Skips(M, walk.stay \cap M) = Skips(M, walk.stay)
          BY <4>1
        <5>2. Cardinality(Skips(M, walk.stay \cap M)) <= Cardinality(Skips(L, walk.stay))
          BY <4>4, <5>1
        <5>3. Cardinality(Skips(M, walk.stay \cap M)) \in Nat
          BY <2>12
        <5>4. Cardinality(Skips(L, walk.stay)) \in Nat /\ Cardinality(Skips(L, walk.stay)) <= walk.left
          BY <2>11
        <5>5. walk.left \in Nat
          BY <2>4
        <5>6. QED
          BY <4>6, <5>2, <5>3, <5>4, <5>5
      <4>8. QED
        BY <2>4, <2>11, <2>12, <4>5, <4>6, <4>7
    <3>3. CASE i \in L /\ M = L \ {i}
      <4>1. walk.stay \cap M = walk.stay \ {i}
        BY <2>11, <3>3
      <4>2. Repeats(M) \subseteq Repeats(L)
        BY <2>4, <2>5, <3>3, AgainShrunk
      <4>3. \A x, y \in Skips(M, walk.stay \ {i}) \ Skips(L, walk.stay) : x = y
        BY <2>4, <2>5, <2>11, <3>3, SkippedShrunk
      <4> HIDE DEF Skips, Repeats
      <4>4. Cardinality(Repeats(M)) <= Cardinality(Repeats(L))
        BY <2>11, <4>2, NoMore
      <4>5. Cardinality(Skips(M, walk.stay \ {i})) <= Cardinality(Skips(L, walk.stay)) + 1
        BY <2>11, <4>3, OneMore
      <4>6. Cardinality(L \ M) = 1 /\ Cardinality(M \ L) = 0
        BY <2>8, <3>3
      <4>7. Cardinality(Skips(M, walk.stay \cap M)) <= walk.left + Cardinality(L \ M)
        <5>1. Skips(M, walk.stay \cap M) = Skips(M, walk.stay \ {i})
          BY <4>1
        <5>2. Cardinality(Skips(M, walk.stay \cap M)) <= Cardinality(Skips(L, walk.stay)) + 1
          BY <4>5, <5>1
        <5>3. Cardinality(Skips(M, walk.stay \cap M)) \in Nat
          BY <2>12
        <5>4. Cardinality(Skips(L, walk.stay)) \in Nat /\ Cardinality(Skips(L, walk.stay)) <= walk.left
          BY <2>11
        <5>5. walk.left \in Nat
          BY <2>4
        <5>6. QED
          BY <4>6, <5>2, <5>3, <5>4, <5>5
      <4>8. QED
        BY <2>4, <2>11, <2>12, <4>4, <4>6, <4>7
    <3>4. QED
      BY <2>6, <3>1, <3>2, <3>3 DEF Moved
  <2>14. Underway(walk', List')
    <3>1. walk'.stay \subseteq M
      BY <2>9
    <3>2. QED
      BY <2>9, <2>10, <2>13, <3>1 DEF Underway
  <2>15. QED
    BY <2>4, <2>9, <2>14 DEF WalkOK
<1>3. QED
  BY <1>1, <1>2

(* As long as nobody sees a change, the walk is not affected.                *)
LEMMA WalkUnaffected ==
  ASSUME PagesInv, UNCHANGED walk, \A f : Pages!Listed(f)' = Pages!Listed(f)
  PROVE  WalkOK'
<1>1. PICK f : f = walk.filter
  OBVIOUS
<1>2. List' = Pages!Listed(f)' /\ List = Pages!Listed(f)
  BY <1>1 DEF List, Pages!Listed, Pages!Committed
<1>3. List' = List
  BY <1>2
<1>4. QED
  BY <1>3 DEF PagesInv, WalkOK

LEMMA PagesInsert ==
  ASSUME PagesInv, Pages!Insert
  PROVE  PagesInv'
<1>1. /\ nextId <= MaxListed /\ nextId' = nextId + 1
      /\ status' = [status EXCEPT ![nextId] = "todo"] /\ open' = open \cup {nextId}
      /\ UNCHANGED <<walk, changes, walks>>
  BY DEF Pages!Insert
<1>2. TableOK /\ nextId \in Pages!TaskIds
  BY <1>1, Bounds DEF PagesInv, TableOK
<1>3. /\ status' \in [Pages!TaskIds -> AllStatuses \cup {NULL}]
      /\ status'[nextId] = "todo"
      /\ \A i \in Pages!TaskIds \ {nextId} : status'[i] = status[i]
  BY <1>1, <1>2, Bounds DEF TableOK
<1>4. TableOK'
  <2>1. open' \subseteq {i \in Pages!TaskIds : status'[i] # NULL}
    BY <1>1, <1>2, <1>3, Bounds DEF TableOK
  <2>2. nextId' \in 1..(MaxListed + 1)
    BY <1>1, <1>2, Bounds DEF TableOK
  <2>3. \A i \in Pages!TaskIds : status'[i] # NULL => i < nextId'
    BY <1>1, <1>2, <1>3, Bounds DEF TableOK
  <2>4. QED
    BY <1>1, <1>2, <1>3, <2>1, <2>2, <2>3 DEF TableOK
<1>5. \A f : Pages!Listed(f)' = Pages!Listed(f)
  <2>1. status[nextId] = NULL
    BY <1>2, Bounds DEF TableOK
  <2>2. Pages!Committed' = Pages!Committed /\ nextId \notin Pages!Committed
    BY <1>1, <1>2, <1>3, <2>1 DEF Pages!Committed
  <2>3. \A i \in Pages!Committed : status'[i] = status[i]
    BY <1>3, <2>2 DEF Pages!Committed
  <2>4. QED
    BY <2>2, <2>3 DEF Pages!Listed
<1>6. QED
  BY <1>1, <1>4, <1>5, WalkUnaffected DEF PagesInv

LEMMA PagesCommit ==
  ASSUME PagesInv, NEW i \in Pages!TaskIds, Pages!CommitInsert(i)
  PROVE  PagesInv'
<1>1. /\ i \in open /\ open' = open \ {i} /\ Pages!Watch
      /\ UNCHANGED <<status, nextId, changes, walks>>
  BY DEF Pages!CommitInsert
<1>2. TableOK'
  BY <1>1 DEF PagesInv, TableOK
<1>3. i \notin Pages!Committed /\ Pages!Committed' = Pages!Committed \cup {i}
  BY <1>1 DEF Pages!Committed, PagesInv, TableOK
<1>4. ASSUME NEW f
      PROVE  Moved(Pages!Listed(f), Pages!Listed(f)', i)
  <2>1. i \notin Pages!Listed(f)
    BY <1>3 DEF Pages!Listed
  <2>2. Pages!Listed(f)' = Pages!Listed(f) \/ Pages!Listed(f)' = Pages!Listed(f) \cup {i}
    BY <1>1, <1>3 DEF Pages!Listed
  <2>3. QED
    BY <2>1, <2>2 DEF Moved
<1>5. QED
  BY <1>1, <1>2, <1>4, WalkWatches DEF PagesInv

LEMMA PagesRollback ==
  ASSUME PagesInv, NEW i \in Pages!TaskIds, Pages!RollbackInsert(i)
  PROVE  PagesInv'
<1>1. /\ i \in open /\ open' = open \ {i} /\ status' = [status EXCEPT ![i] = NULL]
      /\ UNCHANGED <<nextId, walk, changes, walks>>
  BY DEF Pages!RollbackInsert
<1>2. /\ status' \in [Pages!TaskIds -> AllStatuses \cup {NULL}]
      /\ status'[i] = NULL /\ \A j \in Pages!TaskIds \ {i} : status'[j] = status[j]
  BY <1>1 DEF PagesInv, TableOK
<1>3. TableOK'
  BY <1>1, <1>2 DEF PagesInv, TableOK
<1>4. Pages!Committed' = Pages!Committed /\ i \notin Pages!Committed
  BY <1>1, <1>2 DEF Pages!Committed
<1>5. \A j \in Pages!Committed : status'[j] = status[j]
  BY <1>2, <1>4 DEF Pages!Committed
<1>6. \A f : Pages!Listed(f)' = Pages!Listed(f)
  BY <1>4, <1>5 DEF Pages!Listed
<1>7. QED
  BY <1>1, <1>3, <1>6, WalkUnaffected DEF PagesInv

LEMMA PagesUpdate ==
  ASSUME PagesInv, NEW i \in Pages!TaskIds, Pages!Update(i)
  PROVE  PagesInv'
<1>1. PICK s \in AllStatuses : status' = [status EXCEPT ![i] = s]
  BY DEF Pages!Update
<1>2. /\ i \in Pages!Committed /\ changes > 0 /\ changes' = changes - 1 /\ Pages!Watch
      /\ UNCHANGED <<open, nextId, walks>>
  BY DEF Pages!Update
<1>3. /\ status' \in [Pages!TaskIds -> AllStatuses \cup {NULL}]
      /\ status'[i] # NULL /\ status[i] # NULL /\ i \notin open
      /\ \A j \in Pages!TaskIds \ {i} : status'[j] = status[j]
  BY <1>1, <1>2, Bounds DEF PagesInv, TableOK, Pages!Committed
<1>4. TableOK'
  <2>1. open' \subseteq {j \in Pages!TaskIds : status'[j] # NULL}
    BY <1>2, <1>3 DEF PagesInv, TableOK
  <2>2. \A j \in Pages!TaskIds : status'[j] # NULL => j < nextId'
    BY <1>2, <1>3 DEF PagesInv, TableOK
  <2>3. changes' \in 0..MaxChanges
    BY <1>2, Bounds DEF PagesInv, TableOK
  <2>4. QED
    BY <1>2, <1>3, <2>1, <2>2, <2>3 DEF PagesInv, TableOK
<1>5. Pages!Committed' = Pages!Committed
  BY <1>2, <1>3 DEF Pages!Committed
<1>6. ASSUME NEW f
      PROVE  Moved(Pages!Listed(f), Pages!Listed(f)', i)
  <2>1. \A j \in Pages!Committed \ {i} : j \in Pages!Listed(f)' <=> j \in Pages!Listed(f)
    <3>1. \A j \in Pages!Committed \ {i} : status'[j] = status[j]
      BY <1>3 DEF Pages!Committed
    <3>2. QED
      BY <1>5, <3>1 DEF Pages!Listed
  <2>2. Pages!Listed(f) \subseteq Pages!Committed /\ Pages!Listed(f)' \subseteq Pages!Committed
    BY <1>5 DEF Pages!Listed
  <2>3. QED
    BY <2>1, <2>2 DEF Moved
<1>7. QED
  BY <1>2, <1>4, <1>6, WalkWatches DEF PagesInv

LEMMA PagesNext == PagesInv /\ [Pages!Next]_pages => PagesInv'
<1> SUFFICES ASSUME PagesInv, [Pages!Next]_pages PROVE PagesInv'
  OBVIOUS
<1>1. CASE Pages!StartWalk
  BY <1>1, PagesStart
<1>2. CASE Pages!NextPage
  BY <1>2, PagesTurn
<1>3. CASE Pages!Insert
  BY <1>3, PagesInsert
<1>4. CASE \E i \in Pages!TaskIds :
             Pages!CommitInsert(i) \/ Pages!RollbackInsert(i) \/ Pages!Update(i)
  BY <1>4, PagesCommit, PagesRollback, PagesUpdate
<1>5. CASE UNCHANGED pages
  <2>1. UNCHANGED <<status, open, nextId, walk, changes, walks>>
    BY <1>5 DEF pages
  <2>2. \A f : Pages!Listed(f)' = Pages!Listed(f)
    BY <2>1 DEF Pages!Listed, Pages!Committed
  <2>3. TableOK'
    BY <2>1 DEF PagesInv, TableOK
  <2>4. QED
    BY <2>1, <2>2, <2>3, WalkUnaffected DEF PagesInv
<1>6. QED
  BY <1>1, <1>2, <1>3, <1>4, <1>5 DEF Pages!Next

-----------------------------------------------------------------------------
(* Both together.                                                            *)

(* A behaviour of the composition is one of the reports, with the rest for   *)
(* bystanders, and one of the walk through the pages.                        *)
THEOREM ReadsCompose == MCSpec => Spec /\ Pages!Spec
<1>1. MCInit => Init /\ Pages!Init
  BY DEF MCInit
<1>2. [MCNext]_<<subject, vars, pages>> => [Next]_vars /\ [Pages!Next]_pages
  BY DEF MCNext
<1>3. pages = Pages!vars
  BY DEF pages, Pages!vars
<1>4. [MCNext]_<<subject, vars, pages>> => [Next]_vars /\ [Pages!Next]_(Pages!vars)
  BY <1>2 DEF pages, Pages!vars
<1>5. QED
  BY <1>1, <1>4, PTL DEF MCSpec, Spec, Pages!Spec

(* The bookkeeping of a walk against the list it walks through.              *)
THEOREM PagesInvariant == Pages!Spec => []PagesInv
<1>1. PagesInv /\ [Pages!Next]_(Pages!vars) => PagesInv'
  BY PagesNext DEF pages, Pages!vars
<1>2. QED
  BY PagesInit, <1>1, PTL DEF Pages!Spec

(* Every variable keeps its shape; the times of a row are ordered and past,  *)
(* and no page is longer than the largest one.                               *)
THEOREM ReadsTyped == MCSpec => []ShapesOK
<1>1. ReportsInv => TypeOK
  BY DEF ReportsInv
<1>2. TypeOK /\ Pages!TypeOK => ShapesOK
  BY DEF ShapesOK
<1>3. QED
  BY <1>1, <1>2, ReadsCompose, ReportsInvariant, PagesInvariant, PagesTyped, PTL

(* A walk misses no more of the tasks that were listed all the time than     *)
(* others left, and repeats no more than came: whatever the sizes of pages   *)
(* and lists, and however late a task is committed.                          *)
THEOREM WalkMisses == MCSpec => []WalkMissesOnlyForLeavers
<1>1. PagesInv => WalkMissesOnlyForLeavers
  <2> SUFFICES ASSUME PagesInv, walk # NULL
               PROVE  /\ walk.ended => Cardinality(walk.stay \ walk.got) <= walk.left
                      /\ walk.repeated <= walk.came
    BY SameCardinality DEF WalkMissesOnlyForLeavers, Pages!WalkMissesOnlyForLeavers
  <2>1. CASE walk.ended
    BY <2>1 DEF PagesInv, WalkOK, Finished
  <2>2. CASE ~walk.ended
    <3>1. /\ Underway(walk, List) /\ walk.got \subseteq Pages!TaskIds
          /\ walk.repeated \in Nat /\ walk.came \in Nat
      BY <2>2 DEF PagesInv, WalkOK, Walks
    <3>2. Cardinality(Again(List, walk.got, walk.offset)) \in Nat
      BY <3>1, IdsFinite, Again(List, walk.got, walk.offset) \in SUBSET Pages!TaskIds DEF Again
    <3>3. QED
      BY <2>2, <3>1, <3>2 DEF Underway
  <2>3. QED
    BY <2>1, <2>2
<1>2. QED
  BY <1>1, ReadsCompose, PagesInvariant, PTL
=============================================================================
