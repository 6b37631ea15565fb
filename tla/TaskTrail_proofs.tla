-------------------------- MODULE TaskTrail_proofs --------------------------
(* Proofs about TaskTrail, for any clients, tasks and users, any number of   *)
(* requests and entries, and any run of the clock. The inductive invariant   *)
(* has four layers:                                                          *)
(*   Shape   types; what the step of a request says of it;                   *)
(*   Books   numbers identify requests; whose a row, a commit, an answer is; *)
(*   Log     in the history of a task, what is committed precedes what is    *)
(*           not, and no two requests mix; each wrote as much as it says;    *)
(*   Talk    a comment follows those acknowledged before it was sent.        *)
EXTENDS TaskTrail, FiniteSetTheorems, TLAPS

Commenting == {"start", "id", "insert", "read"}

Live(c) == req[c] # NULL

(* The request fits the step it is at, and is behind the counters.           *)
Fits(r) ==
  /\ r.pc \in {"lock", "entries"} => r.op \in {"create", "update"}
  /\ r.pc \in Commenting => r.op = "comment"
  /\ r.pc = "list" => r.op \in Lists
  /\ r.pc # "entries" => r.left = r.of
  /\ r.left <= r.of
  /\ r.n <= sent
  /\ r.at <= now
  /\ r.id < nextId["comments"]
  /\ r.after \subseteq acked

Shape ==
  /\ TypeOK
  /\ \A k \in Tables : nextId[k] > 0
  /\ \A c \in Clients : Live(c) => Fits(req[c])

-----------------------------------------------------------------------------
(* The steps, with what is refused, fails or crashes as one of them.         *)
Drop(c) == Live(c) /\ Abort(c)

Pass(c) ==
  /\ At(c, "check")
  /\ \E pc \in {"lock", "start", "list"} :
       /\ req' = [req EXCEPT ![c].pc = pc]
       /\ pc = "lock" => req[c].op \in {"create", "update"}
       /\ pc = "start" => req[c].op = "comment"
       /\ pc = "list" => req[c].op \in Lists
  /\ UNCHANGED <<now, exists, tables, committed, nextId, lock, answer, acked, sent>>

LEMMA CheckCases ==
  ASSUME TypeOK, NEW c \in Clients, Check(c)
  PROVE  Drop(c) \/ Pass(c)
<1>1. Live(c) /\ req[c] \in Request
  BY DEF Check, At, Live, TypeOK
<1>2. CASE Abort(c)
  BY <1>1, <1>2 DEF Drop
<1>3. CASE ~Abort(c)
  <2>1. PICK pc \in {"lock", "start", "list"} :
          /\ Goto(c, pc)
          /\ pc = CASE req[c].op \in {"create", "update"} -> "lock"
                    [] req[c].op = "comment" -> "start"
                    [] req[c].op \in Lists -> "list"
    BY <1>1, <1>3 DEF Check, Request, Writes, Lists
  <2>2. UNCHANGED <<now, exists, tables, committed, nextId, lock, answer, acked, sent>>
    BY <1>3 DEF Check, database
  <2>3. req[c].op \in Writes \cup Lists
    BY <1>1 DEF Request
  <2> QED
    BY <2>1, <2>2, <2>3 DEF Pass, Check, Goto, Writes, Lists
<1> QED
  BY <1>2, <1>3

LEMMA Cases ==
  ASSUME TypeOK, [Next]_vars
  PROVE  \/ \E c \in Clients :
              \/ Arrive(c) \/ Drop(c) \/ Pass(c) \/ Lock(c) \/ Entry(c) \/ End(c)
              \/ CommentStart(c) \/ CommentId(c) \/ CommentInsert(c) \/ CommentRead(c)
              \/ List(c)
         \/ Tick
         \/ UNCHANGED vars
<1>1. CASE Next
  BY <1>1, CheckCases DEF Next, Step, Fail, Drop, Live
<1> QED
  BY <1>1

-----------------------------------------------------------------------------
(* Types.                                                                    *)
LEMMA ShapeInit == Init => Shape
  BY TrailAssumption
     DEF Init, Shape, TypeOK, Tables, Live, At

(* Who holds a row lock is at its entries, for the task of the row.          *)
Locked ==
  \A c \in Clients, t \in Tasks :
    lock[t] = c <=> At(c, "entries") /\ req[c].task = t

Types ==
  /\ now \in 0..MaxTime
  /\ exists \subseteq Tasks
  /\ tables \in [Tables -> SUBSET Row]
  /\ committed \subseteq Ids
  /\ acked \subseteq Acknowledgement
  /\ nextId \in [Tables -> Nat]
  /\ lock \in [Tasks -> Clients \cup {NULL}]
  /\ req \in [Clients -> Request \cup {NULL}]
  /\ answer \in [Clients -> [rows : SUBSET Row, q : Request] \cup {NULL}]
  /\ sent \in 0..MaxRequests

LEMMA TypeOKParts == TypeOK <=> Types /\ Locked
  BY DEF TypeOK, Types, Locked

LEMMA LiveRequest ==
  ASSUME TypeOK, NEW c \in Clients
  PROVE  Live(c) <=> req[c] \in Request
  BY TrailAssumption DEF TypeOK, Live

LEMMA RowOfARequest ==
  ASSUME NEW r \in Request, NEW at \in 0..MaxTime, NEW id \in Nat
  PROVE  RowOf(r, at, id) \in Row
  BY DEF RowOf, Row, Request

(* Numbers only grow, so that a request that does not move stays fit.        *)
Grow ==
  /\ now <= now' /\ sent <= sent' /\ acked \subseteq acked'
  /\ nextId["comments"] <= nextId'["comments"]

LEMMA OthersFit ==
  ASSUME Shape, Types', Grow, NEW d \in Clients, Live(d), req'[d] = req[d]
  PROVE  Fits(req[d])'
<1>1. req[d] \in Request
  BY LiveRequest DEF Shape
<1>2. Fits(req[d])
  BY DEF Shape
<1> QED
  BY <1>1, <1>2, TrailAssumption DEF Grow, Fits, Types, Shape, TypeOK, Request, Tables, Ids

(* One request moves to x, perhaps over a row lock that it takes or leaves.  *)
LEMMA ShapeMove ==
  ASSUME Shape, Types', Grow, Locked', NEW c \in Clients,
         req' = [req EXCEPT ![c] = req'[c]],
         Live(c)' => Fits(req[c])',
         \A k \in Tables : nextId'[k] > 0
  PROVE  Shape'
<1>1. \A d \in Clients : d # c => req'[d] = req[d]
  BY DEF Shape, TypeOK
<1>2. ASSUME NEW d \in Clients, Live(d)'
      PROVE  Fits(req[d])'
  BY <1>1, <1>2, OthersFit DEF Live
<1>3. TypeOK'
  BY DEF Types, Locked, TypeOK
<1> QED
  BY <1>2, <1>3 DEF Shape

LEMMA ShapeArrive ==
  ASSUME Shape, NEW c \in Clients, Arrive(c)
  PROVE  Shape'
<1>1. PICK op \in Writes \cup Lists, t \in Tasks, u \in Users, of \in 1..MaxEntries :
        /\ req' = [req EXCEPT ![c] =
             [op |-> op, task |-> t, user |-> u, n |-> sent', of |-> of, left |-> of,
              after |-> acked, pc |-> "check", at |-> 0, id |-> 0]]
        /\ sent' = sent + 1 /\ sent < MaxRequests /\ req[c] = NULL
        /\ answer' = [answer EXCEPT ![c] = NULL]
        /\ UNCHANGED <<now, exists, tables, committed, nextId, lock, acked>>
  BY DEF Arrive, database
<1>2. sent' \in Ids
  BY <1>1, TrailAssumption DEF Ids, Shape, TypeOK
<1>3. /\ req'[c] \in Request
      /\ req'[c].pc = "check" /\ req'[c].left = req'[c].of /\ req'[c].of \in Nat
      /\ req'[c].n = sent' /\ req'[c].at = 0 /\ req'[c].id = 0 /\ req'[c].after = acked
  BY <1>1, <1>2, TrailAssumption DEF Shape, TypeOK, Request
<1>4. \A d \in Clients : d # c => req'[d] = req[d]
  BY <1>1 DEF Shape, TypeOK
<1>5. Types'
  BY <1>1, <1>2, <1>3, TrailAssumption DEF Types, Shape, TypeOK, Ids
<1>6. ~At(c, "entries") /\ ~At(c, "entries")'
  BY <1>1, <1>3 DEF At
<1>7. Locked'
  BY <1>1, <1>4, <1>6 DEF Locked, Shape, TypeOK, At
<1>8. Fits(req[c])'
  BY <1>1, <1>3 DEF Fits, Shape, TypeOK, Commenting, Tables, Lists
<1>9. Grow /\ \A k \in Tables : nextId'[k] > 0
  BY <1>1 DEF Grow, Shape, TypeOK, Tables
<1>10. req' = [req EXCEPT ![c] = req'[c]]
  BY <1>1 DEF Shape, TypeOK
<1> QED
  BY <1>5, <1>7, <1>8, <1>9, <1>10, ShapeMove

(* The last step of a request leaves its row lock.                           *)
LEMMA ShapeDone ==
  ASSUME Shape, Types', Grow, NEW c \in Clients, req' = [req EXCEPT ![c] = NULL],
         \A k \in Tables : nextId'[k] > 0,
         \A t \in Tasks : lock'[t] = IF lock[t] = c THEN NULL ELSE lock[t]
  PROVE  Shape'
<1>1. req'[c] = NULL /\ \A d \in Clients : d # c => req'[d] = req[d]
  BY DEF Shape, TypeOK
<1>2. Locked'
  BY <1>1, TrailAssumption DEF Locked, Shape, TypeOK, At
<1> QED
  BY <1>1, <1>2, ShapeMove DEF Live

LEMMA ShapeDrop ==
  ASSUME Shape, NEW c \in Clients, Drop(c)
  PROVE  Shape'
<1>1. tables' \in [Tables -> SUBSET Row]
  BY DEF Drop, Abort, Shape, TypeOK
<1>2. lock' \in [Tasks -> Clients \cup {NULL}]
  BY DEF Drop, Abort, Shape, TypeOK
<1>3. Types'
  BY <1>1, <1>2 DEF Types, Drop, Abort, Shape, TypeOK
<1>4. Grow /\ \A k \in Tables : nextId'[k] > 0
  BY DEF Grow, Shape, TypeOK, Tables, Drop, Abort
<1>5. \A t \in Tasks : lock'[t] = IF lock[t] = c THEN NULL ELSE lock[t]
  BY DEF Drop, Abort
<1> QED
  BY <1>3, <1>4, <1>5, ShapeDone DEF Drop, Abort

(* A step of c that keeps its request, on the way to another statement.      *)
Moves(c, x) ==
  /\ Live(c)
  /\ req' = [req EXCEPT ![c] = x]
  /\ x.op = req[c].op /\ x.task = req[c].task /\ x.user = req[c].user
  /\ x.n = req[c].n /\ x.of = req[c].of /\ x.after = req[c].after

LEMMA ShapeMoves ==
  ASSUME Shape, NEW c \in Clients, NEW x \in Request, Moves(c, x),
         UNCHANGED <<now, exists, acked, sent>>,
         tables' \in [Tables -> SUBSET Row], committed' \subseteq Ids,
         nextId' \in [Tables -> Nat], \A k \in Tables : nextId[k] <= nextId'[k],
         answer' = answer, lock' \in [Tasks -> Clients \cup {NULL}],
         \A t \in Tasks : lock'[t] # lock[t] => lock[t] = NULL /\ lock'[t] = c,
         \A t \in Tasks : lock'[t] = c <=> x.pc = "entries" /\ x.task = t,
         x.pc \in {"lock", "entries"} => x.op \in {"create", "update"},
         x.pc \in Commenting => x.op = "comment",
         x.pc = "list" => x.op \in Lists,
         x.pc # "entries" => x.left = x.of,
         x.left <= x.of, x.at <= now, x.id < nextId'["comments"]
  PROVE  Shape'
<1>1. req'[c] = x /\ \A d \in Clients : d # c => req'[d] = req[d]
  BY DEF Shape, TypeOK, Moves
<1>2. Types'
  BY DEF Types, Shape, TypeOK, Moves
<1>3. Locked'
  <2>1. SUFFICES ASSUME NEW d \in Clients, NEW t \in Tasks
                 PROVE  lock'[t] = d <=> At(d, "entries")' /\ req'[d].task = t
    BY DEF Locked
  <2>2. CASE d = c
    BY <1>1, <2>2, TrailAssumption DEF At
  <2>3. CASE d # c
    <3>1. lock'[t] = d <=> lock[t] = d
      BY <2>3, TrailAssumption
    <3> QED
      BY <1>1, <2>3, <3>1 DEF Shape, TypeOK, At
  <2> QED
    BY <2>2, <2>3
<1>4. Fits(x)'
  <2>1. req[c] \in Request /\ Fits(req[c])
    BY LiveRequest DEF Shape, Moves
  <2> QED
    BY <2>1 DEF Fits, Moves
<1>5. Grow /\ \A k \in Tables : nextId'[k] > 0
  BY DEF Grow, Shape, TypeOK, Tables
<1>6. req' = [req EXCEPT ![c] = req'[c]]
  BY <1>1 DEF Moves
<1>7. Fits(req[c])'
  BY <1>1, <1>4 DEF Fits
<1> QED
  BY <1>2, <1>3, <1>5, <1>6, <1>7, ShapeMove

LEMMA OwnLock ==
  ASSUME Shape, NEW c \in Clients, NEW t \in Tasks
  PROVE  lock[t] = c <=> At(c, "entries") /\ req[c].task = t
  BY DEF Shape, TypeOK

LEMMA ShapePass ==
  ASSUME Shape, NEW c \in Clients, Pass(c)
  PROVE  Shape'
<1>1. req[c] \in Request /\ Fits(req[c]) /\ Live(c) /\ req[c].pc = "check"
  BY LiveRequest DEF Shape, Pass, At, Live
<1>2. PICK pc \in {"lock", "start", "list"} :
        /\ req' = [req EXCEPT ![c].pc = pc]
        /\ pc = "lock" => req[c].op \in {"create", "update"}
        /\ pc = "start" => req[c].op = "comment"
        /\ pc = "list" => req[c].op \in Lists
  BY DEF Pass
<1> DEFINE x == [req[c] EXCEPT !.pc = pc]
<1>3. x \in Request /\ x.pc = pc /\ x.left = req[c].left /\ x.of = req[c].of
      /\ x.at = req[c].at /\ x.id = req[c].id /\ x.op = req[c].op
  BY <1>1 DEF Request
<1>4. Moves(c, x)
  BY <1>1, <1>2 DEF Moves, Request, Shape, TypeOK
<1>5. UNCHANGED <<now, exists, tables, committed, nextId, lock, answer, acked, sent>>
  BY DEF Pass
<1>6. \A t \in Tasks : lock[t] # c
  BY <1>1, OwnLock DEF At
<1> HIDE DEF x
<1>7. x.left <= x.of /\ x.left = x.of /\ x.at <= now /\ x.id < nextId'["comments"]
  BY <1>1, <1>3, <1>5 DEF Fits
<1>8. /\ x.pc \in {"lock", "entries"} => x.op \in {"create", "update"}
      /\ x.pc \in Commenting => x.op = "comment"
      /\ x.pc = "list" => x.op \in Lists
      /\ x.pc # "entries"
  BY <1>2, <1>3 DEF Commenting
<1>9. /\ tables' \in [Tables -> SUBSET Row] /\ committed' \subseteq Ids
      /\ nextId' \in [Tables -> Nat] /\ \A k \in Tables : nextId[k] <= nextId'[k]
      /\ lock' \in [Tasks -> Clients \cup {NULL}]
  BY <1>5 DEF Shape, TypeOK
<1> QED
  BY <1>3, <1>4, <1>5, <1>6, <1>7, <1>8, <1>9, ShapeMoves

LEMMA ShapeLock ==
  ASSUME Shape, NEW c \in Clients, Lock(c)
  PROVE  Shape'
<1>1. req[c] \in Request /\ Fits(req[c]) /\ Live(c) /\ req[c].pc = "lock"
  BY LiveRequest DEF Shape, Lock, At, Live
<1> DEFINE x == [req[c] EXCEPT !.pc = "entries"]
<1>2. x \in Request /\ x.pc = "entries" /\ x.left = req[c].left /\ x.of = req[c].of
      /\ x.at = req[c].at /\ x.id = req[c].id /\ x.op = req[c].op /\ x.task = req[c].task
  BY <1>1 DEF Request
<1>3. Moves(c, x)
  BY <1>1 DEF Moves, Request, Shape, TypeOK, Lock, Goto
<1>4. UNCHANGED <<now, exists, tables, committed, nextId, answer, acked, sent>>
  BY DEF Lock
<1>5. req[c].task \in Tasks /\ lock[req[c].task] = NULL
      /\ lock' = [lock EXCEPT ![req[c].task] = c]
  BY <1>1 DEF Request, Lock
<1>6. lock' \in [Tasks -> Clients \cup {NULL}]
  BY <1>5 DEF Shape, TypeOK
<1>7. \A t \in Tasks : lock'[t] = IF t = req[c].task THEN c ELSE lock[t]
  BY <1>5 DEF Shape, TypeOK
<1>8. \A t \in Tasks : lock[t] # c
  BY <1>1, OwnLock DEF At
<1> HIDE DEF x
<1>9. x.left <= x.of /\ x.at <= now /\ x.id < nextId'["comments"]
      /\ x.op \in {"create", "update"}
  BY <1>1, <1>2, <1>4 DEF Fits
<1>10. x.pc \notin Commenting
  BY <1>2 DEF Commenting
<1>11. /\ tables' \in [Tables -> SUBSET Row] /\ committed' \subseteq Ids
       /\ nextId' \in [Tables -> Nat] /\ \A k \in Tables : nextId[k] <= nextId'[k]
  BY <1>4 DEF Shape, TypeOK
<1>12. /\ \A t \in Tasks : lock'[t] # lock[t] => lock[t] = NULL /\ lock'[t] = c
       /\ \A t \in Tasks : lock'[t] = c <=> x.pc = "entries" /\ x.task = t
  BY <1>2, <1>5, <1>7, <1>8
<1> QED
  BY <1>2, <1>3, <1>4, <1>6, <1>9, <1>10, <1>11, <1>12, ShapeMoves

LEMMA ShapeEntry ==
  ASSUME Shape, NEW c \in Clients, Entry(c)
  PROVE  Shape'
<1>1. req[c] \in Request /\ Fits(req[c]) /\ Live(c) /\ req[c].pc = "entries"
  BY LiveRequest DEF Shape, Entry, At, Live
<1>2. req[c].left \in Nat /\ req[c].of \in Nat /\ req[c].left > 0 /\ req[c].left <= MaxEntries
  BY <1>1, TrailAssumption DEF Request, Entry
<1> DEFINE x == [req[c] EXCEPT !.left = @ - 1]
<1>3. /\ x \in Request /\ x.pc = "entries" /\ x.left = req[c].left - 1 /\ x.of = req[c].of
      /\ x.at = req[c].at /\ x.id = req[c].id /\ x.op = req[c].op /\ x.task = req[c].task
  BY <1>1, <1>2, TrailAssumption DEF Request
<1>4. Moves(c, x)
  BY <1>1 DEF Moves, Request, Shape, TypeOK, Entry
<1>5. UNCHANGED <<now, exists, committed, lock, answer, acked, sent>>
  BY DEF Entry
<1>6. RowOf(req[c], now, nextId["history"]) \in Row
  BY <1>1, RowOfARequest DEF Shape, TypeOK, Tables
<1>7. tables' \in [Tables -> SUBSET Row]
  BY <1>6 DEF Entry, Shape, TypeOK, Tables
<1>8. nextId' \in [Tables -> Nat] /\ \A k \in Tables : nextId[k] <= nextId'[k]
  BY DEF Entry, Shape, TypeOK, Tables
<1>9. \A t \in Tasks : lock[t] = c <=> req[c].task = t
  BY <1>1, OwnLock DEF At, Live
<1> HIDE DEF x
<1>10. x.left <= x.of /\ x.at <= now /\ x.op \in {"create", "update"}
  BY <1>1, <1>2, <1>3 DEF Fits
<1>11. x.id < nextId'["comments"]
  BY <1>1, <1>3 DEF Fits, Entry, Shape, TypeOK, Tables
<1>12. x.pc \notin Commenting
  BY <1>3 DEF Commenting
<1>13. committed' \subseteq Ids /\ lock' \in [Tasks -> Clients \cup {NULL}]
  BY <1>5 DEF Shape, TypeOK
<1>14. \A t \in Tasks : lock'[t] = c <=> x.pc = "entries" /\ x.task = t
  BY <1>3, <1>5, <1>9
<1> QED
  BY <1>3, <1>4, <1>5, <1>7, <1>8, <1>10, <1>11, <1>12, <1>13, <1>14, ShapeMoves

LEMMA ShapeEnd ==
  ASSUME Shape, NEW c \in Clients, End(c)
  PROVE  Shape'
<1>1. req[c] \in Request /\ Live(c) /\ req[c].pc = "entries"
  BY LiveRequest DEF Shape, End, Ready, At, Live
<1>2. req[c].task \in Tasks /\ req[c].n \in Ids /\ TableOf(req[c].op) \in Tables
  BY <1>1 DEF Request, TableOf, Tables
<1>3. acked' \subseteq Acknowledgement /\ acked \subseteq acked'
  BY <1>2 DEF End, Ack, Acknowledgement, Shape, TypeOK
<1>4. Types'
  BY <1>1, <1>2, <1>3 DEF Types, End, Commit, Shape, TypeOK
<1>5. Grow /\ \A k \in Tables : nextId'[k] > 0
  BY <1>3 DEF Grow, Shape, TypeOK, Tables, End, Commit
<1>6. \A t \in Tasks : lock[t] = c <=> req[c].task = t
  BY <1>1, OwnLock DEF At, Live
<1>7. \A t \in Tasks : lock'[t] = IF lock[t] = c THEN NULL ELSE lock[t]
  BY <1>2, <1>6 DEF End, Commit, Shape, TypeOK
<1> QED
  BY <1>4, <1>5, <1>7, ShapeDone DEF End, Commit

(* The steps of a comment keep away from row locks.                          *)
LEMMA ShapeTalks ==
  ASSUME Shape, NEW c \in Clients, NEW x \in Request, Moves(c, x),
         UNCHANGED <<now, exists, lock, answer, acked, sent>>,
         tables' \in [Tables -> SUBSET Row], committed' \subseteq Ids,
         nextId' \in [Tables -> Nat], \A k \in Tables : nextId[k] <= nextId'[k],
         req[c].pc \in Commenting, x.pc \in Commenting, x.left = req[c].left,
         x.at <= now, x.id < nextId'["comments"]
  PROVE  Shape'
<1>1. req[c] \in Request /\ Fits(req[c])
  BY LiveRequest DEF Shape, Moves
<1>2. req[c].pc # "entries" /\ x.pc # "entries"
  BY DEF Commenting
<1>3. \A t \in Tasks : lock'[t] = c <=> x.pc = "entries" /\ x.task = t
  BY <1>2, OwnLock DEF At
<1>4. x.op = "comment" /\ x.left = x.of /\ x.left <= x.of
  BY <1>1, <1>2 DEF Fits, Moves
<1>5. x.pc # "lock" /\ x.pc # "list"
  BY DEF Commenting
<1>6. lock' \in [Tasks -> Clients \cup {NULL}]
  BY DEF Shape, TypeOK
<1> QED
  BY <1>2, <1>3, <1>4, <1>5, <1>6, ShapeMoves

LEMMA ShapeCommentStart ==
  ASSUME Shape, NEW c \in Clients, CommentStart(c)
  PROVE  Shape'
<1>1. req[c] \in Request /\ Fits(req[c]) /\ Live(c) /\ req[c].pc = "start"
  BY LiveRequest DEF Shape, CommentStart, At, Live
<1> DEFINE x == [req[c] EXCEPT !.pc = "id", !.at = now]
<1>2. x \in Request /\ x.pc = "id" /\ x.left = req[c].left /\ x.at = now /\ x.id = req[c].id
  BY <1>1 DEF Request, Shape, TypeOK
<1>3. Moves(c, x)
  BY <1>1 DEF Moves, Request, Shape, TypeOK, CommentStart
<1>4. UNCHANGED <<now, exists, tables, committed, nextId, lock, answer, acked, sent>>
  BY DEF CommentStart, database
<1> HIDE DEF x
<1>5. x.at <= now /\ x.id < nextId'["comments"]
  BY <1>1, <1>2, <1>4 DEF Fits, Shape, TypeOK
<1>6. /\ tables' \in [Tables -> SUBSET Row] /\ committed' \subseteq Ids
      /\ nextId' \in [Tables -> Nat] /\ \A k \in Tables : nextId[k] <= nextId'[k]
  BY <1>4 DEF Shape, TypeOK
<1> QED
  BY <1>1, <1>2, <1>3, <1>4, <1>5, <1>6, ShapeTalks DEF Commenting

LEMMA ShapeCommentId ==
  ASSUME Shape, NEW c \in Clients, CommentId(c)
  PROVE  Shape'
<1>1. req[c] \in Request /\ Fits(req[c]) /\ Live(c) /\ req[c].pc = "id"
  BY LiveRequest DEF Shape, CommentId, At, Live
<1> DEFINE x == [req[c] EXCEPT !.pc = "insert", !.id = nextId["comments"]]
<1>2. /\ x \in Request /\ x.pc = "insert" /\ x.left = req[c].left
      /\ x.at = req[c].at /\ x.id = nextId["comments"]
  BY <1>1 DEF Request, Shape, TypeOK, Tables
<1>3. Moves(c, x)
  BY <1>1 DEF Moves, Request, Shape, TypeOK, CommentId
<1>4. UNCHANGED <<now, exists, tables, committed, lock, answer, acked, sent>>
  BY DEF CommentId
<1> HIDE DEF x
<1>5. x.at <= now
  BY <1>1, <1>2 DEF Fits
<1>6. x.id < nextId'["comments"]
  BY <1>2 DEF CommentId, Shape, TypeOK, Tables
<1>7. /\ tables' \in [Tables -> SUBSET Row] /\ committed' \subseteq Ids
      /\ nextId' \in [Tables -> Nat] /\ \A k \in Tables : nextId[k] <= nextId'[k]
  BY <1>4 DEF Shape, TypeOK, CommentId, Tables
<1> QED
  BY <1>1, <1>2, <1>3, <1>4, <1>5, <1>6, <1>7, ShapeTalks DEF Commenting

LEMMA ShapeCommentInsert ==
  ASSUME Shape, NEW c \in Clients, CommentInsert(c)
  PROVE  Shape'
<1>1. req[c] \in Request /\ Fits(req[c]) /\ Live(c) /\ req[c].pc = "insert"
  BY LiveRequest DEF Shape, CommentInsert, At, Live
<1> DEFINE x == [req[c] EXCEPT !.pc = "read"]
<1>2. /\ x \in Request /\ x.pc = "read" /\ x.left = req[c].left
      /\ x.at = req[c].at /\ x.id = req[c].id
  BY <1>1 DEF Request
<1>3. Moves(c, x)
  BY <1>1 DEF Moves, Request, Shape, TypeOK, CommentInsert, Goto
<1>4. UNCHANGED <<now, exists, nextId, lock, answer, acked, sent>>
  BY DEF CommentInsert
<1>5. RowOf(req[c], req[c].at, req[c].id) \in Row
  BY <1>1, RowOfARequest DEF Request
<1>6. tables' \in [Tables -> SUBSET Row]
  BY <1>5 DEF CommentInsert, Shape, TypeOK, Tables
<1>7. committed' \subseteq Ids
  BY <1>1 DEF CommentInsert, Shape, TypeOK, Request
<1> HIDE DEF x
<1>8. x.at <= now /\ x.id < nextId'["comments"]
  BY <1>1, <1>2, <1>4 DEF Fits
<1>9. nextId' \in [Tables -> Nat] /\ \A k \in Tables : nextId[k] <= nextId'[k]
  BY <1>4 DEF Shape, TypeOK
<1> QED
  BY <1>1, <1>2, <1>3, <1>4, <1>6, <1>7, <1>8, <1>9, ShapeTalks DEF Commenting

LEMMA ShapeCommentRead ==
  ASSUME Shape, NEW c \in Clients, CommentRead(c)
  PROVE  Shape'
<1>1. req[c] \in Request /\ Live(c) /\ req[c].pc = "read"
  BY LiveRequest DEF Shape, CommentRead, At, Live
<1>2. acked' \subseteq Acknowledgement /\ acked \subseteq acked'
  BY <1>1 DEF CommentRead, Ack, Acknowledgement, Shape, TypeOK, Request, TableOf, Tables
<1>3. UNCHANGED <<now, exists, tables, committed, nextId, lock, answer, sent>>
  BY DEF CommentRead, database
<1>4. Types'
  BY <1>2, <1>3 DEF Types, CommentRead, Shape, TypeOK
<1>5. Grow /\ \A k \in Tables : nextId'[k] > 0
  BY <1>2, <1>3 DEF Grow, Shape, TypeOK, Tables
<1>6. \A t \in Tasks : lock[t] # c
  BY <1>1, OwnLock DEF At
<1> QED
  BY <1>3, <1>4, <1>5, <1>6, ShapeDone DEF CommentRead

LEMMA ShapeList ==
  ASSUME Shape, NEW c \in Clients, List(c)
  PROVE  Shape'
<1>1. req[c] \in Request /\ Live(c) /\ req[c].pc = "list"
  BY LiveRequest DEF Shape, List, At, Live
<1>2. Visible(TableOf(req[c].op), req[c].task) \subseteq Row
  BY DEF Visible, TableOf, Tables, Shape, TypeOK
<1>3. answer' \in [Clients -> [rows : SUBSET Row, q : Request] \cup {NULL}]
  BY <1>1, <1>2 DEF List, Shape, TypeOK
<1>4. UNCHANGED <<now, exists, tables, committed, nextId, lock, acked, sent>>
  BY DEF List, database
<1>5. Types'
  BY <1>3, <1>4 DEF Types, List, Shape, TypeOK
<1>6. Grow /\ \A k \in Tables : nextId'[k] > 0
  BY <1>4 DEF Grow, Shape, TypeOK, Tables
<1>7. \A t \in Tasks : lock[t] # c
  BY <1>1, OwnLock DEF At
<1> QED
  BY <1>4, <1>5, <1>6, <1>7, ShapeDone DEF List

LEMMA ShapeTick ==
  ASSUME Shape, Tick
  PROVE  Shape'
<1>1. UNCHANGED <<exists, tables, committed, nextId, lock, req, answer, acked, sent>>
  BY DEF Tick, database
<1>2. now' \in 0..MaxTime /\ now <= now'
  BY TrailAssumption DEF Tick, Shape, TypeOK
<1>3. TypeOK'
  BY <1>1, <1>2 DEF Shape, TypeOK, At
<1>4. Types' /\ Grow
  BY <1>1, <1>2, <1>3 DEF Types, TypeOK, Grow, Shape, Tables
<1>5. \A c \in Clients : Live(c)' => Fits(req[c])'
  BY <1>1, <1>4, OthersFit DEF Live
<1> QED
  BY <1>1, <1>3, <1>5 DEF Shape

LEMMA ShapeStep ==
  ASSUME Shape, [Next]_vars
  PROVE  Shape'
<1>1. CASE UNCHANGED vars
  BY <1>1 DEF vars, Shape, TypeOK, At, Live, Fits
<1> QED
  BY <1>1, Cases, ShapeArrive, ShapeDrop, ShapePass, ShapeLock, ShapeEntry, ShapeEnd,
     ShapeCommentStart, ShapeCommentId, ShapeCommentInsert, ShapeCommentRead, ShapeList,
     ShapeTick
     DEF Shape

-----------------------------------------------------------------------------
(* The books. An entry that is not committed belongs to a request that is at *)
(* its entries.                                                              *)
Owned(row) ==
  \E c \in Clients :
    At(c, "entries") /\ req[c].n = row.by /\ req[c].task = row.task /\ req[c].of = row.of

Distinct ==
  \A c, d \in Clients : Live(c) /\ Live(d) /\ req[c].n = req[d].n => c = d

(* Rows, commits and answers are behind the counters.                        *)
Behind ==
  /\ \A k \in Tables : \A row \in tables[k] :
       row.id < nextId[k] /\ row.at <= now /\ row.by <= sent /\ row.after \subseteq acked
  /\ \A n \in committed : n <= sent
  /\ \A w \in acked : w.by <= sent

Owners ==
  /\ \A row \in tables["comments"] : row.by \in committed
  /\ \A row \in tables["history"] : row.by \in committed \/ Owned(row)

(* What is not yet done has no commit, no answer, and before its entries no  *)
(* entry.                                                                    *)
Undone ==
  \A c \in Clients : Live(c) =>
    /\ req[c].n \in committed => req[c].pc = "read"
    /\ req[c].pc # "entries" => \A row \in tables["history"] : row.by # req[c].n
    /\ \A w \in acked : w.by # req[c].n

Books == Distinct /\ Behind /\ Owners /\ Undone

LEMMA BooksInit == Init => Books
  BY DEF Init, Books, Distinct, Behind, Owners, Undone, Live, Tables

(* Steps that touch no row and no commit: c goes on, or ends.                *)
LEMMA BooksQuiet ==
  ASSUME Shape, Shape', Books, NEW c \in Clients, NEW x, req' = [req EXCEPT ![c] = x],
         Live(c), x = NULL \/ (x \in Request /\ Moves(c, x)),
         req[c].pc # "entries", req[c].pc # "read", x # NULL => x.pc # "read",
         UNCHANGED <<tables, committed, acked, sent, now>>,
         \A k \in Tables : nextId[k] <= nextId'[k]
  PROVE  Books'
<1>1. req'[c] = x /\ \A d \in Clients : d # c => req'[d] = req[d]
  BY DEF Shape, TypeOK
<1>2. Distinct'
  BY <1>1 DEF Books, Distinct, Live, Moves
<1>3. Behind'
  BY DEF Books, Behind, Shape, TypeOK, Tables, Row
<1>4. ASSUME NEW row \in tables["history"], row.by \notin committed
      PROVE  Owned(row)'
  <2>1. PICK d \in Clients :
          At(d, "entries") /\ req[d].n = row.by /\ req[d].task = row.task /\ req[d].of = row.of
    BY <1>4 DEF Books, Owners, Owned
  <2>2. d # c
    BY <2>1 DEF At
  <2> QED
    BY <1>1, <2>1, <2>2 DEF Owned, At
<1>5. Owners'
  BY <1>4 DEF Books, Owners
<1>6. Undone'
  BY <1>1 DEF Books, Undone, Live, Moves
<1> QED
  BY <1>2, <1>3, <1>5, <1>6 DEF Books

LEMMA BooksArrive ==
  ASSUME Shape, Shape', Books, NEW c \in Clients, Arrive(c)
  PROVE  Books'
<1>1. /\ req'[c].n = sent' /\ req'[c].pc = "check"
      /\ \A d \in Clients : d # c => req'[d] = req[d]
      /\ req[c] = NULL /\ sent' = sent + 1
      /\ UNCHANGED <<now, tables, committed, nextId, acked>>
  BY DEF Arrive, database, Shape, TypeOK
<1>2. \A d \in Clients : Live(d) => req[d].n # sent'
  BY <1>1, LiveRequest, TrailAssumption DEF Shape, Fits, TypeOK, Request, Ids
<1>3. Distinct'
  BY <1>1, <1>2 DEF Books, Distinct, Live
<1>4. Behind'
  BY <1>1 DEF Books, Behind, Shape, TypeOK, Row, Acknowledgement, Ids, Tables
<1>5. ASSUME NEW row \in tables["history"], row.by \notin committed
      PROVE  Owned(row)'
  <2>1. PICK d \in Clients :
          At(d, "entries") /\ req[d].n = row.by /\ req[d].task = row.task /\ req[d].of = row.of
    BY <1>5 DEF Books, Owners, Owned
  <2>2. d # c
    BY <1>1, <2>1 DEF At
  <2> QED
    BY <1>1, <2>1, <2>2 DEF Owned, At
<1>6. Owners'
  BY <1>1, <1>5 DEF Books, Owners
<1>7. /\ sent' \notin committed
      /\ \A row \in tables["history"] : row.by # sent'
      /\ \A w \in acked : w.by # sent'
  BY <1>1 DEF Books, Behind, Shape, TypeOK, Row, Acknowledgement, Ids, Tables
<1>8. Undone'
  BY <1>1, <1>7 DEF Books, Undone, Live
<1> QED
  BY <1>3, <1>4, <1>6, <1>8 DEF Books

LEMMA BooksDrop ==
  ASSUME Shape, Shape', Books, NEW c \in Clients, Drop(c)
  PROVE  Books'
<1>1. /\ Live(c) /\ req'[c] = NULL /\ \A d \in Clients : d # c => req'[d] = req[d]
      /\ UNCHANGED <<now, committed, nextId, acked, sent>>
      /\ \A k \in Tables : tables'[k] =
           {row \in tables[k] : row.by = req[c].n => row.by \in committed}
  BY DEF Drop, Abort, Shape, TypeOK
<1>2. Distinct'
  BY <1>1 DEF Books, Distinct, Live
<1>3. Behind'
  BY <1>1 DEF Books, Behind
<1>4. ASSUME NEW row \in tables'["history"], row.by \notin committed
      PROVE  Owned(row)'
  <2>1. row \in tables["history"] /\ row.by # req[c].n
    BY <1>1, <1>4 DEF Tables
  <2>2. PICK d \in Clients :
          At(d, "entries") /\ req[d].n = row.by /\ req[d].task = row.task /\ req[d].of = row.of
    BY <1>4, <2>1 DEF Books, Owners, Owned
  <2>3. d # c
    BY <2>1, <2>2
  <2> QED
    BY <1>1, <2>2, <2>3 DEF Owned, At
<1>5. Owners'
  BY <1>1, <1>4 DEF Books, Owners, Tables
<1>6. Undone'
  BY <1>1 DEF Books, Undone, Live, Tables
<1> QED
  BY <1>2, <1>3, <1>5, <1>6 DEF Books

(* The row that Entry adds.                                                  *)
EntryOf(c) == RowOf(req[c], now, nextId["history"])

LEMMA EntryFacts ==
  ASSUME Shape, NEW c \in Clients, Entry(c)
  PROVE  /\ req[c] \in Request /\ Live(c) /\ req[c].pc = "entries"
         /\ EntryOf(c) \in Row
         /\ EntryOf(c).task = req[c].task /\ EntryOf(c).id = nextId["history"]
         /\ EntryOf(c).at = now /\ EntryOf(c).by = req[c].n /\ EntryOf(c).of = req[c].of
         /\ EntryOf(c).after = req[c].after
         /\ tables'["history"] = tables["history"] \cup {EntryOf(c)}
         /\ tables'["comments"] = tables["comments"]
         /\ req'[c].pc = "entries" /\ req'[c].n = req[c].n /\ req'[c].task = req[c].task
         /\ req'[c].of = req[c].of /\ req'[c].left = req[c].left - 1 /\ Live(c)'
         /\ \A d \in Clients : d # c => req'[d] = req[d]
         /\ nextId'["history"] = nextId["history"] + 1
         /\ nextId'["comments"] = nextId["comments"]
         /\ UNCHANGED <<now, committed, acked, sent>>
<1>1. req[c] \in Request /\ Live(c) /\ req[c].pc = "entries"
  BY LiveRequest DEF Shape, Entry, At, Live
<1>2. now \in 0..MaxTime /\ nextId["history"] \in Nat
  BY DEF Shape, TypeOK, Tables
<1>3. EntryOf(c) \in Row
  BY <1>1, <1>2, RowOfARequest DEF EntryOf
<1>4. /\ EntryOf(c).task = req[c].task /\ EntryOf(c).id = nextId["history"]
      /\ EntryOf(c).at = now /\ EntryOf(c).by = req[c].n /\ EntryOf(c).of = req[c].of
      /\ EntryOf(c).after = req[c].after
  BY DEF EntryOf, RowOf
<1>5. /\ tables'["history"] = tables["history"] \cup {EntryOf(c)}
      /\ tables'["comments"] = tables["comments"]
      /\ nextId'["history"] = nextId["history"] + 1
      /\ nextId'["comments"] = nextId["comments"]
  BY DEF Entry, EntryOf, Shape, TypeOK, Tables
<1>6. req' = [req EXCEPT ![c].left = @ - 1] /\ req[c].left > 0
  BY DEF Entry
<1>7. /\ \A d \in Clients : d # c => req'[d] = req[d]
      /\ req'[c] = [req[c] EXCEPT !.left = @ - 1]
  BY <1>6 DEF Shape, TypeOK
<1>8. /\ req'[c].pc = "entries" /\ req'[c].n = req[c].n /\ req'[c].task = req[c].task
      /\ req'[c].of = req[c].of /\ req'[c].left = req[c].left - 1
      /\ req'[c] \in Request
  BY <1>1, <1>6, <1>7, TrailAssumption DEF Request
<1>9. Live(c)'
  BY <1>8, TrailAssumption DEF Live
<1> QED
  BY <1>1, <1>3, <1>4, <1>5, <1>7, <1>8, <1>9 DEF Entry

LEMMA BooksEntry ==
  ASSUME Shape, Shape', Books, NEW c \in Clients, Entry(c)
  PROVE  Books'
<1> USE EntryFacts
<1>1. Distinct'
  BY DEF Books, Distinct, Live
<1>2. EntryOf(c).by <= sent /\ EntryOf(c).after \subseteq acked
  BY DEF Shape, Fits
<1>3. Behind'
  BY <1>2 DEF Books, Behind, Shape, TypeOK, Tables, Row
<1>4. ASSUME NEW row \in tables["history"], row.by \notin committed
      PROVE  Owned(row)'
  <2>1. PICK d \in Clients :
          At(d, "entries") /\ req[d].n = row.by /\ req[d].task = row.task /\ req[d].of = row.of
    BY <1>4 DEF Books, Owners, Owned
  <2> QED
    BY <2>1 DEF Owned, At, Live
<1>5. ASSUME NEW row, row = EntryOf(c)
      PROVE  Owned(row)'
  BY <1>5 DEF Owned, At, Live
<1>6. Owners'
  BY <1>4, <1>5 DEF Books, Owners
<1>7. Undone'
  BY DEF Books, Undone, Live, Distinct
<1> QED
  BY <1>1, <1>3, <1>6, <1>7 DEF Books

LEMMA BooksEnd ==
  ASSUME Shape, Shape', Books, NEW c \in Clients, End(c)
  PROVE  Books'
<1>1. /\ req[c] \in Request /\ Live(c) /\ req[c].pc = "entries"
      /\ req'[c] = NULL /\ \A d \in Clients : d # c => req'[d] = req[d]
      /\ committed' = committed \cup {req[c].n}
      /\ UNCHANGED <<now, tables, nextId, sent>>
  BY LiveRequest DEF End, Ready, Commit, Shape, TypeOK, At, Live
<1>2. \A w \in acked' : w \in acked \/ w.by = req[c].n
  BY DEF End, Ack
<1>3. acked \subseteq acked'
  BY DEF End, Ack
<1>4. Distinct'
  BY <1>1 DEF Books, Distinct, Live
<1>5. Behind'
  BY <1>1, <1>2, <1>3 DEF Books, Behind, Shape, Fits
<1>6. ASSUME NEW row \in tables["history"], row.by \notin committed'
      PROVE  Owned(row)'
  <2>1. PICK d \in Clients :
          At(d, "entries") /\ req[d].n = row.by /\ req[d].task = row.task /\ req[d].of = row.of
    BY <1>1, <1>6 DEF Books, Owners, Owned
  <2>2. d # c
    BY <1>1, <1>6, <2>1
  <2> QED
    BY <1>1, <2>1, <2>2 DEF Owned, At
<1>7. Owners'
  BY <1>1, <1>6 DEF Books, Owners
<1>8. \A d \in Clients : d # c /\ Live(d) => req[d].n # req[c].n
  BY <1>1 DEF Books, Distinct
<1>9. Undone'
  BY <1>1, <1>2, <1>8 DEF Books, Undone, Live
<1> QED
  BY <1>4, <1>5, <1>7, <1>9 DEF Books

(* The comment that CommentInsert adds.                                      *)
CommentOf(c) == RowOf(req[c], req[c].at, req[c].id)

LEMMA CommentFacts ==
  ASSUME Shape, NEW c \in Clients, CommentInsert(c)
  PROVE  /\ req[c] \in Request /\ Live(c) /\ req[c].pc = "insert"
         /\ CommentOf(c).task = req[c].task /\ CommentOf(c).id = req[c].id
         /\ CommentOf(c).at = req[c].at /\ CommentOf(c).by = req[c].n
         /\ CommentOf(c).after = req[c].after
         /\ tables'["comments"] = tables["comments"] \cup {CommentOf(c)}
         /\ tables'["history"] = tables["history"]
         /\ committed' = committed \cup {req[c].n}
         /\ req'[c].pc = "read" /\ req'[c].n = req[c].n /\ req'[c].task = req[c].task
         /\ req'[c].op = req[c].op /\ req'[c].after = req[c].after
         /\ req'[c].at = req[c].at /\ req'[c].id = req[c].id
         /\ req'[c] \in Request /\ Live(c)'
         /\ \A d \in Clients : d # c => req'[d] = req[d]
         /\ UNCHANGED <<now, nextId, acked, sent>>
<1>1. req[c] \in Request /\ Live(c) /\ req[c].pc = "insert"
  BY LiveRequest DEF Shape, CommentInsert, At, Live
<1>2. /\ CommentOf(c).task = req[c].task /\ CommentOf(c).id = req[c].id
      /\ CommentOf(c).at = req[c].at /\ CommentOf(c).by = req[c].n
      /\ CommentOf(c).after = req[c].after
  BY DEF CommentOf, RowOf
<1>3. /\ tables'["comments"] = tables["comments"] \cup {CommentOf(c)}
      /\ tables'["history"] = tables["history"]
      /\ committed' = committed \cup {req[c].n}
      /\ UNCHANGED <<now, nextId, acked, sent>>
  BY DEF CommentInsert, CommentOf, Shape, TypeOK, Tables
<1>4. /\ \A d \in Clients : d # c => req'[d] = req[d]
      /\ req'[c] = [req[c] EXCEPT !.pc = "read"]
  BY DEF CommentInsert, Goto, Shape, TypeOK
<1>5. /\ req'[c].pc = "read" /\ req'[c].n = req[c].n /\ req'[c].task = req[c].task
      /\ req'[c].op = req[c].op /\ req'[c].after = req[c].after
      /\ req'[c].at = req[c].at /\ req'[c].id = req[c].id
      /\ req'[c] \in Request
  BY <1>1, <1>4 DEF Request
<1>6. Live(c)'
  BY <1>5, TrailAssumption DEF Live
<1> QED
  BY <1>1, <1>2, <1>3, <1>4, <1>5, <1>6

LEMMA BooksCommentInsert ==
  ASSUME Shape, Shape', Books, NEW c \in Clients, CommentInsert(c)
  PROVE  Books'
<1> USE CommentFacts
<1>1. Distinct'
  BY DEF Books, Distinct, Live
<1>2. /\ CommentOf(c).id < nextId["comments"] /\ CommentOf(c).at <= now
      /\ CommentOf(c).by <= sent /\ CommentOf(c).after \subseteq acked
  BY DEF Shape, Fits
<1>3. Behind'
  BY <1>2 DEF Books, Behind, Tables
<1>4. ASSUME NEW row \in tables["history"], row.by \notin committed'
      PROVE  Owned(row)'
  <2>1. PICK d \in Clients :
          At(d, "entries") /\ req[d].n = row.by /\ req[d].task = row.task /\ req[d].of = row.of
    BY <1>4 DEF Books, Owners, Owned
  <2>2. d # c
    BY <2>1 DEF At
  <2> QED
    BY <2>1, <2>2 DEF Owned, At
<1>5. Owners'
  BY <1>4 DEF Books, Owners
<1>6. \A d \in Clients : d # c /\ Live(d) => req[d].n # req[c].n
  BY DEF Books, Distinct
<1>7. Undone'
  BY <1>6 DEF Books, Undone, Live
<1> QED
  BY <1>1, <1>3, <1>5, <1>7 DEF Books

LEMMA BooksCommentRead ==
  ASSUME Shape, Shape', Books, NEW c \in Clients, CommentRead(c)
  PROVE  Books'
<1>1. /\ req[c] \in Request /\ Live(c) /\ req[c].pc = "read"
      /\ req'[c] = NULL /\ \A d \in Clients : d # c => req'[d] = req[d]
      /\ UNCHANGED <<now, tables, committed, nextId, sent>>
  BY LiveRequest DEF CommentRead, database, Shape, TypeOK, At, Live
<1>2. /\ \A w \in acked' : w \in acked \/ w.by = req[c].n
      /\ acked \subseteq acked'
  BY DEF CommentRead, Ack
<1>3. Distinct'
  BY <1>1 DEF Books, Distinct, Live
<1>4. Behind'
  BY <1>1, <1>2 DEF Books, Behind, Shape, Fits
<1>5. ASSUME NEW row \in tables["history"], row.by \notin committed
      PROVE  Owned(row)'
  <2>1. PICK d \in Clients :
          At(d, "entries") /\ req[d].n = row.by /\ req[d].task = row.task /\ req[d].of = row.of
    BY <1>5 DEF Books, Owners, Owned
  <2>2. d # c
    BY <1>1, <2>1 DEF At
  <2> QED
    BY <1>1, <2>1, <2>2 DEF Owned, At
<1>6. Owners'
  BY <1>1, <1>5 DEF Books, Owners
<1>7. \A d \in Clients : d # c /\ Live(d) => req[d].n # req[c].n
  BY <1>1 DEF Books, Distinct
<1>8. Undone'
  BY <1>1, <1>2, <1>7 DEF Books, Undone, Live
<1> QED
  BY <1>3, <1>4, <1>6, <1>8 DEF Books

(* Pass, Lock, CommentStart, CommentId and List, told alike.                 *)
Quiet(c, x) ==
  /\ Live(c) /\ req' = [req EXCEPT ![c] = x]
  /\ x = NULL \/ (x \in Request /\ Moves(c, x))
  /\ req[c].pc # "entries" /\ req[c].pc # "read"
  /\ x # NULL => x.pc # "read" /\ x.left = req[c].left
  /\ UNCHANGED <<tables, committed, acked, sent, now>>
  /\ \A k \in Tables : nextId[k] <= nextId'[k]

LEMMA QuietSteps ==
  ASSUME Shape, NEW c \in Clients,
         Pass(c) \/ Lock(c) \/ CommentStart(c) \/ CommentId(c) \/ List(c)
  PROVE  \E x : Quiet(c, x)
<1>1. req[c] \in Request /\ Live(c)
  BY LiveRequest DEF Shape, Pass, Lock, CommentStart, CommentId, List, At, Live
<1>2. \A k \in Tables : nextId[k] \in Nat
  BY DEF Shape, TypeOK
<1>3. CASE Pass(c)
  <2>1. PICK pc \in {"lock", "start", "list"} : req' = [req EXCEPT ![c].pc = pc]
    BY <1>3 DEF Pass
  <2> DEFINE x == [req[c] EXCEPT !.pc = pc]
  <2>2. x \in Request /\ Moves(c, x) /\ req' = [req EXCEPT ![c] = x]
    BY <1>1, <2>1 DEF Moves, Request, Shape, TypeOK
  <2>3. x.pc # "read" /\ x.left = req[c].left
    BY <1>1 DEF Request
  <2> HIDE DEF x
  <2>9. Quiet(c, x)
    <3>1. req[c].pc = "check" /\ UNCHANGED <<tables, committed, acked, sent, now, nextId>>
      BY <1>3 DEF Pass, At
    <3> QED
      BY <1>1, <1>2, <2>2, <2>3, <3>1 DEF Quiet
  <2> QED
    BY <2>9
<1>4. CASE Lock(c)
  <2> DEFINE x == [req[c] EXCEPT !.pc = "entries"]
  <2>1. x \in Request /\ Moves(c, x) /\ req' = [req EXCEPT ![c] = x]
    BY <1>1, <1>4 DEF Moves, Request, Shape, TypeOK, Lock, Goto
  <2>2. x.pc # "read" /\ x.left = req[c].left
    BY <1>1 DEF Request
  <2> HIDE DEF x
  <2>9. Quiet(c, x)
    BY <1>1, <1>2, <1>4, <2>1, <2>2 DEF Quiet, Lock, At
  <2> QED
    BY <2>9
<1>5. CASE CommentStart(c)
  <2> DEFINE x == [req[c] EXCEPT !.pc = "id", !.at = now]
  <2>1. x \in Request /\ Moves(c, x) /\ req' = [req EXCEPT ![c] = x]
    BY <1>1, <1>5 DEF Moves, Request, Shape, TypeOK, CommentStart
  <2>2. x.pc # "read" /\ x.left = req[c].left
    BY <1>1 DEF Request
  <2> HIDE DEF x
  <2>9. Quiet(c, x)
    <3>1. req[c].pc = "start" /\ UNCHANGED <<tables, committed, acked, sent, now, nextId>>
      BY <1>5 DEF CommentStart, At, database
    <3> QED
      BY <1>1, <1>2, <2>1, <2>2, <3>1 DEF Quiet
  <2> QED
    BY <2>9
<1>6. CASE CommentId(c)
  <2> DEFINE x == [req[c] EXCEPT !.pc = "insert", !.id = nextId["comments"]]
  <2>1. x \in Request /\ Moves(c, x) /\ req' = [req EXCEPT ![c] = x]
    BY <1>1, <1>6 DEF Moves, Request, Shape, TypeOK, CommentId, Tables
  <2>2. x.pc # "read" /\ x.left = req[c].left
    BY <1>1 DEF Request
  <2>3. \A k \in Tables : nextId[k] <= nextId'[k]
    BY <1>2, <1>6 DEF CommentId, Shape, TypeOK
  <2> HIDE DEF x
  <2>9. Quiet(c, x)
    BY <1>1, <1>6, <2>1, <2>2, <2>3 DEF Quiet, CommentId, At
  <2> QED
    BY <2>9
<1>7. CASE List(c)
  <2>1. /\ req[c].pc = "list" /\ req' = [req EXCEPT ![c] = NULL]
        /\ UNCHANGED <<tables, committed, acked, sent, now, nextId>>
    BY <1>7 DEF List, At, database
  <2>2. Quiet(c, NULL)
    BY <1>1, <1>2, <2>1 DEF Quiet
  <2> QED
    BY <2>2
<1> QED
  BY <1>3, <1>4, <1>5, <1>6, <1>7

LEMMA BooksTick ==
  ASSUME Shape, Shape', Books, Tick
  PROVE  Books'
<1>1. /\ UNCHANGED <<tables, committed, nextId, req, acked, sent>>
      /\ now' = now + 1
  BY DEF Tick, database
<1>2. Behind'
  BY <1>1 DEF Books, Behind, Shape, TypeOK, Row, Tables
<1> QED
  BY <1>1, <1>2 DEF Books, Distinct, Owners, Owned, Undone, Live, At

LEMMA BooksStep ==
  ASSUME Shape, Shape', Books, [Next]_vars
  PROVE  Books'
<1>1. CASE UNCHANGED vars
  BY <1>1 DEF vars, Books, Distinct, Behind, Owners, Owned, Undone, Live, At
<1>2. ASSUME NEW c \in Clients, NEW x, Quiet(c, x)
      PROVE  Books'
  BY <1>2, BooksQuiet DEF Quiet
<1> QED
  BY <1>1, <1>2, Cases, QuietSteps, BooksArrive, BooksDrop, BooksEntry, BooksEnd,
     BooksCommentInsert, BooksCommentRead, BooksTick
     DEF Shape

-----------------------------------------------------------------------------
(* The history.                                                              *)
RowsBy(n) == {row \in tables["history"] : row.by = n}

(* In the history of a task, the committed entries precede the others.       *)
Ordered ==
  \A a, b \in tables["history"] :
    a.task = b.task /\ a.by \in committed /\ b.by \notin committed => Before(a, b)

(* Between two entries of one request there is none of another.              *)
Apart ==
  \A a, b, x \in tables["history"] :
    a.by = b.by /\ x.task = a.task /\ x.by # a.by => Before(x, a) \/ Before(b, x)

(* Entries of one request are of one task and agree on how many they are.    *)
Alike ==
  \A a, b \in tables["history"] : a.by = b.by => a.task = b.task /\ a.of = b.of

(* A request has written what it has not left.                               *)
Written ==
  \A c \in Clients : At(c, "entries") =>
    /\ IsFiniteSet(RowsBy(req[c].n))
    /\ Cardinality(RowsBy(req[c].n)) = req[c].of - req[c].left

Complete ==
  \A a \in tables["history"] : a.by \in committed => Cardinality(RowsBy(a.by)) = a.of

Log == Ordered /\ Apart /\ Alike /\ Written /\ Complete

LEMMA LogInit == Init => Log
  BY DEF Init, Log, Ordered, Apart, Alike, Written, Complete, At, Tables

(* The row lock keeps others away from the task.                             *)
LEMMA Exclusive ==
  ASSUME Shape, Books, NEW c \in Clients, At(c, "entries"), NEW row \in tables["history"],
         row.by \notin committed, row.task = req[c].task
  PROVE  row.by = req[c].n
<1>1. PICK d \in Clients : At(d, "entries") /\ req[d].n = row.by /\ req[d].task = row.task
  BY DEF Books, Owners, Owned
<1>2. row.task \in Tasks
  BY DEF Shape, TypeOK, Row, Tables
<1>3. lock[row.task] = c /\ lock[row.task] = d
  BY <1>1, <1>2, OwnLock
<1> QED
  BY <1>1, <1>3

LEMMA Mine ==
  ASSUME Shape, Books, NEW c \in Clients, At(c, "entries"), NEW row \in tables["history"],
         row.by = req[c].n
  PROVE  row.by \notin committed /\ row.task = req[c].task /\ row.of = req[c].of
<1>1. row.by \notin committed
  BY DEF Books, Undone, At, Live
<1>2. PICK d \in Clients :
        /\ At(d, "entries") /\ req[d].n = row.by
        /\ req[d].task = row.task /\ req[d].of = row.of
  BY <1>1 DEF Books, Owners, Owned
<1>3. d = c
  BY <1>2 DEF Books, Distinct, At, Live
<1> QED
  BY <1>1, <1>2, <1>3

(* Steps that leave the history as it is.                                    *)
LEMMA LogStill ==
  ASSUME Log, tables'["history"] = tables["history"],
         \A row \in tables["history"] : row.by \in committed' <=> row.by \in committed,
         \A d \in Clients : At(d, "entries")' =>
           \/ /\ At(d, "entries") /\ req'[d].n = req[d].n
              /\ req'[d].of = req[d].of /\ req'[d].left = req[d].left
           \/ /\ req'[d].left = req'[d].of /\ req'[d].of \in Nat
              /\ \A row \in tables["history"] : row.by # req'[d].n
  PROVE  Log'
<1>1. Ordered' /\ Apart' /\ Alike'
  BY DEF Log, Ordered, Apart, Alike, Before
<1>2. ASSUME NEW d \in Clients, At(d, "entries")'
      PROVE  /\ IsFiniteSet(RowsBy(req[d].n)')
             /\ Cardinality(RowsBy(req[d].n)') = req'[d].of - req'[d].left
  <2>1. RowsBy(req[d].n)' = {row \in tables["history"] : row.by = req'[d].n}
    BY DEF RowsBy
  <2>2. CASE /\ At(d, "entries") /\ req'[d].n = req[d].n
             /\ req'[d].of = req[d].of /\ req'[d].left = req[d].left
    <3>1. RowsBy(req[d].n)' = RowsBy(req[d].n)
      BY <2>1, <2>2 DEF RowsBy
    <3> QED
      BY <2>2, <3>1 DEF Log, Written
  <2>3. CASE /\ req'[d].left = req'[d].of /\ req'[d].of \in Nat
             /\ \A row \in tables["history"] : row.by # req'[d].n
    <3>1. RowsBy(req[d].n)' = {}
      BY <2>1, <2>3
    <3>2. req'[d].of - req'[d].left = 0
      BY <2>3
    <3> QED
      BY <3>1, <3>2, FS_EmptySet
  <2> QED
    BY <1>2, <2>2, <2>3
<1>3. Written'
  BY <1>2 DEF Written
<1>4. ASSUME NEW a \in tables["history"], a.by \in committed
      PROVE  Cardinality(RowsBy(a.by)') = a.of
  <2>1. RowsBy(a.by)' = RowsBy(a.by)
    BY DEF RowsBy
  <2> QED
    BY <1>4, <2>1 DEF Log, Complete
<1>5. Complete'
  BY <1>4 DEF Complete, RowsBy
<1> QED
  BY <1>1, <1>3, <1>5 DEF Log

LEMMA LogQuiet ==
  ASSUME Shape, Shape', Books, Log, NEW c \in Clients, NEW x, Quiet(c, x)
  PROVE  Log'
<1>1. /\ req'[c] = x /\ \A d \in Clients : d # c => req'[d] = req[d]
      /\ tables' = tables /\ committed' = committed
  BY DEF Quiet, Shape, TypeOK
<1>2. ASSUME At(c, "entries")'
      PROVE  /\ req'[c].left = req'[c].of /\ req'[c].of \in Nat
             /\ \A row \in tables["history"] : row.by # req'[c].n
  <2>1. x # NULL /\ x \in Request /\ x.left = req[c].left /\ Moves(c, x)
    BY <1>1, <1>2 DEF Quiet, At
  <2>2. req[c].left = req[c].of /\ \A row \in tables["history"] : row.by # req[c].n
    BY DEF Quiet, Shape, Fits, Books, Undone
  <2> QED
    BY <1>1, <2>1, <2>2 DEF Moves, Request
<1> QED
  BY <1>1, <1>2, LogStill DEF At

LEMMA LogDrop ==
  ASSUME Shape, Shape', Books, Log, NEW c \in Clients, Drop(c)
  PROVE  Log'
<1>1. /\ Live(c) /\ req'[c] = NULL /\ \A d \in Clients : d # c => req'[d] = req[d]
      /\ committed' = committed
      /\ tables'["history"] =
           {row \in tables["history"] : row.by = req[c].n => row.by \in committed}
  BY DEF Drop, Abort, Shape, TypeOK, Tables
<1>2. Ordered' /\ Apart' /\ Alike'
  BY <1>1 DEF Log, Ordered, Apart, Alike, Before
<1>3. \A n : n # req[c].n \/ n \in committed =>
         {row \in tables'["history"] : row.by = n} = {row \in tables["history"] : row.by = n}
  BY <1>1
<1>4. ASSUME NEW d \in Clients, At(d, "entries")'
      PROVE  /\ IsFiniteSet(RowsBy(req[d].n)')
             /\ Cardinality(RowsBy(req[d].n)') = req'[d].of - req'[d].left
  <2>1. d # c /\ req'[d] = req[d] /\ At(d, "entries")
    BY <1>1, <1>4 DEF At
  <2>2. req[d].n # req[c].n
    BY <1>1, <2>1 DEF Books, Distinct, At, Live
  <2>3. RowsBy(req[d].n)' = RowsBy(req[d].n)
    BY <1>3, <2>1, <2>2 DEF RowsBy
  <2> QED
    BY <2>1, <2>3 DEF Log, Written
<1>5. Written'
  BY <1>4 DEF Written
<1>6. ASSUME NEW a \in tables'["history"], a.by \in committed
      PROVE  Cardinality({row \in tables'["history"] : row.by = a.by}) = a.of
  BY <1>1, <1>3, <1>6 DEF Log, Complete, RowsBy
<1>7. Complete'
  BY <1>1, <1>6 DEF Complete, RowsBy
<1> QED
  BY <1>2, <1>5, <1>7 DEF Log

LEMMA LogEntry ==
  ASSUME Shape, Shape', Books, Log, NEW c \in Clients, Entry(c)
  PROVE  Log'
<1> DEFINE new == EntryOf(c)
<1>1. /\ new.task = req[c].task /\ new.by = req[c].n /\ new.of = req[c].of
      /\ new.id = nextId["history"] /\ new.at = now
      /\ tables'["history"] = tables["history"] \cup {new}
      /\ committed' = committed
      /\ \A d \in Clients : d # c => req'[d] = req[d]
      /\ req'[c].n = req[c].n /\ req'[c].of = req[c].of /\ req'[c].left = req[c].left - 1
      /\ At(c, "entries") /\ req[c] \in Request /\ new \in Row
  BY EntryFacts DEF At, Live
<1> HIDE DEF new
<1>2. \A row \in tables["history"] : Before(row, new) /\ row.id < new.id
  <2>1. SUFFICES ASSUME NEW row \in tables["history"]
                 PROVE  Before(row, new) /\ row.id < new.id
    OBVIOUS
  <2>2. row.at <= now /\ row.id < nextId["history"]
    BY DEF Books, Behind, Tables
  <2>3. row.at \in Int /\ now \in Int
    BY DEF Shape, TypeOK, Row, Tables
  <2> QED
    BY <1>1, <2>2, <2>3 DEF Before
<1>3. new.by \notin committed
  BY <1>1 DEF Books, Undone, At, Live
<1>4. Ordered'
  BY <1>1, <1>2, <1>3 DEF Log, Ordered, Before
<1>5. Alike'
  BY <1>1, Mine DEF Log, Alike
<1>6. Apart'
  <2>1. SUFFICES ASSUME NEW a \in tables'["history"], NEW b \in tables'["history"],
                        NEW x \in tables'["history"],
                        a.by = b.by, x.task = a.task, x.by # a.by
                 PROVE  Before(x, a) \/ Before(b, x)
    BY DEF Apart, Before
  <2>2. CASE x = new
    BY <1>1, <1>2, <2>1, <2>2
  <2>3. CASE x # new /\ a = new
    BY <1>1, <1>2, <2>1, <2>3
  <2>4. CASE x # new /\ a # new /\ b = new
    <3>1. a \in tables["history"] /\ x \in tables["history"] /\ a.by = req[c].n
      BY <1>1, <2>1, <2>4
    <3>2. a.by \notin committed /\ a.task = req[c].task
      BY <1>1, <3>1, Mine
    <3>3. x.by \in committed
      BY <1>1, <2>1, <3>1, <3>2, Exclusive
    <3> QED
      BY <2>1, <3>1, <3>2, <3>3 DEF Log, Ordered
  <2>5. CASE x # new /\ a # new /\ b # new
    BY <1>1, <2>1, <2>5 DEF Log, Apart
  <2> QED
    BY <2>2, <2>3, <2>4, <2>5
<1>7. \A n : n # req[c].n =>
         {row \in tables'["history"] : row.by = n} = {row \in tables["history"] : row.by = n}
  BY <1>1
<1>8. Written'
  <2>1. SUFFICES ASSUME NEW d \in Clients, At(d, "entries")'
                 PROVE  LET rows == {row \in tables'["history"] : row.by = req'[d].n} IN
                        /\ IsFiniteSet(rows)
                        /\ Cardinality(rows) = req'[d].of - req'[d].left
    BY DEF Written, RowsBy
  <2>2. CASE d = c
    <3>1. {row \in tables'["history"] : row.by = req'[c].n} = RowsBy(req[c].n) \cup {new}
      BY <1>1 DEF RowsBy
    <3>2. new \notin RowsBy(req[c].n)
      BY <1>1, <1>2 DEF RowsBy, Row
    <3>3. /\ IsFiniteSet(RowsBy(req[c].n))
          /\ Cardinality(RowsBy(req[c].n)) = req[c].of - req[c].left
      BY <1>1 DEF Log, Written
    <3>4. /\ IsFiniteSet(RowsBy(req[c].n) \cup {new})
          /\ Cardinality(RowsBy(req[c].n) \cup {new}) = Cardinality(RowsBy(req[c].n)) + 1
      BY <3>2, <3>3, FS_AddElement
    <3>5. req[c].of \in Nat /\ req[c].left \in Nat
      BY <1>1, TrailAssumption DEF Request
    <3>6. req'[c].of = req[c].of /\ req'[c].left = req[c].left - 1
      BY <1>1
    <3>7. Cardinality(RowsBy(req[c].n) \cup {new}) = req'[c].of - req'[c].left
      BY <3>3, <3>4, <3>5, <3>6
    <3> QED
      BY <2>2, <3>1, <3>4, <3>7
  <2>3. CASE d # c
    <3>1. req'[d] = req[d] /\ At(d, "entries")
      BY <1>1, <2>1, <2>3 DEF At
    <3>2. req[d].n # req[c].n
      BY <1>1, <2>3, <3>1 DEF Books, Distinct, At, Live
    <3>3. {row \in tables'["history"] : row.by = req'[d].n} = RowsBy(req[d].n)
      BY <1>7, <3>1, <3>2 DEF RowsBy
    <3> QED
      BY <3>1, <3>3 DEF Log, Written
  <2> QED
    BY <2>2, <2>3
<1>9. ASSUME NEW a \in tables'["history"], a.by \in committed
      PROVE  Cardinality({row \in tables'["history"] : row.by = a.by}) = a.of
  <2>1. a \in tables["history"] /\ a.by # req[c].n
    BY <1>1, <1>3, <1>9
  <2> QED
    BY <1>7, <1>9, <2>1 DEF Log, Complete, RowsBy
<1>10. Complete'
  BY <1>1, <1>9 DEF Complete, RowsBy
<1> QED
  BY <1>4, <1>5, <1>6, <1>8, <1>10 DEF Log

LEMMA LogEnd ==
  ASSUME Shape, Shape', Books, Log, NEW c \in Clients, End(c)
  PROVE  Log'
<1>1. /\ At(c, "entries") /\ req[c] \in Request /\ req[c].left = 0
      /\ req'[c] = NULL /\ \A d \in Clients : d # c => req'[d] = req[d]
      /\ committed' = committed \cup {req[c].n} /\ tables' = tables
  BY LiveRequest DEF End, Ready, Commit, Shape, TypeOK, At, Live
<1>2. Ordered'
  <2>1. SUFFICES ASSUME NEW a \in tables["history"], NEW b \in tables["history"],
                        a.task = b.task, a.by \in committed', b.by \notin committed'
                 PROVE  Before(a, b)
    BY <1>1 DEF Ordered, Before
  <2>2. CASE a.by = req[c].n
    BY <1>1, <2>1, <2>2, Mine, Exclusive
  <2>3. CASE a.by # req[c].n
    BY <1>1, <2>1, <2>3 DEF Log, Ordered
  <2> QED
    BY <2>2, <2>3
<1>3. Apart' /\ Alike'
  BY <1>1 DEF Log, Apart, Alike, Before
<1>4. Written'
  BY <1>1 DEF Log, Written, RowsBy, At
<1>5. ASSUME NEW a \in tables["history"], a.by \in committed'
      PROVE  Cardinality(RowsBy(a.by)) = a.of
  <2>1. CASE a.by = req[c].n
    <3>1. a.of = req[c].of /\ Cardinality(RowsBy(a.by)) = req[c].of - 0
      BY <1>1, <2>1, Mine DEF Log, Written
    <3>2. req[c].of \in Nat
      BY <1>1, TrailAssumption DEF Request
    <3> QED
      BY <3>1, <3>2
  <2>2. CASE a.by # req[c].n
    BY <1>1, <1>5, <2>2 DEF Log, Complete
  <2> QED
    BY <2>1, <2>2
<1>6. Complete'
  BY <1>1, <1>5 DEF Complete, RowsBy
<1> QED
  BY <1>2, <1>3, <1>4, <1>6 DEF Log

LEMMA LogStep ==
  ASSUME Shape, Shape', Books, Log, [Next]_vars
  PROVE  Log'
<1>1. CASE UNCHANGED vars
  BY <1>1, LogStill DEF vars, At
<1>2. ASSUME NEW c \in Clients, Arrive(c)
      PROVE  Log'
  <2>1. /\ req'[c].pc = "check" /\ \A d \in Clients : d # c => req'[d] = req[d]
        /\ UNCHANGED <<tables, committed>>
    BY <1>2 DEF Arrive, database, Shape, TypeOK
  <2> QED
    BY <2>1, LogStill DEF At
<1>3. ASSUME NEW c \in Clients, NEW x, Quiet(c, x)
      PROVE  Log'
  BY <1>3, LogQuiet
<1>4. ASSUME NEW c \in Clients, CommentInsert(c)
      PROVE  Log'
  <2>1. \A row \in tables["history"] : row.by # req[c].n
    BY <1>4, CommentFacts DEF Books, Undone
  <2> QED
    BY <1>4, <2>1, CommentFacts, LogStill DEF At
<1>5. ASSUME NEW c \in Clients, CommentRead(c)
      PROVE  Log'
  <2>1. /\ req'[c] = NULL /\ \A d \in Clients : d # c => req'[d] = req[d]
        /\ UNCHANGED <<tables, committed>>
    BY <1>5 DEF CommentRead, database, Shape, TypeOK
  <2> QED
    BY <2>1, LogStill DEF At
<1>6. CASE Tick
  BY <1>6, LogStill DEF Tick, database, At
<1> QED
  BY <1>1, <1>2, <1>3, <1>4, <1>5, <1>6, Cases, QuietSteps, LogDrop, LogEntry, LogEnd
     DEF Shape

-----------------------------------------------------------------------------
(* What is committed stays, and no entry is committed as it is written.      *)
LEMMA CommittedStays ==
  ASSUME Shape, Books, [Next]_vars
  PROVE  /\ committed \subseteq committed'
         /\ \A k \in Tables : \A row \in tables[k] : row.by \in committed => row \in tables'[k]
         /\ \A row \in tables'["history"] : row.by \in committed' => row \in tables["history"]
<1>1. CASE UNCHANGED vars \/ Tick
  BY <1>1 DEF vars, Tick, database, Tables
<1>2. ASSUME NEW c \in Clients, Arrive(c) \/ CommentRead(c)
      PROVE  UNCHANGED <<tables, committed>>
  BY <1>2 DEF Arrive, CommentRead, database
<1>3. ASSUME NEW c \in Clients, NEW x, Quiet(c, x)
      PROVE  UNCHANGED <<tables, committed>>
  BY <1>3 DEF Quiet
<1>4. ASSUME NEW c \in Clients, End(c)
      PROVE  tables' = tables /\ committed \subseteq committed'
  BY <1>4 DEF End, Commit
<1>5. ASSUME NEW c \in Clients, Drop(c)
      PROVE  /\ committed' = committed
             /\ \A k \in Tables : tables'[k] =
                  {row \in tables[k] : row.by = req[c].n => row.by \in committed}
  BY <1>5 DEF Drop, Abort
<1>6. ASSUME NEW c \in Clients, Entry(c)
      PROVE  /\ committed' = committed
             /\ \A k \in Tables : tables[k] \subseteq tables'[k]
             /\ \A row \in tables'["history"] :
                  row.by \in committed => row \in tables["history"]
  <2>1. EntryOf(c).by \notin committed
    BY <1>6, EntryFacts DEF Books, Undone
  <2> QED
    BY <1>6, <2>1, EntryFacts DEF Tables
<1>7. ASSUME NEW c \in Clients, CommentInsert(c)
      PROVE  /\ committed \subseteq committed'
             /\ \A k \in Tables : tables[k] \subseteq tables'[k]
             /\ tables'["history"] = tables["history"]
  BY <1>7, CommentFacts DEF Tables
<1> QED
  BY <1>1, <1>2, <1>3, <1>4, <1>5, <1>6, <1>7, Cases, QuietSteps DEF Shape, Tables

-----------------------------------------------------------------------------
(* Comments and answers.                                                     *)
After(a, later) == \E w \in later : w.table = "comments" /\ w.by = a.by

Following ==
  \A a, b \in tables["comments"] : After(a, b.after) => Before(a, b)

(* A comment on its way has taken its time and its id after those that were  *)
(* acknowledged when it was sent.                                            *)
Follows(r) ==
  \A a \in tables["comments"] : After(a, r.after) =>
    /\ r.pc \in {"id", "insert"} => a.at <= r.at
    /\ r.pc = "insert" => a.id < r.id

Coming == \A c \in Clients : Live(c) => Follows(req[c])

Spoken ==
  \A c \in Clients : At(c, "read") =>
    \E row \in tables["comments"] : row.task = req[c].task /\ row.by = req[c].n

Listed ==
  \A w \in acked : \E row \in tables[w.table] :
    row.task = w.task /\ row.by = w.by /\ row.by \in committed

Talk == Following /\ Coming /\ Spoken /\ Listed /\ AcknowledgedIsListed

LEMMA TalkInit == Init => Talk
  BY DEF Init, Talk, Following, Coming, Spoken, Listed, AcknowledgedIsListed, At, Live, Tables

LEMMA ListedStays ==
  ASSUME Shape, Books, Listed, [Next]_vars, NEW w \in acked
  PROVE  \E row \in tables'[w.table] :
           row.task = w.task /\ row.by = w.by /\ row.by \in committed'
<1>1. PICK row \in tables[w.table] :
        row.task = w.task /\ row.by = w.by /\ row.by \in committed
  BY DEF Listed
<1>2. w.table \in Tables
  BY DEF Shape, TypeOK, Acknowledgement
<1> QED
  BY <1>1, <1>2, CommittedStays

(* Steps that leave the comments, the answers and what was acknowledged.     *)
LEMMA TalkStill ==
  ASSUME Shape, Books, Talk, [Next]_vars,
         tables'["comments"] = tables["comments"], acked' = acked,
         \A d \in Clients : Live(d)' =>
           \/ req'[d] = req[d]
           \/ req'[d].pc \notin {"id", "insert", "read"}
           \/ Follows(req[d])' /\ req'[d].pc # "read",
         \A d \in Clients : answer'[d] = answer[d] \/ answer'[d] = NULL
  PROVE  Talk'
<1>1. Following'
  BY DEF Talk, Following, Before, After
<1>2. ASSUME NEW d \in Clients, Live(d)'
      PROVE  Follows(req[d])'
  BY <1>2 DEF Talk, Coming, Follows, Live, After
<1>3. Coming'
  BY <1>2 DEF Coming
<1>4. Spoken'
  BY DEF Talk, Spoken, At, Live
<1>5. Listed'
  BY ListedStays DEF Talk, Listed
<1>6. AcknowledgedIsListed'
  BY DEF Talk, AcknowledgedIsListed
<1> QED
  BY <1>1, <1>3, <1>4, <1>5, <1>6 DEF Talk

LEMMA TalkArrive ==
  ASSUME Shape, Books, Talk, [Next]_vars, NEW c \in Clients, Arrive(c)
  PROVE  Talk'
<1>1. /\ req'[c].pc = "check" /\ \A d \in Clients : d # c => req'[d] = req[d]
      /\ UNCHANGED <<tables, acked>>
      /\ answer' = [answer EXCEPT ![c] = NULL]
  BY DEF Arrive, database, Shape, TypeOK
<1>2. \A d \in Clients : answer'[d] = answer[d] \/ answer'[d] = NULL
  BY <1>1 DEF Shape, TypeOK
<1> QED
  BY <1>1, <1>2, TalkStill

LEMMA TalkDrop ==
  ASSUME Shape, Books, Talk, [Next]_vars, NEW c \in Clients, Drop(c)
  PROVE  Talk'
<1>1. /\ req'[c] = NULL /\ \A d \in Clients : d # c => req'[d] = req[d]
      /\ UNCHANGED <<acked, answer>>
      /\ tables'["comments"] =
           {row \in tables["comments"] : row.by = req[c].n => row.by \in committed}
  BY DEF Drop, Abort, Shape, TypeOK, Tables
<1>2. tables'["comments"] = tables["comments"]
  BY <1>1 DEF Books, Owners
<1> QED
  BY <1>1, <1>2, TalkStill DEF Live

LEMMA TalkPass ==
  ASSUME Shape, Books, Talk, [Next]_vars, NEW c \in Clients, Pass(c) \/ Lock(c)
  PROVE  Talk'
<1>1. req[c] \in Request
  BY LiveRequest DEF Shape, Pass, Lock, At, Live
<1>2. PICK pc \in {"lock", "start", "list", "entries"} : req' = [req EXCEPT ![c].pc = pc]
  BY DEF Pass, Lock, Goto
<1>3. req'[c].pc = pc /\ \A d \in Clients : d # c => req'[d] = req[d]
  BY <1>1, <1>2 DEF Shape, TypeOK, Request
<1>4. UNCHANGED <<tables, acked, answer>>
  BY DEF Pass, Lock
<1> QED
  BY <1>3, <1>4, TalkStill

LEMMA TalkEntry ==
  ASSUME Shape, Books, Talk, [Next]_vars, NEW c \in Clients, Entry(c)
  PROVE  Talk'
<1>1. answer' = answer
  BY DEF Entry
<1>2. req'[c].pc \notin {"id", "insert", "read"}
  BY EntryFacts
<1> QED
  BY <1>1, <1>2, EntryFacts, TalkStill

LEMMA TalkCommentStart ==
  ASSUME Shape, Books, Talk, [Next]_vars, NEW c \in Clients, CommentStart(c)
  PROVE  Talk'
<1>1. req[c] \in Request
  BY LiveRequest DEF Shape, CommentStart, At, Live
<1>2. /\ req'[c] = [req[c] EXCEPT !.pc = "id", !.at = now]
      /\ \A d \in Clients : d # c => req'[d] = req[d]
      /\ UNCHANGED <<tables, acked, answer>>
  BY DEF CommentStart, database, Shape, TypeOK
<1>3. req'[c].pc = "id" /\ req'[c].at = now
  BY <1>1, <1>2 DEF Request
<1>4. \A a \in tables["comments"] : a.at <= now
  BY DEF Books, Behind, Tables
<1>5. Follows(req[c])'
  BY <1>2, <1>3, <1>4 DEF Follows
<1> QED
  BY <1>2, <1>3, <1>5, TalkStill

LEMMA TalkCommentId ==
  ASSUME Shape, Books, Talk, [Next]_vars, NEW c \in Clients, CommentId(c)
  PROVE  Talk'
<1>1. req[c] \in Request /\ Live(c) /\ req[c].pc = "id"
  BY LiveRequest DEF Shape, CommentId, At, Live
<1>2. /\ req'[c] = [req[c] EXCEPT !.pc = "insert", !.id = nextId["comments"]]
      /\ \A d \in Clients : d # c => req'[d] = req[d]
      /\ UNCHANGED <<tables, acked, answer>>
  BY DEF CommentId, Shape, TypeOK
<1>3. /\ req'[c].pc = "insert" /\ req'[c].id = nextId["comments"]
      /\ req'[c].at = req[c].at /\ req'[c].after = req[c].after
  BY <1>1, <1>2 DEF Request
<1>4. \A a \in tables["comments"] : a.id < nextId["comments"]
  BY DEF Books, Behind, Tables
<1>5. \A a \in tables["comments"] : After(a, req[c].after) => a.at <= req[c].at
  BY <1>1 DEF Talk, Coming, Follows
<1>6. Follows(req[c])'
  BY <1>2, <1>3, <1>4, <1>5 DEF Follows, After
<1> QED
  BY <1>2, <1>3, <1>6, TalkStill

LEMMA TalkCommentInsert ==
  ASSUME Shape, Books, Talk, [Next]_vars, NEW c \in Clients, CommentInsert(c)
  PROVE  Talk'
<1> DEFINE new == CommentOf(c)
<1>1. /\ req[c] \in Request /\ Live(c) /\ req[c].pc = "insert"
      /\ new.task = req[c].task /\ new.id = req[c].id /\ new.at = req[c].at
      /\ new.by = req[c].n /\ new.after = req[c].after
      /\ tables'["comments"] = tables["comments"] \cup {new}
      /\ req'[c].pc = "read" /\ req'[c].n = req[c].n /\ req'[c].task = req[c].task
      /\ \A d \in Clients : d # c => req'[d] = req[d]
      /\ acked' = acked
  BY CommentFacts
<1>2. answer' = answer
  BY DEF CommentInsert
<1> HIDE DEF new
<1>3. \A later : later \subseteq acked => ~After(new, later)
  BY <1>1 DEF Books, Undone, After
<1>4. Following'
  <2>1. SUFFICES ASSUME NEW a \in tables'["comments"], NEW b \in tables'["comments"],
                        After(a, b.after)
                 PROVE  Before(a, b)
    BY DEF Following, Before, After
  <2>2. b.after \subseteq acked
    BY <1>1 DEF Books, Behind, Shape, Fits, Tables
  <2>3. a \in tables["comments"]
    BY <1>1, <1>3, <2>1, <2>2
  <2>4. CASE b = new
    <3>1. a.at <= new.at /\ a.id < new.id
      BY <1>1, <2>1, <2>3, <2>4 DEF Talk, Coming, Follows
    <3>2. a.at \in Int /\ new.at \in Int
      BY <1>1, <2>3 DEF Shape, TypeOK, Row, Request, Tables
    <3> QED
      BY <2>4, <3>1, <3>2 DEF Before
  <2>5. CASE b # new
    BY <1>1, <2>1, <2>3, <2>5 DEF Talk, Following
  <2> QED
    BY <2>4, <2>5
<1>5. ASSUME NEW d \in Clients, Live(d)'
      PROVE  Follows(req[d])'
  <2>1. CASE d = c
    BY <1>1, <2>1 DEF Follows
  <2>2. CASE d # c
    <3>1. req'[d] = req[d] /\ Live(d) /\ req[d].after \subseteq acked
      BY <1>1, <1>5, <2>2 DEF Live, Shape, Fits
    <3>2. Follows(req[d])
      BY <3>1 DEF Talk, Coming
    <3>3. ~After(new, req[d].after)
      BY <1>3, <3>1
    <3> QED
      BY <1>1, <3>1, <3>2, <3>3 DEF Follows, After
  <2> QED
    BY <2>1, <2>2
<1>6. Coming'
  BY <1>5 DEF Coming
<1>7. Spoken'
  BY <1>1 DEF Talk, Spoken, At
<1>8. Listed'
  BY <1>1, ListedStays DEF Talk, Listed
<1>9. AcknowledgedIsListed'
  BY <1>2 DEF Talk, AcknowledgedIsListed
<1> QED
  BY <1>4, <1>6, <1>7, <1>8, <1>9 DEF Talk

(* The last step of a write, that may acknowledge it.                        *)
LEMMA TalkAck ==
  ASSUME Shape, Books, Talk, [Next]_vars, NEW c \in Clients,
         req' = [req EXCEPT ![c] = NULL], tables' = tables, answer' = answer,
         Ack(c) \/ acked' = acked, TableOf(req[c].op) \in Tables,
         \E row \in tables[TableOf(req[c].op)] :
           row.task = req[c].task /\ row.by = req[c].n /\ row.by \in committed'
  PROVE  Talk'
<1>1. req'[c] = NULL /\ \A d \in Clients : d # c => req'[d] = req[d]
  BY DEF Shape, TypeOK
<1>2. Following'
  BY DEF Talk, Following, Before, After
<1>3. Coming'
  BY <1>1 DEF Talk, Coming, Follows, Live, After
<1>4. Spoken'
  BY <1>1 DEF Talk, Spoken, At
<1>5. ASSUME NEW w \in acked'
      PROVE  \E row \in tables'[w.table] :
               row.task = w.task /\ row.by = w.by /\ row.by \in committed'
  <2>1. CASE w \in acked
    BY <2>1, ListedStays DEF Talk
  <2>2. CASE w = [table |-> TableOf(req[c].op), task |-> req[c].task, by |-> req[c].n]
    BY <2>2
  <2> QED
    BY <1>5, <2>1, <2>2 DEF Ack
<1>6. Listed'
  BY <1>5 DEF Listed
<1>7. AcknowledgedIsListed'
  BY DEF Talk, AcknowledgedIsListed
<1> QED
  BY <1>2, <1>3, <1>4, <1>6, <1>7 DEF Talk

LEMMA TalkEnd ==
  ASSUME Shape, Books, Log, Talk, [Next]_vars, NEW c \in Clients, End(c)
  PROVE  Talk'
<1>1. /\ At(c, "entries") /\ req[c] \in Request /\ req[c].left = 0
      /\ req[c].op \in {"create", "update"}
  BY LiveRequest DEF End, Ready, Shape, Fits, At, Live
<1>2. /\ req' = [req EXCEPT ![c] = NULL] /\ tables' = tables /\ answer' = answer
      /\ committed' = committed \cup {req[c].n}
      /\ Ack(c) \/ acked' = acked
  BY DEF End, Commit
<1>3. TableOf(req[c].op) = "history"
  BY <1>1 DEF TableOf
<1>4. PICK row \in tables["history"] : row.by = req[c].n
  <2>1. Cardinality(RowsBy(req[c].n)) = req[c].of - 0
    BY <1>1 DEF Log, Written
  <2>2. req[c].of \in Nat \ {0}
    BY <1>1, TrailAssumption DEF Request
  <2>3. RowsBy(req[c].n) # {}
    BY <2>1, <2>2, FS_EmptySet
  <2> QED
    BY <2>3 DEF RowsBy
<1>5. row.task = req[c].task
  BY <1>1, <1>4, Mine
<1> QED
  BY <1>2, <1>3, <1>4, <1>5, TalkAck DEF Tables

LEMMA TalkCommentRead ==
  ASSUME Shape, Books, Talk, [Next]_vars, NEW c \in Clients, CommentRead(c)
  PROVE  Talk'
<1>1. At(c, "read") /\ req[c].op = "comment"
  BY DEF CommentRead, Shape, Fits, At, Live, Commenting
<1>2. /\ req' = [req EXCEPT ![c] = NULL] /\ tables' = tables /\ answer' = answer
      /\ committed' = committed /\ Ack(c)
  BY DEF CommentRead, database
<1>3. PICK row \in tables["comments"] : row.task = req[c].task /\ row.by = req[c].n
  BY <1>1 DEF Talk, Spoken
<1>4. row.by \in committed
  BY DEF Books, Owners
<1>5. TableOf(req[c].op) = "comments"
  BY <1>1 DEF TableOf
<1> QED
  BY <1>2, <1>3, <1>4, <1>5, TalkAck DEF Tables

LEMMA TalkList ==
  ASSUME Shape, Books, Talk, [Next]_vars, NEW c \in Clients, List(c)
  PROVE  Talk'
<1>1. req[c] \in Request /\ Live(c)
  BY LiveRequest DEF Shape, List, At, Live
<1>2. /\ req'[c] = NULL /\ \A d \in Clients : d # c => req'[d] = req[d]
      /\ UNCHANGED <<tables, acked, committed>>
  BY DEF List, database, Shape, TypeOK
<1>3. /\ answer'[c] = [rows |-> Visible(TableOf(req[c].op), req[c].task), q |-> req[c]]
      /\ \A d \in Clients : d # c => answer'[d] = answer[d]
  BY DEF List, Shape, TypeOK
<1>4. ASSUME NEW w \in req[c].after, w.table = TableOf(req[c].op), w.task = req[c].task
      PROVE  \E row \in Visible(TableOf(req[c].op), req[c].task) : row.by = w.by
  <2>1. w \in acked
    BY <1>1 DEF Shape, Fits
  <2>2. PICK row \in tables[w.table] :
          row.task = w.task /\ row.by = w.by /\ row.by \in committed
    BY <2>1 DEF Talk, Listed
  <2> QED
    BY <1>4, <2>2 DEF Visible
<1>5. AcknowledgedIsListed'
  <2>1. SUFFICES ASSUME NEW d \in Clients, answer'[d] # NULL, NEW w \in answer'[d].q.after,
                        w.table = TableOf(answer'[d].q.op), w.task = answer'[d].q.task
                 PROVE  \E row \in answer'[d].rows : row.by = w.by
    BY DEF AcknowledgedIsListed, TableOf
  <2>2. CASE d = c
    <3>1. /\ answer'[d].q = req[c]
          /\ answer'[d].rows = Visible(TableOf(req[c].op), req[c].task)
      BY <1>3, <2>2
    <3> QED
      BY <1>4, <2>1, <3>1
  <2>3. CASE d # c
    BY <1>3, <2>1, <2>3 DEF Talk, AcknowledgedIsListed
  <2> QED
    BY <2>2, <2>3
<1>6. Following'
  BY <1>2 DEF Talk, Following, Before, After
<1>7. Coming'
  BY <1>2 DEF Talk, Coming, Follows, Live, After
<1>8. Spoken'
  BY <1>2 DEF Talk, Spoken, At
<1>9. Listed'
  BY <1>2, ListedStays DEF Talk, Listed
<1> QED
  BY <1>5, <1>6, <1>7, <1>8, <1>9 DEF Talk

LEMMA TalkStep ==
  ASSUME Shape, Books, Log, Talk, [Next]_vars
  PROVE  Talk'
<1>1. CASE UNCHANGED vars
  BY <1>1, TalkStill DEF vars
<1>2. CASE Tick
  BY <1>2, TalkStill DEF Tick, database
<1> QED
  BY <1>1, <1>2, Cases, TalkArrive, TalkDrop, TalkPass, TalkEntry, TalkEnd, TalkCommentStart,
     TalkCommentId, TalkCommentInsert, TalkCommentRead, TalkList
     DEF Shape

-----------------------------------------------------------------------------
(* The theorems.                                                             *)
IInv == Shape /\ Books /\ Log /\ Talk

(* The four layers together are inductive.                                   *)
THEOREM Invariance == Spec => []IInv
<1>1. Init => IInv
  BY ShapeInit, BooksInit, LogInit, TalkInit DEF IInv
<1>2. IInv /\ [Next]_vars => IInv'
  BY ShapeStep, BooksStep, LogStep, TalkStep DEF IInv
<1> QED
  BY <1>1, <1>2, PTL DEF Spec

(* The variables of the trail keep their shape, and row locks are held by    *)
(* the transactions that are at their entries (UpdateTask and CreateTask).   *)
THEOREM TypeCorrect == Spec => []TypeOK
<1>1. IInv => TypeOK
  BY DEF IInv, Shape
<1> QED
  BY <1>1, Invariance, PTL

(* The history of a task only grows, and only at its end, as GetHistory      *)
(* lists it.                                                                 *)
THEOREM HistoryGrowsAtItsEnd == Spec => HistoryIsALog
<1>1. ASSUME IInv, [Next]_vars
      PROVE  [\A t \in Tasks :
               /\ Visible("history", t) \subseteq Visible("history", t)'
               /\ \A old \in Visible("history", t) :
                    \A new \in Visible("history", t)' \ Visible("history", t) :
                      Before(old, new)]_vars
  <2>1. ASSUME NEW t \in Tasks, NEW old \in Visible("history", t)
        PROVE  old \in Visible("history", t)'
    BY <1>1, CommittedStays DEF IInv, Visible, Tables
  <2>2. ASSUME NEW t \in Tasks, NEW old \in Visible("history", t),
               NEW new \in Visible("history", t)' \ Visible("history", t)
        PROVE  Before(old, new)
    <3>1. new \in tables["history"] /\ new.task = t /\ new.by \notin committed
      BY <1>1, <2>2, CommittedStays DEF IInv, Visible
    <3>2. old \in tables["history"] /\ old.task = t /\ old.by \in committed
      BY <2>2 DEF Visible
    <3> QED
      BY <1>1, <3>1, <3>2 DEF IInv, Log, Ordered
  <2> QED
    BY <2>1, <2>2
<1> QED
  BY <1>1, Invariance, PTL DEF Spec, HistoryIsALog

(* The entries of an update stand together in the history, all of them.      *)
THEOREM GroupsStayWhole == Spec => []GroupsAreWhole
<1>1. ASSUME IInv
      PROVE  GroupsAreWhole
  <2>1. SUFFICES ASSUME NEW t \in Tasks, NEW a \in Visible("history", t)
                 PROVE  /\ Cardinality({b \in Visible("history", t) : b.by = a.by}) = a.of
                        /\ \A b \in Visible("history", t), x \in Visible("history", t) :
                             a.by = b.by /\ x.by # a.by => Before(x, a) \/ Before(b, x)
    BY DEF GroupsAreWhole
  <2>2. a \in tables["history"] /\ a.task = t /\ a.by \in committed
    BY DEF Visible
  <2>3. {b \in Visible("history", t) : b.by = a.by} = RowsBy(a.by)
    BY <1>1, <2>2 DEF IInv, Log, Alike, RowsBy, Visible
  <2>4. Cardinality(RowsBy(a.by)) = a.of
    BY <1>1, <2>2 DEF IInv, Log, Complete
  <2>5. \A b \in Visible("history", t), x \in Visible("history", t) :
          a.by = b.by /\ x.by # a.by => Before(x, a) \/ Before(b, x)
    BY <1>1, <2>2 DEF IInv, Log, Apart, Visible
  <2> QED
    BY <2>3, <2>4, <2>5
<1> QED
  BY <1>1, Invariance, PTL

(* A comment is listed after those that were acknowledged before it was sent *)
(* (AddComment, ListComments).                                               *)
THEOREM CommentsFollow == Spec => []CommentsInOrder
<1>1. IInv => CommentsInOrder
  BY DEF IInv, Talk, Following, After, CommentsInOrder, Visible
<1> QED
  BY <1>1, Invariance, PTL

(* A list has everything that was acknowledged before it was asked for.      *)
THEOREM ListsAreComplete == Spec => []AcknowledgedIsListed
<1>1. IInv => AcknowledgedIsListed
  BY DEF IInv, Talk
<1> QED
  BY <1>1, Invariance, PTL
=============================================================================
