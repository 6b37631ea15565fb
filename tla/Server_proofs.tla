--------------------------- MODULE Server_proofs ---------------------------
(* Proofs about Server, for any number of slots and connections and any of   *)
(* the routes. The inductive invariant has three layers:                     *)
(*   Shape    types; a request stands at a step of its route's script;       *)
(*   Held     who holds a connection for a transaction, one for a statement, *)
(*            and the row lock, told by the step a request is at;            *)
(*   Phases   what is open, and what harm is possible, told by where run()   *)
(*            stands.                                                        *)
(* From these follows what run() returns, and that requests do not wait for  *)
(* each other in a circle (NoCircularWait).                                  *)
EXTENDS Server, FiniteSetTheorems, TLAPS

Kinds == {"stmt", "insert", "begin", "tx", "write", "end", "invalidate", "cache"}

(* The steps before which the transaction of the request has begun.          *)
Inside == {"tx", "write", "end"}

(* What the proofs use of the scripts: an "end" follows every "begin", and   *)
(* what is between them is inside the transaction, and nothing else is.      *)
Scripted(s) ==
  /\ Len(s) \in 1..6
  /\ s[1] \notin Inside
  /\ \A i \in 1..Len(s) :
       /\ s[i] \in Kinds
       /\ i < Len(s) => /\ i + 1 \in 1..Len(s)
                        /\ s[i] \in {"begin", "tx", "write"} <=> s[i + 1] \in Inside
       /\ i = Len(s) => s[i] \notin {"begin", "tx", "write"}

LEMMA ScriptsAreScripted == \A route \in DOMAIN Script : Scripted(Script[route])
<1>1. Scripted(Script["register"]) /\ Scripted(Script["login"])
  BY DEF Script, Scripted, Kinds, Inside
<1>2. Scripted(Script["create_team"])
  BY DEF Script, Scripted, Kinds, Inside
<1>3. Scripted(Script["list_teams"]) /\ Scripted(Script["invite"])
  BY DEF Script, Scripted, Kinds, Inside
<1>4. Scripted(Script["create_task"])
  BY DEF Script, Scripted, Kinds, Inside
<1>5. Scripted(Script["update_task"])
  BY DEF Script, Scripted, Kinds, Inside
<1>6. Scripted(Script["list_tasks"])
  BY DEF Script, Scripted, Kinds, Inside
<1>7. Scripted(Script["history"]) /\ Scripted(Script["comments"])
  BY DEF Script, Scripted, Kinds, Inside
<1>8. Scripted(Script["add_comment"])
  BY DEF Script, Scripted, Kinds, Inside
<1>9. Scripted(Script["analytics"])
  BY DEF Script, Scripted, Kinds, Inside
<1> QED
  BY <1>1, <1>2, <1>3, <1>4, <1>5, <1>6, <1>7, <1>8, <1>9 DEF Script

Request == [route : Routes, at : 1..6]

(* A request is within its script.                                           *)
Within == \A r \in Slots : Running(r) => work[r].at <= Len(Script[work[r].route])

Shape == TypeOK /\ Within

LEMMA ShapeInit == Init => Shape
<1> SUFFICES ASSUME Init PROVE Shape
  OBVIOUS
<1>1. budget \in 0..MaxRequests
  BY ServerAssumption DEF Init
<1>2. work \in [Slots -> Request \cup {NULL}]
  BY DEF Init
<1>3. TypeOK
  BY <1>1, <1>2 DEF Init, TypeOK, Request
<1>4. Within
  BY DEF Init, Within, Running
<1> QED
  BY <1>3, <1>4 DEF Shape

(* Where a request under way stands in the script of its route.              *)
LEMMA StepIsScripted ==
  ASSUME Shape, NEW r \in Slots, Running(r)
  PROVE  /\ work[r] \in Request
         /\ Scripted(Script[work[r].route])
         /\ work[r].at \in 1..Len(Script[work[r].route])
         /\ Step(r) = Script[work[r].route][work[r].at]
         /\ Step(r) \in Kinds
<1>1. work[r] \in Request
  BY DEF Shape, TypeOK, Running, Request
<1>2. Scripted(Script[work[r].route])
  BY <1>1, ServerAssumption, ScriptsAreScripted DEF Request
<1>3. work[r].at \in 1..Len(Script[work[r].route])
  BY <1>1, <1>2 DEF Shape, Within, Request, Scripted
<1> QED
  BY <1>1, <1>2, <1>3 DEF Step, Scripted

(* What Advance does: a request ends outside its transaction, or goes on to  *)
(* a step that is inside exactly when this one is before the transaction's   *)
(* end.                                                                      *)
LEMMA AdvanceGoesOn ==
  ASSUME Shape, NEW r \in Slots, Running(r), Advance(r)
  PROVE  /\ work' \in [Slots -> Request \cup {NULL}]
         /\ Within'
         /\ \A q \in Slots \ {r} : work'[q] = work[q]
         /\ \/ ~Running(r)' /\ Step(r) \notin {"begin", "tx", "write"}
            \/ /\ Running(r)'
               /\ Step(r) \in {"begin", "tx", "write"} <=> Step(r)' \in Inside
<1> DEFINE s == Script[work[r].route]
           n == work[r].at
<1>1. /\ work[r] \in Request /\ Scripted(s) /\ n \in 1..Len(s) /\ Step(r) = s[n]
      /\ Len(s) \in 1..6
  BY StepIsScripted DEF Scripted
<1>2. work \in [Slots -> Request \cup {NULL}]
  BY DEF Shape, TypeOK, Request
<1>3. CASE n = Len(s)
  <2>1. work' = [work EXCEPT ![r] = NULL]
    BY <1>3 DEF Advance, Answer
  <2>2. Step(r) \notin {"begin", "tx", "write"}
    BY <1>1, <1>3 DEF Scripted
  <2>3. Within'
    BY <1>2, <2>1 DEF Shape, Within, Running
  <2> QED
    BY <1>2, <2>1, <2>2, <2>3 DEF Running
<1>4. CASE n # Len(s)
  <2>1. work' = [work EXCEPT ![r] = [work[r] EXCEPT !.at = n + 1]]
    BY <1>4 DEF Advance
  <2>2. n + 1 \in 1..6 /\ n + 1 <= Len(s)
    <3>1. \A m \in 1..6 : \A i \in 1..m : i # m => i + 1 \in 1..6 /\ i + 1 <= m
      OBVIOUS
    <3> HIDE DEF s, n
    <3> QED
      BY <1>1, <1>4, <3>1
  <2>3. /\ work'[r] \in Request
        /\ work'[r].route = work[r].route /\ work'[r].at = n + 1
    BY <1>1, <1>2, <2>1, <2>2 DEF Request
  <2>4. work' \in [Slots -> Request \cup {NULL}]
    BY <1>2, <2>1, <2>3
  <2>5. \A q \in Slots \ {r} : work'[q] = work[q]
    BY <1>2, <2>1
  <2>6. Within'
    <3>1. work'[r].at <= Len(Script[work'[r].route])
      BY <2>2, <2>3
    <3> QED
      BY <2>5, <3>1 DEF Shape, Within, Running
  <2>7. Running(r)'
    BY <2>3, ServerAssumption DEF Running, Request
  <2>8. Step(r)' = s[n + 1]
    BY <2>3 DEF Step
  <2>9. s[n] \in {"begin", "tx", "write"} <=> s[n + 1] \in Inside
    BY <1>1, <1>4, <2>2 DEF Scripted
  <2> QED
    BY <1>1, <2>4, <2>5, <2>6, <2>7, <2>8, <2>9
<1> QED
  BY <1>3, <1>4

(* Answer ends a request.                                                    *)
LEMMA AnswerEnds ==
  ASSUME Shape, NEW r \in Slots, Answer(r)
  PROVE  /\ work' \in [Slots -> Request \cup {NULL}]
         /\ Within'
         /\ \A q \in Slots \ {r} : work'[q] = work[q]
         /\ ~Running(r)'
  BY DEF Shape, TypeOK, Within, Running, Request, Answer

LEMMA ArriveShape ==
  ASSUME Shape, NEW r \in Slots, Arrive(r) PROVE Shape'
<1>1. PICK route \in Routes : work' = [work EXCEPT ![r] = [route |-> route, at |-> 1]]
  BY DEF Arrive
<1>2. [route |-> route, at |-> 1] \in Request /\ 1 <= Len(Script[route])
  <2>1. Len(Script[route]) \in 1..6
    BY ScriptsAreScripted, ServerAssumption DEF Scripted
  <2>2. \A n \in 1..6 : 1 <= n
    OBVIOUS
  <2> QED
    BY <2>1, <2>2 DEF Request
<1>3. work' \in [Slots -> Request \cup {NULL}]
  BY <1>1, <1>2 DEF Shape, TypeOK, Request
<1>4. Within'
  <2>1. work'[r].at <= Len(Script[work'[r].route])
    <3>1. work'[r] = [route |-> route, at |-> 1]
      BY <1>1 DEF Shape, TypeOK
    <3> QED
      BY <1>2, <3>1
  <2>2. \A q \in Slots \ {r} : work'[q] = work[q]
    BY <1>1 DEF Shape, TypeOK
  <2> QED
    BY <2>1, <2>2 DEF Shape, Within, Running
<1>5. budget' \in 0..MaxRequests
  BY ServerAssumption DEF Arrive, Shape, TypeOK
<1>6. TypeOK'
  BY <1>3, <1>5 DEF Arrive, Shape, TypeOK, Request, process
<1> QED
  BY <1>4, <1>6 DEF Shape

LEMMA AcquireShape ==
  ASSUME Shape, NEW r \in Slots, Acquire(r) PROVE Shape'
<1>1. conn' \subseteq Slots \X {"tx", "stmt"}
  BY DEF Acquire, Connection, Shape, TypeOK
<1> QED
  BY <1>1 DEF Acquire, Shape, TypeOK, Within, Running, process

LEMMA RefuseShape ==
  ASSUME Shape, NEW r \in Slots, Refuse(r) PROVE Shape'
<1>1. conn' \subseteq Slots \X {"tx", "stmt"}
  BY DEF Refuse, Kept, Shape, TypeOK
<1>2. work' \in [Slots -> Request \cup {NULL}] /\ Within'
  BY AnswerEnds DEF Refuse
<1> QED
  BY <1>1, <1>2 DEF Refuse, Shape, TypeOK, Request, process

LEMMA ExecuteShape ==
  ASSUME Shape, NEW r \in Slots, Execute(r) PROVE Shape'
<1>1. conn' \subseteq Slots \X {"tx", "stmt"}
  BY DEF Execute, Shape, TypeOK
<1>2. work' \in [Slots -> Request \cup {NULL}] /\ Within'
  BY AdvanceGoesOn DEF Execute
<1>3. lock' \in Slots \cup {NULL}
  BY DEF Execute, Shape, TypeOK
<1>4. harm' \subseteq {"refused", "stale", "cut"}
  BY DEF Execute, Shape, TypeOK
<1>5. UNCHANGED <<main, code, server, signalled, db, redis, hung, budget>>
  BY DEF Execute, process
<1> QED
  BY <1>1, <1>2, <1>3, <1>4, <1>5 DEF Shape, TypeOK, Request

LEMMA FailShape ==
  ASSUME Shape, NEW r \in Slots, Fail(r) PROVE Shape'
<1>1. conn' \subseteq Slots \X {"tx", "stmt"}
  BY DEF Fail, Kept, Shape, TypeOK
<1>2. work' \in [Slots -> Request \cup {NULL}] /\ Within'
  BY AnswerEnds DEF Fail
<1>3. lock' \in Slots \cup {NULL}
  BY DEF Fail, Shape, TypeOK
<1> QED
  BY <1>1, <1>2, <1>3 DEF Fail, Shape, TypeOK, Request, process

LEMMA HangShape ==
  ASSUME Shape, NEW r \in Slots, Hang(r) PROVE Shape'
  BY DEF Hang, Shape, TypeOK, Within, Running, process

(* A step of run, of the listener or of the host that leaves the requests    *)
(* alone.                                                                    *)
LEMMA ProcessShape ==
  ASSUME Shape,
         \/ LoadConfig \/ ConnectDB \/ PingRedis \/ Select \/ Drained \/ Deadline
         \/ CloseRedis \/ CloseDB \/ ListenFails \/ Signal
  PROVE  Shape'
<1> USE ServerAssumption
       DEF Shape, TypeOK, Within, Running, requests, Goto, GiveUp
<1>1. CASE LoadConfig
  BY <1>1 DEF LoadConfig
<1>2. CASE ConnectDB
  BY <1>2 DEF ConnectDB
<1>3. CASE PingRedis
  BY <1>3 DEF PingRedis
<1>4. CASE Select
  BY <1>4 DEF Select
<1>5. CASE Drained
  BY <1>5 DEF Drained
<1>6. CASE Deadline
  BY <1>6 DEF Deadline
<1>7. CASE CloseRedis
  BY <1>7 DEF CloseRedis
<1>8. CASE CloseDB
  BY <1>8 DEF CloseDB
<1>9. CASE ListenFails
  BY <1>9 DEF ListenFails
<1>10. CASE Signal
  BY <1>10 DEF Signal
<1> QED
  BY <1>1, <1>2, <1>3, <1>4, <1>5, <1>6, <1>7, <1>8, <1>9, <1>10

LEMMA DieShape ==
  ASSUME Shape, Die, code' \in {"success", "fail", "killed"} PROVE Shape'
<1>1. work' \in [Slots -> Request \cup {NULL}] /\ Within'
  BY DEF Die, Within, Running
<1>2. harm' \subseteq {"refused", "stale", "cut"}
  BY DEF Die, Shape, TypeOK
<1> QED
  BY <1>1, <1>2, ServerAssumption DEF Die, Shape, TypeOK, Request

LEMMA ShapeStep == Shape /\ [Next]_vars => Shape'
<1> SUFFICES ASSUME Shape, [Next]_vars PROVE Shape'
  OBVIOUS
<1>1. CASE \E r \in Slots : Arrive(r) \/ Progress(r) \/ Fail(r) \/ Hang(r)
  BY <1>1, ArriveShape, AcquireShape, RefuseShape, ExecuteShape, FailShape, HangShape
     DEF Progress
<1>2. CASE MainStep \/ ListenFails \/ Signal
  <2>1. CASE Exit
    BY <2>1, DieShape DEF Exit, Shape, TypeOK
  <2> QED
    BY <1>2, <2>1, ProcessShape DEF MainStep
<1>3. CASE Kill
  BY <1>3, DieShape DEF Kill
<1>4. CASE UNCHANGED vars
  BY <1>4 DEF vars, Shape, TypeOK, Within, Running
<1> QED
  BY <1>1, <1>2, <1>3, <1>4 DEF Next

(* A connection for a transaction is held from "begin" until the end, one    *)
(* for a statement at that statement; the row lock inside a transaction.     *)
Held ==
  /\ \A r \in Slots :
       /\ <<r, "tx">> \in conn => Running(r) /\ Step(r) \in Inside \cup {"begin"}
       /\ Running(r) /\ Step(r) \in Inside => <<r, "tx">> \in conn
       /\ <<r, "stmt">> \in conn => Running(r) /\ Step(r) \in {"stmt", "insert"}
  /\ lock # NULL => <<lock, "tx">> \in conn

LEMMA HeldInit == Init => Held
  BY DEF Init, Held, Running

(* Slots other than r keep what they hold.                                   *)
LEMMA OthersHold ==
  ASSUME Held, NEW r \in Slots,
         \A q \in Slots \ {r} : work'[q] = work[q],
         \A q \in Slots \ {r} : \A use \in {"tx", "stmt"} :
           <<q, use>> \in conn' <=> <<q, use>> \in conn,
         <<r, "tx">> \in conn' => Running(r)' /\ Step(r)' \in Inside \cup {"begin"},
         Running(r)' /\ Step(r)' \in Inside => <<r, "tx">> \in conn',
         <<r, "stmt">> \in conn' => Running(r)' /\ Step(r)' \in {"stmt", "insert"},
         lock' # NULL => <<lock', "tx">> \in conn'
  PROVE  Held'
<1>1. \A q \in Slots \ {r} : (Running(q)' <=> Running(q)) /\ (Step(q)' = Step(q))
  BY DEF Running, Step
<1> QED
  BY <1>1 DEF Held

LEMMA ArriveHeld ==
  ASSUME Shape, Held, NEW r \in Slots, Arrive(r) PROVE Held'
<1>1. PICK route \in Routes : work' = [work EXCEPT ![r] = [route |-> route, at |-> 1]]
  BY DEF Arrive
<1>2. \A q \in Slots \ {r} : work'[q] = work[q]
  BY <1>1 DEF Shape, TypeOK
<1>3. Step(r)' \notin Inside
  BY <1>1, ScriptsAreScripted, ServerAssumption DEF Shape, TypeOK, Step, Scripted
<1>4. <<r, "tx">> \notin conn /\ <<r, "stmt">> \notin conn
  BY DEF Arrive, Held
<1> QED
  BY <1>2, <1>3, <1>4, OthersHold DEF Arrive, Held

LEMMA AcquireHeld ==
  ASSUME Shape, Held, NEW r \in Slots, Acquire(r) PROVE Held'
<1>1. Step(r) \in {"stmt", "insert", "begin"} /\ Running(r)
  BY DEF Acquire, Waiting, NeedsConnection
<1>2. Running(r)' /\ Step(r)' = Step(r)
  BY <1>1 DEF Acquire, Running, Step
<1>3. conn' = conn \cup {<<r, IF Step(r) = "begin" THEN "tx" ELSE "stmt">>}
  BY DEF Acquire, Connection
<1>4. work' = work /\ lock' = lock
  BY DEF Acquire
<1> QED
  BY <1>1, <1>2, <1>3, <1>4, OthersHold DEF Held, Inside

(* A request that ends without its transaction's end gives all back.         *)
LEMMA EndedHeld ==
  ASSUME Shape, Held, NEW r \in Slots, Answer(r), conn' = Kept(r),
         lock' # NULL => lock' = lock /\ lock # r
  PROVE  Held'
<1>1. \A q \in Slots \ {r} : work'[q] = work[q]
  BY AnswerEnds
<1>2. ~Running(r)'
  BY AnswerEnds
<1>3. \A q \in Slots, use \in {"tx", "stmt"} :
        <<q, use>> \in conn' <=> <<q, use>> \in conn /\ q # r
  BY DEF Kept
<1>4. lock' # NULL => <<lock', "tx">> \in conn'
  BY <1>3 DEF Held, Shape, TypeOK
<1> QED
  BY <1>1, <1>2, <1>3, <1>4, OthersHold

LEMMA RefuseHeld ==
  ASSUME Shape, Held, NEW r \in Slots, Refuse(r) PROVE Held'
<1>1. lock # r
  BY ServerAssumption DEF Refuse, Waiting, NeedsConnection, Connection, Held, Inside
<1> QED
  BY <1>1, EndedHeld DEF Refuse

LEMMA FailHeld ==
  ASSUME Shape, Held, NEW r \in Slots, Fail(r) PROVE Held'
  BY EndedHeld DEF Fail

(* Statements give their connection back, and the end of a transaction its   *)
(* connection and the lock.                                                  *)
LEMMA ExecuteHeld ==
  ASSUME Shape, Held, NEW r \in Slots, Execute(r) PROVE Held'
<1>1. /\ Running(r) /\ Step(r) \in Kinds
      /\ \A q \in Slots \ {r} : work'[q] = work[q]
      /\ \/ ~Running(r)' /\ Step(r) \notin {"begin", "tx", "write"}
         \/ /\ Running(r)'
            /\ Step(r) \in {"begin", "tx", "write"} <=> Step(r)' \in Inside
  BY AdvanceGoesOn, StepIsScripted DEF Execute
<1>2. conn' = conn \ {<<r, IF Step(r) = "end" THEN "tx" ELSE "stmt">>}
  BY DEF Execute
<1>3. \A q \in Slots \ {r} : \A use \in {"tx", "stmt"} :
        <<q, use>> \in conn' <=> <<q, use>> \in conn
  BY <1>2
<1>4. lock' = CASE Step(r) = "write" -> r
                [] Step(r) = "end" /\ lock = r -> NULL
                [] OTHER -> lock
  BY DEF Execute
<1>5. CASE Step(r) = "end"
  <2>1. <<r, "tx">> \notin conn' /\ <<r, "stmt">> \notin conn'
    BY <1>2, <1>5 DEF Held
  <2>2. lock' # NULL => lock' = lock /\ lock # r
    BY <1>4, <1>5
  <2>3. lock' # NULL => <<lock', "tx">> \in conn'
    BY <1>2, <1>5, <2>2 DEF Held
  <2>4. ~(Running(r)' /\ Step(r)' \in Inside)
    BY <1>1, <1>5
  <2> QED
    BY <1>1, <1>3, <2>1, <2>3, <2>4, OthersHold
<1>6. CASE Step(r) # "end"
  <2>1. conn' = conn \ {<<r, "stmt">>}
    BY <1>2, <1>6
  <2>2. <<r, "stmt">> \notin conn' /\ (<<r, "tx">> \in conn' <=> <<r, "tx">> \in conn)
    BY <2>1
  <2>3. lock' # NULL => <<lock', "tx">> \in conn'
    BY <1>1, <1>4, <1>6, <2>1 DEF Held, Inside
  <2>4. CASE Step(r) \in {"begin", "tx", "write"}
    <3>1. Running(r)' /\ Step(r)' \in Inside
      BY <1>1, <2>4
    <3>2. <<r, "tx">> \in conn
      BY <1>1, <2>4 DEF Held, Inside, Execute, Waiting, NeedsConnection, Connection
    <3> QED
      BY <1>1, <1>3, <2>2, <2>3, <3>1, <3>2, OthersHold
  <2>5. CASE Step(r) \notin {"begin", "tx", "write"}
    <3>1. ~(Running(r)' /\ Step(r)' \in Inside)
      BY <1>1, <2>5
    <3>2. <<r, "tx">> \notin conn
      BY <1>6, <2>5 DEF Held, Inside
    <3> QED
      BY <1>1, <1>3, <2>2, <2>3, <3>1, <3>2, OthersHold
  <2> QED
    BY <2>4, <2>5
<1> QED
  BY <1>5, <1>6

LEMMA HeldStep == Shape /\ Held /\ [Next]_vars => Held'
<1> SUFFICES ASSUME Shape, Held, [Next]_vars PROVE Held'
  OBVIOUS
<1>1. ASSUME UNCHANGED <<work, conn, lock>> PROVE Held'
  BY <1>1 DEF Held, Running, Step
<1>2. ASSUME Die PROVE Held'
  BY <1>2 DEF Die, Held, Running
<1>3. CASE \E r \in Slots : Arrive(r) \/ Progress(r) \/ Fail(r) \/ Hang(r)
  BY <1>1, <1>3, ArriveHeld, AcquireHeld, RefuseHeld, ExecuteHeld, FailHeld
     DEF Progress, Hang
<1>4. CASE MainStep \/ ListenFails \/ Signal \/ Kill
  BY <1>1, <1>2, <1>4
     DEF MainStep, ListenFails, Signal, Kill, LoadConfig, ConnectDB, PingRedis, Select,
         Drained, Deadline, CloseRedis, CloseDB, Exit, Goto, GiveUp, requests
<1>5. CASE UNCHANGED vars
  BY <1>1, <1>5 DEF vars
<1> QED
  BY <1>3, <1>4, <1>5 DEF Next

-----------------------------------------------------------------------------
Closing == {"close_redis", "close_db", "return", "exit"}

(* What is open where run() stands, and that nothing has come to harm before *)
(* the clients are closed, nor after Shutdown has returned without an error. *)
Phases ==
  /\ main \in {"config", "connect"} => db = "none" /\ redis = "none"
  /\ main \notin {"close_db", "return", "exit"} => redis # "closed" /\ harm = {}
  /\ main \notin {"return", "exit"} => db # "closed"
  /\ main \in {"close_db", "return"} => redis # "open"
  /\ main = "return" => db # "open"
  /\ main = "exit" /\ code # "killed" => db # "open" /\ redis # "open"
  /\ code = "killed" => main = "exit"
  /\ code = "success" =>
       /\ server = "stopped" /\ main \in Closing /\ harm = {}
       /\ \A r \in Slots : ~Running(r)

LEMMA PhasesInit == Init => Phases
  BY ServerAssumption DEF Init, Phases

(* The result is there only when run() returns.                              *)
LEMMA ResultAtTheEnd ==
  ASSUME Shape PROVE (code # NULL <=> main \in Closing) /\ code \in {NULL, "success", "fail", "killed"}
  BY DEF Shape, TypeOK, Closing

LEMMA RequestPhases ==
  ASSUME Shape, Phases, NEW r \in Slots, Arrive(r) \/ Progress(r) \/ Fail(r) \/ Hang(r)
  PROVE  Phases'
<1>1. UNCHANGED <<main, code, server, db, redis>>
  BY DEF Arrive, Progress, Acquire, Refuse, Execute, Fail, Hang, process
<1>2. code # "success"
  BY DEF Arrive, Progress, Acquire, Refuse, Execute, Fail, Hang, Phases
<1>3. main \notin {"close_db", "return", "exit"} => harm' = {}
  BY DEF Arrive, Progress, Acquire, Refuse, Execute, Fail, Hang, Phases
<1> QED
  BY <1>1, <1>2, <1>3 DEF Phases

LEMMA ProcessPhases ==
  ASSUME Shape, Phases,
         \/ LoadConfig \/ ConnectDB \/ PingRedis \/ Select \/ Drained \/ Deadline
         \/ CloseRedis \/ CloseDB \/ ListenFails \/ Signal
  PROVE  Phases'
<1> USE ServerAssumption, ResultAtTheEnd
       DEF Phases, Closing, Running, requests, Goto, GiveUp
<1>1. CASE LoadConfig
  BY <1>1 DEF LoadConfig
<1>2. CASE ConnectDB
  BY <1>2 DEF ConnectDB
<1>3. CASE PingRedis
  BY <1>3 DEF PingRedis
<1>4. CASE Select
  BY <1>4 DEF Select
<1>5. CASE Drained
  BY <1>5 DEF Drained
<1>6. CASE Deadline
  BY <1>6 DEF Deadline
<1>7. CASE CloseRedis
  BY <1>7 DEF CloseRedis
<1>8. CASE CloseDB
  BY <1>8 DEF CloseDB
<1>9. CASE ListenFails
  BY <1>9 DEF ListenFails
<1>10. CASE Signal
  BY <1>10 DEF Signal
<1> QED
  BY <1>1, <1>2, <1>3, <1>4, <1>5, <1>6, <1>7, <1>8, <1>9, <1>10

LEMMA DiePhases ==
  ASSUME Shape, Phases, Exit \/ Kill PROVE Phases'
<1>1. CASE Exit
  BY <1>1, ResultAtTheEnd DEF Exit, Die, Phases, Closing, Running
<1>2. CASE Kill
  BY <1>2 DEF Kill, Die, Phases
<1> QED
  BY <1>1, <1>2

LEMMA PhasesStep == Shape /\ Phases /\ [Next]_vars => Phases'
<1> SUFFICES ASSUME Shape, Phases, [Next]_vars PROVE Phases'
  OBVIOUS
<1>1. CASE UNCHANGED vars
  BY <1>1 DEF vars, Phases, Running
<1> QED
  BY <1>1, RequestPhases, ProcessPhases, DiePhases DEF Next, MainStep

-----------------------------------------------------------------------------
Inv == Shape /\ Held /\ Phases

(* The inductive invariant.                                                  *)
THEOREM Invariance == Spec => []Inv
<1>1. Init => Inv
  BY ShapeInit, HeldInit, PhasesInit DEF Inv
<1>2. Inv /\ [Next]_vars => Inv'
  BY ShapeStep, HeldStep, PhasesStep DEF Inv
<1> QED
  BY <1>1, <1>2, PTL DEF Spec

(* Every variable keeps its type, and run() has a result exactly when its    *)
(* deferred calls begin.                                                     *)
THEOREM TypeCorrect == Spec => []TypeOK
<1>1. Inv => TypeOK
  BY DEF Inv, Shape
<1> QED
  BY <1>1, Invariance, PTL

(* An exit code of 0 means that no request came to harm, whatever requests   *)
(* do while run() closes MySQL and Redis.                                    *)
THEOREM SuccessIsTrue == Spec => []SuccessIsClean
<1>1. Inv => SuccessIsClean
  BY DEF Inv, Phases, SuccessIsClean
<1> QED
  BY <1>1, Invariance, PTL

(* However run() returns, nothing is left open.                              *)
THEOREM NothingIsLeftOpen == Spec => []ReturnsClosed
<1>1. Inv => ReturnsClosed
  BY DEF Inv, Phases, ReturnsClosed
<1> QED
  BY <1>1, Invariance, PTL

(* Connections and the row lock are held by requests under way only, for any *)
(* routes and any number of requests and connections.                        *)
THEOREM NothingIsLeaked == Spec => []ConnectionsComeBack
<1>1. Inv => ConnectionsComeBack
  <2> SUFFICES ASSUME Inv PROVE ConnectionsComeBack
    OBVIOUS
  <2>1. ASSUME NEW held \in conn PROVE Running(held[1])
    <3>1. PICK r \in Slots, use \in {"tx", "stmt"} : held = <<r, use>>
      BY <2>1 DEF Inv, Shape, TypeOK
    <3> QED
      BY <2>1, <3>1 DEF Inv, Held
  <2> QED
    BY <2>1 DEF Inv, Held, ConnectionsComeBack
<1> QED
  BY <1>1, Invariance, PTL

-----------------------------------------------------------------------------
(* Requests do not wait for each other in a circle.                          *)

(* Nothing is served before the pool is open.                                *)
Opened ==
  /\ main \in {"ping", "serve", "shutdown", "close_redis", "close_db", "return"} => db # "none"
  /\ server # "off" => db # "none"
  /\ \A r \in Slots : Running(r) => server # "off"

LEMMA OpenedStep == Shape /\ Opened /\ [Next]_vars => Opened'
<1> SUFFICES ASSUME Shape, Opened, [Next]_vars PROVE Opened'
  OBVIOUS
<1>1. ASSUME NEW r \in Slots, Arrive(r) \/ Progress(r) \/ Fail(r) \/ Hang(r)
      PROVE  Opened'
  <2>1. UNCHANGED process /\ \A q \in Slots : q # r => work'[q] = work[q]
    BY <1>1 DEF Arrive, Progress, Acquire, Refuse, Execute, Advance, Fail, Hang, Answer,
                Shape, TypeOK
  <2>2. server # "off"
    BY <1>1 DEF Arrive, Progress, Acquire, Refuse, Execute, Fail, Hang, Opened
  <2> QED
    BY <2>1, <2>2 DEF Opened, process, Running
<1>2. CASE MainStep \/ ListenFails \/ Signal \/ Kill
  <2>1. CASE Exit \/ Kill
    BY <2>1 DEF Exit, Kill, Die, Opened, Running
  <2>2. CASE LoadConfig \/ ConnectDB \/ PingRedis
    BY <2>2 DEF LoadConfig, ConnectDB, PingRedis, GiveUp, Goto, requests, Opened, Running
  <2>3. CASE Select \/ Drained \/ Deadline
    BY <2>3 DEF Select, Drained, Deadline, Goto, requests, Opened, Running
  <2>4. CASE CloseRedis \/ CloseDB
    BY <2>4 DEF CloseRedis, CloseDB, Goto, requests, Opened, Running
  <2>5. CASE ListenFails \/ Signal
    BY <2>5 DEF ListenFails, Signal, requests, Opened, Running
  <2> QED
    BY <1>2, <2>1, <2>2, <2>3, <2>4, <2>5 DEF MainStep
<1>3. CASE UNCHANGED vars
  BY <1>3 DEF vars, Opened, Running
<1> QED
  BY <1>1, <1>2, <1>3 DEF Next

PoolIsFull == ~(Cardinality(conn) < MaxOpen)

(* The guards of Progress, without that r does not hang.                     *)
CanProceed(r) ==
  IF Waiting(r)
  THEN db = "closed" \/ (db = "open" /\ ~PoolIsFull)
  ELSE /\ Step(r) = "insert" => lock = NULL
       /\ Step(r) = "write" => lock \in {NULL, r}

(* A request that cannot proceed waits for the pool, all of whose            *)
(* connections are with requests that do not wait for the pool, or it waits  *)
(* for the row lock, whose owner waits for nothing. So while none hangs some *)
(* request can proceed, however small the pool.                              *)
WaitsEnd ==
  /\ \A r \in Slots : Running(r) =>
       \/ CanProceed(r)
       \/ Waiting(r) /\ PoolIsFull /\ conn # {} /\ \A held \in conn : ~Waiting(held[1])
       \/ ~Waiting(r) /\ lock \in Slots \ {r} /\ Running(lock) /\ CanProceed(lock)
  /\ (\E r \in Slots : Running(r)) => \E r \in Slots : Running(r) /\ CanProceed(r)

LEMMA HoldersDoNotWait ==
  ASSUME Shape, Held, NEW held \in conn
  PROVE  held[1] \in Slots /\ Running(held[1]) /\ ~Waiting(held[1])
<1>1. PICK r \in Slots, use \in {"tx", "stmt"} : held = <<r, use>>
  BY DEF Shape, TypeOK
<1>2. CASE use = "tx"
  BY <1>1, <1>2 DEF Held, Waiting, NeedsConnection, Connection, Inside
<1>3. CASE use = "stmt"
  BY <1>1, <1>3 DEF Held, Waiting, NeedsConnection, Connection
<1> QED
  BY <1>1, <1>2, <1>3

LEMMA LockOwnerProceeds ==
  ASSUME Shape, Held, lock # NULL
  PROVE  lock \in Slots /\ Running(lock) /\ CanProceed(lock)
<1>1. <<lock, "tx">> \in conn
  BY DEF Held
<1>2. lock \in Slots /\ Running(lock) /\ ~Waiting(lock)
  BY <1>1, HoldersDoNotWait
<1>3. Step(lock) # "insert"
  BY <1>1, <1>2 DEF Held, Inside
<1> QED
  BY <1>2, <1>3 DEF CanProceed

(* What EveryRequestEnds rests on: connections and the row lock are asked    *)
(* for in one order only, the row lock by those that have their connection,  *)
(* and nobody who has either asks the pool again.                            *)
THEOREM NoCircularWait == Spec => []WaitsEnd
<1>1. Init => Opened
  BY DEF Init, Opened, Running
<1>2. Inv /\ Opened => WaitsEnd
  <2> SUFFICES ASSUME Shape, Held, Opened PROVE WaitsEnd
    BY DEF Inv
  <2>1. ASSUME NEW r \in Slots, Running(r), ~Waiting(r), ~CanProceed(r)
        PROVE  lock \in Slots \ {r} /\ Running(lock) /\ CanProceed(lock)
    <3>1. lock # NULL
      BY <2>1 DEF CanProceed
    <3> QED
      BY <2>1, <3>1, LockOwnerProceeds
  <2>2. ASSUME NEW r \in Slots, Running(r), Waiting(r), ~CanProceed(r)
        PROVE  PoolIsFull /\ conn # {}
    <3>1. db \in {"open", "closed"}
      BY <2>2 DEF Opened, Shape, TypeOK
    <3>2. PoolIsFull
      BY <2>2, <3>1 DEF CanProceed
    <3>3. Cardinality({}) = 0 /\ 0 < MaxOpen
      BY FS_EmptySet, ServerAssumption
    <3> QED
      BY <3>2, <3>3 DEF PoolIsFull
  <2>3. ASSUME NEW r \in Slots, Running(r), ~Waiting(r)
        PROVE  \E q \in Slots : Running(q) /\ CanProceed(q)
    BY <2>1, <2>3
  <2>4. ASSUME NEW r \in Slots, Running(r)
        PROVE  \E q \in Slots : Running(q) /\ CanProceed(q)
    <3>1. CASE Waiting(r) /\ ~CanProceed(r)
      <4>1. PICK held \in conn : TRUE
        BY <2>2, <2>4, <3>1
      <4> QED
        BY <2>3, <4>1, HoldersDoNotWait
    <3> QED
      BY <2>3, <2>4, <3>1
  <2>5. \A held \in conn : ~Waiting(held[1])
    BY HoldersDoNotWait
  <2> QED
    BY <2>1, <2>2, <2>4, <2>5 DEF WaitsEnd
<1> QED
  BY <1>1, <1>2, OpenedStep, Invariance, PTL DEF Spec, Inv
=============================================================================
