------------------------------- MODULE Server -------------------------------
(* The life of the process, from run() in main.go to its exit code, and the  *)
(* requests it serves, as far as they use what main opens and closes: the    *)
(* connection pool of database/sql, with the row lock that a transaction may *)
(* hold, and the Redis client. Handlers, the listener, the signal and main   *)
(* are concurrent.                                                           *)
EXTENDS Integers, Sequences, FiniteSets

CONSTANTS
  Slots,       \* the goroutines that serve requests
  Routes,      \* the routes that clients call
  MaxOpen,     \* db.max_open_conns
  MaxRequests, \* bound: requests of a behaviour
  MaxHung,     \* bound: statements that never return
  NULL         \* no value

(* What the handler of a route asks of the pool and of Redis, successive     *)
(* statements of one kind taken together. "stmt" is a statement on a         *)
(* connection of its own, "insert" one that also waits for the row lock of   *)
(* the task (its foreign key); "tx" and "write" run in the transaction, and  *)
(* a write keeps the row lock until the transaction ends.                    *)
Script ==
  [register     |-> <<"stmt">>,
   login        |-> <<"stmt">>,
   create_team  |-> <<"begin", "tx", "end">>,
   list_teams   |-> <<"stmt">>,
   invite       |-> <<"stmt">>,
   create_task  |-> <<"stmt", "begin", "tx", "end", "invalidate">>,
   update_task  |-> <<"begin", "tx", "write", "tx", "end", "invalidate">>,
   list_tasks   |-> <<"stmt", "cache", "stmt", "cache">>,
   history      |-> <<"stmt">>,
   add_comment  |-> <<"stmt", "insert", "stmt">>,
   comments     |-> <<"stmt">>,
   analytics    |-> <<"stmt">>]

ASSUME ServerAssumption ==
  /\ Routes \subseteq DOMAIN Script
  /\ MaxOpen \in Nat \ {0}
  /\ {MaxRequests, MaxHung} \subseteq Nat
  /\ NULL \notin Slots \cup {"success", "fail", "killed"}
  /\ NULL \notin [route : Routes, at : 1..6]

VARIABLES
  main,      \* where run() stands
  code,      \* what run() returns, or "killed"
  server,    \* the HTTP server: listening, its listener failed, Shutdown called
  signalled, \* a SIGINT or SIGTERM is in the channel quit
  db,        \* the pool
  redis,     \* the Redis client
  work,      \* work[r]: the route that slot r serves and its step, or NULL
  conn,      \* the connections in use: whose, and for a transaction or not
  lock,      \* the request whose transaction holds the row lock, or NULL
  hung,      \* requests whose statement never returns
  harm,      \* history: what became of requests that outlived something
  budget     \* requests that may still arrive

vars == <<main, code, server, signalled, db, redis, work, conn, lock, hung, harm, budget>>

process == <<main, code, server, signalled, db, redis>>

Init ==
  /\ main = "config"
  /\ code = NULL
  /\ server = "off"
  /\ signalled = FALSE
  /\ db = "none" /\ redis = "none"
  /\ work = [r \in Slots |-> NULL]
  /\ conn = {}
  /\ lock = NULL
  /\ hung = {}
  /\ harm = {}
  /\ budget = MaxRequests

Running(r) == work[r] # NULL

Step(r) == Script[work[r].route][work[r].at]

-----------------------------------------------------------------------------
(* A request. Connections of the server outlive a failing listener, and what *)
(* was accepted before Shutdown is still served.                             *)
Arrive(r) ==
  /\ server \in {"up", "failed", "draining"}
  /\ main # "exit"
  /\ ~Running(r)
  /\ budget > 0
  /\ budget' = budget - 1
  /\ \E route \in Routes :
       work' = [work EXCEPT ![r] = [route |-> route, at |-> 1]]
  /\ UNCHANGED <<process, conn, lock, hung, harm>>

(* Mutant: the repositories ignore the transaction of their context.         *)
TakesItsOwn(step) == step \in {"stmt", "insert", "begin", "tx", "write"}

(* queryExecutor: inside a transaction its connection serves every statement.*)
NeedsConnection(step) == step \in {"stmt", "insert", "begin"}

(* The connection that the step asks for: for the whole transaction, or not. *)
Connection(r) == <<r, IF Step(r) = "begin" THEN "tx" ELSE "stmt">>

(* The step waits until the pool hands it a connection.                      *)
Waiting(r) == NeedsConnection(Step(r)) /\ Connection(r) \notin conn

(* The pool hands a connection to one of those that wait for it.             *)
Acquire(r) ==
  /\ Running(r) /\ r \notin hung
  /\ Waiting(r)
  /\ db = "open"
  /\ Cardinality(conn) < MaxOpen
  /\ conn' = conn \cup {Connection(r)}
  /\ UNCHANGED <<process, work, lock, hung, harm, budget>>

Kept(r) == conn \ ({r} \X {"tx", "stmt"})

Answer(r) == work' = [work EXCEPT ![r] = NULL]

(* A closed pool answers those that wait for a connection with an error.     *)
Refuse(r) ==
  /\ Running(r) /\ r \notin hung
  /\ Waiting(r)
  /\ db = "closed"
  /\ Answer(r)
  /\ conn' = Kept(r)
  /\ harm' = harm \cup {"refused"}
  /\ UNCHANGED <<process, lock, hung, budget>>

Advance(r) ==
  IF work[r].at = Len(Script[work[r].route])
  THEN Answer(r)
  ELSE work' = [work EXCEPT ![r].at = @ + 1]

(* The step completes. The errors of a closed Redis client are ignored; an   *)
(* invalidation is then skipped. Transactions complete on a closed pool.     *)
Execute(r) ==
  /\ Running(r) /\ r \notin hung
  /\ ~Waiting(r)
  /\ Step(r) = "insert" => lock = NULL
  /\ Step(r) = "write" => lock \in {NULL, r}
  /\ lock' = CASE Step(r) = "write" -> r
               [] Step(r) = "end" /\ lock = r -> NULL
               [] OTHER -> lock
  /\ conn' = conn \ {<<r, IF Step(r) = "end" THEN "tx" ELSE "stmt">>}
  /\ harm' = harm \cup (IF Step(r) = "invalidate" /\ redis = "closed"
                        THEN {"stale"} ELSE {})
  /\ Advance(r)
  /\ UNCHANGED <<process, hung, budget>>

(* Mutant: Do does not roll back.                                            *)
FailInPlace(r) ==
  /\ Running(r) /\ r \notin hung
  /\ Answer(r)
  /\ conn' = conn \ {<<r, "stmt">>}
  /\ UNCHANGED <<process, lock, hung, harm, budget>>

(* A statement fails, a handler panics, a client that waits has gone: the    *)
(* deferred Rollback gives the connection and the row lock back.             *)
Fail(r) ==
  /\ Running(r) /\ r \notin hung
  /\ Answer(r)
  /\ conn' = Kept(r)
  /\ lock' = IF lock = r THEN NULL ELSE lock
  /\ UNCHANGED <<process, hung, harm, budget>>

(* Neither statements nor handlers have a timeout.                           *)
Hang(r) ==
  /\ Running(r) /\ r \notin hung
  /\ Cardinality(hung) < MaxHung
  /\ ~Waiting(r)
  /\ hung' = hung \cup {r}
  /\ UNCHANGED <<process, work, conn, lock, harm, budget>>

-----------------------------------------------------------------------------
requests == <<work, conn, lock, hung, harm, budget>>

Goto(label) == main' = label /\ UNCHANGED requests

(* run returns early, with nothing open.                                     *)
GiveUp ==
  /\ Goto("exit")
  /\ code' = "fail"
  /\ UNCHANGED <<server, signalled, db, redis>>

LoadConfig ==
  /\ main = "config"
  /\ \/ Goto("connect") /\ UNCHANGED <<code, server, signalled, db, redis>>
     \/ GiveUp

ConnectDB ==
  /\ main = "connect"
  /\ \/ Goto("ping") /\ db' = "open" /\ redis' = "open"
        /\ UNCHANGED <<code, server, signalled>>
     \/ GiveUp

(* Mutant: os.Exit instead of return.                                        *)
PingOrExit ==
  /\ main = "ping"
  /\ \/ Goto("serve") /\ server' = "up" /\ UNCHANGED code
     \/ Goto("exit") /\ code' = "fail" /\ UNCHANGED server
  /\ UNCHANGED <<signalled, db, redis>>

PingRedis ==
  /\ main = "ping"
  /\ \/ Goto("serve") /\ server' = "up" /\ UNCHANGED code
     \/ Goto("close_redis") /\ code' = "fail" /\ UNCHANGED server
  /\ UNCHANGED <<signalled, db, redis>>

(* ListenAndServe returns an error, and its goroutine sends it.              *)
ListenFails ==
  /\ server = "up"
  /\ server' = "failed"
  /\ UNCHANGED <<main, code, signalled, db, redis, requests>>

Signal ==
  /\ main \in {"serve", "shutdown"}
  /\ ~signalled
  /\ signalled' = TRUE
  /\ UNCHANGED <<main, code, server, db, redis, requests>>

(* The select of run: when both are there, either may be taken.              *)
Select ==
  /\ main = "serve"
  /\ \/ /\ signalled
        /\ signalled' = FALSE
        /\ Goto("shutdown")
        /\ server' = "draining"
        /\ UNCHANGED code
     \/ /\ server = "failed"
        /\ Goto("close_redis")
        /\ code' = "fail"
        /\ UNCHANGED <<server, signalled>>
  /\ UNCHANGED <<db, redis>>

(* Mutant: the deferred calls run before there is a result.                  *)
DrainedNoResult ==
  /\ main = "shutdown"
  /\ \A r \in Slots : ~Running(r)
  /\ Goto("close_redis")
  /\ server' = "stopped"
  /\ UNCHANGED <<code, signalled, db, redis>>

(* Shutdown returns: no request is left.                                     *)
Drained ==
  /\ main = "shutdown"
  /\ \A r \in Slots : ~Running(r)
  /\ Goto("close_redis")
  /\ server' = "stopped"
  /\ code' = "success"
  /\ UNCHANGED <<signalled, db, redis>>

(* Mutant: the error of Shutdown is only logged.                             *)
DeadlineLogged ==
  /\ main = "shutdown"
  /\ Goto("close_redis")
  /\ server' = "stopped"
  /\ code' = "success"
  /\ UNCHANGED <<signalled, db, redis>>

(* Mutant: Shutdown(context.Background()).                                   *)
NoDeadline == FALSE /\ UNCHANGED vars

(* Shutdown returns: its ten seconds are over, whatever is still running.    *)
Deadline ==
  /\ main = "shutdown"
  /\ Goto("close_redis")
  /\ server' = "stopped"
  /\ code' = "fail"
  /\ UNCHANGED <<signalled, db, redis>>

(* The deferred calls, last one first.                                       *)
CloseRedis ==
  /\ main = "close_redis"
  /\ Goto("close_db")
  /\ redis' = "closed"
  /\ UNCHANGED <<code, server, signalled, db>>

CloseDB ==
  /\ main = "close_db"
  /\ Goto("return")
  /\ db' = "closed"
  /\ UNCHANGED <<code, server, signalled, redis>>

(* The process is gone, and every request with it.                           *)
Die ==
  /\ main' = "exit"
  /\ harm' = harm \cup (IF \E r \in Slots : Running(r) THEN {"cut"} ELSE {})
  /\ work' = [r \in Slots |-> NULL]
  /\ conn' = {} /\ lock' = NULL /\ hung' = {}
  /\ UNCHANGED <<server, signalled, db, redis, budget>>

Exit ==
  /\ main = "return"
  /\ Die
  /\ UNCHANGED code

(* SIGKILL, or a signal before Notify.                                       *)
Kill ==
  /\ main # "exit"
  /\ Die
  /\ code' = "killed"

-----------------------------------------------------------------------------
MainStep ==
  \/ LoadConfig \/ ConnectDB \/ PingRedis \/ Select \/ Drained \/ Deadline
  \/ CloseRedis \/ CloseDB \/ Exit

Progress(r) == Acquire(r) \/ Refuse(r) \/ Execute(r)

Next ==
  \/ \E r \in Slots : Arrive(r) \/ Progress(r) \/ Fail(r) \/ Hang(r)
  \/ MainStep \/ ListenFails \/ Signal \/ Kill

Spec == Init /\ [][Next]_vars

(* The pool and the row lock serve everyone who keeps waiting.               *)
FairSpec ==
  /\ Spec
  /\ WF_vars(MainStep)
  /\ \A r \in Slots : SF_vars(Progress(r))

-----------------------------------------------------------------------------
(* Properties.                                                               *)

(* The shape of every variable; run has its result once its deferred calls   *)
(* begin.                                                                    *)
TypeOK ==
  /\ code # NULL <=> main \in {"close_redis", "close_db", "return", "exit"}
  /\ main \in {"config", "connect", "ping", "serve", "shutdown", "close_redis",
               "close_db", "return", "exit"}
  /\ code \in {NULL, "success", "fail", "killed"}
  /\ server \in {"off", "up", "failed", "draining", "stopped"}
  /\ signalled \in BOOLEAN
  /\ db \in {"none", "open", "closed"} /\ redis \in {"none", "open", "closed"}
  /\ work \in [Slots -> [route : Routes, at : 1..6] \cup {NULL}]
  /\ conn \subseteq Slots \X {"tx", "stmt"}
  /\ lock \in Slots \cup {NULL}
  /\ hung \subseteq Slots
  /\ harm \subseteq {"refused", "stale", "cut"}
  /\ budget \in 0..MaxRequests

(* The exit code of run is the truth: 0 is returned only when no request was *)
(* cut short, answered 500 by a closed pool, or left a cached list that it   *)
(* had to invalidate, although requests go on while main closes both.        *)
SuccessIsClean == code = "success" => harm = {} /\ \A r \in Slots : ~Running(r)

(* However run returns, MySQL and Redis are not left open.                   *)
ReturnsClosed ==
  main = "exit" /\ code # "killed" => db # "open" /\ redis # "open"

(* Connections and the row lock are only held by requests under way, however *)
(* the earlier ones ended, and the lock only inside a transaction.           *)
ConnectionsComeBack ==
  /\ \A held \in conn : Running(held[1])
  /\ lock # NULL => <<lock, "tx">> \in conn

(* While no statement hangs, requests do not wait on each other for ever:    *)
(* not for the pool, however small, and not for the row lock, which its      *)
(* owner gives up without asking the pool for anything.                      *)
EveryRequestEnds ==
  \A r \in Slots : Running(r) ~> ~Running(r) \/ hung # {}

(* Once the signal or the listener's error is there, the process exits, even *)
(* when a request never ends.                                                *)
ExitFollows ==
  (main = "serve" /\ (signalled \/ server = "failed")) ~> main = "exit"
=============================================================================
