------------------------- MODULE AuthService_proofs -------------------------
(* Proofs about AuthService, for any e-mails, passwords, clients and         *)
(* requests, any TTL and any bounds. The inductive invariant has two layers: *)
(*   Shape  types, and what the step a request is at says of the request;    *)
(*   Sound  the table has a row per key, none above the counter, and every   *)
(*          row, token and answer that refers to an account is right.        *)
(* Sound rests on one fact about steps: a row never changes (RowsStay).      *)
EXTENDS AuthService, TLAPS

RegisterSteps == {"r_hash", "r_insert", "r_read"}
LoginSteps == {"l_read", "l_check"}

(* The request of a client fits the step it is at.                           *)
Asked ==
  \A c \in Clients :
    /\ pc[c] # "idle" => req[c] \in Requests
    /\ pc[c] \in RegisterSteps => IsRegister(req[c])
    /\ pc[c] \in {"r_insert", "r_read"} => req[c].password \notin Long
    /\ pc[c] \in LoginSteps => IsLogin(req[c])

Shape == TypeOK /\ Asked

LEMMA ShapeInit == Init => Shape
  BY AuthAssumption
     DEF Init, Shape, TypeOK, Asked, PCs, RegisterSteps, LoginSteps, UserIds

LEMMA ArriveShape ==
  ASSUME Shape, NEW c \in Clients, Arrive(c) PROVE Shape'
<1> USE DEF Shape
<1>1. PICK r \in Requests :
        /\ req' = [req EXCEPT ![c] = r]
        /\ pc' = [pc EXCEPT ![c] = IF r.op = "register" THEN "r_hash" ELSE "l_read"]
  BY DEF Arrive
<1>2. (IsRegister(r) /\ r.op = "register") \/ (IsLogin(r) /\ r.op = "login")
  BY AuthAssumption DEF IsRegister, IsLogin
<1>3. TypeOK'
  <2>1. MaxRequests \in Nat
    BY AuthAssumption
  <2>2. budget' \in 0..MaxRequests
    BY <2>1 DEF Arrive, TypeOK
  <2> QED
    BY <1>1, <2>2 DEF Arrive, TypeOK, PCs
<1>4. Asked'
  BY <1>1, <1>2 DEF Arrive, TypeOK, Asked, RegisterSteps, LoginSteps
<1> QED
  BY <1>3, <1>4

(* A request that ends leaves the shape of the table and the tokens to its   *)
(* action.                                                                   *)
LEMMA FinishShape ==
  ASSUME Shape, NEW c \in Clients, NEW answer \in Replies, Finish(c, answer),
         users' \in [UserIds -> [email : Emails, hash : Hashes] \cup {NULL}],
         nextId' \in Nat \ {0}, tokens' \subseteq Token, tokens \subseteq tokens'
  PROVE  Shape'
<1> USE DEF Shape
<1>1. TypeOK'
  BY DEF Finish, TypeOK, PCs
<1>2. Asked'
  BY DEF Finish, TypeOK, Asked, RegisterSteps, LoginSteps
<1> QED
  BY <1>1, <1>2

LEMMA RefuseShape ==
  ASSUME Shape, NEW c \in Clients, NEW answer \in Replies, Refuse(c, answer)
  PROVE  Shape'
  BY FinishShape DEF Refuse, Shape, TypeOK

LEMMA RHashShape ==
  ASSUME Shape, NEW c \in Clients, RHash(c) PROVE Shape'
<1> USE DEF Shape
<1>1. CASE req[c].password \in Long
  BY <1>1, RefuseShape DEF RHash, Replies
<1>2. CASE req[c].password \notin Long
  <2>1. TypeOK'
    BY <1>2 DEF RHash, Goto, TypeOK, PCs
  <2>2. Asked'
    BY <1>2 DEF RHash, Goto, TypeOK, Asked, RegisterSteps, LoginSteps
  <2> QED
    BY <2>1, <2>2
<1> QED
  BY <1>1, <1>2

(* The row of a registration is well formed.                                 *)
LEMMA InsertType ==
  ASSUME Shape, NEW c \in Clients, pc[c] = "r_insert", nextId <= MaxUserId, Insert(c)
  PROVE  users' \in [UserIds -> [email : Emails, hash : Hashes] \cup {NULL}]
<1>1. IsRegister(req[c]) /\ req[c].password \notin Long
  BY DEF Shape, Asked, RegisterSteps
<1>2. [email |-> req[c].email, hash |-> Hash(req[c].password)]
        \in [email : Emails, hash : Hashes]
  BY <1>1 DEF IsRegister, Hashes
<1> QED
  BY <1>2 DEF Shape, TypeOK, Insert

LEMMA RInsertShape ==
  ASSUME Shape, NEW c \in Clients, RInsert(c) PROVE Shape'
<1> USE DEF Shape
<1>1. nextId' \in Nat \ {0} /\ tokens' = tokens
  BY DEF RInsert, TypeOK
<1>2. users' \in [UserIds -> [email : Emails, hash : Hashes] \cup {NULL}]
  BY InsertType DEF RInsert, TypeOK
<1>3. CASE \E answer \in Replies : Finish(c, answer)
  BY <1>1, <1>2, <1>3, FinishShape DEF TypeOK
<1>4. CASE row' = [row EXCEPT ![c] = nextId] /\ Goto(c, "r_read")
  <2>1. nextId \in UserIds /\ nextId # NULL
    BY AuthAssumption DEF RInsert, TypeOK, UserIds
  <2>2. TypeOK'
    BY <1>1, <1>2, <1>4, <2>1 DEF Goto, TypeOK, PCs
  <2>3. Asked'
    BY <1>4 DEF RInsert, Goto, TypeOK, Asked, RegisterSteps, LoginSteps
  <2> QED
    BY <2>2, <2>3
<1> QED
  BY <1>3, <1>4 DEF RInsert, Replies

LEMMA LReadShape ==
  ASSUME Shape, NEW c \in Clients, LRead(c) PROVE Shape'
<1> USE DEF Shape
<1>1. CASE Taken(req[c].email)
  <2>1. PICK i \in UserIds : row' = [row EXCEPT ![c] = i]
    BY <1>1 DEF LRead
  <2>2. i # NULL
    BY AuthAssumption
  <2>3. TypeOK'
    BY <1>1, <2>1, <2>2 DEF LRead, Goto, TypeOK, PCs
  <2>4. Asked'
    BY <1>1 DEF LRead, Goto, TypeOK, Asked, RegisterSteps, LoginSteps
  <2> QED
    BY <2>3, <2>4
<1>2. CASE ~Taken(req[c].email)
  BY <1>2, RefuseShape DEF LRead, Replies
<1> QED
  BY <1>1, <1>2

(* The claims of a new token: exp is a whole second, less than a second      *)
(* before the TTL is over.                                                   *)
LEMMA GenerateType ==
  ASSUME Shape, NEW c \in Clients, pc[c] = "l_check",
         NEW t, t = Generate(row[c], req[c].password)
  PROVE  /\ t \in Token
         /\ t.sub = row[c] /\ t.password = req[c].password /\ t.at = now
         /\ t.exp <= now + TTL /\ t.exp > now + TTL - Second
<1>1. now \in 0..MaxTime /\ TTL \in Nat /\ Second \in Nat \ {0} /\ MaxTime \in Nat
  BY AuthAssumption DEF Shape, TypeOK
<1> DEFINE x == now + TTL
<1>2. x \in Nat
  BY <1>1
<1>3. x % Second \in 0..(Second - 1) /\ x - (x % Second) \in Nat
  <2> HIDE DEF x
  <2> QED
    BY <1>1, <1>2, SMT
<1>4. NumericDate(x) \in Nat /\ NumericDate(x) <= x /\ NumericDate(x) > x - Second
  <2> HIDE DEF x
  <2> QED
    BY <1>1, <1>2, <1>3 DEF NumericDate
<1>5. row[c] \in UserIds /\ req[c].password \in Passwords
  BY DEF Shape, TypeOK, Asked, LoginSteps, IsLogin
<1> QED
  BY <1>1, <1>4, <1>5 DEF Generate, Token

LEMMA LCheckShape ==
  ASSUME Shape, NEW c \in Clients, LCheck(c) PROVE Shape'
<1>1. CASE Check(users[row[c]].hash, req[c].password)
  <2>1. Generate(row[c], req[c].password) \in Token
    BY GenerateType DEF LCheck
  <2>2. tokens' \subseteq Token /\ tokens \subseteq tokens'
    BY <1>1, <2>1 DEF LCheck, Shape, TypeOK
  <2> QED
    BY <1>1, <2>2, FinishShape DEF LCheck, Replies, Shape, TypeOK
<1>2. CASE ~Check(users[row[c]].hash, req[c].password)
  BY <1>2, RefuseShape DEF LCheck, Replies
<1> QED
  BY <1>1, <1>2

LEMMA CallShape ==
  ASSUME Shape, NEW c \in Clients, Call(c) PROVE Shape'
<1> USE DEF Shape
<1>1. PICK token \in tokens \cup {NULL} :
        /\ req' = [req EXCEPT ![c] = [op |-> "call", token |-> token]]
        /\ reply' = [reply EXCEPT ![c] =
             IF token # NULL /\ Valid(token) THEN "ok" ELSE "unauthorized"]
  BY DEF Call
<1>2. TypeOK'
  BY <1>1 DEF Call, TypeOK, Replies
<1>3. Asked'
  BY <1>1 DEF Call, TypeOK, Asked, RegisterSteps, LoginSteps
<1> QED
  BY <1>2, <1>3

LEMMA CrashShape == Shape /\ Crash => Shape'
<1> SUFFICES ASSUME Shape, Crash PROVE Shape'
  OBVIOUS
<1>1. TypeOK'
  BY DEF Crash, Shape, TypeOK, PCs, Replies
<1>2. Asked'
  BY DEF Crash, Shape, Asked, RegisterSteps, LoginSteps
<1> QED
  BY <1>1, <1>2 DEF Shape

LEMMA ShapeNext == Shape /\ [Next]_vars => Shape'
<1> SUFFICES ASSUME Shape, [Next]_vars PROVE Shape'
  OBVIOUS
<1>1. CASE \E c \in Clients : Arrive(c) \/ RHash(c) \/ RInsert(c) \/ LRead(c)
                              \/ LCheck(c) \/ Call(c)
  BY <1>1, ArriveShape, RHashShape, RInsertShape, LReadShape, LCheckShape, CallShape
<1>2. CASE \E c \in Clients : RRead(c) \/ Fail(c)
  BY <1>2, RefuseShape DEF RRead, Fail, Replies
<1>3. CASE Crash
  BY <1>3, CrashShape
<1>4. CASE Tick
  BY <1>4, AuthAssumption DEF Tick, Shape, TypeOK, Asked
<1>5. CASE UNCHANGED vars
  BY <1>5 DEF vars, Shape, TypeOK, Asked
<1> QED
  BY <1>1, <1>2, <1>3, <1>4, <1>5 DEF Next, Step

-----------------------------------------------------------------------------
(* The table: nothing at or above the counter, and a row per key.            *)
Table ==
  /\ \A i \in UserIds : i >= nextId => users[i] = NULL
  /\ \A i, j \in UserIds :
       users[i] # NULL /\ HasKey(j, users[i].email) => i = j

(* The account a request has written or read is its own.                     *)
Held ==
  \A c \in Clients :
    /\ pc[c] = "r_read" => Opens(row[c], req[c])
    /\ pc[c] = "l_check" => HasKey(row[c], req[c].email)

(* A token belongs to an account, was given for a password that the account  *)
(* accepts, and expires within the last second of its TTL.                   *)
Backed(t) ==
  /\ users[t.sub] # NULL /\ Check(users[t.sub].hash, t.password)
  /\ t.exp <= t.at + TTL /\ t.exp > t.at + TTL - Second

TokensBacked == \A t \in tokens : Backed(t)

Sound == Table /\ Held /\ TokensBacked /\ AnswersAreTrue

IInv == Shape /\ Sound

LEMMA SoundInit == Init => Sound
  BY AuthAssumption
     DEF Init, Sound, Table, Held, TokensBacked, AnswersAreTrue, HasKey, UserIds, Replies

(* The id that a registration takes is free.                                 *)
LEMMA NextIdFree ==
  ASSUME IInv, nextId <= MaxUserId
  PROVE  nextId \in UserIds /\ users[nextId] = NULL
  BY AuthAssumption DEF IInv, Shape, TypeOK, Sound, Table, UserIds

(* A step writes at most one row, whose id and key are free, and moves the   *)
(* counter up.                                                               *)
Adds(c) ==
  /\ pc[c] = "r_insert" /\ nextId <= MaxUserId /\ nextId' = nextId + 1
  /\ Insert(c) /\ ~Taken(req[c].email)

LEMMA UsersSteps ==
  ASSUME [Next]_vars
  PROVE  \/ \E c \in Clients : Adds(c)
         \/ users' = users /\ nextId' \in {nextId, nextId + 1}
  BY DEF Next, Step, Arrive, RHash, RInsert, RRead, LRead, LCheck, Call, Fail, Crash,
         Tick, Refuse, Goto, Finish, vars, Adds

(* A row never changes.                                                      *)
LEMMA RowsStay ==
  ASSUME IInv, [Next]_vars
  PROVE  \A i \in UserIds : users[i] # NULL => users'[i] = users[i]
<1>1. CASE \E c \in Clients : Adds(c)
  BY <1>1, NextIdFree DEF Adds, Insert, IInv, Shape, TypeOK
<1>2. CASE users' = users
  BY <1>2
<1> QED
  BY <1>1, <1>2, UsersSteps

LEMMA TableNext ==
  ASSUME IInv, [Next]_vars PROVE Table'
<1>1. nextId \in Nat \ {0} /\ Table
  BY DEF IInv, Shape, TypeOK, Sound
<1>2. ASSUME NEW c \in Clients, Adds(c) PROVE Table'
  <2> DEFINE n == [email |-> req[c].email, hash |-> Hash(req[c].password)]
  <2>1. /\ nextId \in UserIds /\ users[nextId] = NULL
        /\ \A i \in UserIds : users'[i] = IF i = nextId THEN n ELSE users[i]
    BY <1>2, NextIdFree DEF Adds, Insert, IInv, Shape, TypeOK
  <2>2. \A i \in UserIds : users[i] # NULL => Fold[users[i].email] # Fold[n.email]
    BY <1>2 DEF Adds, Taken, HasKey
  <2>3. ASSUME NEW i \in UserIds, i >= nextId' PROVE users'[i] = NULL
    BY <1>1, <1>2, <2>1, <2>3 DEF Adds, Table, UserIds
  <2>4. ASSUME NEW i \in UserIds, NEW j \in UserIds,
               users'[i] # NULL, HasKey(j, users[i].email)'
        PROVE  i = j
    <3>1. users'[j] # NULL /\ Fold[users'[j].email] = Fold[users'[i].email]
      BY <2>4 DEF HasKey
    <3> HIDE DEF n
    <3> QED
      BY <1>1, <2>1, <2>2, <2>4, <3>1 DEF Table, HasKey
  <2> QED
    BY <2>3, <2>4 DEF Table
<1>3. CASE users' = users /\ nextId' \in {nextId, nextId + 1}
  BY <1>1, <1>3 DEF Table, HasKey, UserIds
<1> QED
  BY <1>2, <1>3, UsersSteps

(* What was said of an account stays true.                                   *)
LEMMA AccountsStay ==
  ASSUME IInv, [Next]_vars
  PROVE  \A r : \A i \in UserIds :
           /\ HasKey(i, r.email) => HasKey(i, r.email)'
           /\ Opens(i, r) => Opens(i, r)'
  BY RowsStay DEF HasKey, Opens, Check, Hash

(* A login holds the account of its e-mail from its SELECT on, and a         *)
(* registration the one that it has written.                                 *)
LEMMA HeldNext ==
  ASSUME IInv, [Next]_vars PROVE Held'
<1> SUFFICES ASSUME NEW c \in Clients
             PROVE  /\ pc'[c] = "r_read" => Opens(row[c], req[c])'
                    /\ pc'[c] = "l_check" => HasKey(row[c], req[c].email)'
  BY DEF Held
<1> USE DEF IInv, Shape
<1>1. CASE RInsert(c)
  <2>1. pc'[c] # "l_check"
    BY <1>1 DEF RInsert, Goto, Finish, TypeOK
  <2>2. CASE pc'[c] = "r_read"
    <3>1. Insert(c) /\ row'[c] = nextId /\ req' = req
      BY <1>1, <2>2 DEF RInsert, Goto, Finish, TypeOK
    <3>2. nextId \in UserIds
      BY <1>1, NextIdFree DEF RInsert
    <3>3. users'[nextId] = [email |-> req[c].email, hash |-> Hash(req[c].password)]
      BY <3>1, <3>2 DEF Insert, TypeOK
    <3>4. users'[nextId] # NULL
      <4>1. IsRegister(req[c]) /\ req[c].password \notin Long
        BY <1>1 DEF RInsert, Asked, RegisterSteps
      <4> QED
        BY <3>3, <4>1, AuthAssumption DEF IsRegister, Hashes
    <3> QED
      BY <2>1, <3>1, <3>3, <3>4 DEF Opens, HasKey, Check
  <2> QED
    BY <2>1, <2>2
<1>2. CASE LRead(c)
  <2>1. pc'[c] # "r_read"
    BY <1>2 DEF LRead, Goto, Refuse, Finish, TypeOK
  <2>2. CASE pc'[c] = "l_check"
    <3>1. PICK i \in UserIds : HasKey(i, req[c].email) /\ row' = [row EXCEPT ![c] = i]
      BY <1>2, <2>2 DEF LRead, Refuse, Finish, TypeOK
    <3>2. row'[c] = i /\ req' = req /\ users' = users
      BY <1>2, <2>2, <3>1 DEF LRead, Goto, Refuse, Finish, TypeOK
    <3> QED
      BY <2>1, <3>1, <3>2 DEF HasKey
  <2> QED
    BY <2>1, <2>2
<1>3. CASE pc'[c] \notin {"r_read", "l_check"}
  BY <1>3
<1>4. CASE pc'[c] = pc[c] /\ row'[c] = row[c] /\ req'[c] = req[c]
           /\ pc[c] \in {"r_read", "l_check"}
  <2>1. row[c] \in UserIds /\ req[c] \in Requests
    BY <1>4 DEF TypeOK, Asked
  <2>2. /\ pc[c] = "r_read" => Opens(row[c], req[c])
        /\ pc[c] = "l_check" => HasKey(row[c], req[c].email)
    BY DEF Sound, Held
  <2>3. users[row[c]] # NULL
    BY <1>4, <2>2 DEF Opens, HasKey
  <2>4. users'[row[c]] = users[row[c]]
    BY <2>1, <2>3, RowsStay
  <2> QED
    BY <1>4, <2>2, <2>4 DEF Opens, HasKey, Check, Hash
<1>5. \/ RInsert(c) \/ LRead(c)
      \/ pc'[c] \notin {"r_read", "l_check"}
      \/ pc'[c] = pc[c] /\ row'[c] = row[c] /\ req'[c] = req[c]
  BY DEF Next, Step, Arrive, RHash, RInsert, RRead, LRead, LCheck, Call, Fail, Crash,
         Tick, Refuse, Goto, Finish, vars, TypeOK
<1> QED
  BY <1>1, <1>2, <1>3, <1>4, <1>5

LEMMA TokensNext ==
  ASSUME IInv, [Next]_vars PROVE TokensBacked'
<1> USE DEF IInv, Shape
<1>1. ASSUME NEW t \in tokens PROVE Backed(t)'
  <2>1. t.sub \in UserIds /\ Backed(t)
    BY DEF TypeOK, Token, Sound, TokensBacked
  <2> QED
    BY <2>1, RowsStay DEF Backed, Check
<1>2. ASSUME NEW c \in Clients, LCheck(c), Check(users[row[c]].hash, req[c].password),
             NEW t, t = Generate(row[c], req[c].password)
      PROVE  Backed(t)'
  <2>1. /\ t.sub = row[c] /\ t.password = req[c].password /\ t.at = now
        /\ t.exp <= now + TTL /\ t.exp > now + TTL - Second
    BY <1>2, GenerateType DEF LCheck
  <2>2. users' = users /\ users[row[c]] # NULL
    BY <1>2 DEF LCheck, Sound, Held, HasKey
  <2> QED
    BY <1>2, <2>1, <2>2 DEF Backed
<1>3. \/ tokens' = tokens
      \/ \E c \in Clients :
           /\ LCheck(c) /\ Check(users[row[c]].hash, req[c].password)
           /\ tokens' = tokens \cup {Generate(row[c], req[c].password)}
  BY DEF Next, Step, Arrive, RHash, RInsert, RRead, LRead, LCheck, Call, Fail, Crash,
         Tick, Refuse, Goto, Finish, vars
<1> QED
  BY <1>1, <1>2, <1>3 DEF TokensBacked

(* An answer is true when it is given, and AccountsStay keeps it so.         *)
LEMMA AnswersNext ==
  ASSUME IInv, [Next]_vars PROVE AnswersAreTrue'
<1> SUFFICES ASSUME NEW c \in Clients
             PROVE  /\ reply'[c] = "ok" /\ req'[c].op # "call" =>
                         \E i \in UserIds : Opens(i, req[c])'
                    /\ reply'[c] = "email_taken" => Taken(req[c].email)'
  BY DEF AnswersAreTrue
<1> USE DEF IInv, Shape
<1>1. CASE RRead(c) \/ LCheck(c)
  <2>1. row[c] \in UserIds /\ users' = users /\ req' = req
        /\ reply'[c] # "email_taken"
    BY <1>1 DEF RRead, LCheck, Refuse, Finish, TypeOK
  <2>2. reply'[c] = "ok" => Opens(row[c], req[c])
    BY <1>1 DEF RRead, LCheck, Refuse, Finish, TypeOK, Sound, Held, Opens
  <2> QED
    BY <2>1, <2>2 DEF Opens, HasKey
<1>2. CASE RInsert(c)
  <2>1. reply'[c] = "email_taken" => Taken(req[c].email) \/ reply[c] = "email_taken"
    BY <1>2 DEF RInsert, Goto, Finish, TypeOK
  <2>2. reply'[c] = "ok" => reply[c] = "ok"
    BY <1>2 DEF RInsert, Goto, Finish, TypeOK
  <2>3. req' = req
    BY <1>2 DEF RInsert, Goto, Finish
  <2> QED
    BY <2>1, <2>2, <2>3, AccountsStay DEF Taken, Sound, AnswersAreTrue
<1>3. CASE reply'[c] = "ok" /\ req'[c].op = "call"
  BY <1>3
<1>4. CASE reply'[c] \notin {"ok", "email_taken"}
  BY <1>4
<1>5. CASE reply'[c] = reply[c] /\ req'[c] = req[c]
  BY <1>5, AccountsStay DEF Taken, Sound, AnswersAreTrue
<1>6. /\ req = [d \in Clients |-> req[d]]
      /\ reply = [d \in Clients |-> reply[d]]
  BY DEF TypeOK
<1>7. ASSUME NEW d \in Clients, Step(d) \/ Fail(d) \/ Arrive(d) \/ Call(d) PROVE
      \/ RRead(c) \/ LCheck(c) \/ RInsert(c)
      \/ reply'[c] = "ok" /\ req'[c].op = "call"
      \/ reply'[c] \notin {"ok", "email_taken"}
      \/ reply'[c] = reply[c] /\ req'[c] = req[c]
  <2>1. CASE Arrive(d)
    BY <1>6, <2>1, AuthAssumption DEF Arrive, Replies
  <2>2. CASE Call(d)
    BY <1>6, <2>2 DEF Call
  <2>3. CASE Step(d) \/ Fail(d)
    <3>1. req' = req
      BY <2>3 DEF Step, RHash, RInsert, RRead, LRead, LCheck, Fail, Refuse, Goto, Finish
    <3>2. CASE d # c
      BY <1>6, <2>3, <3>1, <3>2
         DEF Step, RHash, RInsert, RRead, LRead, LCheck, Fail, Refuse, Goto, Finish
    <3>3. CASE d = c /\ (RHash(c) \/ LRead(c) \/ Fail(c))
      BY <1>6, <3>1, <3>3 DEF RHash, LRead, Fail, Refuse, Goto, Finish
    <3> QED
      BY <2>3, <3>2, <3>3 DEF Step
  <2> QED
    BY <1>7, <2>1, <2>2, <2>3
<1>8. CASE Crash
  <2>1. reply'[c] = "lost" \/ reply'[c] = reply[c]
    BY <1>8 DEF Crash
  <2> QED
    BY <1>4, <1>5, <1>8, <2>1 DEF Crash
<1>9. CASE Tick \/ UNCHANGED vars
  BY <1>5, <1>9 DEF Tick, vars
<1> QED
  BY <1>1, <1>2, <1>3, <1>4, <1>5, <1>7, <1>8, <1>9 DEF Next

LEMMA IInvNext == IInv /\ [Next]_vars => IInv'
  BY ShapeNext, TableNext, HeldNext, TokensNext, AnswersNext DEF IInv, Sound

THEOREM Invariance == Spec => []IInv
<1>1. Init => IInv
  BY ShapeInit, SoundInit DEF IInv
<1> QED
  BY <1>1, IInvNext, PTL DEF Spec

(* Every variable keeps its type (AuthService.TypeOK).                       *)
THEOREM TypeCorrect == Spec => []TypeOK
<1>1. IInv => TypeOK
  BY DEF IInv, Shape
<1> QED
  BY <1>1, Invariance, PTL

(* Whatever Register and Login answered stays true: who was told 201 owns    *)
(* the account of the address with his password, 409 is only told for an     *)
(* address with an account, and a token only for a password that bcrypt does *)
(* not tell from the account's, whatever it keeps of each (Kept).            *)
THEOREM AnswersStayTrue == Spec => []AnswersAreTrue
<1>1. IInv => AnswersAreTrue
  BY DEF IInv, Sound
<1> QED
  BY <1>1, Invariance, PTL

(* A login with the e-mail and the password of an account is not refused:    *)
(* the unique key lets its SELECT return no other account.                   *)
THEOREM LoginsFindTheirAccount == Spec => []GoodLoginsAreAccepted
<1>1. IInv => GoodLoginsAreAccepted
  <2> SUFFICES ASSUME IInv, NEW c \in Clients, pc[c] = "l_check",
                      NEW i \in UserIds, Opens(i, req[c])
               PROVE  Opens(row[c], req[c])
    BY DEF GoodLoginsAreAccepted
  <2>1. row[c] \in UserIds /\ HasKey(row[c], req[c].email)
    BY DEF IInv, Shape, TypeOK, Sound, Held
  <2>2. users[i] # NULL /\ HasKey(row[c], users[i].email)
    BY <2>1 DEF Opens, HasKey
  <2>3. i = row[c]
    BY <2>1, <2>2 DEF IInv, Sound, Table
  <2> QED
    BY <2>3
<1> QED
  BY <1>1, Invariance, PTL

(* A token is accepted before its TTL is over and for an account that        *)
(* accepts the password it was given for, and refused only in its last       *)
(* second and later.                                                         *)
THEOREM TokensLive == Spec => TokensLiveTheirTime
<1>1. ASSUME IInv, NEW c \in Clients, Call(c), req'[c].token # NULL
      PROVE  Honoured(c, req'[c].token)
  <2>1. PICK t \in tokens \cup {NULL} :
          /\ req' = [req EXCEPT ![c] = [op |-> "call", token |-> t]]
          /\ reply' = [reply EXCEPT ![c] =
               IF t # NULL /\ Valid(t) THEN "ok" ELSE "unauthorized"]
    BY <1>1 DEF Call
  <2>2. req'[c].token = t /\ reply'[c] = IF t # NULL /\ Valid(t) THEN "ok" ELSE "unauthorized"
    BY <1>1, <2>1 DEF IInv, Shape, TypeOK
  <2>3. t \in tokens /\ t \in Token /\ Backed(t)
    BY <1>1, <2>1, <2>2 DEF IInv, Shape, TypeOK, Sound, TokensBacked
  <2>4. /\ now \in Int /\ TTL \in Int /\ Second \in Int
        /\ t.at \in Int /\ t.exp \in Int
    BY <1>1, <2>3, AuthAssumption DEF IInv, Shape, TypeOK, Token
  <2> QED
    BY <1>1, <2>2, <2>3, <2>4 DEF Backed, Valid, Honoured
<1>2. IInv => CallsAreHonoured
  BY <1>1 DEF CallsAreHonoured
<1> QED
  BY <1>2, Invariance, PTL DEF TokensLiveTheirTime

-----------------------------------------------------------------------------
(* The book of the table: accounts under their keys.                         *)
LEMMA BookShape ==
  ASSUME IInv
  PROVE  /\ \A i \in UserIds : users[i] # NULL =>
              /\ users[i] \in [email : Emails, hash : Hashes]
              /\ Fold[users[i].email] \in Keys
              /\ Account(i) \in [id : UserIds, secret : Hashes]
              /\ Account(i) \in BookOfUsers[Fold[users[i].email]]
         /\ \A k \in Keys : \A a \in BookOfUsers[k] :
              \E i \in UserIds :
                users[i] # NULL /\ Fold[users[i].email] = k /\ a = Account(i)
<1>1. ASSUME NEW i \in UserIds, users[i] # NULL
      PROVE  /\ users[i] \in [email : Emails, hash : Hashes]
             /\ Fold[users[i].email] \in Keys
             /\ Account(i) \in [id : UserIds, secret : Hashes]
  BY <1>1, AuthAssumption DEF IInv, Shape, TypeOK, Account
<1> QED
  BY <1>1 DEF BookOfUsers

(* The account that a registration opens is new, in key and in id.           *)
LEMMA RegistrationOpens ==
  ASSUME IInv, NEW c \in Clients, Adds(c), tokens' = tokens
  PROVE  Book!Next
<1> DEFINE k == Fold[req[c].email]
           n == [email |-> req[c].email, hash |-> Hash(req[c].password)]
           a == [id |-> nextId, secret |-> n.hash]
<1>1. req[c].email \in Emails /\ n.hash \in Hashes
  BY DEF Adds, IInv, Shape, Asked, RegisterSteps, IsRegister, Hashes
<1>2. k \in Keys
  BY <1>1, AuthAssumption
<1>3. /\ nextId \in UserIds /\ users[nextId] = NULL
      /\ \A i \in UserIds : users'[i] = IF i = nextId THEN n ELSE users[i]
  BY NextIdFree DEF Adds, Insert, IInv, Shape, TypeOK
<1>4. n # NULL
  BY <1>1, AuthAssumption
<1>5. BookOfUsers[k] = {}
  BY <1>2, BookShape DEF Adds, Taken, HasKey
<1>6. \A b \in Book!Used : b.id # a.id
  BY <1>3, BookShape DEF Book!Used, Account
<1>7. BookOfUsers' = [BookOfUsers EXCEPT ![k] = {a}]
  <2>1. ASSUME NEW j \in Keys
        PROVE  BookOfUsers'[j] = IF j = k THEN {a} ELSE BookOfUsers[j]
    <3>1. /\ BookOfUsers[j] = {Account(i) : i \in
                                {m \in UserIds : users[m] # NULL /\ Fold[users[m].email] = j}}
          /\ BookOfUsers'[j] = {Account(i)' : i \in
                                 {m \in UserIds : users'[m] # NULL /\ Fold[users'[m].email] = j}}
      BY DEF BookOfUsers
    <3>2. \A i \in UserIds : Account(i)' = IF i = nextId THEN a ELSE Account(i)
      BY <1>3 DEF Account
    <3>3. CASE j # k
      BY <1>3, <3>1, <3>2, <3>3
    <3>4. CASE j = k
      BY <1>3, <1>4, <1>5, <3>1, <3>2, <3>4
    <3> QED
      BY <3>3, <3>4
  <2> QED
    BY <1>2, <2>1 DEF BookOfUsers
<1>8. Sessions' = Sessions
  BY DEF Sessions
<1>9. a \in Book!Accounts
  BY <1>1, <1>3 DEF Book!Accounts
<1> HIDE DEF k, n, a
<1> QED
  BY <1>2, <1>5, <1>6, <1>7, <1>8, <1>9 DEF Book!Next, Book!Open

(* A login that gets its token is granted a session for the secret it gave.  *)
LEMMA LoginIsGranted ==
  ASSUME IInv, NEW c \in Clients, LCheck(c), Check(users[row[c]].hash, req[c].password)
  PROVE  Book!Next
<1> DEFINE t == Generate(row[c], req[c].password)
           a == Account(row[c])
<1>1. row[c] \in UserIds /\ users[row[c]] # NULL
  BY DEF LCheck, IInv, Shape, TypeOK, Sound, Held, HasKey
<1>2. a \in Book!Accounts /\ a \in Book!Used
  BY <1>1, BookShape DEF Book!Accounts, Book!Used
<1>3. [id |-> t.sub, secret |-> Hash(t.password)] = a
  BY DEF Generate, Account, Check
<1>4. tokens' = tokens \cup {t}
  BY DEF LCheck
<1>5. Sessions' = Sessions \cup {a}
  <2> HIDE DEF t, a
  <2> QED
    BY <1>3, <1>4 DEF Sessions
<1>6. BookOfUsers' = BookOfUsers
  BY DEF LCheck, BookOfUsers, Account
<1> QED
  BY <1>2, <1>5, <1>6 DEF Book!Next, Book!Grant

LEMMA TokensSteps ==
  ASSUME [Next]_vars
  PROVE  \/ tokens' = tokens
         \/ users' = users /\ \E c \in Clients :
              LCheck(c) /\ Check(users[row[c]].hash, req[c].password)
  BY DEF Next, Step, Arrive, RHash, RInsert, RRead, LRead, LCheck, Call, Fail, Crash,
         Tick, Refuse, Goto, Finish, vars

LEMMA BookNext == IInv /\ [Next]_vars => [Book!Next]_(Book!vars)
<1> SUFFICES ASSUME IInv, [Next]_vars PROVE [Book!Next]_(Book!vars)
  OBVIOUS
<1>1. CASE tokens' = tokens /\ users' = users
  BY <1>1 DEF Book!vars, BookOfUsers, Account, Sessions
<1>2. CASE tokens' = tokens /\ \E c \in Clients : Adds(c)
  BY <1>2, RegistrationOpens
<1>3. CASE \E c \in Clients : LCheck(c) /\ Check(users[row[c]].hash, req[c].password)
  BY <1>3, LoginIsGranted
<1>4. ASSUME NEW c \in Clients, Adds(c) PROVE users' # users
  BY <1>4, NextIdFree, AuthAssumption
     DEF Adds, Insert, IInv, Shape, TypeOK, Asked, RegisterSteps, IsRegister, Hashes
<1> QED
  BY <1>1, <1>2, <1>3, <1>4, UsersSteps, TokensSteps

(* The table users and the tokens handed out implement an account book:      *)
(* accounts open once per address and never change, and sessions are granted *)
(* against the stored secret of an account, for a password, long or not,     *)
(* that bcrypt accepts for it (AuthService.Refinement).                      *)
THEOREM ImplementsAccountBook == Spec => Refinement
<1>1. Init => Book!Init
  BY DEF Init, Book!Init, BookOfUsers, Sessions
<1> QED
  BY <1>1, Invariance, BookNext, PTL DEF Spec, Refinement, Book!Spec

-----------------------------------------------------------------------------
(* Two facts about the table that the rest follows from.                     *)

(* No two accounts have the same address, as the collation compares them.    *)
OneAccountPerAddress ==
  \A i, j \in UserIds :
    users[i] # NULL /\ users[j] # NULL /\ Fold[users[i].email] = Fold[users[j].email] => i = j

(* An account keeps its id, its address and its password.                    *)
AccountsAreFinal ==
  [][/\ \A i \in UserIds : users[i] # NULL => users'[i] = users[i]
     /\ tokens \subseteq tokens']_vars

(* Registrations of one address, however they interleave, fail and are tried *)
(* again, leave one account: the unique key decides, nothing else checks.    *)
THEOREM AddressesAreUnique == Spec => []OneAccountPerAddress
<1>1. IInv => OneAccountPerAddress
  BY DEF IInv, Sound, Table, HasKey, OneAccountPerAddress
<1> QED
  BY <1>1, Invariance, PTL

(* No registration, login, failure or crash changes an account or calls a    *)
(* token back: a login may read the row and check the password later.        *)
THEOREM AccountsStayTheSame == Spec => AccountsAreFinal
<1>1. [Next]_vars => tokens \subseteq tokens'
  BY DEF Next, Step, Arrive, RHash, RInsert, RRead, LRead, LCheck, Call, Fail, Crash,
         Tick, Refuse, Goto, Finish, vars
<1>2. IInv /\ [Next]_vars =>
        /\ \A i \in UserIds : users[i] # NULL => users'[i] = users[i]
        /\ tokens \subseteq tokens'
  BY <1>1, RowsStay
<1> QED
  BY <1>2, Invariance, PTL DEF Spec, AccountsAreFinal
=============================================================================
