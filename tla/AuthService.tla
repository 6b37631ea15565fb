---------------------------- MODULE AuthService ----------------------------
(* AuthService.Register and Login over the MySQL table users, one action per *)
(* SQL statement and one for each use of bcrypt, and the middleware that     *)
(* checks the token of every other request. Each statement is a transaction  *)
(* of its own. Tokens are kept by the clients; the service keeps none.       *)
EXTENDS Integers

CONSTANTS
  Emails,     \* spellings of e-mail addresses, as the handlers trim them
  Fold,       \* Fold[e]: what the collation of users.email sees of e
  Passwords,
  Kept,       \* Kept[p]: what bcrypt compares of a password, its first 72 bytes
  Long,       \* passwords of more than 72 bytes: bcrypt refuses to hash them,
              \* but not to compare them
  Clients,    \* slots for concurrent requests
  Requests,   \* the registrations and logins clients may send
  TTL,        \* auth.token_ttl, in ticks of the clock
  Second,     \* ticks of a second
  MaxUserId,  \* bound: AUTO_INCREMENT ends here
  MaxRequests,\* bound: registrations and logins of a behaviour
  MaxTime,    \* bound: the clock stops here
  NULL        \* no value

UserIds == 1..MaxUserId

Keys == {Fold[e] : e \in Emails}

(* What is stored of a password; the salt makes no difference to Check.      *)
Hash(p) == <<"bcrypt", Kept[p]>>

Hashes == {Hash(p) : p \in Passwords \ Long}

Check(hash, p) == hash = Hash(p)

Replies == {"ok", "email_taken", "invalid_credentials", "unauthorized",
            "internal", "lost"}

IsRegister(r) == r \in [op : {"register"}, email : Emails, password : Passwords]

IsLogin(r) == r \in [op : {"login"}, email : Emails, password : Passwords]

ASSUME AuthAssumption ==
  /\ Fold \in [Emails -> Keys]
  /\ Long \subseteq Passwords
  /\ \A r \in Requests : IsRegister(r) \/ IsLogin(r)
  /\ {TTL, MaxUserId, MaxRequests, MaxTime} \subseteq Nat
  /\ Second \in Nat \ {0}
  /\ NULL \notin UserIds
  /\ NULL \notin Replies
  /\ NULL \notin [email : Emails, hash : Hashes]

VARIABLES
  users,    \* users: the row of each account id, or NULL
  nextId,   \* the AUTO_INCREMENT counter of users
  tokens,   \* the tokens that were handed out, all signed with our secret
  now,      \* the clock
  pc,       \* pc[c]: the next step of the request of client c
  req,      \* req[c]: the last request of client c
  row,      \* row[c]: the id of the account the request has written or read
  reply,    \* reply[c]: what the last request of c was answered
  budget    \* the registrations and logins that may still arrive

vars == <<users, nextId, tokens, now, pc, req, row, reply, budget>>

PCs == {"idle", "r_hash", "r_insert", "r_read", "l_read", "l_check"}

(* The claims of a token, and two history fields: when and for which         *)
(* password it was issued.                                                   *)
Token == [sub : UserIds, exp : Nat, at : 0..MaxTime, password : Passwords]

Init ==
  /\ users = [i \in UserIds |-> NULL]
  /\ nextId = 1
  /\ tokens = {}
  /\ now = 0
  /\ pc = [c \in Clients |-> "idle"]
  /\ req = [c \in Clients |-> NULL]
  /\ row = [c \in Clients |-> NULL]
  /\ reply = [c \in Clients |-> NULL]
  /\ budget = MaxRequests

-----------------------------------------------------------------------------
Goto(c, label) ==
  /\ pc' = [pc EXCEPT ![c] = label]
  /\ UNCHANGED <<now, req, reply, budget>>

Finish(c, answer) ==
  /\ pc' = [pc EXCEPT ![c] = "idle"]
  /\ row' = [row EXCEPT ![c] = NULL]
  /\ reply' = [reply EXCEPT ![c] = answer]
  /\ UNCHANGED <<now, req, budget>>

Refuse(c, answer) == Finish(c, answer) /\ UNCHANGED <<users, nextId, tokens>>

(* A handler has parsed a registration or a login.                           *)
Arrive(c) ==
  /\ pc[c] = "idle"
  /\ budget > 0
  /\ \E r \in Requests :
       /\ req' = [req EXCEPT ![c] = r]
       /\ pc' = [pc EXCEPT ![c] = IF r.op = "register" THEN "r_hash" ELSE "l_read"]
  /\ reply' = [reply EXCEPT ![c] = NULL]
  /\ budget' = budget - 1
  /\ UNCHANGED <<users, nextId, tokens, now, row>>

-----------------------------------------------------------------------------
(* Register: bcrypt's error on a long password is answered 500.              *)
RHash(c) ==
  /\ pc[c] = "r_hash"
  /\ IF req[c].password \in Long
     THEN Refuse(c, "internal")
     ELSE Goto(c, "r_insert") /\ UNCHANGED <<users, nextId, tokens, row>>

(* An account with this e-mail, as the unique key compares them.             *)
HasKey(i, email) == users[i] # NULL /\ Fold[users[i].email] = Fold[email]

Taken(email) == \E i \in UserIds : HasKey(i, email)

Insert(c) ==
  users' = [users EXCEPT ![nextId] =
              [email |-> req[c].email, hash |-> Hash(req[c].password)]]

(* Mutant: ON DUPLICATE KEY UPDATE password_hash.                            *)
RInsertUpsert(c) ==
  /\ pc[c] = "r_insert"
  /\ nextId <= MaxUserId
  /\ nextId' = nextId + 1
  /\ UNCHANGED tokens
  /\ IF Taken(req[c].email)
     THEN /\ users' = [i \in UserIds |->
                         IF HasKey(i, req[c].email)
                         THEN [users[i] EXCEPT !.hash = Hash(req[c].password)]
                         ELSE users[i]]
          /\ Finish(c, "ok")
     ELSE /\ Insert(c)
          /\ \/ row' = [row EXCEPT ![c] = nextId] /\ Goto(c, "r_read")
             \/ Finish(c, "internal")

(* Mutant: users.email has no unique key.                                    *)
RInsertTwice(c) ==
  /\ pc[c] = "r_insert"
  /\ nextId <= MaxUserId
  /\ nextId' = nextId + 1
  /\ UNCHANGED tokens
  /\ Insert(c)
  /\ \/ row' = [row EXCEPT ![c] = nextId] /\ Goto(c, "r_read")
     \/ Finish(c, "internal")

(* INSERT INTO users: the unique key alone decides between registrations of  *)
(* one address. A duplicate uses up an id as well. The INSERT may take       *)
(* effect and yet return an error.                                           *)
RInsert(c) ==
  /\ pc[c] = "r_insert"
  /\ nextId <= MaxUserId
  /\ nextId' = nextId + 1
  /\ UNCHANGED tokens
  /\ IF Taken(req[c].email)
     THEN Finish(c, "email_taken") /\ UNCHANGED users
     ELSE /\ Insert(c)
          /\ \/ row' = [row EXCEPT ![c] = nextId] /\ Goto(c, "r_read")
             \/ Finish(c, "internal")

(* SELECT of the new row, for the answer.                                    *)
RRead(c) ==
  /\ pc[c] = "r_read"
  /\ Refuse(c, IF users[row[c]] # NULL THEN "ok" ELSE "internal")

-----------------------------------------------------------------------------
(* Mutant: that there is no such account is noticed too late.                *)
LReadNil(c) ==
  /\ pc[c] = "l_read"
  /\ IF Taken(req[c].email)
     THEN \E i \in UserIds : HasKey(i, req[c].email) /\ row' = [row EXCEPT ![c] = i]
     ELSE UNCHANGED row
  /\ Goto(c, "l_check")
  /\ UNCHANGED <<users, nextId, tokens>>

(* Login: SELECT by e-mail, then bcrypt and the token.                       *)
LRead(c) ==
  /\ pc[c] = "l_read"
  /\ IF Taken(req[c].email)
     THEN /\ \E i \in UserIds : HasKey(i, req[c].email) /\ row' = [row EXCEPT ![c] = i]
          /\ Goto(c, "l_check")
          /\ UNCHANGED <<users, nextId, tokens>>
     ELSE Refuse(c, "invalid_credentials")

(* Mutant: rounded to the next second.                                       *)
RoundedUp(time) == time + Second - (time % Second)

(* jwt.NewNumericDate: whole seconds, rounded down.                          *)
NumericDate(time) == time - (time % Second)

(* JWTManager.Generate.                                                      *)
Generate(sub, password) ==
  [sub |-> sub, exp |-> NumericDate(now + TTL), at |-> now, password |-> password]

(* Mutant: every password will do.                                           *)
LCheckNothing(c) ==
  /\ pc[c] = "l_check"
  /\ tokens' = tokens \cup {Generate(row[c], req[c].password)}
  /\ Finish(c, "ok")
  /\ UNCHANGED <<users, nextId>>

LCheck(c) ==
  /\ pc[c] = "l_check"
  /\ IF Check(users[row[c]].hash, req[c].password)
     THEN /\ tokens' = tokens \cup {Generate(row[c], req[c].password)}
          /\ Finish(c, "ok")
          /\ UNCHANGED <<users, nextId>>
     ELSE Refuse(c, "invalid_credentials")

-----------------------------------------------------------------------------
(* JWTManager.Parse of one of our tokens.                                    *)
Valid(token) == now < token.exp

(* A request to a protected route, with one of our tokens or with none (no   *)
(* header, no token, or one we did not sign): the middleware lets it pass as *)
(* the user of the token, or answers 401.                                    *)
Call(c) ==
  /\ pc[c] = "idle"
  /\ \E token \in tokens \cup {NULL} :
       /\ req' = [req EXCEPT ![c] = [op |-> "call", token |-> token]]
       /\ reply' = [reply EXCEPT ![c] =
            IF token # NULL /\ Valid(token) THEN "ok" ELSE "unauthorized"]
  /\ UNCHANGED <<users, nextId, tokens, now, pc, row, budget>>

(* A statement returns an error, or signing does.                            *)
Fail(c) ==
  /\ pc[c] # "idle"
  /\ Refuse(c, "internal")

(* The process dies and starts again with the same configuration; tokens and *)
(* rows are not in it.                                                       *)
Crash ==
  LET hit == {c \in Clients : pc[c] # "idle"} IN
  /\ hit # {}
  /\ pc' = [c \in Clients |-> "idle"]
  /\ row' = [c \in Clients |-> NULL]
  /\ reply' = [c \in Clients |-> IF c \in hit THEN "lost" ELSE reply[c]]
  /\ UNCHANGED <<users, nextId, tokens, now, req, budget>>

Tick ==
  /\ now < MaxTime
  /\ now' = now + 1
  /\ UNCHANGED <<users, nextId, tokens, pc, req, row, reply, budget>>

Step(c) == RHash(c) \/ RInsert(c) \/ RRead(c) \/ LRead(c) \/ LCheck(c)

Next ==
  \/ \E c \in Clients : Arrive(c) \/ Step(c) \/ Call(c) \/ Fail(c)
  \/ Crash
  \/ Tick

Spec == Init /\ [][Next]_vars

-----------------------------------------------------------------------------
(* Properties.                                                               *)

(* The shape of every variable; steps that use an account have one.          *)
TypeOK ==
  /\ users \in [UserIds -> [email : Emails, hash : Hashes] \cup {NULL}]
  /\ nextId \in Nat \ {0}
  /\ tokens \subseteq Token
  /\ now \in 0..MaxTime
  /\ pc \in [Clients -> PCs]
  /\ req \in [Clients -> Requests \cup {NULL} \cup
                         [op : {"call"}, token : tokens \cup {NULL}]]
  /\ row \in [Clients -> UserIds \cup {NULL}]
  /\ \A c \in Clients : pc[c] \in {"r_read", "l_check"} => row[c] # NULL
  /\ reply \in [Clients -> Replies \cup {NULL}]
  /\ budget \in 0..MaxRequests

(* The account that a login with this e-mail and this password opens. Here   *)
(* and below, a password is an account's password if bcrypt cannot tell the  *)
(* two apart: a long one may open the account of its first 72 bytes.         *)
Opens(i, r) == HasKey(i, r.email) /\ Check(users[i].hash, r.password)

(* Whatever was answered stays true through races, failures and crashes:     *)
(* who was told 201 owns the account of the address, with his password, and  *)
(* no later registration takes it over; 409 is told only for an address that *)
(* has an account; a login that got a token gave a password that bcrypt      *)
(* cannot tell from the account's.                                           *)
AnswersAreTrue ==
  \A c \in Clients :
    /\ reply[c] = "ok" /\ req[c].op # "call" => \E i \in UserIds : Opens(i, req[c])
    /\ reply[c] = "email_taken" => Taken(req[c].email)

(* A login whose e-mail and password were good when it was read is not       *)
(* refused, whoever registers meanwhile.                                     *)
GoodLoginsAreAccepted ==
  \A c \in Clients :
    pc[c] = "l_check" /\ (\E i \in UserIds : Opens(i, req[c])) => Opens(row[c], req[c])

Honoured(c, t) ==
  /\ reply'[c] = "ok" =>
       /\ now < t.at + TTL
       /\ users[t.sub] # NULL /\ Check(users[t.sub].hash, t.password)
  /\ reply'[c] = "unauthorized" => now > t.at + TTL - Second

CallsAreHonoured ==
  \A c \in Clients : Call(c) /\ req'[c].token # NULL => Honoured(c, req'[c].token)

(* A token opens the protected routes for the account it was issued for, on  *)
(* a password that account accepts, for TTL, less at most the fraction of a  *)
(* second that its claims cannot express, and never after; a crash in        *)
(* between makes no difference.                                              *)
TokensLiveTheirTime == [][CallsAreHonoured]_vars

(* Accounts under the key of their address, and sessions with what bcrypt    *)
(* compares of the password that was given.                                  *)
Account(i) == [id |-> i, secret |-> users[i].hash]

BookOfUsers ==
  [k \in Keys |-> {Account(i) : i \in {j \in UserIds :
                     users[j] # NULL /\ Fold[users[j].email] = k}}]

Sessions == {[id |-> t.sub, secret |-> Hash(t.password)] : t \in tokens}

Book == INSTANCE AccountBook
  WITH Ids <- UserIds, Secrets <- Hashes, book <- BookOfUsers, sessions <- Sessions

(* The table and the tokens are an account book.                             *)
Refinement == Book!Spec
=============================================================================
