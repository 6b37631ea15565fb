---------------------------- MODULE AccountBook ----------------------------
(* What the auth service promises: one account per e-mail address, which     *)
(* never changes once it is there, and sessions only for accounts against    *)
(* whose stored secret a password was accepted.                              *)
CONSTANTS
  Keys,      \* e-mail addresses, as far as the database tells them apart
  Ids,       \* account ids
  Secrets    \* what is stored of a password

VARIABLES
  book,      \* book[k]: the accounts under key k, at most one
  sessions   \* the sessions granted so far: whose, and against which secret

vars == <<book, sessions>>

Accounts == [id : Ids, secret : Secrets]

Used == UNION {book[k] : k \in Keys}

Init == book = [k \in Keys |-> {}] /\ sessions = {}

Open(k, a) ==
  /\ book[k] = {}
  /\ \A b \in Used : b.id # a.id
  /\ book' = [book EXCEPT ![k] = {a}]
  /\ UNCHANGED sessions

Grant(a) ==
  /\ a \in Used
  /\ sessions' = sessions \cup {a}
  /\ UNCHANGED book

Next == \E a \in Accounts : Grant(a) \/ \E k \in Keys : Open(k, a)

Spec == Init /\ [][Next]_vars
=============================================================================
