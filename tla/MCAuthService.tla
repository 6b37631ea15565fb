--------------------------- MODULE MCAuthService ---------------------------
(* Small instances of AuthService: two spellings of one address and another  *)
(* one, two passwords that bcrypt can hash and one that is too long, which   *)
(* begins with the 72 bytes of "full".                                       *)
EXTENDS AuthService, TLC

MCFold == [e \in Emails |-> IF e = "Ann@" THEN "ann@" ELSE e]

MCKept == [p \in Passwords |-> IF p = "long" THEN "full" ELSE p]

Register(email, password) == [op |-> "register", email |-> email, password |-> password]

Login(email, password) == [op |-> "login", email |-> email, password |-> password]

MCRequests ==
  {Register("ann@", "p"), Register("Ann@", "full"), Register("bob@", "p"),
   Register("bob@", "long"),
   Login("ann@", "full"), Login("Ann@", "p"), Login("bob@", "p"),
   Login("ann@", "long")}

Slots == Permutations(Clients)
=============================================================================
