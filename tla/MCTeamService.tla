--------------------------- MODULE MCTeamService ---------------------------
(* A small instance of TeamService: every creation, every invitation to the  *)
(* first team, and to the second as a member.                                *)
EXTENDS TeamService, TLC

Invite(teams, roles) ==
  [op : {"invite"}, by : Users, team : teams, who : Users, role : roles]

MCRequests ==
  [op : {"create"}, by : Users] \cup Invite({1}, Roles \cup {BadRole})
                                \cup Invite({2}, {"member"})

Same == Permutations(Users) \cup Permutations(Clients)
=============================================================================
