------------------------------ MODULE MCServer ------------------------------
(* Small instances of Server.                                                *)
EXTENDS Server, TLC

(* A transaction that takes the row lock and then needs Redis, and a single  *)
(* statement.                                                                *)
MCRoutes == {"update_task", "history"}
=============================================================================
