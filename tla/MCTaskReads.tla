---------------------------- MODULE MCTaskReads ----------------------------
(* Small instances of the two specifications of what is read from the table  *)
(* tasks: the reports (TaskReports) and the walk through the pages of a list *)
(* (TaskPages). They share nothing: a behaviour is one of the one or one of  *)
(* the other.                                                                *)
EXTENDS TaskReports, TLC

CONSTANTS
  DefaultLimit, MaxLimit, Limits,       \* as in TaskPages
  MaxListed, MaxChanges, MaxWalks       \* its bounds

VARIABLES
  subject,   \* the specification that this behaviour is of
  status, open, nextId, walk, changes, walks

Pages == INSTANCE TaskPages
  WITH Statuses <- AllStatuses, MaxTaskId <- MaxListed, MaxUpdates <- MaxChanges,
       updates <- changes

ASSUME PagesAssumed == Pages!PagesAssumption

pages == <<status, open, nextId, walk, changes, walks>>

MCInit ==
  /\ subject \in {"reports", "pages"}
  /\ Init /\ Pages!Init
  /\ subject = "pages" => members = Teams \X {CHOOSE u \in Users : TRUE}

MCNext ==
  /\ UNCHANGED subject
  /\ \/ subject = "reports" /\ Next /\ UNCHANGED pages
     \/ subject = "pages" /\ Pages!Next /\ UNCHANGED vars

MCSpec == MCInit /\ [][MCNext]_<<subject, vars, pages>>

Twins == Permutations(Teams)

(* The shape of every variable of both; the times of a row are ordered and   *)
(* past, and no page is longer than the largest one.                         *)
ShapesOK == TypeOK /\ Pages!TypeOK

(* A walk through the pages misses and repeats tasks only for those that     *)
(* leave and enter the list meanwhile (TaskPages).                           *)
WalkMissesOnlyForLeavers == Pages!WalkMissesOnlyForLeavers
=============================================================================
