------------------------- MODULE MCSubjectRegistry -------------------------
(***************************************************************************)
(* Instances of SubjectRegistry for TLC: which calls the requests make,    *)
(* and the rows the tables hold at the start.                              *)
(***************************************************************************)
EXTENDS SubjectRegistry, TLC

CreateCall(ep, n, bad) ==
  [op |-> "create", ep |-> ep, id |-> 0, n |-> n, bad |-> bad, set |-> "none"]
ProjectCall == [CreateCall("subjects", 1, 0) EXCEPT !.set = "project"]
RowCall(op, ep, id, set) ==
  [op |-> op, ep |-> ep, id |-> id, n |-> 0, bad |-> 0, set |-> set]

\* Bulk and single creates over both tables, good and bad, beside deletes of
\* the row with the highest id and of an id that a create is about to assign.
CreatingCalls ==
  {CreateCall("subjects", 2, 0), CreateCall("subjects", 2, 2),
   CreateCall("projects", 1, 0), CreateCall("projects", 2, 0),
   CreateCall("verbs", 2, 0), CreateCall("verbs", 0, 0),
   RowCall("delete", "projects", 2, "none"),
   RowCall("delete", "subjects", 3, "none"),
   RowCall("delete", "verbs", 1, "none")}

\* Everything that checks a row and changes it later, beside the deletes and
\* creates that replace the row in between.
ChangingCalls ==
  {CreateCall("projects", 1, 0), CreateCall("subjects", 1, 0), ProjectCall,
   RowCall("patch", "projects", 2, "name"), RowCall("patch", "projects", 2, "none"),
   RowCall("patch", "subjects", 2, "other"), RowCall("patch", "subjects", 1, "project"),
   RowCall("patch", "verbs", 1, "name"),
   RowCall("delete", "projects", 2, "none"), RowCall("delete", "subjects", 2, "none"),
   RowCall("archive", "projects", 2, "none"),
   RowCall("unarchive", "projects", 2, "none")}

AllCalls == CreatingCalls \cup ChangingCalls

\* Creates of every outcome that contend for one lock, for the liveness run.
WaitingCalls ==
  {CreateCall("subjects", 1, 0), CreateCall("projects", 2, 2),
   CreateCall("projects", 1, 0), RowCall("patch", "subjects", 1, "name")}

\* A project and a subject, the project with the highest id, and a verb.
FewRows ==
  {[tab |-> "maludb_subject", id |-> 1, key |-> <<NoRequest, 1>>,
    project |-> FALSE, archived |-> FALSE, name |-> NoRequest],
   [tab |-> "maludb_subject", id |-> 2, key |-> <<NoRequest, 2>>,
    project |-> TRUE, archived |-> FALSE, name |-> NoRequest],
   [tab |-> "maludb_verb", id |-> 1, key |-> <<NoRequest, 3>>,
    project |-> FALSE, archived |-> FALSE, name |-> NoRequest]}

SomeSymmetry == Permutations(Requests) \cup Permutations(Workers)
=============================================================================
