------------------------------ MODULE MCSkills ------------------------------
(***************************************************************************)
(* Instances of Skills for TLC.                                            *)
(***************************************************************************)
EXTENDS Skills, TLC

CONSTANTS r1, r2, r3

Made(fm, files, text, ws) == [fm |-> fm, files |-> files, text |-> text, ws |-> ws]
Old == Made(1, 1, 1, 1)
Row(name, content, bundle, review) ==
  [name |-> name, content |-> content, bundle |-> bundle, enabled |-> TRUE,
   review |-> review, over |-> 0, by |-> NoRequest]

\* A registered version and a plain skill.
TwoSkills == 1 :> Row("n", Old, TRUE, "approved")
               @@ 2 :> Row("m", Made(1, 0, 1, 1), FALSE, "approved")

Plain == [op |-> "ingest", name |-> "n", id |-> 0, content |-> Old, set |-> "none",
          differs |-> "unset", review |-> "unset", enabled |-> TRUE,
          model |-> "none", preview |-> FALSE]
Of(op, id) == [Plain EXCEPT !.op = op, !.id = id]

\* Pushes of bundles: known, of every difference, of every model, proposed.
Pushes ==
  {Plain, [Plain EXCEPT !.review = "proposed"],
   [Plain EXCEPT !.content = Made(2, 1, 1, 1), !.review = "proposed"],
   [Plain EXCEPT !.content = Made(2, 1, 1, 1)],
   [Plain EXCEPT !.content = Made(1, 2, 1, 1), !.model = "ready"],
   [Plain EXCEPT !.content = Made(1, 1, 1, 2)],
   [Plain EXCEPT !.content = Made(1, 1, 2, 1), !.model = "ready"],
   [Plain EXCEPT !.content = Made(1, 1, 2, 1), !.model = "keyless"],
   [Plain EXCEPT !.content = Made(2, 1, 2, 1), !.differs = "no"],
   [Plain EXCEPT !.name = "m", !.content = Made(1, 0, 1, 2), !.id = 2],
   [Plain EXCEPT !.name = "m", !.content = Made(1, 0, 2, 1), !.model = "ready"],
   [Plain EXCEPT !.preview = TRUE, !.model = "unknown"],
   [Plain EXCEPT !.preview = TRUE]}

Others ==
  {[Of("create", 0) EXCEPT !.name = "m"],
   [Of("patch", 1) EXCEPT !.set = "name", !.name = "m"],
   [Of("patch", 1) EXCEPT !.set = "enabled", !.enabled = FALSE],
   [Of("patch", 2) EXCEPT !.set = "markdown", !.content = Made(1, 1, 2, 1)],
   [Of("patch", 2) EXCEPT !.set = "none"],
   Of("delete", 1), Of("delete", 3), [Of("duplicate", 1) EXCEPT !.name = "m"],
   Of("review", 1), [Of("review", 1) EXCEPT !.review = "rejected"],
   [Of("review", 3) EXCEPT !.review = "approved"]}

SkillCalls == Pushes \cup Others

SkillSymmetry == Permutations(Requests)
=============================================================================
