------------------------------ MODULE MCUpkeep ------------------------------
(***************************************************************************)
(* Instances of Upkeep for TLC.                                            *)
(***************************************************************************)
EXTENDS Upkeep, TLC

CONSTANTS s1, s2, c1, c2

\* Both sources name the subject of c1.
SharedCard == (s1 :> c1) @@ (s2 :> c1)

SomeSetups ==
  {[kind |-> "skill", extract |-> "ready", embed |-> "choice"],
   [kind |-> "skill", extract |-> "keyless", embed |-> "some_env"],
   [kind |-> "document", extract |-> "ready", embed |-> "env"],
   [kind |-> "document", extract |-> "none", embed |-> "keyless"]}
=============================================================================
