----------------------------- MODULE MCProfile -----------------------------
(***************************************************************************)
(* An instance of Profile for TLC.                                         *)
(***************************************************************************)
EXTENDS Profile, TLC

\* The profile is full at the start: one entry, in its second version.
FullProfile ==
  LET Version(n) == [id |-> n, key |-> "a", deleted |-> FALSE,
                     supersedes |-> n - 1, by |-> NoRequest]
  IN  {Version(1), Version(2)}

ProfileSymmetry == Permutations(Requests) \cup Permutations(Workers)
=============================================================================
