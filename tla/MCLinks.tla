------------------------------ MODULE MCLinks ------------------------------
(***************************************************************************)
(* Instances of Links for TLC.  The subjects are 1 (a project), 2 and 3;   *)
(* 2 is the id of a verb too.                                              *)
(***************************************************************************)
EXTENDS Links, TLC

Call(op, tab, src, tgts, type) ==
  [op |-> op, tab |-> tab, src |-> src, tgts |-> tgts, type |-> type, id |-> 0]
ById(op, id, type) ==
  [op |-> op, tab |-> "related", src |-> 0, tgts |-> {}, type |-> type, id |-> id]

MemberCalls ==
  <<Call("link", "member", 1, {2}, "subject"),
   Call("link", "member", 1, {2}, "verb"),
   Call("replace", "member", 1, {3}, "subject"),
   Call("replace", "member", 1, {}, "subject"),
   Call("unlink", "member", 1, {2}, "subject"),
   Call("unlink", "member", 1, {2}, "verb")>>

OtherCalls ==
  <<Call("link", "related", 2, {3}, "t"), Call("link", "related", 3, {2}, "t"),
   Call("unlink", "related", 2, {3}, "t"),
   ById("patch", 1, "t"), ById("remove", 1, ""),
   Call("link", "verb", 2, {2}, "verb"), Call("unlink", "verb", 2, {2}, "verb")>>

PostCalls == {Call("link", "related", 2, {3}, "t")}

InitialRow(tab, src, tgt, type, id) ==
  [tab |-> tab, src |-> src, tgt |-> tgt, type |-> type, id |-> id,
   key |-> <<NoRequest, tgt>>, retyped |-> FALSE]

FewRows == {InitialRow("member", 1, 2, "subject", 0),
            InitialRow("member", 1, 3, "subject", 0),
            InitialRow("related", 2, 3, "u", 1)}

LinkCalls == {MemberCalls[i] : i \in DOMAIN MemberCalls}
               \cup {OtherCalls[i] : i \in DOMAIN OtherCalls}

(***************************************************************************)
(* A request is its call and its worker, and the workers are alike: of the *)
(* initial states that differ in the names only, one is enough.  This is   *)
(* the reduction SYMMETRY makes, in a form that liveness allows.  All      *)
(* requests work on one group of tables, since the two share no row.       *)
(***************************************************************************)
CONSTANTS r1, r2, r3, w1

InOrder(q) == \E i, j, k \in DOMAIN q :
  /\ i <= j /\ j <= k
  /\ call = (r1 :> q[i]) @@ (r2 :> q[j]) @@ (r3 :> q[k])

GroupInit == /\ Init /\ host[r1] = w1
             /\ (keyed /\ InOrder(MemberCalls)) \/ InOrder(OtherCalls)

GroupSpec == /\ GroupInit /\ [][Next]_vars
             /\ \A r \in Requests : WF_vars(Handler(r))
=============================================================================
