--------------------------------- MODULE Walks ---------------------------------
(***************************************************************************)
(* Walks over a set of edges [from, rel, to], as maludb_graph_walk takes   *)
(* them for GET /v1/graph/query: along an edge or against it.              *)
(***************************************************************************)
EXTENDS Integers

Adjacent(E, a, b) == \E e \in E : {e.from, e.to} = {a, b}
Objects(E) == {e.from : e \in E} \cup {e.to : e \in E}

\* maludb_graph_walk: the objects within d steps of one, either way, by distance.
Walk(E, start, d) ==
  LET ball[k \in 0..d] ==
        IF k = 0 THEN {start}
        ELSE ball[k-1] \cup {b \in Objects(E) : \E a \in ball[k-1] : Adjacent(E, a, b)}
      dist(n) == CHOOSE k \in 1..d : n \in ball[k] \ ball[k-1]
  IN  [n \in ball[d] \ {start} |-> dist(n)]

\* What a walk stands for: there is a path of k steps from a to b.
Path(E, a, b, k) ==
  \E path \in [0..k -> Objects(E)] :
    /\ path[0] = a /\ path[k] = b
    /\ \A i \in 0..k-1 : Adjacent(E, path[i], path[i+1])

\* n is d steps or less from another object that is in S.
WithinReach(E, S, n, d) == \E k \in 1..d : \E s \in S \ {n} : Path(E, s, n, k)
=============================================================================
