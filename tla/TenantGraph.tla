----------------------------- MODULE TenantGraph -----------------------------
(***************************************************************************)
(* The tenant's graph (routers/graph.py): POST /v1/graph/import, which     *)
(* turns nodes and links into subjects and statements, and                 *)
(* GET /v1/graph/query, which walks from the subjects a question names.    *)
(*                                                                         *)
(* An import writes chunk after chunk in one transaction, which other      *)
(* requests do not see before it commits; a query reads with one statement *)
(* after another, and sees each time what is committed by then.            *)
(*                                                                         *)
(* One namespace is modelled.  The subject of a node has the node's number *)
(* for its id; documents have ids of their own, which may be the same.     *)
(***************************************************************************)
EXTENDS RequestLife, Walks, SequencesExt

CONSTANTS
  Slugs,   \* [type -> the name it is registered by, or "" if it can have none]
  Chunk    \* options.chunk_size

ASSUME GraphAssumption == Chunk \in Nat \ {0}

NoId == -1   \* of a node or an end of a link without one
Root == 0    \* the subject of the namespace
Subject(id) == <<"subject", id>>

VARIABLES
  graph,   \* what is committed: [types, subjects, edges, groups]
  tx,      \* tx[r]: what r has written and not committed, the same
  plan     \* plan[r]: what the handler of r holds

graphVars == <<graph, tx, plan>>

\* Edges are [from, rel, to]; groups is <<>> or the set of communities [key, members].
NoTx == [types |-> {}, subjects |-> {}, edges |-> {}, groups |-> <<>>]

\* todo: payloads to ingest; created: subjects, as reported; put, had: history,
\* what was committed and the subjects there before.  seeds, and those left;
\* depth: of the objects found; shown: the answer, [depth, edges]; first: history,
\* the edges when the seeds were chosen.
NoPlan == [todo |-> <<>>, created |-> 0, put |-> NoTx, had |-> {},
           seeds |-> <<>>, left |-> <<>>, depth |-> <<>>,
           shown |-> [depth |-> <<>>, edges |-> {}], first |-> {}, last |-> {}]

GraphInit ==
  /\ tx = [r \in Requests |-> NoTx]
  /\ plan = [r \in Requests |-> NoPlan]

IsGraph(r) == call[r].kind = "graph"
Wanted(r) == call[r].ask
Hold(r, p) == plan' = [plan EXCEPT ![r] = p]

\* An exception in the transaction.
Rollback(r, why) ==
  /\ Answer(r, why)
  /\ tx' = [tx EXCEPT ![r] = NoTx]
  /\ UNCHANGED <<graph, plan>>

\* The checks of the body or of the parameters.
GraphBody(r) ==
  /\ pc[r] = "body" /\ IsGraph(r)
  /\ IF Wanted(r).bad THEN Answer(r, "bad request")
     ELSE Go(r, IF Wanted(r).op = "import" THEN "core" ELSE "seeds")
  /\ UNCHANGED graphVars

----------------------------------------------------------------------------
(***************************************************************************)
(* Import.                                                                 *)
(***************************************************************************)

\* What is at the places I of a list, in its order.
Picked(list, I) ==
  [k \in 1..Cardinality(I) |-> list[CHOOSE i \in I : Cardinality({j \in I : j < i}) = k - 1]]
\* Nodes without an id, and the second and later ones of an id, are skipped.
NodesOf(ask) ==
  LET n == ask.nodes
  IN  Picked(n, {i \in DOMAIN n : n[i].id # NoId /\ \A j \in 1..i-1 : n[j].id # n[i].id})
\* So are links to nodes that are not there.
LinksOf(ask) ==
  LET ids == {n.id : n \in ToSet(NodesOf(ask))}
      l == ask.links
  IN  Picked(l, {i \in DOMAIN l : l[i].from \in ids /\ l[i].to \in ids})
EdgeOf(l) == [from |-> Subject(l.from), rel |-> l.rel, to |-> Subject(l.to)]

\* by_community goes over all nodes of the body once more.
Communities(ask) ==
  LET filed == {n \in ToSet(ask.nodes) : n.id # NoId /\ n.community # 0}
  IN  {[key |-> k, members |-> {n.id : n \in {m \in filed : m.community = k}}] :
         k \in {n.community : n \in filed}}

\* They replace those of the namespace, if there are any.
Replacing(ask) == IF Communities(ask) = {} THEN <<>> ELSE <<Communities(ask)>>

\* New subjects of other transactions that have not committed.
Uncommitted(r) == (UNION {tx[q].subjects : q \in Requests \ {r}}) \ graph.subjects

Merged(G, t) ==
  [types |-> G.types \cup t.types, subjects |-> G.subjects \cup t.subjects,
   edges |-> G.edges \cup t.edges, groups |-> IF t.groups = <<>> THEN G.groups ELSE t.groups]
Committed(r, t, created) ==
  /\ graph' = Merged(graph, t)
  /\ tx' = [tx EXCEPT ![r] = NoTx]
  /\ Hold(r, [plan[r] EXCEPT !.put = t, !.had = graph.subjects, !.created = created])
  /\ Answer(r, "imported")

\* The engine's own import, in one statement, where there is one.
CoreImport(r) ==
  LET ids == {Root} \cup {n.id : n \in ToSet(NodesOf(Wanted(r)))} IN
  /\ pc[r] = "core"
  /\ \/ engine < 103 /\ Go(r, "types") /\ UNCHANGED graphVars
     \/ /\ engine >= 103
        /\ ids \cap Uncommitted(r) = {}
        /\ Committed(r, [types |-> {},
                         subjects |-> ids, edges |-> {EdgeOf(l) : l \in ToSet(LinksOf(Wanted(r)))},
                         groups |-> Replacing(Wanted(r))],
                     Cardinality(ids \ graph.subjects))
     \/ engine >= 103 /\ Rollback(r, "refused")

\* Fault: a chunk of edges lists the nodes its edges come from.
Sources(edges) == {e.from : e \in edges}

\* The nodes a chunk of edges lists once more.
Endpoints(edges) == {e.from : e \in edges} \cup {e.to : e \in edges}

\* The pieces of a sequence, as sets.
Chunked(s) ==
  [i \in 1..((Len(s) + Chunk - 1) \div Chunk) |->
     {s[j] : j \in {k \in DOMAIN s : (i - 1) * Chunk < k /\ k <= i * Chunk}}]
\* Three passes: the root, the nodes, the links.
Payloads(ask, root, nodes) ==
  LET subjects(S, counts) == [subjects |-> S, links |-> {}, counts |-> counts]
      links(L) == [subjects |-> {n \in ToSet(nodes) : n.id \in Endpoints(L)},
                   links |-> L, counts |-> FALSE]
      N == Chunked(nodes)
      L == Chunked(LinksOf(ask))
  IN  <<subjects({root}, TRUE)>> \o [i \in DOMAIN N |-> subjects(N[i], TRUE)]
        \o [i \in DOMAIN L |-> links(L[i])]

\* Types that the catalog lacks are registered, or replaced by a generic one.
RegisterTypes(r) ==
  LET catalog == graph.types
      generic == IF "concept" \in catalog THEN "concept" ELSE "other"
      canRegister == engine >= 102
      named(type) == IF type \in catalog THEN type
                     ELSE IF canRegister /\ Slugs[type] # "" THEN Slugs[type] ELSE generic
      typed(n) == [id |-> n.id, type |-> named(n.type)]
      root == typed([id |-> Root, type |-> "graph_namespace"])
      nodes == [i \in DOMAIN NodesOf(Wanted(r)) |-> typed(NodesOf(Wanted(r))[i])]
  IN
  /\ pc[r] = "types"
  /\ \/ generic \notin catalog /\ Rollback(r, "bad request")
     \/ /\ generic \in catalog
        /\ tx' = [tx EXCEPT ![r].types = ({root.type} \cup {n.type : n \in ToSet(nodes)}) \ catalog]
        /\ Hold(r, [plan[r] EXCEPT !.todo = Payloads(Wanted(r), root, nodes)])
        /\ Go(r, "ingest") /\ UNCHANGED graph
     \/ Rollback(r, "refused")

\* One call of maludb_memory_ingest_extraction.  The engine leaves out subjects
\* of an unknown type, and edges whose ends the payload does not list.
IngestChunk(r) ==
  LET p == Head(plan[r].todo)
      ids == {n.id : n \in {m \in p.subjects : m.type \in graph.types \cup tx[r].types}}
      new == ids \ (graph.subjects \cup tx[r].subjects)
      edges == {EdgeOf(l) : l \in {k \in p.links : k.from \in ids /\ k.to \in ids}}
  IN
  /\ pc[r] = "ingest"
  /\ \/ /\ ids \cap Uncommitted(r) = {}
        /\ tx' = [tx EXCEPT ![r].subjects = @ \cup ids, ![r].edges = @ \cup edges]
        /\ Hold(r, [plan[r] EXCEPT !.todo = Tail(@),
                                   !.created = IF p.counts THEN @ + Cardinality(new) ELSE @])
        /\ Go(r, IF Tail(plan[r].todo) = <<>> THEN "groups" ELSE "ingest")
        /\ UNCHANGED graph
     \/ Rollback(r, "refused")

\* maludb_community_replace, where there is one.
StoreGroups(r) ==
  /\ pc[r] = "groups"
  /\ \/ /\ tx' = [tx EXCEPT ![r].groups = IF engine < 102 THEN <<>> ELSE Replacing(Wanted(r))]
        /\ Go(r, "commit") /\ UNCHANGED <<graph, plan>>
     \/ Rollback(r, "refused")

Commit(r) == pc[r] = "commit" /\ Committed(r, tx[r], plan[r].created)

----------------------------------------------------------------------------
(***************************************************************************)
(* Query.                                                                  *)
(***************************************************************************)

\* The subjects that match most terms of the question; scores are 0 elsewhere.
ChooseSeeds(r) ==
  LET score == Wanted(r).scores
      C == {s \in graph.subjects : s \in DOMAIN score /\ score[s] > 0}
      before(s, t) == score[s] > score[t] \/ (score[s] = score[t] /\ s < t)
      S == {s \in C : Cardinality({t \in C : before(t, s)}) < Wanted(r).seeds}
  IN
  /\ pc[r] = "seeds"
  /\ LET s == [k \in 1..Cardinality(S) |->
                CHOOSE x \in S : Cardinality({t \in S : before(t, x)}) = k - 1] IN
       Hold(r, [plan[r] EXCEPT !.seeds = s, !.left = s, !.first = graph.edges])
  /\ IF S = {} THEN Answer(r, "nothing") ELSE Go(r, "walk")
  /\ UNCHANGED <<graph, tx>>

\* Fault: an object keeps the depth of the walk that found it first.
FirstFound(known, walk) == Overlaid(walk, known)

\* The shallowest depth wins.
Shallowest(known, walk) ==
  [n \in DOMAIN known \cup DOMAIN walk |->
     IF n \notin DOMAIN known THEN walk[n]
     ELSE IF n \in DOMAIN walk /\ walk[n] < known[n] THEN walk[n] ELSE known[n]]

\* The walk from one seed, which is at depth 0 unless an earlier walk found it.
WalkFrom(r) ==
  LET p == plan[r]
      seed == Subject(Head(p.left))
      known == Overlaid([n \in {seed} |-> 0], p.depth)
  IN
  /\ pc[r] = "walk"
  /\ Hold(r, [p EXCEPT !.left = Tail(@),
                       !.depth = Shallowest(known, Walk(graph.edges, seed, Wanted(r).depth))])
  /\ Go(r, IF Tail(p.left) = <<>> THEN "edges" ELSE "walk")
  /\ UNCHANGED <<graph, tx>>

\* The nearest objects, by depth and id, and the edges between them.
ShowGraph(r) ==
  LET depth == plan[r].depth
      nearer(a, b) == depth[a] < depth[b] \/ (depth[a] = depth[b] /\ a[2] < b[2])
      size(K) == Cardinality(K) = Min({Wanted(r).max, Cardinality(DOMAIN depth)})
  IN
  /\ pc[r] = "edges"
  /\ \E K \in {S \in SUBSET DOMAIN depth : size(S)} :
       /\ \A a \in K, b \in DOMAIN depth \ K : ~nearer(b, a)
       /\ Hold(r, [plan[r] EXCEPT !.last = graph.edges,
                     !.shown = [depth |-> [n \in K |-> depth[n]],
                                edges |-> {e \in graph.edges : e.from \in K /\ e.to \in K}]])
  /\ Answer(r, "shown")
  /\ UNCHANGED <<graph, tx>>

GraphStep(r) ==
  \/ GraphBody(r) \/ CoreImport(r) \/ RegisterTypes(r) \/ IngestChunk(r) \/ StoreGroups(r) \/ Commit(r)
  \/ ChooseSeeds(r) \/ WalkFrom(r) \/ ShowGraph(r)

----------------------------------------------------------------------------
(***************************************************************************)
(* What a client may rely on.                                              *)
(***************************************************************************)

\* An import puts all of its graph there or nothing: every node with an id,
\* the namespace, and every link between such nodes, wherever the limits of
\* its chunks fall, whatever types its nodes declare, and whoever else imports
\* the same nodes; and it reports as created the subjects that were not there
\* (graph.py:600, "Runs in a single transaction").
ImportIsWhole ==
  \A r \in Requests : IsGraph(r) /\ Wanted(r).op = "import" =>
    LET put == plan[r].put
        ids == {n.id : n \in ToSet(Wanted(r).nodes)} \ {NoId}
        links == {l \in ToSet(Wanted(r).links) : {l.from, l.to} \subseteq ids}
    IN  /\ reply[r] = "imported" => put # NoTx
        /\ reply[r] \notin {"none", "imported", "lost"} => put = NoTx
        /\ put # NoTx =>
             /\ put.subjects = ids \cup {Root}
             /\ put.edges = {EdgeOf(l) : l \in links}
             /\ plan[r].created = Cardinality(put.subjects \ plan[r].had)
             /\ put.subjects \subseteq graph.subjects /\ put.edges \subseteq graph.edges

\* What a query shows is a piece of the graph around its seeds, although the
\* graph grows while it is read: an object is shown no nearer to the other seeds
\* than it is at the end and no farther than it was at the beginning; it is left
\* out only for objects that are as near, and a seed only if there is no room;
\* and the edges are those between the objects shown, and not between others of
\* the same ids (graph.py:354, 385).
QueryShowsTheGraph ==
  \A r \in Requests : IsGraph(r) /\ reply[r] = "shown" =>
    LET p == plan[r]
        K == DOMAIN p.shown.depth
        d == Wanted(r).depth
        S == {Subject(s) : s \in ToSet(p.seeds)}
        full == Cardinality(K) = Wanted(r).max
    IN  /\ p.shown.edges = {e \in p.last : e.from \in K /\ e.to \in K}
        /\ Cardinality(K) <= Wanted(r).max
        /\ S \subseteq K \/ full
        /\ \A n \in K : \/ p.shown.depth[n] = 0 /\ n \in S
                        \/ WithinReach(p.last, S, n, p.shown.depth[n])
        /\ \A n \in Objects(p.first) : \A k \in 1..d : WithinReach(p.first, S, n, k) =>
             \/ n \in K /\ p.shown.depth[n] <= k
             \/ n \notin K /\ full /\ \A m \in K : p.shown.depth[m] <= k
=============================================================================
