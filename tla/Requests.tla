------------------------------- MODULE Requests -------------------------------
(***************************************************************************)
(* Requests served at the same time, from their token to their answer: the *)
(* steps every request takes (RequestLife), and the handlers of the user   *)
(* tables (Tables), of the questions to memory (Answers), of the graph     *)
(* (TenantGraph) and of what is kept piece by piece (Records).  Workers    *)
(* run independently; any of them may die.  The requests of one behaviour  *)
(* are all of one kind, as kinds share no data.                            *)
(***************************************************************************)
EXTENDS Tables, Answers, TenantGraph, Records

CONSTANTS
  Starts   \* [calls, engine, rows, keyed, graph, store]: what is asked, of which tenant

ASSUME StartsAssumption == \A s \in Starts : \A r \in Requests : s.calls[r].head \in Headers

\* What parse_request lets through: at least one namespace, lists, and limits.
ASSUME AsksAssumption ==
  \A b \in Starts : \A r \in Requests :
    LET a == b.calls[r].ask IN
    b.calls[r].kind = "memory" /\ ~a.bad =>
      /\ a.namespaces \in Seq(Namespaces) /\ a.namespaces # <<>>
      /\ \A s \in {a.projectSubjects, a.named, a.candidates} : s \in Seq(ToSet(s))
      /\ a.max \in Nat /\ a.least \in Int

\* A store there may be.
IsList(s) == s \in Seq(ToSet(s))
StoreTyped(S) ==
  /\ S = [rows |-> S.rows, facts |-> S.facts, chats |-> S.chats]
  /\ IsList(S.rows) /\ \A i \in DOMAIN S.rows : RowTyped(S.rows[i])
  /\ S.facts = [k \in Facts |-> [by |-> S.facts[k].by, text |-> S.facts[k].text]]
  /\ IsList(S.chats)
  /\ \A i \in DOMAIN S.chats : LET c == S.chats[i] IN
       c = [scope |-> c.scope, closed |-> c.closed, log |-> c.log] /\ IsList(c.log)

\* What the handlers of records let through: a new row has the columns of its
\* kind, a PATCH names some of them, lists are lists, and a call without a body
\* has no bad one.
OrderTyped(a) ==
  /\ a.op = "create" => a.set = [kind |-> a.set.kind, name |-> a.set.name]
  /\ a.op = "patch" => DOMAIN a.set \subseteq {"kind", "name"}
  /\ a.op \in {"create", "patch"} /\ "kind" \in DOMAIN a.set => a.set.kind \in KindsOf[a.route]
  /\ a.op \in {"close", "reopen", "archive"} => ~a.bad
  /\ a.op = "batch" => IsList(a.items) /\ \A i \in DOMAIN a.items : IsList(a.items[i].attributes)
  /\ a.op \in {"amend", "drop"} => a.key \in Facts
  /\ a.op = "append" => IsList(a.lines)

ASSUME StoresAssumption == \A b \in Starts : StoreTyped(b.store)
ASSUME OrdersAssumption ==
  \A b \in Starts : \A r \in Requests : b.calls[r].kind = "record" => OrderTyped(b.calls[r].ask)

\* The items of an insert are a list, and Prefer: resolution= is one of two or absent.
ASSUME InsertsAssumption ==
  \A b \in Starts : \A r \in Requests :
    LET a == b.calls[r].ask IN
    b.calls[r].kind = "table" /\ a.op = "insert" =>
      IsList(a.body) /\ a.resolution \in {"none", "ignore", "merge"}

\* What an import lets through: nodes and links are lists.
ASSUME ImportsAssumption ==
  \A b \in Starts : \A r \in Requests :
    LET a == b.calls[r].ask IN
    b.calls[r].kind = "graph" /\ a.op = "import" => IsList(a.nodes) /\ IsList(a.links)

\* The graph of a tenant is finite; a query has bounds for how far it walks and
\* for how much it shows.
ASSUME GraphsAssumption ==
  \A b \in Starts : IsFiniteSet(b.graph.subjects) /\ IsFiniteSet(b.graph.edges)
ASSUME QueriesAssumption ==
  \A b \in Starts : \A r \in Requests :
    LET a == b.calls[r].ask IN
    b.calls[r].kind = "graph" /\ a.op # "import" /\ ~a.bad => a.depth \in Nat /\ a.max \in Nat

vars == <<lifeVars, tableVars, answerVars, graphVars, recordVars>>

Init ==
  /\ \E s \in Starts : /\ call = s.calls /\ engine = s.engine
                       /\ table = s.rows /\ keyed = s.keyed /\ graph = s.graph
                       /\ store = s.store /\ past = [stores |-> <<s.store>>, done |-> <<>>]
  /\ LifeInit /\ TablesInit /\ AnswersInit /\ GraphInit /\ RecordsInit

\* The worker of a request dies: PostgreSQL rolls its transaction back.
Crash(r) ==
  /\ Die(r)
  /\ pend' = [pend EXCEPT ![r] = Nothing]
  /\ tx' = [tx EXCEPT ![r] = NoTx]
  /\ Held(r, NothingHeld)
  /\ UNCHANGED <<table, keyed, scan, returned, did, answerVars, graph, plan, store, past>>

Step(r) ==
  \/ (Authenticate(r) \/ Bind(r) \/ Close(r)) /\ UNCHANGED <<tableVars, answerVars, graphVars, recordVars>>
  \/ TableStep(r) /\ UNCHANGED <<answerVars, graphVars, recordVars>>
  \/ AnswerStep(r) /\ UNCHANGED <<tableVars, graphVars, recordVars>>
  \/ GraphStep(r) /\ UNCHANGED <<tableVars, answerVars, recordVars>>
  \/ RecordStep(r) /\ UNCHANGED <<tableVars, answerVars, graphVars>>
  \/ Crash(r)

\* What others do while requests are served whose answers depend on it.
Outside ==
  /\ \E r \in Requests : ~IsTable(r) /\ pc[r] # "done"
  /\ \/ Upgrade /\ UNCHANGED <<tableVars, answerVars, graphVars, recordVars>>
     \/ /\ \E r \in Requests : IsAnswer(r)
        /\ \E c \in Chunks : Forget(c)
        /\ UNCHANGED <<lifeVars, tableVars, graphVars, recordVars>>

Done == (\A r \in Requests : pc[r] = "done") /\ UNCHANGED vars

Next == (\E r \in Requests : Step(r)) \/ Outside \/ Done

Spec == Init /\ [][Next]_vars
=============================================================================
