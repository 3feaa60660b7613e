------------------------------ MODULE MCRequests ------------------------------
(***************************************************************************)
(* Instances of Requests for TLC: the calls of clients that write the      *)
(* grammar as PostgREST documents it, and of some that do not.             *)
(***************************************************************************)
EXTENDS Requests

CONSTANTS r1, r2, r3, c1, c2, c3, c4

NoHead == [ref |-> "none", scopes |-> "absent", readonly |-> FALSE]
Call(kind, ask) == [kind |-> kind, token |-> "known", head |-> NoHead, ask |-> ask]

----------------------------------------------------------------------------
(* User tables. *)

X == <<"x">>
Y == <<"y">>
Zero == <<"0">>
NaN == <<"NaN">>
SomeNaN == {NaN}
\* A text that reads like a condition when its quotes are forgotten.
Sly == <<"x", ",", "b", ".", "neq", ".", "z">>

SomeTables == {<<[a |-> Sly, b |-> X], [a |-> X, b |-> X], NoRow>>,
               <<[a |-> Sly, b |-> X], [a |-> X, b |-> X], [a |-> Y, b |-> X]>>}

\* How a client writes a value into a list or a group.
Quoted(v) ==
  LET esc(c) == IF c \in {Quote, Escape} THEN <<Escape, c>> ELSE <<c>>
  IN  <<Quote>> \o FlattenSeq([i \in DOMAIN v |-> esc(v[i])]) \o <<Quote>>
Written(c, vs) == (IF c.neg THEN <<"not", ".">> ELSE <<>>) \o <<c.op, ".">> \o vs
Listed(vals) == <<"(">> \o FlattenSeq([i \in DOMAIN vals |->
                    (IF i = 1 THEN <<>> ELSE <<",">>) \o Quoted(vals[i])]) \o <<")">>
\* One condition as the value of a filter, and several as a group.
Filter(c) == [col |-> c.col, raw |-> Written(c, IF c.op = "in" THEN Listed(c.vals) ELSE c.vals[1])]
Grouped(cs) == <<"(">> \o FlattenSeq([i \in DOMAIN cs |->
    (IF i = 1 THEN <<>> ELSE <<",">>) \o <<cs[i].col, ".">>
      \o Written(cs[i], IF cs[i].op = "in" THEN Listed(cs[i].vals) ELSE Quoted(cs[i].vals[1]))])
  \o <<")">>

Cond(col, op, vals) == [col |-> col, neg |-> FALSE, op |-> op, vals |-> vals]
All(C) == {[any |-> FALSE, conds |-> {c}] : c \in C}

NoSent == [filters |-> {}, or |-> <<>>, and |-> <<>>, limit |-> Absent, offset |-> Absent,
           order |-> "none", select |-> "none", debug |-> "none", columns |-> <<>>, target |-> {}]
NoMeans == [sense |-> TRUE, clauses |-> {}, limit |-> Absent, offset |-> Absent, order |-> "none"]
NoAsk == [op |-> "get", path |-> "rest", table |-> "t", shape |-> "object", body |-> <<>>,
          returning |-> FALSE, single |-> FALSE, resolution |-> "none", count |-> FALSE,
          sent |-> NoSent, means |-> NoMeans]

\* The rows of conditions that must all hold, or of which one must.
Where1(ask, C) == [ask EXCEPT !.sent.filters = {Filter(c) : c \in C}, !.means.clauses = All(C)]
WhereAny(ask, cs) == [ask EXCEPT !.sent.or = Grouped(cs),
                                 !.means.clauses = {[any |-> TRUE, conds |-> ToSet(cs)]}]
WhereAll(ask, cs) == [ask EXCEPT !.sent.and = Grouped(cs),
                                 !.means.clauses = {[any |-> FALSE, conds |-> ToSet(cs)]}]
Window(ask, limit, offset, order) ==
  [ask EXCEPT !.sent.limit = limit, !.sent.offset = offset, !.sent.order = order,
              !.means.limit = limit, !.means.offset = offset, !.means.order = order]
Senseless(ask) == [ask EXCEPT !.means.sense = FALSE]

Get == NoAsk
Patch(item) == [NoAsk EXCEPT !.op = "patch", !.body = <<item>>]
Delete == [NoAsk EXCEPT !.op = "delete"]
Insert(items) == [NoAsk EXCEPT !.op = "insert", !.shape = "list", !.body = items]
Merge(items) == [Insert(items) EXCEPT !.resolution = "merge"]
OneOf(ask) == [ask EXCEPT !.returning = TRUE, !.single = TRUE]
Item(k, a) == ("id" :> <<Digits[k]>>) @@ ("a" :> a)

BIsX == Cond("b", "eq", <<X>>)
AIsSly == Cond("a", "eq", <<Sly>>)
ASomeOf == Cond("a", "in", <<Sly, Y>>)
NotY == [Cond("a", "eq", <<Y>>) EXCEPT !.neg = TRUE]

\* Selections of rows, as any operation may make them.
Selected(ask) ==
  {Where1(ask, {BIsX}), Where1(ask, {ASomeOf}), WhereAny(ask, <<AIsSly, Cond("b", "eq", <<Y>>)>>),
   WhereAll(ask, <<ASomeOf, NotY>>), Window(Where1(ask, {BIsX}), 1, Absent, "desc"),
   Window(Where1(ask, {BIsX}), 0, Absent, "none"), Window(Where1(ask, {BIsX}), 2, 1, "asc"),
   Window(ask, Absent, 1, "asc")}

\* Calls that mean nothing.
Nonsense(ask) ==
  {Senseless([Where1(ask, {BIsX}) EXCEPT !.sent.filters = {[col |-> "b", raw |-> <<"qe", ".", "x">>]}]),
   Senseless([ask EXCEPT !.sent.filters = {[col |-> "c", raw |-> <<"eq", ".", "x">>]}]),
   Senseless([ask EXCEPT !.sent.debug = "filter"]),
   Senseless([ask EXCEPT !.sent.or = <<"(", "a", ".", "eq", ".", Quote, "x", ")">>])}

Reads == Selected(Get) \cup {[g EXCEPT !.count = TRUE] : g \in Selected(Get)}
           \cup {OneOf(Where1(Get, {BIsX}))} \cup Nonsense(Get)
Changes(ask) ==
  Selected(ask) \cup Nonsense(ask)
    \cup {Senseless(Window(ask, MaxRows + 1, Absent, "none")), OneOf(Where1(ask, {BIsX})),
          OneOf(Where1(ask, {AIsSly})), [OneOf(Where1(ask, {BIsX})) EXCEPT !.path = "tables"]}
Inserts ==
  {Insert(<<Item(3, Y)>>), Insert(<<Item(2, Y), Item(3, Y)>>), Insert(<<>>),
   [Insert(<<Item(2, Y)>>) EXCEPT !.resolution = "ignore"],
   Merge(<<Item(2, Y)>>), Merge(<<Item(2, Y), ("id" :> <<"1">>) @@ ("b" :> Y)>>),
   [Merge(<<Item(1, Y), ("id" :> <<"3">>)>>) EXCEPT
      !.sent.columns = <<<<"id", ",", Quote, "a", Quote>>>>, !.sent.target = {"id"}],
   OneOf(Insert(<<Item(3, Y), Item(1, Y)>>)), OneOf(Merge(<<Item(2, Y), Item(3, Y)>>)),
   [Insert(<<Item(3, Y)>>) EXCEPT !.sent.filters = {Filter(BIsX)}],
   [Insert(<<Item(3, Y)>>) EXCEPT !.shape = "broken"], OneOf(Insert(<<Item(3, NaN)>>))}

FirstAsks == Reads \cup Changes(Patch("a" :> Y)) \cup Changes(Delete) \cup Inserts
               \cup {[Window(Delete, Absent, 1, "asc") EXCEPT !.returning = TRUE]}
\* What the other request writes meanwhile.
SecondAsks ==
  {Where1(Patch("b" :> Y), {AIsSly}), Where1(Delete, {BIsX}),
   [Insert(<<Item(3, NaN)>>) EXCEPT !.returning = TRUE],
   Window(Where1(Patch("a" :> Sly), {BIsX}), 1, Absent, "desc"),
   OneOf(Merge(<<Item(2, Sly)>>))}

----------------------------------------------------------------------------
(* Questions to memory. *)

SomeMemory ==
  (c1 :> [place |-> "default", subjects |-> {"s"}, sim |-> 1, text |-> <<"p", "q">>])
  @@ (c2 :> [place |-> "default", subjects |-> {"s", "t"}, sim |-> 2, text |-> <<"p", "ok">>])
  @@ (c3 :> [place |-> "default", subjects |-> {"t"}, sim |-> 4, text |-> <<"q", "ok", "p">>])
  @@ (c4 :> [place |-> "hr", subjects |-> {"s"}, sim |-> 3, text |-> <<"p">>])

SomeOutputs ==
  LET out(suff, cites, spans) ==
        [json |-> TRUE, sufficient |-> suff, answer |-> suff, cites |-> cites, spans |-> spans]
  IN  {[out(TRUE, {}, {}) EXCEPT !.json = FALSE], out(TRUE, {}, {}), out(FALSE, {}, {}),
       out(TRUE, {[n |-> 1, quote |-> "p"]}, {"p"}), out(TRUE, {[n |-> 1, quote |-> "q"]}, {}),
       out(TRUE, {[n |-> 2, quote |-> "p"], [n |-> 1, quote |-> "q"]}, {}),
       out(TRUE, {[n |-> 1, quote |-> "ok"]}, {}), out(TRUE, {[n |-> 1, quote |-> "q"]}, {"p"}),
       out(TRUE, {[n |-> 1, quote |-> "p"]}, {"said"})}

Question == [op |-> "answer", namespaces |-> <<"default">>, named |-> <<>>, candidates |-> <<"s", "t">>,
             project |-> "none", projectSubjects |-> <<>>, least |-> 2, max |-> 2, model |-> "keyed",
             preview |-> FALSE, bad |-> FALSE]
Recall == [Question EXCEPT !.op = "recall", !.least = -1, !.namespaces = <<"default", "hr">>]
Ingest == [Question EXCEPT !.op = "ingest", !.namespaces = <<"dept">>]

SomeAsks ==
  {Question, [Question EXCEPT !.max = 1], [Question EXCEPT !.project = "unknown"],
   [Question EXCEPT !.project = "known", !.projectSubjects = <<"t", "t", "s", "u">>, !.least = -1],
   [Question EXCEPT !.project = "known"], [Question EXCEPT !.candidates = <<>>],
   [Question EXCEPT !.candidates = <<"u", "t", "s">>], [Question EXCEPT !.model = "keyless"], [Question EXCEPT !.model = "unset"],
   Recall, [Recall EXCEPT !.named = <<"s">>], [Recall EXCEPT !.named = <<"s", "t", "u">>],
   [Recall EXCEPT !.candidates = <<>>],
   Ingest, [Ingest EXCEPT !.namespaces = <<"default">>], [Ingest EXCEPT !.preview = TRUE],
   [Ingest EXCEPT !.bad = TRUE]}

Idle == Call("none", NoAsk)

SomeHeads == {h \in Headers : h.readonly => h.scopes \in {"absent", "commas"}}

MemoryCalls ==
  {Call("memory", a) : a \in SomeAsks}
  \cup {[Call("memory", a) EXCEPT !.head = h] : a \in {Recall, Ingest}, h \in SomeHeads}
  \cup {[Call("memory", Question) EXCEPT !.token = t] : t \in {"absent", "malformed", "unknown"}}

----------------------------------------------------------------------------
(* The graph. *)

SomeSlugs == [concept |-> "concept", class |-> "class", Class |-> "class",
              graph_namespace |-> "graph_namespace"] @@ ("1st" :> "")

Doc(id) == <<"document", id>>
Edge(a, b) == [from |-> a, rel |-> "rel", to |-> b]
\* Subject 1 and document 1 have the same id; subject 3 is linked to the latter.
SomeGraph(types) ==
  [types |-> types, subjects |-> {1, 3},
   edges |-> {Edge(Subject(1), Doc(2)), Edge(Doc(2), Doc(1)), Edge(Doc(1), Subject(3))},
   groups |-> <<>>]
NoGraph == [types |-> {}, subjects |-> {}, edges |-> {}, groups |-> <<>>]

Node(id, type, community) == [id |-> id, type |-> type, community |-> community]
Link(a, b) == [from |-> a, rel |-> "rel", to |-> b]
Import(nodes, links) == [op |-> "import", bad |-> FALSE, nodes |-> nodes, links |-> links]
Imports ==
  {Import(<<Node(2, "Class", 1), Node(1, "1st", 2), Node(2, "class", 2), Node(NoId, "class", 1)>>,
          <<Link(1, 2), Link(2, 1), Link(1, 3), Link(NoId, 1)>>),
   Import(<<Node(1, "concept", 0), Node(2, "class", 0), Node(3, "class", 0)>>,
          <<Link(2, 3), Link(1, 2), Link(2, 2)>>)}
Query(scores, seeds, depth, max) ==
  [op |-> "query", bad |-> FALSE, scores |-> scores, seeds |-> seeds, depth |-> depth, max |-> max]
Queries ==
  {Query(1 :> 1 @@ 3 :> 2, 2, 2, 3), Query(1 :> 1 @@ 3 :> 1, 2, 1, 5), Query(2 :> 1, 1, 2, 2),
   Query(1 :> 1 @@ 2 :> 2 @@ 3 :> 1, 2, 2, 5), Query(1 :> 1 @@ 3 :> 1, 2, 3, 5)}
GraphCalls(asks) == {Call("graph", a) : a \in asks}
BadGraph == [CHOOSE a \in Imports : TRUE EXCEPT !.bad = TRUE]

----------------------------------------------------------------------------
(* What is kept piece by piece. *)

ColourOf == <<"attribute", "colour">>
SizeOf == <<"attribute", "size">>
Owns == <<"statement", "owns">>
Ann == <<"subject", "ann">>
SomeFacts == {ColourOf, SizeOf, Owns, Ann}

ARow(kind, name, closed) == [kind |-> kind, name |-> name, closed |-> closed]
Fact(text) == [by |-> <<>>, text |-> text]
ASession(scope) == [scope |-> scope, closed |-> FALSE, log |-> <<"m0">>]
SomeStore ==
  [rows |-> <<ARow("note", "n", FALSE), ARow("issue", "i", FALSE), ARow("issue", "j", TRUE),
              ARow("pool", "p", FALSE), ARow("document type", "t", FALSE),
              ARow("episode type", "t", FALSE), ARow("episode type", "u", FALSE),
              ARow("episode", "e", FALSE)>>,
   facts |-> (ColourOf :> Fact("red")) @@ (SizeOf :> None) @@ (Owns :> Fact("car"))
               @@ (Ann :> Fact("company")),
   chats |-> <<ASession("default"), ASession("dept")>>]
NoStore == [rows |-> <<>>, facts |-> [k \in SomeFacts |-> None], chats |-> <<>>]

NoOrder == [op |-> "none", route |-> "none", id |-> 0, set |-> [name |-> "none"], bad |-> FALSE,
            items |-> <<>>, episode |-> 0, key |-> <<>>, text |-> "none", scope |-> "none",
            chat |-> 0, lines |-> <<>>]
Bad(a) == [a EXCEPT !.bad = TRUE]
Create(route, kind, name) ==
  [NoOrder EXCEPT !.op = "create", !.route = route, !.set = [kind |-> kind, name |-> name]]
OnRow(op, route, id) == [NoOrder EXCEPT !.op = op, !.route = route, !.id = id]
Rename(route, id, name) == [OnRow("patch", route, id) EXCEPT !.set = [name |-> name]]
Retype(id, kind) == [OnRow("patch", "notes", id) EXCEPT !.set = [kind |-> kind]]

RowOrders ==
  {Create("notes", "note", "m"), Bad(Create("pools", "pool", "q")), Create("pools", "pool", "q"),
   Create("documenttypes", "document type", "v"),
   Create("documenttypes", "document type", "t"), Create("episodetypes", "episode type", "v"),
   Create("episodetypes", "episode type", "u"), Create("episodes", "episode", "f"),
   Retype(1, "issue"), Rename("notes", 2, "k"), Bad(Rename("notes", 2, "")), Rename("notes", 4, "k"),
   Rename("pools", 4, "q"), Rename("documenttypes", 5, "v"), Rename("episodetypes", 6, "v"),
   Rename("episodetypes", 6, "u"), Rename("episodes", 8, "f"), Bad(Rename("episodes", 8, "")),
   Rename("episodes", 1, "f"), OnRow("close", "notes", 1), OnRow("close", "notes", 2),
   OnRow("close", "notes", 3), OnRow("reopen", "notes", 2), OnRow("reopen", "notes", 3),
   OnRow("archive", "pools", 4), OnRow("delete", "notes", 2), OnRow("delete", "documenttypes", 5),
   OnRow("delete", "episodetypes", 6), OnRow("delete", "episodes", 8), OnRow("delete", "notes", 8)}
OtherRowOrders ==
  {Create("episodetypes", "episode type", "v"), Retype(2, "note"), Rename("episodetypes", 7, "v"),
   OnRow("close", "notes", 2), OnRow("reopen", "notes", 3), OnRow("archive", "pools", 4),
   OnRow("delete", "notes", 1), OnRow("delete", "notes", 2), OnRow("delete", "notes", 3),
   OnRow("delete", "documenttypes", 5), OnRow("delete", "episodetypes", 6),
   OnRow("delete", "episodes", 8)}

AFact(key, text) ==
  [key |-> key, text |-> text, subject |-> <<>>, bad |-> FALSE, refused |-> FALSE, verb |-> TRUE,
   attributes |-> <<>>]
By(subject, f) == [f EXCEPT !.subject = subject]
Having(f, attributes) == [f EXCEPT !.attributes = attributes]
Declined(f) == [f EXCEPT !.refused = TRUE]
SomeOf(route, items) == [NoOrder EXCEPT !.op = "batch", !.route = route, !.items = items]
OnEpisode(id, f) == [SomeOf("episodes", <<f>>) EXCEPT !.episode = id]
OnFact(op, route, key) ==
  [NoOrder EXCEPT !.op = op, !.route = route, !.key = key, !.text = "amended"]

FactOrders ==
  {SomeOf("attributes", <<>>), Bad(SomeOf("attributes", <<AFact(SizeOf, "big")>>)),
   SomeOf("attributes", <<AFact(ColourOf, "blue"), AFact(SizeOf, "big")>>),
   SomeOf("attributes", <<AFact(ColourOf, "blue"), Declined(AFact(SizeOf, "huge"))>>),
   SomeOf("attributes", <<AFact(SizeOf, "big"), Bad(AFact(ColourOf, "blue"))>>),
   SomeOf("statements", <<By(Ann, AFact(Owns, "boat")), AFact(Owns, "bike")>>),
   SomeOf("statements", <<By(Ann, AFact(Owns, "boat")), [AFact(Owns, "bike") EXCEPT !.verb = FALSE]>>),
   OnEpisode(8, By(Ann, AFact(Owns, "boat"))), OnEpisode(1, AFact(Owns, "boat")),
   SomeOf("objects", <<Having(By(Ann, AFact(<<>>, "team")), <<AFact(SizeOf, "big")>>)>>),
   SomeOf("objects", <<Having(AFact(<<>>, "g"), <<AFact(SizeOf, "big"), Declined(AFact(ColourOf, "blue"))>>)>>),
   SomeOf("objects", <<Having(AFact(<<>>, "g"), <<AFact(SizeOf, "big")>>)>>),
   OnFact("amend", "attributes", ColourOf), OnFact("amend", "attributes", SizeOf),
   Bad(OnFact("amend", "statements", Owns)), OnFact("amend", "statements", Owns),
   OnFact("drop", "attributes", ColourOf), OnFact("drop", "statements", Owns)}
OtherFactOrders ==
  {SomeOf("attributes", <<AFact(SizeOf, "tiny"), AFact(ColourOf, "green")>>),
   SomeOf("statements", <<AFact(Owns, "tree"), By(Ann, AFact(Owns, "house"))>>),
   SomeOf("attributes", <<AFact(ColourOf, "green"), Declined(AFact(SizeOf, "tiny"))>>),
   OnFact("amend", "attributes", ColourOf), OnFact("drop", "attributes", ColourOf),
   OnFact("drop", "statements", Owns), OnRow("delete", "episodes", 8)}

\* The same calls with a body that makes no sense, and of what is not there.
FailingOrders ==
  {Bad(a) : a \in {b \in RowOrders \cup FactOrders : b.op \in {"create", "patch", "batch", "amend"}}}
  \cup {[a EXCEPT !.id = 9] : a \in {b \in RowOrders : b.id # 0}}
  \cup {[a EXCEPT !.key = SizeOf] : a \in {b \in FactOrders : b.op \in {"amend", "drop"}}}

OnChat(op, id) == [NoOrder EXCEPT !.op = op, !.route = "chat", !.chat = id]
StartIn(scope) == [OnChat("start", 0) EXCEPT !.scope = scope]
Says(id, lines) == [OnChat("append", id) EXCEPT !.lines = lines]
MoveTo(id, scope) == [OnChat("move", id) EXCEPT !.scope = scope]
ChatOrders ==
  {StartIn("none"), StartIn("dept"), StartIn("hr"), Says(1, <<"m1", "m2">>), Says(3, <<"m1">>),
   Bad(Says(1, <<"m1">>)), OnChat("finalize", 1), OnChat("finalize", 3), MoveTo(1, "dept"),
   MoveTo(1, "hr"), MoveTo(3, "dept"), Bad(MoveTo(1, "none"))}
OtherChatOrders ==
  {StartIn("default"), Says(1, <<"n1", "n2">>), OnChat("finalize", 1), MoveTo(1, "hr"),
   MoveTo(3, "hr")}
ChatHeads == {NoHead, [NoHead EXCEPT !.ref = "agent"],
              [NoHead EXCEPT !.ref = "agent", !.readonly = TRUE],
              [NoHead EXCEPT !.ref = "agent", !.scopes = "dept"]}

RecordCalls(asks) == {Call("record", a) : a \in asks}
ChatCalls == {[Call("record", a) EXCEPT !.head = h] : a \in ChatOrders, h \in ChatHeads}

----------------------------------------------------------------------------
ThreeCalls(A, B, C) == {(r1 :> a) @@ (r2 :> b) @@ (r3 :> c) : a \in A, b \in B, c \in C}
TwoCalls(A, B) == ThreeCalls(A, B, {Idle})
\* A new session is moved out of the sight of the one who starts it, and back.
MovedAway ==
  ThreeCalls({[Call("record", StartIn("default")) EXCEPT !.head.ref = "agent"]},
             RecordCalls({MoveTo(3, "hr")}), RecordCalls({MoveTo(3, "dept")}))
NoRows == {<<NoRow, NoRow, NoRow>>}

\* Questions are asked of an old and of a new engine, imports of every stage of
\* it; a table has a primary key or not.
SomeStarts ==
  [calls : TwoCalls({Call("table", a) : a \in FirstAsks}, {Call("table", a) : a \in SecondAsks}),
   engine : {106}, rows : SomeTables, keyed : BOOLEAN, graph : {NoGraph}, store : {NoStore}]
  \cup [calls : TwoCalls(MemoryCalls, {Idle}), engine : {97, 106}, rows : NoRows, keyed : {TRUE},
        graph : {NoGraph}, store : {NoStore}]
  \cup [calls : TwoCalls(GraphCalls(Imports \cup Queries \cup {BadGraph}), GraphCalls(Imports)),
        engine : {97, 102, 106}, rows : NoRows, keyed : {TRUE},
        graph : {SomeGraph({"concept"})}, store : {NoStore}]
  \cup [calls : TwoCalls(GraphCalls(Imports), {Idle}), engine : {102}, rows : NoRows,
        keyed : {TRUE}, graph : {SomeGraph({"person"}), SomeGraph({"other", "class"})},
        store : {NoStore}]
  \cup [calls : TwoCalls(RecordCalls(RowOrders), RecordCalls(OtherRowOrders))
                  \cup TwoCalls(RecordCalls(FactOrders), RecordCalls(OtherFactOrders))
                  \cup TwoCalls(RecordCalls(FailingOrders), {Idle}),
        engine : {106}, rows : NoRows, keyed : {TRUE}, graph : {NoGraph}, store : {SomeStore}]
  \cup [calls : TwoCalls(ChatCalls, RecordCalls(OtherChatOrders)) \cup MovedAway,
        engine : {97, 106}, rows : NoRows, keyed : {TRUE}, graph : {NoGraph}, store : {SomeStore}]
=============================================================================
