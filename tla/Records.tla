------------------------------- MODULE Records -------------------------------
(***************************************************************************)
(* What a tenant keeps piece by piece: rows that are created, patched,     *)
(* closed and deleted one at a time (notes.py, pools.py, types.py,         *)
(* episodes.py), facts that are written in batches (attributes.py,         *)
(* statements.py, objects.py), and chat sessions (chat.py, scoping.py).    *)
(*                                                                         *)
(* Outside of a transaction every statement commits by itself, and another *)
(* request may come between two of them.  Within one, what is written is   *)
(* locked until the end, and whoever wants to write it waits.              *)
(***************************************************************************)
EXTENDS RequestLife, Integers, SequencesExt

CONSTANTS
  Facts,   \* the attributes, statements and named subjects there may be
  Home     \* the scope in which the engine puts what a principal writes

ASSUME RecordsAssumption == Home \in Namespaces

VARIABLES
  store,   \* what is committed: [rows, facts, chats]
  own,     \* own[r]: what the handler of r holds, see NothingHeld
  past     \* history: done, what was committed, and stores, the store before, between and after

recordVars == <<store, own, past>>

\* A row is [kind, name, closed], closed or archived; its id is its place.
Gone == [kind |-> "gone"]
KindsOf == [notes |-> {"note", "issue"}, pools |-> {"pool"}, episodes |-> {"episode"},
            documenttypes |-> {"document type"}, episodetypes |-> {"episode type"}]
RowIn(S, id) == IF id \in DOMAIN S.rows THEN S.rows[id] ELSE Gone
RowTyped(x) ==
  \/ x = Gone
  \/ x = [kind |-> x.kind, name |-> x.name, closed |-> x.closed] /\ x.closed \in BOOLEAN

\* A fact is [by, text], by <<>> or the request that created it; or it is not there.
\* Its key is a tuple of names, <<>> where none is named.
None == [by |-> <<>>, text |-> "none"]

\* What a transaction has still to write (todo) and has written: facts, rows and
\* lines of the session `chat`.  fact: the one a handler has found.  from, to, a
\* history: the moments at which the handler began and ended, as lengths of past.
NothingHeld == [todo |-> <<>>, wrote |-> <<>>, rows |-> <<>>, lines |-> <<>>, chat |-> 0,
                fact |-> None, from |-> 0, to |-> 0]

RecordsInit == own = [r \in Requests |-> NothingHeld]

IsRecord(r) == call[r].kind = "record"
Order(r) == call[r].ask
AtBody(r, op, route) == pc[r] = "body" /\ IsRecord(r) /\ Order(r).op = op /\ Order(r).route = route

Held(r, h) == own' = [own EXCEPT ![r] = h]
\* What r holds when its handler begins.
Taken(r) == [own[r] EXCEPT !.from = Len(past.done)]

Enter(r, what, id) ==
  past' = [past EXCEPT !.done = Append(@, [by |-> r, what |-> what, id |-> id]),
                       !.stores = Append(@, store')]

\* The handler of r ends; what is not committed is rolled back.
Ends(r, a) ==
  /\ Answer(r, a)
  /\ Held(r, [NothingHeld EXCEPT !.chat = own[r].chat, !.to = Len(past'.done),
                !.from = IF pc[r] = "body" THEN Len(past.done) ELSE own[r].from])
\* The facts once what r has written is there.
Stored(r, facts) ==
  [k \in Facts |-> IF k \notin DOMAIN own[r].wrote THEN facts[k]
                   ELSE [by |-> IF facts[k] = None THEN <<r>> ELSE facts[k].by,
                         text |-> own[r].wrote[k]]]

\* Fault: the statements of a batch commit one by one, and stay.
KeepsWritten(r) == [store EXCEPT !.facts = Stored(r, @)]

\* A transaction that fails leaves nothing.
Undone(r) == store
Refuses(r, why) == store' = Undone(r) /\ UNCHANGED past /\ Ends(r, why)

NamedTypes == {"documenttypes", "episodetypes"}

\* The answers to which a timestamp is given as it comes from the database: a
\* bare JSONResponse has no form for it.
Unrendered(a) ==
  \/ a.op = "create" /\ a.route \in NamedTypes \cup {"pools"}
  \/ a.op = "patch" /\ a.route \in NamedTypes
  \/ a.op = "batch" /\ a.route # "objects" /\ a.items # <<>>
\* The answer to a call that has done what it says, made after the commit.
Success(a) == IF Unrendered(a) THEN "internal error" ELSE "ok"

----------------------------------------------------------------------------
(***************************************************************************)
(* Rows.  A call is [op, route, id, set, bad]: set is a function from the  *)
(* columns its body names to what they shall be.                           *)
(***************************************************************************)

\* The unique index on the names of the types of a kind.
NameTaken(S, a) ==
  /\ a.route \in NamedTypes /\ "name" \in DOMAIN a.set
  /\ \E i \in DOMAIN S.rows \ {a.id} : S.rows[i].kind \in KindsOf[a.route] /\ S.rows[i].name = a.set.name

\* POST: the checks of the body, one INSERT.
CreateRow(r, route) ==
  /\ AtBody(r, "create", route)
  /\ \/ Order(r).bad /\ Refuses(r, "bad request")
     \/ ~Order(r).bad /\ NameTaken(store, Order(r)) /\ Refuses(r, "conflict")
     \/ /\ ~Order(r).bad /\ ~NameTaken(store, Order(r))
        /\ store' = [store EXCEPT !.rows = Append(@, Overlaid([closed |-> FALSE], Order(r).set))]
        /\ Enter(r, "create", Len(store.rows) + 1)
        /\ Ends(r, Success(Order(r)))
CreateNote(r) == CreateRow(r, "notes")
CreatePool(r) == CreateRow(r, "pools")
CreateDocumentType(r) == CreateRow(r, "documenttypes")
CreateEpisodeType(r) == CreateRow(r, "episodetypes")
CreateEpisode(r) == CreateRow(r, "episodes")

\* Fault: an issue that is closed is closed again.
ClosesAgain(x) == x.kind = "issue"

\* What must hold of a row that is closed, reopened or archived.
MayClose(x) == x.kind = "issue" /\ ~x.closed
MayReopen(x) == x.kind = "issue" /\ x.closed
MayArchive(x) == ~x.closed

\* The first statement of a handler: is the row there, and may it be changed?
\* Then the body arrives, or another request comes between.
Looks(r, op, route, fits) ==
  LET x == RowIn(store, Order(r).id) IN
  /\ AtBody(r, op, route)
  /\ \/ x.kind \notin KindsOf[route] /\ Refuses(r, "not found")
     \/ x.kind \in KindsOf[route] /\ ~fits /\ Refuses(r, "conflict")
     \/ /\ x.kind \in KindsOf[route] /\ fits
        /\ Held(r, Taken(r)) /\ Go(r, "update") /\ UNCHANGED <<store, past>>
PatchNote(r) == Looks(r, "patch", "notes", TRUE)
PatchPool(r) == Looks(r, "patch", "pools", TRUE)
PatchDocumentType(r) == Looks(r, "patch", "documenttypes", TRUE)
PatchEpisodeType(r) == Looks(r, "patch", "episodetypes", TRUE)
CloseIssue(r) == Looks(r, "close", "notes", MayClose(RowIn(store, Order(r).id)))
ReopenIssue(r) == Looks(r, "reopen", "notes", MayReopen(RowIn(store, Order(r).id)))
ArchivePool(r) == Looks(r, "archive", "pools", MayArchive(RowIn(store, Order(r).id)))

\* The columns an UPDATE sets.
Assigned(a) ==
  CASE a.op = "patch" -> a.set
    [] a.op \in {"close", "archive"} -> [closed |-> TRUE]
    [] a.op = "reopen" -> [closed |-> FALSE]

\* UPDATE ... WHERE id = ...; how many rows it has changed is not looked at.
UpdateRow(r) ==
  LET a == Order(r)
      x == RowIn(store, a.id) IN
  /\ pc[r] = "update"
  /\ \/ a.bad /\ Refuses(r, "bad request")
     \/ ~a.bad /\ x = Gone /\ Go(r, "reload") /\ UNCHANGED recordVars
     \/ ~a.bad /\ x # Gone /\ NameTaken(store, a) /\ Refuses(r, "conflict")
     \/ /\ ~a.bad /\ x # Gone /\ ~NameTaken(store, a)
        /\ store' = [store EXCEPT !.rows[a.id] = Overlaid(x, Assigned(a))]
        /\ Enter(r, "update", a.id)
        /\ Go(r, "reload") /\ UNCHANGED own

\* The row is read once more.  When it is gone, a PATCH answers with null, and
\* the others fail, with an id taken from nothing.
ReloadRow(r) ==
  /\ pc[r] = "reload"
  /\ Refuses(r, IF RowIn(store, Order(r).id) # Gone THEN Success(Order(r))
                ELSE IF Order(r).op = "patch" THEN "null" ELSE "internal error")

\* PATCH of an episode: the body first, then an UPDATE that must hit.
PatchEpisode(r) ==
  LET a == Order(r)
      x == RowIn(store, a.id) IN
  /\ AtBody(r, "patch", "episodes")
  /\ \/ a.bad /\ Refuses(r, "bad request")
     \/ ~a.bad /\ x.kind # "episode" /\ Refuses(r, "not found")
     \/ /\ ~a.bad /\ x.kind = "episode"
        /\ store' = [store EXCEPT !.rows[a.id] = Overlaid(x, Assigned(a))]
        /\ Enter(r, "update", a.id)
        /\ Ends(r, "ok")

\* DELETE, which must hit.  Pools have none.
DeleteRow(r, route) ==
  /\ AtBody(r, "delete", route)
  /\ \/ RowIn(store, Order(r).id).kind \notin KindsOf[route] /\ Refuses(r, "not found")
     \/ /\ RowIn(store, Order(r).id).kind \in KindsOf[route]
        /\ store' = [store EXCEPT !.rows[Order(r).id] = Gone]
        /\ Enter(r, "delete", Order(r).id)
        /\ Ends(r, "ok")
DeleteNote(r) == DeleteRow(r, "notes")
DeleteDocumentType(r) == DeleteRow(r, "documenttypes")
DeleteEpisodeType(r) == DeleteRow(r, "episodetypes")
DeleteEpisode(r) == DeleteRow(r, "episodes")

----------------------------------------------------------------------------
(***************************************************************************)
(* Facts.  A call is [op, route, items, episode, bad] or [op, route, key,  *)
(* text, bad].  A write is [key, text, fails]: what it says of which fact, *)
(* and how it fails, if it does.                                           *)
(***************************************************************************)

Writes(key, text, refused) ==
  <<[key |-> key, text |-> text, fails |-> IF refused THEN "refused" ELSE "no"]>>
Fails(key) == <<[key |-> key, text |-> "none", fails |-> "bad request"]>>

\* svpor_create_attribute, an upsert; the values are one text here.
AttributeWrites(item) ==
  IF item.bad THEN Fails(item.key) ELSE Writes(item.key, item.text, item.refused)

\* svpor_create_statement.  The verb must be known; a subject that is named is
\* registered, as a person, even where it is there as something else.
StatementWrites(item) ==
  IF item.bad \/ ~item.verb THEN Fails(item.key)
  ELSE (IF item.subject = <<>> THEN <<>> ELSE Writes(item.subject, "person", FALSE))
         \o Writes(item.key, item.text, item.refused)

\* The object, if it is a subject, and its attributes.
ObjectWrites(item) ==
  (IF item.subject = <<>> THEN <<>> ELSE Writes(item.subject, item.text, FALSE))
    \o FlattenSeq([i \in DOMAIN item.attributes |->
         Writes(item.attributes[i].key, item.attributes[i].text, item.attributes[i].refused)])

WritesOf(a) ==
  FlattenSeq([i \in DOMAIN a.items |->
    CASE a.route = "attributes" -> AttributeWrites(a.items[i])
      [] a.route \in {"statements", "episodes"} -> StatementWrites(a.items[i])
      [] a.route = "objects" -> ObjectWrites(a.items[i])])

\* The object, if it is an episode.
RowsOf(a) == IF a.route = "objects" /\ a.items[1].subject = <<>>
             THEN <<[kind |-> "episode", name |-> a.items[1].text, closed |-> FALSE]>> ELSE <<>>

\* POST: the body is an object or a list of objects, and the transaction begins;
\* a statement on an episode looks for the episode first.
Batch(r, route) ==
  LET a == Order(r)
      there == route = "episodes" => RowIn(store, a.episode).kind = "episode" IN
  /\ AtBody(r, "batch", route)
  /\ \/ a.bad /\ Refuses(r, "bad request")
     \/ ~a.bad /\ ~there /\ Refuses(r, "not found")
     \/ /\ ~a.bad /\ there
        /\ Held(r, [Taken(r) EXCEPT !.todo = WritesOf(a), !.rows = RowsOf(a)])
        /\ Go(r, "put") /\ UNCHANGED <<store, past>>
CreateAttributes(r) == Batch(r, "attributes")
CreateStatements(r) == Batch(r, "statements")
CreateEpisodeStatement(r) == Batch(r, "episodes")
CreateObject(r) == Batch(r, "objects")

\* What r must wait for: another transaction has written what it is to write.
Waits(r, q) ==
  q # r /\ pc[r] = "put" /\ own[r].todo # <<>> /\ Head(own[r].todo).key \in DOMAIN own[q].wrote
Deadlocked(r) ==
  \E W \in SUBSET Requests :
    r \in W /\ \A p \in W : (\E q \in W : Waits(p, q)) /\ \E q \in W : Waits(q, p)

\* One statement of a batch.
PutFact(r) ==
  LET w == Head(own[r].todo) IN
  /\ pc[r] = "put" /\ own[r].todo # <<>>
  /\ \/ \E why \in {"bad request", "refused"} : w.fails = why /\ Refuses(r, why)
     \/ Deadlocked(r) /\ Refuses(r, "deadlock")
     \/ /\ w.fails = "no" /\ \A q \in Requests : ~Waits(r, q)
        /\ Held(r, [own[r] EXCEPT !.todo = Tail(@), !.wrote = Overlaid(@, [k \in {w.key} |-> w.text])])
        /\ Go(r, "put") /\ UNCHANGED <<store, past>>

CommitFacts(r) ==
  /\ pc[r] = "put" /\ own[r].todo = <<>>
  /\ store' = [store EXCEPT !.facts = Stored(r, @), !.rows = @ \o own[r].rows]
  /\ Enter(r, "batch", 0)
  /\ Ends(r, Success(Order(r)))

\* PATCH and DELETE of one fact: it is looked for, then changed, in one transaction.
LooksForFact(r, op, route) ==
  /\ AtBody(r, op, route)
  /\ \/ Order(r).bad /\ Refuses(r, "bad request")
     \/ ~Order(r).bad /\ store.facts[Order(r).key] = None /\ Refuses(r, "not found")
     \/ /\ ~Order(r).bad /\ store.facts[Order(r).key] # None
        /\ Held(r, [Taken(r) EXCEPT !.fact = store.facts[Order(r).key]])
        /\ Go(r, "amend") /\ UNCHANGED <<store, past>>
PatchAttribute(r) == LooksForFact(r, "amend", "attributes")
PatchStatement(r) == LooksForFact(r, "amend", "statements")
DeleteAttribute(r) == LooksForFact(r, "drop", "attributes")
DeleteStatement(r) == LooksForFact(r, "drop", "statements")

\* The fact may be gone by now: the engine's function does nothing, or raises;
\* a PATCH reads it once more, a DELETE answers all the same.
AmendFact(r) ==
  LET k == Order(r).key
      f == store.facts[k] IN
  /\ pc[r] = "amend"
  /\ \A q \in Requests \ {r} : k \notin DOMAIN own[q].wrote
  /\ \/ f # None /\ f.by = own[r].fact.by
        /\ store' = [store EXCEPT !.facts[k] =
                       IF Order(r).op = "drop" THEN None ELSE [f EXCEPT !.text = Order(r).text]]
        /\ Enter(r, Order(r).op, 0)
        /\ Ends(r, "ok")
     \/ /\ f = None \/ f.by # own[r].fact.by
        /\ \/ Refuses(r, IF Order(r).op = "drop" THEN "ok" ELSE "not found")
           \/ Refuses(r, "refused")

----------------------------------------------------------------------------
(***************************************************************************)
(* Chat sessions: [scope, closed, log].  A call is [op, route, scope,      *)
(* chat, lines, bad].                                                      *)
(***************************************************************************)

\* Where the engine puts a session.
HomeOf(as) == IF as.ref = "none" THEN "default" ELSE Home

\* maludb_chat_start, in a transaction of its own.
StartChat(r) ==
  LET home == HomeOf(conn[r].as) IN
  /\ AtBody(r, "start", "chat")
  /\ \/ ~MayWrite(conn[r].as, home) /\ Refuses(r, "refused")
     \/ /\ MayWrite(conn[r].as, home)
        /\ store' = [store EXCEPT !.chats = Append(@, [scope |-> home, closed |-> FALSE, log |-> <<>>])]
        /\ Enter(r, "start", Len(store.chats) + 1)
        /\ Held(r, [Taken(r) EXCEPT !.chat = Len(store.chats) + 1])
        /\ Go(r, IF Order(r).scope = "none" THEN "show" ELSE "scope")

\* No other transaction has written to the session.
ChatFree(r, i) == \A q \in Requests \ {r} : own[q].chat # i \/ own[q].lines = <<>>

\* maludb_set_scope, of a session the caller sees.
Scopes(r, i, scope) ==
  /\ ChatFree(r, i)
  /\ store' = [store EXCEPT !.chats[i].scope = scope]
  /\ Enter(r, "scope", i)

\* The engine may lack it or refuse; what it answers is not looked at.
ScopeChat(r) ==
  LET i == own[r].chat
      seen == Sees(conn[r].as, store.chats[i].scope)
      may == Enforced /\ MayWrite(conn[r].as, Order(r).scope) IN
  /\ pc[r] = "scope"
  /\ \/ may /\ seen /\ Scopes(r, i, Order(r).scope) /\ Go(r, "show") /\ UNCHANGED own
     \/ Enforced /\ ~seen /\ Go(r, "show") /\ UNCHANGED recordVars
     \/ ~may /\ (Enforced => seen) /\ Refuses(r, "refused")

\* _session_row
SeesChat(S, as, i) == i \in DOMAIN S.chats /\ Sees(as, S.chats[i].scope)
ShowChat(r) ==
  /\ pc[r] = "show"
  /\ Refuses(r, IF SeesChat(store, conn[r].as, own[r].chat) THEN "ok" ELSE "not found")

\* The messages are looked at, then the session.
LooksForChat(r, op, next) ==
  LET a == Order(r) IN
  /\ AtBody(r, op, "chat")
  /\ \/ a.bad /\ Refuses(r, "bad request")
     \/ ~a.bad /\ ~SeesChat(store, conn[r].as, a.chat) /\ Refuses(r, "not found")
     \/ /\ ~a.bad /\ SeesChat(store, conn[r].as, a.chat)
        /\ Held(r, [Taken(r) EXCEPT !.chat = a.chat, !.todo = a.lines])
        /\ Go(r, next) /\ UNCHANGED <<store, past>>
AppendMessages(r) == LooksForChat(r, "append", "append")
FinalizeChat(r) == LooksForChat(r, "finalize", "finalize")

\* maludb_chat_append_message, one of a batch; the engine may refuse it.
PutMessage(r) ==
  /\ pc[r] = "append" /\ own[r].todo # <<>> /\ ChatFree(r, own[r].chat)
  /\ \/ /\ Held(r, [own[r] EXCEPT !.todo = Tail(@), !.lines = Append(@, Head(own[r].todo))])
        /\ Go(r, "append") /\ UNCHANGED <<store, past>>
     \/ Refuses(r, "refused")

CommitMessages(r) ==
  /\ pc[r] = "append" /\ own[r].todo = <<>>
  /\ store' = [store EXCEPT !.chats[own[r].chat].log = @ \o own[r].lines]
  /\ Enter(r, "append", own[r].chat)
  /\ Ends(r, "ok")

\* maludb_chat_finalize
CloseChat(r) ==
  /\ pc[r] = "finalize" /\ ChatFree(r, own[r].chat)
  /\ \/ /\ store' = [store EXCEPT !.chats[own[r].chat].closed = TRUE]
        /\ Enter(r, "finalize", own[r].chat)
        /\ Go(r, "show") /\ UNCHANGED own
     \/ Refuses(r, "refused")

\* PUT /v1/scope of a session.
MoveChat(r) ==
  LET a == Order(r) IN
  /\ AtBody(r, "move", "chat")
  /\ \/ ~Enforced /\ Refuses(r, "engine too old")
     \/ Enforced /\ a.bad /\ Refuses(r, "bad request")
     \/ /\ Enforced /\ ~a.bad
        /\ \/ ~SeesChat(store, conn[r].as, a.chat) /\ Refuses(r, "not found")
           \/ /\ SeesChat(store, conn[r].as, a.chat)
              /\ \/ ~MayWrite(conn[r].as, a.scope) /\ Refuses(r, "refused")
                 \/ MayWrite(conn[r].as, a.scope) /\ Scopes(r, a.chat, a.scope) /\ Ends(r, "ok")

RowStep(r) ==
  \/ CreateNote(r) \/ CreatePool(r) \/ CreateDocumentType(r) \/ CreateEpisodeType(r) \/ CreateEpisode(r)
  \/ PatchNote(r) \/ PatchPool(r) \/ PatchDocumentType(r) \/ PatchEpisodeType(r) \/ PatchEpisode(r)
  \/ CloseIssue(r) \/ ReopenIssue(r) \/ ArchivePool(r) \/ UpdateRow(r) \/ ReloadRow(r)
  \/ DeleteNote(r) \/ DeleteDocumentType(r) \/ DeleteEpisodeType(r) \/ DeleteEpisode(r)
FactStep(r) ==
  \/ CreateAttributes(r) \/ CreateStatements(r) \/ CreateEpisodeStatement(r) \/ CreateObject(r)
  \/ PutFact(r) \/ CommitFacts(r)
  \/ PatchAttribute(r) \/ PatchStatement(r) \/ DeleteAttribute(r) \/ DeleteStatement(r) \/ AmendFact(r)
ChatStep(r) ==
  \/ StartChat(r) \/ ScopeChat(r) \/ ShowChat(r)
  \/ AppendMessages(r) \/ PutMessage(r) \/ CommitMessages(r) \/ FinalizeChat(r) \/ CloseChat(r) \/ MoveChat(r)
RecordStep(r) == RowStep(r) \/ FactStep(r) \/ ChatStep(r)

----------------------------------------------------------------------------
(***************************************************************************)
(* What a client may rely on: every call that is committed does all of     *)
(* what it says at one moment, and nothing else does anything.             *)
(***************************************************************************)

\* The facts F once the batch of r is there: of each, the last that it says.
Said(F, r) ==
  LET W == WritesOf(Order(r))
      of(k) == {i \in DOMAIN W : W[i].key = k}
  IN  [k \in DOMAIN F |->
         IF of(k) = {} THEN F[k]
         ELSE [by |-> IF F[k] = None THEN <<r>> ELSE F[k].by, text |-> W[Max(of(k))].text]]

\* What a committed step of a call does to a store, all at once.
EffectOf(S, e) ==
  LET a == Order(e.by)
      changed(x, c) == IF a.op = "patch" THEN IF c \in DOMAIN a.set THEN a.set[c] ELSE x[c]
                       ELSE IF c = "closed" THEN a.op # "reopen" ELSE x[c]
  IN  CASE e.what = "create" -> [S EXCEPT !.rows = Append(@, [kind |-> a.set.kind, name |-> a.set.name,
                                                               closed |-> FALSE])]
        [] e.what = "update" -> [S EXCEPT !.rows[e.id] = [c \in DOMAIN @ |-> changed(@, c)]]
        [] e.what = "delete" -> [S EXCEPT !.rows[e.id] = Gone]
        [] e.what = "batch" -> [S EXCEPT !.facts = Said(@, e.by), !.rows = @ \o RowsOf(a)]
        [] e.what = "amend" -> [S EXCEPT !.facts[a.key].text = a.text]
        [] e.what = "drop" -> [S EXCEPT !.facts[a.key] = None]
        [] e.what = "start" -> [S EXCEPT !.chats =
                                  Append(@, [scope |-> HomeOf(call[e.by].head), closed |-> FALSE, log |-> <<>>])]
        [] e.what = "scope" -> [S EXCEPT !.chats[e.id].scope = a.scope]
        [] e.what = "append" -> [S EXCEPT !.chats[e.id].log = @ \o a.lines]
        [] e.what = "finalize" -> [S EXCEPT !.chats[e.id].closed = TRUE]
\* The store when i steps were committed.
StoreAt(i) == past.stores[i + 1]

\* The steps a call commits when all goes well.
StepsOf(a) ==
  CASE a.op \in {"patch", "close", "reopen", "archive"} -> <<"update">>
    [] a.op = "move" -> <<"scope">>
    [] a.op = "start" -> IF a.scope = "none" THEN <<"start">> ELSE <<"start", "scope">>
    [] OTHER -> <<a.op>>
EntriesOf(r) == {i \in DOMAIN past.done : past.done[i].by = r}
\* The i-th step of the history is the nth of its call.
Nth(i) == Cardinality({j \in EntriesOf(past.done[i].by) : j <= i})

\* Another call has moved the session of r (a session out of sight is left where
\* it is, chat.py:119).
MovedByAnother(r) ==
  \E i \in DOMAIN past.done \ EntriesOf(r) : past.done[i].what = "scope" /\ past.done[i].id = own[r].chat

\* A call has done what it says: it is told so, or its answer has no form.
Succeeded(r) ==
  reply[r] = "ok" \/ (reply[r] = "internal error" /\ Unrendered(Order(r)))

\* A call that is refused has committed nothing, but for the start of a session
\* whose scope is refused (chat.py:117), and a session that is moved out of sight
\* before it is shown (chat.py:124, 243).  A failure of the server is no refusal:
\* it comes after the commit, when an answer has no form (pools.py:137,
\* types.py:155, attributes.py:174), or a row is deleted before it is read back.
RefusalsCommitNothing ==
  \A r \in Requests : \A i \in DOMAIN past.done : past.done[i].by = r =>
    \/ Succeeded(r) \/ reply[r] \in {"none", "lost", "null"}
    \/ reply[r] = "internal error" /\ Order(r).op \in {"close", "reopen", "archive"}
    \/ reply[r] = "refused" /\ Order(r).op = "start" /\ past.done[i].what = "start"
    \/ reply[r] = "not found" /\ Order(r).op \in {"start", "finalize"}

\* "A batch lands whole and in order, or not at all" (chat.py:207), as do all
\* others: the store is what the committed calls make of it one after the
\* other, each changing what it names and nothing else; a call commits its steps
\* in order, all of them when it has succeeded, whether or not the answer could
\* be written (but for the scope of a new session that another call has moved
\* meanwhile), and none when it is refused.
RecordsAreTheirHistory ==
  /\ store = StoreAt(Len(past.done))
  /\ \A i \in DOMAIN past.done :
       LET e == past.done[i]
           steps == StepsOf(Order(e.by))
       IN  /\ StoreAt(i) = EffectOf(StoreAt(i - 1), e)
           /\ Nth(i) \in DOMAIN steps /\ e.what = steps[Nth(i)]
  /\ \A r \in Requests : IsRecord(r) /\ Succeeded(r) =>
       \/ Cardinality(EntriesOf(r)) = Len(StepsOf(Order(r)))
       \/ Order(r).op = "drop"
       \/ Order(r).op = "start" /\ EntriesOf(r) # {} /\ MovedByAnother(r)
  /\ RefusalsCommitNothing

\* What a call may be answered while the store is S.
Verdicts(S, r) ==
  LET a == Order(r)
      x == RowIn(S, a.id)
      there == x.kind \in KindsOf[a.route]
      keys(q) == {w.key : w \in ToSet(WritesOf(Order(q)))}
      others == {q \in Requests \ {r} : IsRecord(q) /\ Order(q).op = "batch"}
      contended == {k \in keys(r) : \E q \in others : k \in keys(q)}
      errors == {i \in DOMAIN WritesOf(a) : WritesOf(a)[i].fails # "no"}
      seen == SeesChat(S, conn[r].as, a.chat)
  IN
  CASE a.op = "create" ->
         {IF a.bad THEN "bad request" ELSE IF NameTaken(S, a) THEN "conflict" ELSE "ok"}
    [] a.op = "patch" ->
         {IF ~there /\ ~(a.bad /\ a.route = "episodes") THEN "not found"
          ELSE IF a.bad THEN "bad request" ELSE IF NameTaken(S, a) THEN "conflict" ELSE "ok"}
    [] a.op = "delete" -> {IF there THEN "ok" ELSE "not found"}
    [] a.op \in {"close", "reopen", "archive"} ->
         {IF ~there THEN "not found"
          ELSE IF (a.route = "notes" => x.kind = "issue") /\ (x.closed <=> a.op = "reopen")
               THEN "ok" ELSE "conflict"}
    [] a.op = "batch" ->
         {IF a.bad THEN "bad request"
          ELSE IF a.route = "episodes" /\ RowIn(S, a.episode).kind # "episode" THEN "not found"
          ELSE IF errors # {} THEN WritesOf(a)[Min(errors)].fails ELSE "ok"}
         \cup {d \in {"deadlock"} : Cardinality(contended) >= 2}
    [] a.op \in {"amend", "drop"} ->
         IF a.bad THEN {"bad request"} ELSE IF S.facts[a.key] # None THEN {"ok"}
         ELSE {"not found", "refused"}
    [] a.op = "start" ->
         IF ~MayWrite(conn[r].as, HomeOf(conn[r].as)) THEN {"refused"}
         ELSE {"ok"} \cup {d \in {"refused"} : a.scope # "none"}
                \cup {d \in {"not found"} : /\ own[r].chat \in DOMAIN S.chats
                                          /\ ~SeesChat(S, conn[r].as, own[r].chat)}
    [] a.op \in {"append", "finalize"} ->
         IF a.bad THEN {"bad request"} ELSE IF seen THEN {"ok", "refused"} ELSE {"not found"}
    [] a.op = "move" ->
         {"engine too old"} \cup
         {IF a.bad THEN "bad request" ELSE IF ~seen THEN "not found"
          ELSE IF MayWrite(conn[r].as, a.scope) THEN "ok" ELSE "refused"}

\* Whatever other calls commit between the statements of one, its answer is
\* true of the store at some moment since it began.  A row that is deleted
\* before it is read back leaves a PATCH with null, and an issue with a failure
\* of the server (notes.py:274, pools.py:223); any other failure of the server
\* says that the call was right at some moment, and done, and that its answer
\* has no form (pools.py:137, types.py:155, 203, attributes.py:174,
\* statements.py:122, episodes.py:365): none of those is ever told "ok".
AnswersAreTrueOfAMoment ==
  \A r \in Requests : (/\ IsRecord(r) /\ pc[r] = "close"
                       /\ reply[r] \notin {"unauthenticated", "unreachable", "bad principal",
                                           "principal unsupported"}) =>
    LET moments == own[r].from..own[r].to
        id == Order(r).id
    IN  IF reply[r] \in {"null", "internal error"} /\ ~Succeeded(r)
        THEN \E i, j \in moments :
               /\ i < j /\ RowIn(StoreAt(j), id) = Gone
               /\ IF Order(r).op = "patch"
                  THEN reply[r] = "null" /\ "not found" \notin Verdicts(StoreAt(i), r)
                  ELSE reply[r] = "internal error" /\ "ok" \in Verdicts(StoreAt(i), r)
        ELSE \E i \in moments :
               IF Succeeded(r) THEN reply[r] = Success(Order(r)) /\ "ok" \in Verdicts(StoreAt(i), r)
               ELSE reply[r] \in Verdicts(StoreAt(i), r)
=============================================================================
