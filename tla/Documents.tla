------------------------------ MODULE Documents ------------------------------
(***************************************************************************)
(* Documents: upload, ingest, links to the graph, deletion and search, in  *)
(* routers/documents.py, helpers/documents.py and routers/memory.py.       *)
(*                                                                         *)
(* A document has a source package, soft tags, edges to the subjects its   *)
(* tags name, and vector chunks.  The handlers spread their work over      *)
(* transactions; DELETE runs in a thread, the others are "async def" and   *)
(* keep the event loop of their worker from their body to their answer.    *)
(* A document is named by the request that makes it, since its id comes    *)
(* from a sequence; its package has the same name.                         *)
(***************************************************************************)
EXTENDS Naturals, Sequences, FiniteSets

CONSTANTS
  Requests,    \* the requests served in a behaviour
  Workers,     \* the uvicorn worker processes
  NoRequest,   \* "no request": an idle loop
  NoDoc,       \* the document of a chunk that belongs to a statement only
  InitDocs,    \* the documents at the start
  Names,       \* the names subjects have; "" is none
  Calls,       \* the calls a client may make, a subset of CallType
  InitTags,    \* the tags at the start, and the edges that mirror them
  InitChunks,  \* the chunks at the start
  InitPrimary, \* the primary project of each document at the start, or ""
  Limit,       \* the limit of a search
  Overfetch    \* SEARCH_OVERFETCH

Docs == InitDocs \cup Requests

\* A name to link a document to, or to unlink it from, as a project or not.
Link == [kind: {"project", "subject"}, name: Names]

\* The row of a soft tag or of an edge: its document, the link it stands for and
\* the request that made it, which tells it from a row made anew.
RowType == [doc: Docs, kind: {"project", "subject"}, name: Names,
            by: Requests \cup {NoRequest}]

\* One job of a PATCH or an upload.
Job == [act: {"link", "unlink"}, link: Link]

\* One call.  "jobs" are in the order of the handler: unlinks before links,
\* projects before subjects.  "n" is the number of edges of an ingest.
CallType == [op: {"upload", "ingest", "patch", "delete", "search"},
             doc: Docs, jobs: Seq(Job), n: Nat]

VARIABLES
  docs,       \* the documents
  packages,   \* the source packages
  tags,       \* the soft tags
  edges,      \* the edges from documents to subjects
  chunks,     \* the vector chunks: a document (or NoDoc) and a number
  primary,    \* primary[d]: the primary project of document d, or ""
  type,       \* type[n]: the type of the subject n; "none": no such subject
  forgets,    \* does the engine have maludb_forget_document?
  loop,       \* loop[w]: the handler that runs on the event loop of worker w
  call,       \* call[r]: the call request r makes
  host,       \* host[r]: the worker that serves r
  pc,         \* pc[r]: how far the handler of r has come
  reply,      \* reply[r]: how r was answered
  todo,       \* todo[r]: the jobs that are left
  tx,         \* tx[r]: what the open transaction of r has done
  hits,       \* hits[r]: the chunks a search has fetched
  result,     \* result[r]: those it has answered
  before      \* before[r]: the requests that were over when r began

store == <<docs, packages, tags, edges, chunks, primary, type, forgets>>
work == <<todo, tx, hits, result>>
vars == <<store, work, loop, call, host, pc, reply, before>>

\* A transaction: the edges and tags it has inserted, deleted and (tags only)
\* updated, the rows its last SELECT has found, the subjects it has registered,
\* the primary project it has set ("keep": none), and the first project it has
\* linked.
NoTx == [newEdges |-> {}, oldEdges |-> {}, newTags |-> {}, oldTags |-> {},
         kept |-> {}, found |-> {}, reg |-> {}, prim |-> "keep", first |-> ""]

ASSUME DocumentsAssumption ==
  /\ NoRequest \notin Requests /\ NoDoc \notin Docs /\ "" \notin Names
  /\ "keep" \notin Names /\ Calls \subseteq CallType
  /\ Limit \in Nat \ {0} /\ Overfetch \in Nat \ {0}

\* A PATCH unlinks before it links; an upload has nothing to unlink.
ASSUME JobsAssumption ==
  \A c \in Calls : \A i \in DOMAIN c.jobs :
    c.jobs[i].act = "unlink" => /\ c.op = "patch"
                               /\ \A j \in 1..i : c.jobs[j].act = "unlink"

\* At the start nobody is at work: the primary project of a document is one of
\* its project tags.
ASSUME InitAssumption ==
  /\ InitDocs \cap Requests = {}
  /\ IsFiniteSet(InitChunks) /\ \A c \in InitChunks : c[1] \notin Requests
  /\ InitTags \subseteq RowType /\ \A t \in InitTags : t.doc \in InitDocs
  /\ InitPrimary \in [InitDocs -> Names \cup {""}]
  /\ \A d \in InitDocs : InitPrimary[d] = "" \/ \E t \in InitTags :
       t.doc = d /\ t.kind = "project" /\ t.name = InitPrimary[d]

Init ==
  /\ docs = InitDocs /\ packages = InitDocs
  /\ tags = InitTags /\ edges = InitTags /\ chunks = InitChunks
  /\ primary = [d \in Docs |-> IF d \in InitDocs THEN InitPrimary[d] ELSE ""]
  /\ type = [n \in Names |-> IF \E t \in InitTags : t.name = n
                             THEN "project" ELSE "none"]
  /\ forgets \in BOOLEAN
  /\ loop = [w \in Workers |-> NoRequest]
  /\ call \in [Requests -> Calls] /\ host \in [Requests -> Workers]
  /\ pc = [r \in Requests |-> "idle"] /\ reply = [r \in Requests |-> "none"]
  /\ todo = [r \in Requests |-> <<>>] /\ tx = [r \in Requests |-> NoTx]
  /\ hits = [r \in Requests |-> {}] /\ result = [r \in Requests |-> {}]
  /\ before = [r \in Requests |-> {}]

----------------------------------------------------------------------------
LoopIdle(r) == loop[host[r]] = NoRequest
Take(r) == loop' = [loop EXCEPT ![host[r]] = r]
Free(r) == loop' = [w \in Workers |-> IF loop[w] = r THEN NoRequest ELSE loop[w]]

Goto(r, s) == pc' = [pc EXCEPT ![r] = s] /\ UNCHANGED reply
Answer(r, a) == /\ pc' = [pc EXCEPT ![r] = "done"]
                /\ reply' = [reply EXCEPT ![r] = a]
Begin(r) == before' = [before EXCEPT ![r] = {q \in Requests : pc[q] = "done"}]

\* The document a request is about.
Doc(r) == IF call[r].op \in {"upload", "ingest"} THEN r ELSE call[r].doc

\* The rows among S that stand for the link l of document d.
Of(S, d, l) == {t \in S : t.doc = d /\ t.kind = l.kind /\ t.name = l.name}
Row(r, l) == [doc |-> Doc(r), kind |-> l.kind, name |-> l.name, by |-> r]

\* _LINK_SPEC: the type of a subject that a link makes.
SubjectType(l) == IF l.kind = "project" THEN "project" ELSE "concept"

\* What a statement of the transaction of r sees: what is committed when it
\* begins (READ COMMITTED), and what the transaction itself has done.
SeenEdges(r) == (edges \ tx[r].oldEdges) \cup tx[r].newEdges
SeenTags(r) == (tags \ tx[r].oldTags) \cup tx[r].newTags
SeenPrimary(r) == IF tx[r].prim = "keep" THEN primary[Doc(r)] ELSE tx[r].prim
Known(r, n) == type[n] # "none" \/ \E l \in tx[r].reg : l.name = n

Current(r) == Head(todo[r]).link
ToUnlink(r) == pc[r] = "txn" /\ todo[r] # <<>> /\ Head(todo[r]).act = "unlink"
ToLink(r) == pc[r] = "txn" /\ todo[r] # <<>> /\ Head(todo[r]).act = "link"
ToAdopt(r) == pc[r] = "txn" /\ todo[r] = <<>>

\* The unlinked subject is the primary project; there is none to adopt over.
IsPrimary(r) == Doc(r) \in docs /\ SeenPrimary(r) = Current(r).name
MayAdopt(r) == tx[r].first # "" /\ Doc(r) \in docs /\ SeenPrimary(r) = ""

(***************************************************************************)
(* Row locks.  A transaction holds the rows it has inserted, deleted or    *)
(* updated and keeps their document from being deleted; one that has set   *)
(* the primary project holds the row of the document; one that has         *)
(* registered a subject holds its name.                                    *)
(***************************************************************************)
Rows(q) == tx[q].newEdges \cup tx[q].oldEdges \cup tx[q].newTags \cup tx[q].oldTags
             \cup tx[q].kept
HoldsRow(q, d) == Doc(q) = d /\ tx[q].prim # "keep"
Busy(q, d) == Doc(q) = d /\ (Rows(q) # {} \/ tx[q].prim # "keep")

\* The next statement of r waits for the transaction of q.
WaitsFor(r, q) ==
  /\ q # r
  /\ \/ pc[r] = "unedge" /\ tx[r].found \cap tx[q].oldEdges # {}
     \/ pc[r] = "repoint" /\ IsPrimary(r) /\ HoldsRow(q, Doc(r))
     \/ /\ pc[r] \in {"untag", "retag"}
        /\ tx[r].found \cap (tx[q].oldTags \cup tx[q].kept) # {}
     \/ pc[r] = "register" /\ \E l \in tx[q].reg : l.name = Current(r).name
     \/ /\ pc[r] = "edge"
        /\ Of(tx[q].newEdges \cup tx[q].oldEdges, Doc(r), Current(r)) # {}
     \/ ToAdopt(r) /\ MayAdopt(r) /\ HoldsRow(q, Doc(r))

Runs(r) == \A q \in Requests : ~WaitsFor(r, q)

----------------------------------------------------------------------------
(***************************************************************************)
(* What the handlers do before their body is there.                        *)
(***************************************************************************)

\* POST of a document or of a search: the body is awaited.
BeginPost(r) ==
  /\ pc[r] = "idle" /\ call[r].op \in {"upload", "ingest", "search"} /\ LoopIdle(r)
  /\ Goto(r, "body") /\ Begin(r)
  /\ UNCHANGED <<store, work, loop, call, host>>

\* PATCH looks the document up first.
Look(r) ==
  /\ pc[r] = "idle" /\ call[r].op = "patch" /\ LoopIdle(r)
  /\ IF call[r].doc \in docs THEN Goto(r, "body") ELSE Answer(r, "not_found")
  /\ Begin(r)
  /\ UNCHANGED <<store, work, loop, call, host>>

\* A body that is not valid; a model that does not answer; an edge of an
\* ingest that lacks its subject, whose transaction rolls back.
Refuse(r) ==
  /\ pc[r] = "body" /\ LoopIdle(r)
  /\ Answer(r, "refused")
  /\ UNCHANGED <<store, work, loop, call, host, before>>

(***************************************************************************)
(* POST /v1/memory/documents and /v1/memory/ingest: one transaction, after *)
(* the calls of the models.                                                *)
(***************************************************************************)
Ingest(r) ==
  /\ pc[r] = "body" /\ call[r].op = "ingest" /\ LoopIdle(r)
  /\ docs' = docs \cup {r} /\ packages' = packages \cup {r}
  /\ chunks' = chunks \cup ({r} \X (1..call[r].n))
  /\ Answer(r, "ok")
  /\ UNCHANGED <<tags, edges, primary, type, forgets, work, loop, call, host, before>>

(***************************************************************************)
(* POST /v1/documents: the package, the document, and then the links, in   *)
(* three transactions.                                                     *)
(***************************************************************************)
InsertPackage(r) ==
  /\ pc[r] = "body" /\ call[r].op = "upload" /\ LoopIdle(r)
  /\ packages' = packages \cup {r}
  /\ Take(r) /\ Goto(r, "document")
  /\ UNCHANGED <<docs, tags, edges, chunks, primary, type, forgets, work, call,
                 host, before>>

InsertDocument(r) ==
  /\ pc[r] = "document"
  /\ docs' = docs \cup {r}
  /\ todo' = [todo EXCEPT ![r] = call[r].jobs]
  /\ Goto(r, IF call[r].jobs = <<>> THEN "answer" ELSE "txn")
  /\ UNCHANGED <<packages, tags, edges, chunks, primary, type, forgets, tx, hits,
                 result, loop, call, host, before>>

\* The database refuses the document; its package stays.
RefuseDocument(r) ==
  /\ pc[r] = "document"
  /\ Answer(r, "refused") /\ Free(r)
  /\ UNCHANGED <<store, work, call, host, before>>

(***************************************************************************)
(* PATCH /v1/documents/{id}, and the links of an upload: unlinks and links *)
(* in one transaction.                                                     *)
(***************************************************************************)
BeginPatch(r) ==
  /\ pc[r] = "body" /\ call[r].op = "patch" /\ LoopIdle(r)
  /\ todo' = [todo EXCEPT ![r] = call[r].jobs]
  /\ Take(r) /\ Goto(r, "txn")
  /\ UNCHANGED <<store, tx, hits, result, call, host, before>>

\* document_unlink_subject, statement by statement.  It looks for the edge, if it
\* knows the subject ...
FindEdge(r) ==
  /\ ToUnlink(r)
  /\ LET E == IF Known(r, Current(r).name) THEN Of(SeenEdges(r), Doc(r), Current(r))
              ELSE {}
     IN  /\ tx' = [tx EXCEPT ![r].found = E]
         /\ Goto(r, IF ~Known(r, Current(r).name) THEN "findtag"
                    ELSE IF E = {} THEN "repoint" ELSE "unedge")
  /\ UNCHANGED <<store, todo, hits, result, loop, call, host, before>>

\* ... deletes it, unless it is gone meanwhile ...
DeleteEdge(r) ==
  /\ pc[r] = "unedge" /\ Runs(r)
  /\ tx' = [tx EXCEPT ![r].oldEdges = @ \cup (tx[r].found \cap edges)]
  /\ Goto(r, "repoint")
  /\ UNCHANGED <<store, todo, hits, result, loop, call, host, before>>

\* The first OTHER project tag, "" when there is none.  The tags are ordered by
\* their ids, which the model does not keep.
Others(r, l) == {t.name : t \in {u \in SeenTags(r) : /\ u.doc = Doc(r)
                                                     /\ u.kind = "project"
                                                     /\ u.name # l.name}}
Repoint(r, l) == IF Others(r, l) = {} THEN {""} ELSE Others(r, l)

\* ... points the document at another primary project, if this was it ...
RepointPrimary(r) ==
  /\ pc[r] = "repoint" /\ Runs(r)
  /\ \E p \in IF IsPrimary(r) THEN Repoint(r, Current(r)) ELSE {tx[r].prim} :
       tx' = [tx EXCEPT ![r].prim = p]
  /\ Goto(r, "findtag")
  /\ UNCHANGED <<store, todo, hits, result, loop, call, host, before>>

\* ... and deletes the tags there are when the DELETE begins, once their rows
\* are free.
FindTags(r) ==
  /\ pc[r] = "findtag"
  /\ tx' = [tx EXCEPT ![r].found = Of(SeenTags(r), Doc(r), Current(r))]
  /\ Goto(r, "untag")
  /\ UNCHANGED <<store, todo, hits, result, loop, call, host, before>>

DeleteTags(r) ==
  /\ pc[r] = "untag" /\ Runs(r)
  /\ tx' = [tx EXCEPT ![r].oldTags = @ \cup (tx[r].found \cap tags)]
  /\ todo' = [todo EXCEPT ![r] = Tail(@)]
  /\ Goto(r, "txn")
  /\ UNCHANGED <<store, hits, result, loop, call, host, before>>

\* Fault: the subject is registered whether it is there or not.
FaultyResolve(r) ==
  /\ ToLink(r) /\ Goto(r, "register")
  /\ UNCHANGED <<store, work, loop, call, host, before>>

\* document_link_subject looks the subject up ...
Resolve(r) ==
  /\ ToLink(r)
  /\ Goto(r, IF Known(r, Current(r).name) THEN "edge" ELSE "register")
  /\ UNCHANGED <<store, work, loop, call, host, before>>

\* ... makes it, overriding the type of one made meanwhile ...
Register(r) ==
  /\ pc[r] = "register" /\ Runs(r)
  /\ tx' = [tx EXCEPT ![r].reg = @ \cup {Current(r)}]
  /\ Goto(r, "edge")
  /\ UNCHANGED <<store, todo, hits, result, loop, call, host, before>>

\* ... makes the edge, unless it sees it (maludb_svpor_statement_create) ...
AddEdge(r) ==
  /\ pc[r] = "edge" /\ Doc(r) \in docs /\ Runs(r)
  /\ tx' = [tx EXCEPT ![r].newEdges =
                @ \cup IF Of(SeenEdges(r), Doc(r), Current(r)) = {}
                       THEN {Row(r, Current(r))} ELSE {}]
  /\ Goto(r, "tag")
  /\ UNCHANGED <<store, todo, hits, result, loop, call, host, before>>

\* ... looks for the tag ...
FindTag(r) ==
  LET T == Of(SeenTags(r), Doc(r), Current(r))
  IN  /\ pc[r] = "tag"
      /\ tx' = [tx EXCEPT ![r].found = T]
      /\ Goto(r, IF T = {} THEN "newtag" ELSE "retag")
      /\ UNCHANGED <<store, todo, hits, result, loop, call, host, before>>

\* The first project that is linked.
First(r) == IF tx[r].first = "" /\ Current(r).kind = "project" THEN Current(r).name
            ELSE tx[r].first

\* ... and makes it, or updates the one it has found unless that is gone.
AddTag(r) ==
  /\ \/ pc[r] = "newtag" /\ Doc(r) \in docs
     \/ pc[r] = "retag" /\ Runs(r)
  /\ tx' = [tx EXCEPT
              ![r].newTags = @ \cup IF pc[r] = "newtag" THEN {Row(r, Current(r))} ELSE {},
              ![r].kept = @ \cup (tx[r].found \cap tags),
              ![r].first = First(r)]
  /\ todo' = [todo EXCEPT ![r] = Tail(@)]
  /\ Goto(r, "txn")
  /\ UNCHANGED <<store, hits, result, loop, call, host, before>>

\* UPDATE ... SET primary_project_id WHERE primary_project_id IS NULL
Adopt(r) ==
  /\ ToAdopt(r) /\ Runs(r)
  /\ tx' = [tx EXCEPT ![r].prim = IF MayAdopt(r) THEN tx[r].first ELSE @]
  /\ Goto(r, "commit")
  /\ UNCHANGED <<store, todo, hits, result, loop, call, host, before>>

\* Fault: the edges of the links that were removed stay.
FaultyCommitLinks(r) ==
  LET d == Doc(r)
  IN  /\ pc[r] = "commit"
      /\ tags' = SeenTags(r) /\ edges' = edges \cup tx[r].newEdges
      /\ primary' = [primary EXCEPT ![d] = SeenPrimary(r)]
      /\ type' = [n \in Names |->
                    IF \E l \in tx[r].reg : l.name = n
                    THEN SubjectType(CHOOSE l \in tx[r].reg : l.name = n)
                    ELSE type[n]]
      /\ tx' = [tx EXCEPT ![r] = NoTx]
      /\ Goto(r, "answer")
      /\ UNCHANGED <<docs, packages, chunks, forgets, todo, hits, result, loop,
                     call, host, before>>

CommitLinks(r) ==
  LET d == Doc(r)
  IN  /\ pc[r] = "commit"
      /\ tags' = SeenTags(r) /\ edges' = SeenEdges(r)
      /\ primary' = [primary EXCEPT ![d] = SeenPrimary(r)]
      /\ type' = [n \in Names |->
                    IF \E l \in tx[r].reg : l.name = n
                    THEN SubjectType(CHOOSE l \in tx[r].reg : l.name = n)
                    ELSE type[n]]
      /\ tx' = [tx EXCEPT ![r] = NoTx]
      /\ Goto(r, "answer")
      /\ UNCHANGED <<docs, packages, chunks, forgets, todo, hits, result, loop,
                     call, host, before>>

Rollback(r, a) ==
  /\ tx' = [tx EXCEPT ![r] = NoTx] /\ todo' = [todo EXCEPT ![r] = <<>>]
  /\ Answer(r, a) /\ Free(r)
  /\ UNCHANGED <<store, hits, result, call, host, before>>

\* The document of a new edge or tag is gone (a foreign key); the engine refuses
\* to delete an edge that is gone.
FailLink(r) ==
  /\ \/ pc[r] = "edge" /\ Doc(r) \notin docs /\ Runs(r)
     \/ pc[r] = "newtag" /\ Doc(r) \notin docs
     \/ pc[r] = "unedge" /\ tx[r].found \cap edges = {} /\ Runs(r)
  /\ Rollback(r, "refused")

\* PostgreSQL ends one of the transactions that wait for each other.
Deadlock(r) ==
  \E C \in SUBSET Requests :
    /\ r \in C
    /\ \A p \in C : /\ \E q \in C : WaitsFor(p, q)
                    /\ \E q \in C : WaitsFor(q, p)
BreakDeadlock(r) == Deadlock(r) /\ Rollback(r, "conflict")

\* The document is read again for the answer of a PATCH: null when it is gone.
\* The answer of an upload holds created_at as the driver returns it, which a
\* JSONResponse cannot render: all is stored, and the answer is a failure.
Respond(r) ==
  /\ pc[r] = "answer"
  /\ Answer(r, IF call[r].op = "upload" THEN "error"
               ELSE IF Doc(r) \in docs THEN "ok" ELSE "gone")
  /\ Free(r)
  /\ UNCHANGED <<store, work, call, host, before>>

(***************************************************************************)
(* DELETE /v1/documents/{id}.                                              *)
(***************************************************************************)
CheckDelete(r) ==
  /\ pc[r] = "idle" /\ call[r].op = "delete"
  /\ IF call[r].doc \in docs THEN Goto(r, "delete") ELSE Answer(r, "not_found")
  /\ Begin(r)
  /\ UNCHANGED <<store, work, loop, call, host>>

Unblocked(d) == \A q \in Requests : ~Busy(q, d)
OfOthers(S, d) == {x \in S : x.doc # d}

\* maludb_forget_document, which may refuse a document that is gone.
Forget(r) ==
  LET d == call[r].doc
  IN  /\ pc[r] = "delete" /\ forgets /\ Unblocked(d)
      /\ docs' = docs \ {d} /\ packages' = packages \ {d}
      /\ tags' = OfOthers(tags, d) /\ edges' = OfOthers(edges, d)
      /\ chunks' = {c \in chunks : c[1] # d}
      /\ primary' = [primary EXCEPT ![d] = ""]
      /\ \/ Answer(r, "ok")
         \/ d \notin docs /\ Answer(r, "refused")
      /\ UNCHANGED <<type, forgets, work, loop, call, host, before>>

\* Without it: the edges, then the document with its tags, then the package.
DeleteEdges(r) ==
  /\ pc[r] = "delete" /\ ~forgets
  /\ \A q \in Requests : Doc(q) = call[r].doc => tx[q].oldEdges = {}
  /\ edges' = OfOthers(edges, call[r].doc)
  /\ Goto(r, "delete_document")
  /\ UNCHANGED <<docs, packages, tags, chunks, primary, type, forgets, work, loop,
                 call, host, before>>

DeleteDocument(r) ==
  LET d == call[r].doc
  IN  /\ pc[r] = "delete_document" /\ Unblocked(d)
      /\ docs' = docs \ {d} /\ tags' = OfOthers(tags, d)
      /\ primary' = [primary EXCEPT ![d] = ""]
      /\ Goto(r, "delete_package")
      /\ UNCHANGED <<packages, edges, chunks, type, forgets, work, loop, call, host,
                     before>>

\* Fault: the package is left to its document.
FaultyDeletePackage(r) ==
  /\ pc[r] = "delete_package"
  /\ Answer(r, "ok")
  /\ UNCHANGED <<store, work, loop, call, host, before>>

DeletePackage(r) ==
  /\ pc[r] = "delete_package"
  /\ packages' = packages \ {call[r].doc}
  /\ Answer(r, "ok")
  /\ UNCHANGED <<docs, tags, edges, chunks, primary, type, forgets, work, loop,
                 call, host, before>>

(***************************************************************************)
(* POST /v1/memory/search: the nearest chunks, then their documents.  Which*)
(* chunks are the nearest is up to the database.                           *)
(***************************************************************************)
Cut(S, n) == {T \in SUBSET S : Cardinality(T) = IF Cardinality(S) < n
                                                THEN Cardinality(S) ELSE n}

\* Fault: no more chunks are fetched than were asked for.
FaultyFetch == Limit

\* min(limit * SEARCH_OVERFETCH, SEARCH_FETCH_MAX), where a limit is at most 200
Fetch == Limit * Overfetch

FindChunks(r) ==
  /\ pc[r] = "body" /\ call[r].op = "search" /\ LoopIdle(r)
  /\ \E S \in Cut(chunks, Fetch) : hits' = [hits EXCEPT ![r] = S]
  /\ Take(r) /\ Goto(r, "live")
  /\ UNCHANGED <<store, todo, tx, result, call, host, before>>

\* Fault: chunks of deleted documents are kept.
FaultyKept(S) == S

\* drop_deleted_documents
Kept(S) == {c \in S : c[1] \in docs \cup {NoDoc}}

FindLive(r) ==
  /\ pc[r] = "live"
  /\ \E S \in Cut(Kept(hits[r]), Limit) : result' = [result EXCEPT ![r] = S]
  /\ Answer(r, "ok") /\ Free(r)
  /\ UNCHANGED <<store, todo, tx, hits, call, host, before>>

----------------------------------------------------------------------------
\* A worker dies: its requests are lost and its transactions roll back.
WorkerCrash(w) ==
  LET L == {r \in Requests : host[r] = w /\ pc[r] \notin {"idle", "done"}}
  IN  /\ L # {}
      /\ pc' = [r \in Requests |-> IF r \in L THEN "done" ELSE pc[r]]
      /\ reply' = [r \in Requests |-> IF r \in L THEN "lost" ELSE reply[r]]
      /\ tx' = [r \in Requests |-> IF r \in L THEN NoTx ELSE tx[r]]
      /\ todo' = [r \in Requests |-> IF r \in L THEN <<>> ELSE todo[r]]
      /\ loop' = [loop EXCEPT ![w] = NoRequest]
      /\ UNCHANGED <<store, hits, result, call, host, before>>

Quiet == (\A r \in Requests : pc[r] = "done") /\ UNCHANGED vars

Handler(r) ==
  \/ BeginPost(r) \/ Look(r) \/ Refuse(r) \/ Ingest(r)
  \/ InsertPackage(r) \/ InsertDocument(r) \/ RefuseDocument(r)
  \/ BeginPatch(r)
  \/ FindEdge(r) \/ DeleteEdge(r) \/ RepointPrimary(r) \/ FindTags(r) \/ DeleteTags(r)
  \/ Resolve(r) \/ Register(r) \/ AddEdge(r) \/ FindTag(r) \/ AddTag(r)
  \/ Adopt(r) \/ CommitLinks(r) \/ FailLink(r) \/ BreakDeadlock(r) \/ Respond(r)
  \/ CheckDelete(r) \/ Forget(r) \/ DeleteEdges(r) \/ DeleteDocument(r)
  \/ DeletePackage(r) \/ FindChunks(r) \/ FindLive(r)

Next == \/ \E r \in Requests : Handler(r)
        \/ \E w \in Workers : WorkerCrash(w)
        \/ Quiet

Spec == Init /\ [][Next]_vars

----------------------------------------------------------------------------
(***************************************************************************)
(* Properties.                                                             *)
(***************************************************************************)

\* Both have begun and neither came after the other.
Overlap(q, r) == /\ q # r /\ "idle" \notin {pc[q], pc[r]}
                 /\ q \notin before[r] /\ r \notin before[q]

Linkers == {r \in Requests : call[r].op \in {"patch", "upload"}}
Links(r, n) == \E i \in DOMAIN call[r].jobs :
                 call[r].jobs[i].act = "link" /\ call[r].jobs[i].link.name = n
Asks(r, act, l) == \E i \in DOMAIN call[r].jobs : call[r].jobs[i] = [act |-> act, link |-> l]

Deletes(r, d) == call[r].op = "delete" /\ call[r].doc = d

\* "A deleted document is never recalled" (documents.py): a search that begins
\* after a DELETE was answered finds no chunk of the document, although the
\* chunks may stay, and whatever the search reads in its two statements.
DeletedNeverRecalled ==
  \A s \in Requests : \A c \in result[s] :
    ~\E d \in before[s] : Deletes(d, c[1]) /\ reply[d] = "ok"

\* "A search that loses some must still be able to fill its limit" (memory.py):
\* it misses a chunk that was there only when it is full, or when it fetched so
\* many chunks of deleted documents that the over-fetch was used up.
SearchFillsItsLimit ==
  \A s \in Requests :
    (call[s].op = "search" /\ reply[s] = "ok" /\ Cardinality(result[s]) < Limit) =>
      \/ Kept(chunks \cap ((InitDocs \cup before[s] \cup {NoDoc}) \X Nat))
           \subseteq result[s]
      \/ Cardinality(hits[s] \ Kept(hits[s])) > (Overfetch - 1) * Limit

\* A document whose DELETE was answered has left no tag, package or edge, and
\* no chunk if the engine can forget; but without such an engine an edge may
\* dangle that was made while the three transactions of the DELETE ran.
DeletedLeavesNothing ==
  \A r \in Requests : (call[r].op = "delete" /\ reply[r] = "ok") =>
    LET d == call[r].doc
    IN  /\ d \notin docs \cup packages /\ \A t \in tags : t.doc # d
        /\ forgets => \A c \in chunks : c[1] # d
        /\ \A e \in edges : e.doc = d =>
             /\ ~forgets
             /\ \E q \in Linkers : Doc(q) = d /\ Links(q, e.name) /\ Overlap(q, r)

\* A PATCH or an upload of one worker links l to d while one of another unlinks it.
Contended(d, l) ==
  \E q, r \in Linkers : /\ Doc(q) = d /\ Doc(r) = d
                        /\ Asks(q, "link", l) /\ Asks(r, "unlink", l)
                        /\ Overlap(q, r) /\ host[q] # host[r]

\* "A tag on a document is mirrored as a real edge" (helpers/documents.py): a
\* document has an edge for a link when it has a tag for it, although each is
\* looked for and changed by a statement of its own.  Two things may part them:
\* a DELETE of the document that is on its way, or was lost after its first
\* transaction, and an unlink on one worker that overlaps a link of the same on
\* another.  The primary project of a document is one of its project tags: an
\* unlink repoints it, and only two PATCHes of different workers may each repoint
\* it to, and remove, the tag the other relies on.
TagsAreMirrored ==
  \A d \in docs :
    /\ \/ ~forgets /\ \E r \in Requests :
            Deletes(r, d) /\ (pc[r] = "delete_document" \/ reply[r] = "lost")
       \/ \A l \in Link : Contended(d, l) \/ (Of(edges, d, l) # {} <=> Of(tags, d, l) # {})
    /\ \/ primary[d] = ""
       \/ Of(tags, d, [kind |-> "project", name |-> primary[d]]) # {}
       \/ \E q, r \in Linkers : /\ Doc(q) = d /\ Doc(r) = d
                                /\ Overlap(q, r) /\ host[q] # host[r]

\* "Resolve-or-create the subject WITHOUT clobbering an existing subject's
\* type": unless two requests of different workers make it at the same time.
TypeIsKept ==
  [][\A n \in Names :
       \/ type[n] \in {"none", type'[n]}
       \/ \E q, r \in Linkers : /\ Links(q, n) /\ Links(r, n)
                                /\ Overlap(q, r) /\ host[q] # host[r]]_vars
=============================================================================
