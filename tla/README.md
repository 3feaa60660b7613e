# TLA+ models of the MaluDB API server

The server is a FastAPI application (`app/`) that answers HTTP requests with
SQL on a tenant's PostgreSQL database. It keeps no state of its own but a
SQLite file, the *auth store*. `deploy/maludb-api.service` runs it as two
uvicorn worker processes. These modules model its concurrent behaviour, check
it with TLC and prove part of it with TLAPS.

## Inventory

| Part (`app/`) | State | Operations | What is hard | What makes it correct |
|---|---|---|---|---|
| Registry: `routers/subjects.py`, `projects.py`, `verbs.py`, `helpers/writes.py` | `maludb_subject`, `maludb_verb`; advisory locks | create (single, bulk), patch, delete, archive, unarchive | ids are `MAX(id) + 1`; bulk transactions; check, await, update; the lock is awaited on the event loop; crashes | ids never collide; a batch is all or nothing; a project endpoint changes projects only; waiters are served |
| Links: the same routers | `maludb_subject_relationship`, `maludb_subject_verb`, `maludb_svpor_relationship` | link, unlink, replace the set, patch | duplicate checks outside of the transaction; ids without a lock; concurrent replacements | no duplicate links; the set is one that was asked for |
| Auth store: `auth_store.py`, `routers/tokens.py`, `llm_config.py`, `model_prompts.py` | SQLite: `users`, `user_provider_keys`, `model_prompts`, `user_model_choices` | mint, revoke, PUT/DELETE of keys, upsert of prompts and choices | one connection per process for loop and threads; implicit transactions never rolled back; read-modify-write | only the owner revokes; a write lock does not outlive its handler; no key is lost |
| Secrets at rest: `store_crypto.py`, `seal_store.py` | the sealed columns, the key ring | seal, unseal, seal_all, `--reseal` | the tool beside live workers; order of restarts and keys | every stored secret opens at any time; sealed stays sealed |
| Request life cycle: `auth.py`, `database.py`, `main.py`, `principal.py` | a connection per request | authenticate, bind a principal, run, close | order of checks; an old engine must refuse a principal; crashes | never served unrestricted when a principal is named |
| Profile: `routers/principals.py` | versioned rows of `maludb_memory` | put, delete, history | concurrent versions, tombstones, the limit on keys | each version names the one it supersedes |
| Sweeps: `memory.py` (embeddings, reindex), `skills.py` (reindex), timers in `deploy/` | claim queues of the database | claim, compute over HTTP, complete | stale claims, overlapping runs, one item failing | every dirty card is embedded at last; a stale result is not stored |
| Documents: `documents.py`, `helpers/documents.py` | documents, packages, tags, edges | upload, patch, delete | look-up and making of subjects in two statements; deletion in three transactions | tags and edges agree; a deletion leaves nothing |
| Memory: `memory.py`, `agent_memory.py`, `memory_answer.py` | documents, chunks, statements | ingest, search, recall, answer | over-fetch and dropped rows; many searches merged while documents go; outputs of a model; an upgrade between probe and store | a deleted document is never recalled; an answer is cited and its quotes are there |
| Skills: `skills.py`, `skills_fleet.py`, the review of `scoping.py` | skills, bundles, reviews | ingest, create, patch, delete, duplicate, review | idempotent re-push, lineage, a model between read and write, review in the same transaction | never visible unreviewed; a pin keeps its content |
| User tables: `rest.py`, `helpers/query.py`, `helpers/reflect.py` | the tenant's own tables | select, insert, merge, update, delete | quoting, windows, flags against columns, the contract of one object | the rows touched are those that were meant; an error persists nothing |
| Graph: `graph.py` | subjects, statements, communities | import, query, reads | chunks of one import; a query of many statements | an import is whole; a query shows a piece of the graph |
| Records: `notes.py`, `pools.py`, `types.py`, `episodes.py`, `attributes.py`, `statements.py`, `objects.py`, `chat.py` | rows, attributes, statements, chat sessions | create, patch, close, reopen, archive, delete; batches; appends | handlers of several transactions; batches that lock each other's rows | what is there is what the committed calls make of it; every answer was true at some moment |
| Model resolution: `helpers/llm_resolve.py` | none | resolve task, key, prompt | precedence, fallbacks | no key, no call |
| LLM clients, MCP, errors, trace | none of their own | I/O, dispatch | — | — |

The parts share three things: the tenant's database (through one autocommit
connection per request; `db_tx_core` and `conn.transaction()` open READ
COMMITTED transactions), the auth store (through one SQLite connection per
process) and the event loop of the worker.

How handlers interleave follows from how they are declared. An `async def`
handler runs on the event loop and gives it up only where it awaits the body;
every database call, and the wait for an advisory lock, blocks the loop. A
`def` handler runs in a thread and interleaves with everything at every
statement. Handlers of the two workers always interleave.

## Modules

| Module | Contents |
|---|---|
| `Registry` | what the registry promises its clients: one atomic step per request, and a true answer |
| `SubjectRegistry` | the registry: handlers statement by statement, lock, loop, crashes; its properties |
| `MCSubjectRegistry` | instances for TLC: the calls and the rows at the start |
| `Lemmas` | library: a non-empty finite set of integers has a maximum; what a walk finds |
| `SubjectRegistry_proofs` | the theorems about `SubjectRegistry`: ids, batches, and that it implements `Registry` |
| `Links`, `MCLinks` | links, unlinking and replacement of links; instances for TLC |
| `Links_proofs` | the theorems about `Links` |
| `Profile`, `MCProfile` | the versions of profile entries; an instance for TLC |
| `Profile_proofs` | the bound on the keys of a profile and the history of its versions |
| `Documents`, `MCDocuments` | upload, ingest, links, deletion and search of documents; an instance for TLC |
| `SecretStore` | the auth store's secrets, the seal tool, the operator's procedure |
| `MCSecretStore` | instances for TLC |
| `SecretStore_proofs` | the theorems about the secrets, the seal tool, the lock and the tokens |
| `Skills`, `MCSkills` | bundles, plain skills and reviews; an instance for TLC |
| `Skills_proofs` | the theorems about proposals, pins, reviews and hidden parents |
| `Upkeep`, `MCUpkeep` | the background sweeps; an instance for TLC |
| `Memory_proofs` | the theorems about `Documents`, and about the vectors of the cards of `Upkeep` |
| `RequestLife` | what every request goes through: token, connection, principal, close |
| `Tables` | the tenant's own tables and the strict query grammar; extends `RequestLife` |
| `Answers` | recall, answers and ingest of memory; extends `RequestLife` |
| `Walks` | walks over a set of edges, and the paths and distances they stand for |
| `TenantGraph` | import and query of the graph; extends `RequestLife` and `Walks` |
| `Records` | rows, facts and chat sessions; extends `RequestLife` |
| `Requests`, `MCRequests` | the composition of these four, with crashes; the calls for TLC |
| `Requests_proofs` | the theorems about the life of a request, `Tables`, `Answers`, `TenantGraph` and `Records` |

A definition whose comment begins with "Fault:" is a variant with a plausible
bug. Nothing uses it; put in the place of the definition it varies it makes a
property fail, which shows that the property watches those lines of the code.

### SubjectRegistry

One request is one record in `call` (operation, endpoint, id, number of items,
the first item that is refused) and one program counter in `pc`. `host` is its
worker. `rows` holds the committed rows of both tables; a project is a row of
`maludb_subject` with the flag `project`, made by `/v1/projects` or by a POST
of a subject with type `project` (`MakesProject`). `pend[r]` are the rows that the open
transaction of `r` has inserted; `lock` the holders of the advisory locks;
`loop[w]` the handler that runs on the event loop of `w`.

| Action | Code |
|---|---|
| `BeginCreate`, `RefuseBody` | `as_items(await request.json())` |
| `AcquireLock` | `pg_advisory_xact_lock` in `tx_with_advisory_lock`; the loop stays taken |
| `InsertItem`, `RefuseItem` | one pass of `_insert_subject`, `_insert_project`, `_insert_verb` |
| `CommitCreate`, `RespondCreated` | the end of `conn.transaction()`; the 201 |
| `PatchCheck`, `PatchRefuse`, `PatchUpdate`, `PatchReload` | the look-up, the await, the UPDATE, the re-read |
| `Delete` | the one DELETE of each endpoint |
| `ArchiveCheck`, `ArchiveApply`, `ArchiveReread` | the three statements of archive and unarchive |
| `WorkerCrash` | the process dies; PostgreSQL rolls its transactions back and frees its locks |

Text columns are reduced to the last request that wrote one. A refusal by the
handler's validation and one by the database (a constraint) roll the batch
back alike and are one action. A commit whose answer is lost with the
connection is not modelled: the client of such a request is told nothing.

`Registry` is the abstract specification. It knows rows, calls and answers, and
a request is *open*, *applied* or *closed*. `SubjectRegistry` implements it
under the mapping `stage <- Stage`, which reads the stage from the program
counter: the commit, the UPDATE of a patch or the one statement of an archive
is the step that applies. `KeepsPromise` is that refinement.

### Links

A row of `rows` is a link of one of three tables: `member`
(`maludb_svpor_relationship` from a project to a subject or a verb), `related`
(`maludb_subject_relationship`) and `verb` (`maludb_subject_verb`). Its `key`
remembers which request made it. `todo[r]` are the targets a replacement has
yet to delete, `gone[r]` the rows it has deleted and not committed: their row
locks make other deletions wait.

| Action | Code |
|---|---|
| `Look`, `Refuse` | the look-up before the await; a body that is refused |
| `LinkCheck`, `InsertLink` | the duplicate check and the insertion of the POSTs |
| `ReadMax`, `InsertRelated` | the snapshot of `INSERT ... SELECT MAX + 1` and its row |
| `ReadCurrent`, `DeleteNext`, `CommitReplace`, `FailReplace` | `_do_replace` of both PUTs |
| `BreakDeadlock` | PostgreSQL ends one of the transactions that wait for each other |
| `PatchRelationship`, `Unlink`, `RemoveRelationship`, `Respond` | the PATCH, the DELETEs, the answers |
| `WorkerCrash` | the process dies, its transactions roll back |

`keyed` says whether the tenant's database has a unique index on
`relationship_id`. The repository does not hold the schema, so both cases are
checked. `maludb_svpor_relationship_create` is taken at the word of the comment
in `projects.py` ("not idempotent"). The rows a PUT creates are seen by nobody
before its commit and lock nothing, so they are inserted in that step. A PATCH
of a relationship changes `relationship_type`; its other columns are left out.
A POST of a related subject that gives dates is stored and then fails, since
its answer holds them as the driver returns them (`subjects.py:544-570`): hence
the `server_error` of `Respond`.

### Profile

`rows` are the versions of the entries of one principal's profile,
`memory_id` comes from a sequence (`seq`), `prev[r]` is the newest version a
transaction has read and `mine[r]` what it has inserted and not committed. An
entry is its newest version (`Entries`), and it is live unless that version is
a tombstone.

| Action | Code |
|---|---|
| `BeginPut`, `RefusePut`, `CheckLimit` | `put_profile_entry` up to `_write` |
| `CheckDelete` | `delete_profile_entry` up to `_write` |
| `ReadPrevious`, `InsertVersion`, `CommitVersion` | `_write` in `db_tx_core` |
| `Respond`, `WorkerCrash` | the answer; the process dies |

Values and notes are left out, and so is the history endpoint, which reads only.

### Documents

A document is in `docs`, its source package in `packages`, its soft tags in
`tags`, the edges that mirror them in `edges`, its vector chunks in `chunks`.
Ids come from sequences, so a document is named by the request that makes it.
A row of a tag or an edge carries the request that made it (`by`), which tells
it from an equal one that is made anew. `tx[r]` is what the open transaction of
`r` has done: the edges and tags it has inserted and deleted, the tags it has
updated, and what its last SELECT has found. Every statement is a step of its
own and reads what is committed when it begins (READ COMMITTED) with the
transaction's own changes (`SeenEdges`, `SeenTags`); `WaitsFor` are the row locks
that follow. `forgets` is the answer to `to_regprocedure` in
`delete_document`: both kinds of engine are checked.

| Action | Code |
|---|---|
| `BeginPost`, `Look`, `Refuse` | up to the body; a body or a model call that fails |
| `Ingest` | `_ingest` of `documents_core` and `ingest_core`, one transaction (`n = 0` for the latter, which brings no vectors) |
| `InsertPackage`, `InsertDocument`, `RefuseDocument` | the first two statements of `create_document`, each committed |
| `BeginPatch` | `update_document` enters `_patch`; an upload enters `_wire_graph` |
| `FindEdge`, `DeleteEdge`, `RepointPrimary`, `FindTags`, `DeleteTags` | `document_unlink_subject`, statement by statement |
| `Resolve`, `Register`, `AddEdge`, `FindTag`, `AddTag` | `document_link_subject`, likewise |
| `Adopt`, `CommitLinks`, `FailLink`, `BreakDeadlock`, `Respond` | the end of the transaction, its rollback, the answer |
| `CheckDelete`, `Forget`; `DeleteEdges`, `DeleteDocument`, `DeletePackage` | `delete_document` with a new and with an old engine |
| `FindChunks`, `FindLive` | the two statements of `_search`, `drop_deleted_documents` |

External, and taken from the comments and docstrings: deleting a document
cascades to its tags and not to its edges, a tag refers to its document by a
foreign key, making an edge that is seen makes no second one (and waits for a
transaction that makes or removes the same one), the deletion of an edge that
is gone is refused, and `register_svpor_subject` overrides the type of a
subject that exists. A DELETE or UPDATE that has waited for a row leaves it
alone if the row is gone then, and finds no row that was made meanwhile. A POST of a document
answers 500 although everything is stored: `created_at` is given to a
`JSONResponse` as the driver returns it (`documents.py:213-219`, `254`). The ranking is the database's: a search fetches any chunks, and of
those that are left answers any.

### SecretStore

`db` is the committed file, `dirty` what the connection that writes sees;
`writer` is the process in a write transaction and `readers` those that a
failed statement has left in a transaction with a read lock. A stored secret is
its text and what sealed it (`plain`, `k1`, `k2`). `phase` walks through the
README's procedure: no key, `k1`, `k2,k1`, `k2`; each step restarts the
workers, and the last one is allowed only after a completed `--reseal`. The
tool runs with the ring of the workers.

| Action | Code |
|---|---|
| `StartPut`, `RereadPut` | `put_provider_key`, first half of `upsert_user_provider_key` |
| `StartPrompt`, `StartWrite`, `StartRevoke` | `upsert_model_prompt`, `create_token` and `delete_provider_key`, `delete_token` up to the first write |
| `RefuseSecret` | `seal` raises `SecretFormatError` |
| `ExecUpsert`, `ExecNull`, `ExecRemove`, `ExecLocked` | the INSERT or DELETE: done, refused by NOT NULL, or "database is locked" |
| `CommitWrite`, `CommitLocked`, `ListWritten` | `commit()`, done or locked; the row read back for the answer |
| `ToolStart` … `ToolFail` | `seal_all`, with and without `--reseal` |
| `Restart`, `WorkerCrash` | systemd |

SQLite is external code and is modelled by its documented locking in the
rollback-journal mode the store uses: one RESERVED lock, EXCLUSIVE at commit
only when nobody else reads, Python's implicit BEGIN before a DML statement,
and no rollback when that statement fails. The UPDATEs the tool makes of one
table are one step: from its first UPDATE on it holds the write lock. A read by
a worker that is already in a failed transaction is taken to happen at once,
since every authenticated request begins with one. The Postgres login that
`tokens.py` verifies is the `who` of the call. What `user_id` a token gets, the
expiry of tokens and model choices are left out.

### Skills

`row[i]` is the skill with id `i`. A version has frontmatter, files, the words
of `SKILL.md` and the white space between them, which is what the screens of
`materiality_screens` tell apart. `bundle` marks the versions that the engine
has registered, `over` the version that supersedes one. The handlers go through
the view `maludb_skill`, which hides proposals and what was rejected (`Visible`);
the engine's functions, and the look at the content of a parent, go to the table
behind it. So an ingest does not find a proposal of its own bundle. `seen[r]` are
the skills in view when an ingest looked for its bundle.

| Action | Code |
|---|---|
| `IngestCheck`, `IngestParent`, `IngestCompare`, `IngestRegister` | `ingest_skill`: the re-push, the parent, the screens and the model, the transaction |
| `Create`, `Delete`, `PatchRead`, `PatchWrite` | `create_skill`, `delete_skill`, `update_skill` |
| `DuplicateRead`, `DuplicateFork`, `DuplicateReread` | `duplicate_skill` |
| `Review` | `review_skill` of `scoping.py` |

The engine's functions that register, fork and review are external. The
database has a trigger that keeps versions immutable; it is left out, so that
`PinsNeverChange` is about the server's own checks. POST of a plain skill and
the duplicate answer 500 with the row stored, since `created_at` has no form in
JSON. The requests that occupy
event loops are limited to as many as there are workers.

### Upkeep

A sweep claims a `batch` and works it off: the call of a model, then one
transaction. `due` are the sources (skills or documents) to reindex, the
stalest first; `dirty` the cards to embed, each with a generation `gen`.
`index[i]` is the version of the text that the tags or the vector of `i` were
made of. `setup` is what is configured for the tenant.

| Action | Code |
|---|---|
| `ClaimSources` | `reindex_skills_run`, `memory_reindex_run` up to the loop |
| `ClaimCards` | `memory_embeddings_run` up to the loop, `_has_real_embedder` |
| `Skip`, `Make`, `Fail` | one pass of the loop: no text or no model, what the model makes, an exception that is counted |
| `ApplySource`, `CompleteCard`, `StoreFails` | the transaction of the item |
| `Crash` | the worker dies in a sweep |
| `Edit`, `Age` | clients change a text, time passes |

The claims and what a transaction does to a work list are the engine's. A
document that is blank, or for which no model is configured, stays due, and a
claim takes the `limit` stalest sources, so as many sources that never succeed
as the limit of a sweep, at the head of the list, would keep all others from
being reindexed. The instance has fewer.

### RequestLife and Requests

`call[r]` is what the client sends: its token, its three headers (`head`) and
what it asks. `conn[r]` is its connection with the settings of the session.

| Action | Code |
|---|---|
| `Authenticate` | `authenticate_bearer`: token, look-up, connection |
| `Bind` | `apply_principal` |
| `Close` | the `finally` of `require_auth` |
| `Die` (with `Crash` of `Requests`) | the worker dies; PostgreSQL rolls back |
| `Upgrade` | the operator upgrades `maludb_core` |

`Requests` puts the handlers of `Tables`, `Answers`, `TenantGraph` and
`Records` between `Bind` and `Close`. Its `Step` is any step of one request;
`Outside` is what others do: deletions of documents and the upgrade. The
requests of one behaviour are all of one kind, since the kinds share no data.

### Tables

A call says twice what it is about: `sent` is the text that reaches the server,
`means` a ghost, what the client means by it. How a client quotes values is in
`MCRequests`. `SplitList`, `SplitGroup` and `Unquoted` read a text character by
character, as folds (`ListStep`, `GroupStep`), where a quote, a backslash, a
comma or a parenthesis matters.

| Action | Code |
|---|---|
| `TableBody`, `Check` | the JSON; the known keys, the columns, the filters and the window |
| `CountRows`, `SelectRows`, `Render` | a GET: the total, the page, the answer |
| `Scan`, `Write` | a statement: its snapshot, then its writes, once no other transaction holds its rows |
| `Settle` | the contract of one object, commit or rollback |

A windowed UPDATE or DELETE names rows by their place (`ctid`). When such a row
has been changed since the scan, whether the condition on the place is looked
at again differs between builds of PostgreSQL; both are allowed. Of the
operators `eq`, `neq` and `in` are modelled. Some values have no form in JSON (NaN,
Infinity: `Unrenderable`). `returned` are the rows that RETURNING gave; `Render`,
which comes after the commit, fails if one of them has such a value, with 500
and the change kept. A SELECT fails in the same way.

### Answers

A chunk of `Memory` has a namespace, subjects, a similarity and a text of
phrases. `work[r]` is what the handler holds, `dead` the chunks of deleted
documents. What a language model says is any of `Outputs`. `Brief` are the
phrases shorter than `QUOTED_SPAN_CHARS`: `BadSpans` does not look at them. `Short`
are those too short for a cited quote. A recall that names more than
`MaxSubjects` is refused (`TooMany`); what a question tries is cut at `MaxTried`.

| Action | Code |
|---|---|
| `AskBody` | `parse_request`, the body of recall and ingest |
| `EmbedQuery`, `Search`, `Rank` | `resolve_query_vector`, one search per namespace and subject, `merge_recall` and the evidence |
| `ResolveModel`, `Compose`, `Judge` | `resolve_answer_model`, the call, `verify` with one repair |
| `Extract`, `Probe`, `StoreExtraction`, `Report` | `ingest_core` with the probe for a namespace |
| `Forget` | another request deletes a document |

### TenantGraph

`graph` is what is committed, `tx[r]` what an import has written, `plan[r]`
what a handler holds.

| Action | Code |
|---|---|
| `GraphBody`, `CoreImport` | the checks; the import that the engine does itself |
| `RegisterTypes`, `IngestChunk`, `StoreGroups`, `Commit` | the import by chunks |
| `ChooseSeeds`, `WalkFrom`, `ShowGraph` | the statements of `graph_query` |

One namespace is modelled. A walk of the engine leaves out its start, so a seed
that an earlier walk has found keeps that depth. Nodes that are repeated count
once for the graph and each time for their community. `created` counts the
subject of the namespace. That the engine replaces the communities of a
namespace with the commit is an assumption about it. The other reads are single
calls of the database.

### Records

`store` is what is committed: `rows` (notes, pools, episodes, document and
episode types; the id of a row is its place, and a deleted one stays as
`Gone`), `facts` (attributes, statements, named subjects) and `chats`. `own[r]`
is what a handler holds: the writes still to do, those done and not committed,
the lines of a session. `past` is a history: the committed steps in their order
(`done`) and the store before, between and after them (`stores`), so that
`StoreAt(i)` is the store when `i` steps were committed.

| Action | Code |
|---|---|
| `CreateNote`, `CreatePool`, `CreateDocumentType`, `CreateEpisodeType`, `CreateEpisode` | the POSTs |
| `PatchNote`, `PatchPool`, `PatchDocumentType`, `PatchEpisodeType`, `CloseIssue`, `ReopenIssue`, `ArchivePool` | the look-up that begins a handler |
| `UpdateRow`, `ReloadRow` | its UPDATE, which may hit nothing, and the row read back |
| `PatchEpisode`; `DeleteNote`, `DeleteDocumentType`, `DeleteEpisodeType`, `DeleteEpisode` | one transaction that must hit |
| `CreateAttributes`, `CreateStatements`, `CreateEpisodeStatement`, `CreateObject` | the body, and the transaction begins |
| `PutFact`, `CommitFacts` | one statement of it; its end |
| `PatchAttribute`, `PatchStatement`, `DeleteAttribute`, `DeleteStatement`, `AmendFact` | the look-up, and the call of the engine |
| `StartChat`, `ScopeChat`, `ShowChat` | the three steps of `start_session` |
| `AppendMessages`, `PutMessage`, `CommitMessages` | `append_messages` |
| `FinalizeChat`, `CloseChat` | `finalize_session` |
| `MoveChat` | PUT /v1/scope of a session |

Several handlers give a timestamp to a bare `JSONResponse` as it comes from the
database, where others cast it to text (`notes.py:150`): POST of a pool, POST and
PATCH of types, and POST of attributes, statements and episode statements answer
500 when they have committed (`Unrendered`, `Success`). The properties speak of
what such a call has done as of a success (`Succeeded`).

Only sessions have a scope here: rows and facts are asked for by calls without
a principal. `start_session` does not look at what `maludb_set_scope` answers,
so a session the caller does not see is left where it is. Hence the exception of
`RecordsAreTheirHistory` for a new session that another call has moved: one call
moves it out of sight of the call that starts it, which then scopes nothing, a
third moves it back, and the start is answered with success and not in the scope
it asked for (chat.py:117-123). It takes three requests; the proof came upon it
before a run did. A PATCH whose row is
deleted before it is read back is answered with 200 and null; the closing of an
issue and the archiving of a pool fail with 500 then, after their commit. A
statement that names a subject registers it as a person (`helpers/statements.py`),
where `helpers/documents.py` takes care not to override the type of a subject
that is there. The names of types are compared by equality; the index compares
them in lower case.

## Runs

| Run | Question and answer |
|---|---|
| `registry` | Three requests, each any of 20 calls, two workers, crashes: `UniqueIds`, `BatchHolds` (a batch is all or nothing, with consecutive ids) and `OnlyProjectsThroughProjects` hold, and `KeepsPromise`: the handlers implement `Registry`. |
| `registry_wait` | Creates that contend for one lock: each waiter is answered (`WaitersServed`). |
| `store` | Two writes, the tool and the whole procedure: every secret opens at every step (`EverySecretOpens`); a sealed store stays sealed (`SealedStaysSealed`); the write lock outlives its handler after two errors only (`LockOutlivesErrorsOnly`). And of three mints and revocations, only the owner's login removes a token (`RevokedByOwner`). |
| `links` | Three calls of one group of tables, in every combination: equal links and equal relationship ids come from overlapping calls on two workers only (`DuplicatesOnlyByOverlap`, `RelationshipIdsCollideOnlyByOverlap`); `RemovedStaysRemoved`; `LinkedUnlessRemoved`; every call ends, deadlocks included (`EveryCallEnds`). |
| `profile` | Three writes of a full profile: `HistoryIsAChain` but for overlapping writes that no event loop keeps apart, `WrittenIsRead`, and the limit is overstepped by less than the number of workers (`LimitNearlyKept`). |
| `documents` | Three calls that upload, ingest, PATCH, DELETE and search: `DeletedNeverRecalled`, `SearchFillsItsLimit`, `DeletedLeavesNothing`; tags, edges, the primary project and the types of subjects agree (`TagsAreMirrored`, `TypeIsKept`), each but for the overlaps it names, all of which happen. |
| `skills` | Three calls on a registered and a plain skill: a proposal resolves nowhere before it is approved (`ProposedNeverLive`); an approved version is withdrawn by a review, or by a proposing push of the same bundle that did not have it in view when it looked, be it that it was registered later or that it was a hidden proposal then (`WithdrawnByReview`); what a pin resolves to never changes (`PinsNeverChange`); a revision hides its parent only when it should (`HiddenOnlyIfSame`). |
| `upkeep` | The timers and a client run overlapping sweeps while texts change, calls fail and workers die: a card off the list has the vector of its present text and no deterministic one (`CleanCardIsCurrent`), and the tags and vectors of everything whose model answers catch up (`EverythingCatchesUp`). |
| `requests` | Two requests of one kind (and a third that moves a session), from token to answer. Tables: `AsAsked`, `RefusedNeverPersists` (a refusal persists nothing; a failure of the server only what it could not render), `UpsertKeepsTheRest`. Memory: `AnsweredIsCited`, `BestOfAll`, `NeverServedUnrestricted`, `NamespaceIsTruthful`. Graph: `ImportIsWhole`, `QueryShowsTheGraph`. Records: `RecordsAreTheirHistory` (the store is what the committed calls make of it one after the other, a call that has done what it says, whether or not its answer could be written, has all of its steps, but for a new session that others move, and a refusal none, but for the start of a session whose scope is refused) and `AnswersAreTrueOfAMoment` (whatever commits between the statements of a call, its answer is true of the store at some moment of the call). |
| `links_dup` | Violated. Two workers serve the same POST of a related subject; both find no duplicate and both insert, where the comment says that an exact duplicate is rejected. |
| `store_keep` | Violated. A PUT without `api_key` restores a key that was replaced meanwhile, where the docstring says it preserves the stored one. |
| `seal_keep` | Violated. The tool's SELECT is outside of its "one transaction": a secret stored before its first UPDATE is overwritten. |

**Bounds.** Three requests are enough for the longest conflict of the registry:
one that creates, one that deletes what the first will look at, one that
reuses the id; two workers are what the unit file starts, and both share or
split the three requests in every way. Batches have up to two items, the second
of which may be refused. Every run of the registry starts from a project, a
subject and a verb, the project with the highest id, so that deleting it gives
the id again. For the store two requests on two workers interleave at every
statement with the tool; three are used for tokens, because reusing an id takes
two revocations and a mint. `MaxTokens = 2` bounds the tokens ever minted.
Three calls of `links` suffice for a deadlock of two replacements beside a
third call, and for a link, its removal and a second link. The project starts
with two members, so that two replacements can delete in opposite orders; a
subject and a verb share the id 2. The calls on `member` and on the other two
tables are checked apart, since they touch no common row. `profile` starts full
with `MaxKeys = 1` and an entry in its second version: two further keys are
what two workers need to overstep the limit, and a third shows that no more
than one gets through. In `documents` `Limit = 1` and `Overfetch = 2`: one dead
chunk at the start is what the over-fetch absorbs, and a deletion makes the
second, which it does not. The document has two project tags, so that two
PATCHes can each rely on the tag the other removes. One PATCH links what another
unlinks (`Contended`), which parts a tag from its edge, and when a first one has
made the tag, the two can wait for each other.
`SomeInit` leaves out searches and ingests without a DELETE or beside a PATCH,
which they would not meet, second uploads, which share no row with the first,
and a DELETE beside a PATCH and an upload, which share nothing but subjects.

`skills` has one id for each of three calls beyond the two at the start
(`MaxId = 5`), and the engines before the registration of bundles, with it, and
with reviews (96, 97, 106): three calls are a push, a review of it and a second
push. `upkeep` has two sources and two cards, one of each hopeless, a card that
both sources name, so that applying one source makes the card dirty again while
another sweep holds it, one change of each text, one fault, and four
configurations. In `requests` a first call of every kind meets a second one
that writes to the same things: two are what the windows between statements
need. A third is there where a session is moved away and back (`MovedAway`). A table has three keys and at most two rows to a window
(`MaxRows`), and one value that JSON has not; `Overfetch`, `EvidenceSize`,
`MaxSubjects` and `MaxTried` (2, so that lists of three reach them) are small
enough to be reached by four chunks; of the four phrases one is too short to be
quoted and two are too short to be looked at; `Chunk = 1` makes every import one of several chunks
(the code has 50 to 5000); the engines 97, 102 and 106 differ in what they take
of imports, namespaces and principals; the principal is granted two of three
namespaces. `Records` begins with eight rows, four facts and two sessions; two
crossed batches of two facts reach the deadlock.

**Symmetry.** Requests and workers are interchangeable (`SomeSymmetry`,
`DocumentsSymmetry`, `SkillSymmetry`); the
runs with a liveness property use none. `MCLinks` makes the same reduction by
hand: `GroupSpec` orders the calls of the three requests and names the worker
of the first, which keeps one initial state of each orbit.

**Fairness.** `FairSpec` asks for weak fairness of each handler: a handler that
can take its next step takes it. The operating system schedules both workers
and PostgreSQL grants a free lock to a waiter, which is what the code relies
on. Nothing is assumed of crashes. A request that has not begun is fair too,
which means no more than that uvicorn serves what it has accepted. Weak
fairness suffices because each holder of a lock sits on its loop until the end
of its transaction and needs nobody else to go on, so that a waiter is disabled only
while somebody else moves, and finitely many requests hold the lock before it.
`FairSpec` of `Links` is the same for its handlers; there it includes that
PostgreSQL's deadlock detector runs. `UpkeepFairness` says that the two timers
of `deploy/` fire for ever, that a sweep that runs goes on to its next step (a
model that does not answer times out, which is `Fail`), and that every source
ages, by `max_age` or by the watermark of the registry. No client need ever
call, and nothing is assumed of crashes and faults but that there are finitely
many in a behaviour.

## Proofs

What TLC finds on small instances these theorems say for every value of the
constants that the named assumptions of the modules allow: any number of
requests and workers, any calls, rows, tables, keys and limits, any
interleaving and any crashes. The invariants below were tried with TLC, on the
runs of their components, before they were proved, where TLC can evaluate them.

All arguments have one shape. The property of interest is not inductive; the
invariant adds what the handlers have read and hold. A step of one handler
leaves what the others hold alone, so there is a lemma that says of *all* steps
what they may do to the rest (`StepEvolves`, `HandlerSteps`, `SweepMoves`,
`HandlerKeeps`, `OtherSteps`, `KeepsKeeps`), and the invariant is shown of the handler that
moves and, from that lemma, of all others.

| Theorem | States |
|---|---|
| `SubjectRegistry_proofs` | |
| `TypeCorrect`, `IdsNeverCollide`, `BatchesAreWhole` | `TypeOK`, `UniqueIds`, `BatchHolds` |
| `InsertersHoldTheLock` | `LockHeld` |
| `ChangesAreAskedFor`, `PromiseIsKept` | `OnlyProjectsThroughProjects`, `KeepsPromise` |
| `Links_proofs` | |
| `DoublesTakeTwoWorkers`, `IdsTakeTwoWorkers` | `DuplicatesOnlyByOverlap`, `RelationshipIdsCollideOnlyByOverlap` |
| `NothingIsLeftBehind`, `NothingIsForgotten` | `RemovedStaysRemoved`, `LinkedUnlessRemoved` |
| `Profile_proofs` | |
| `LimitTheorem`, `CorrectionsKeepHistory`, `WritesAreRead` | `LimitNearlyKept`, `HistoryIsAChain`, `WrittenIsRead` |
| `Skills_proofs` | |
| `ProposalsWait`, `VersionsAreImmutable` | `ProposedNeverLive`, `PinsNeverChange` |
| `ReviewersWithdraw`, `HiddenForAReason` | `WithdrawnByReview`, `HiddenOnlyIfSame` |
| `SecretStore_proofs` | |
| `NobodyIsLockedOut`, `NothingIsUnsealed` | `EverySecretOpens`, `SealedStaysSealed` |
| `LockIsGivenBack`, `TokensAreTheirOwners` | `LockOutlivesErrorsOnly`, `RevokedByOwner` |
| `Memory_proofs` | |
| `NothingLeft`, `NeverRecalled` | `DeletedLeavesNothing`, `DeletedNeverRecalled` |
| `LimitFilled` | `SearchFillsItsLimit` |
| `Mirrored`, `TypeKept` | `TagsAreMirrored`, `TypeIsKept` |
| `VectorsAreCurrent` | `CleanCardIsCurrent` |
| `Requests_proofs` | |
| `PrincipalsAreNeverWidened`, `ReportedIsStored` | `NeverServedUnrestricted`, `NamespaceIsTruthful` |
| `AnswersAreCited`, `EvidenceIsBest` | `AnsweredIsCited`, `BestOfAll` |
| `RefusalsPersistNothing`, `UpsertsKeepTheRest` | `RefusedNeverPersists`, `UpsertKeepsTheRest` |
| `RecordsAreSerial`, `RecordsAnswerTheirTime` | `RecordsAreTheirHistory`, `AnswersAreTrueOfAMoment` |
| `ImportsAreWhole`, `QueriesShowTheGraph` | `ImportIsWhole`, `QueryShowsTheGraph` |
| `RefusedChangesNothing` | `RefusalsCommitNothing`, a conjunct of `RecordsAreTheirHistory` |

### SubjectRegistry

`UniqueIds` is not inductive by itself: that a new id is free needs the
inserter to see every row of its table, which holds because nobody else has
uncommitted rows there (`LockHeld` and `OneInserterPerTable`), and needs
`MAX(id)` to exist, so the rows must be finitely many or bounded. The
invariant `IInv` is therefore

    TypeOK /\ PendFinite /\ LockHeld /\ BoundedIds /\ Disjoint /\ UniqueIds

`BoundedIds` bounds the ids by a natural number, `Disjoint` keeps the pending
rows of different transactions, and the committed rows, apart. One lemma per
group of actions shows that the invariant is kept (`CreateKeepsIInv`,
`PatchKeepsIInv`, `DeleteKeepsIInv`, `ArchiveKeepsIInv`, `CrashKeepsIInv`);
`NextIdIsNew` is where the maximum is used, with `FiniteSetHasMax` of
`Lemmas`.

That the rows of a batch appear together is clear from the commit; what takes
an argument is which rows they are, and that their ids follow one another
though other tables, other batches, patches and deletions go on. `BatchInv`
says of an open transaction (`PendingRun`) that it has inserted the items 1 to
n in order, each id one more than the last, all of them above every committed
row of the table; of the committed rows (`CommittedRuns`) that ids and items of
one request go up together; and of every batch (`BatchOf`) that all of its
items were made, or none, and what it was told. The last row inserted is the
greatest that the next INSERT sees, because nobody else inserts there: this is
where `LockHeld` comes in again.

`PromiseIsKept` is the refinement of `Registry`, step by step. The mapping reads
the stage of a request off its program counter, so `StageMoves` says for each
action which request changes its stage, and one lemma for each kind of abstract
step shows that the rows and the answers go with it (`Refuses`, `Responds`,
`Hides`, `CommitCreates`, `UpdateChanges`, `DeleteRemoves`, `CrashLoses`); all
other actions are stutters. It needs `IInv` and that a DELETE is one statement
(`DeletedAtOnce`), so that a crash finds it either open or closed.

### Links

No handler holds a lock, so what a handler has read may be out of date when it
writes. `LinksInv` says by how much (`Sane`). Of a handler about to make rows: a
link like the one it makes exists only if a request it overlapped has made it
(`Unseen`). Of one that replaces or unlinks: a link it is to take away is one
it has deleted, has yet to delete, or was made by a request that was not over
when it began (`Cleared`). Of one that has linked: what it was asked for is
there, or a request that was not over has taken it away (`Served`). `Born` ties
each row to the request that made it. To all others, every action of a handler
is the same kind of step (`Acts`): rows that its request makes and wants, rows
that it may take away, and rows that change their type. Two requests that make
equal links sat on different event loops (`MakersOverlap`), because each holds
its loop from the check to the insertion (`Course`).

Assumed of the calls is what the endpoints fix: a link or an unlink names one
target, only project members are replaced, only relationships are patched and
removed by id. Of the links at the start it is assumed that none are alike.

### Profile

`LimitTheorem`: the check of the limit and the write are not one transaction.
What bounds the profile is the event loop, since a PUT holds the loop of its
worker from the check to the answer (`LoopHeld`). The admitted PUTs sit on
different workers, so the keys they are about to add are no more than the workers
(`AdmittedKeysBounded`, an injection and a surjection of finite sets). The
invariant counts them together with the live keys:

    Cardinality(Live(rows) \cup AdmittedKeys) <= MaxKeys + Cardinality(Workers) - 1

A PUT of a new key is admitted when fewer than `MaxKeys` keys are live, and
then the union is less than `MaxKeys` plus the number of workers. A commit
moves keys from one part of the union to the other, and every other step takes
keys away or leaves the union alone.

`CorrectionsKeepHistory` and `WritesAreRead` rest on `HistoryInv`: numbers come
from the sequence (`Numbered`); a transaction has read the newest version but
for those of writes it could not know of (`ReadOf`), and its own number is
above all it could see (`PendingOf`); both remain true of a version once it is
committed (`Linked`). Two writes could know of each other if one was over when the other
began or if one loop ran both (`NotInTurn`), which is what the properties
except.

### Skills

Everything rests on `Evolves`, how the table may change in a step: an id is
given once, and what has a bundle hash keeps its name and content. So what a
handler has read before an await is still true where it matters: the bundle an
ingest has not found among the skills in view (`Unfound`: such a version was out
of view then, `seen`), whether the skill
of a PATCH has a bundle hash (`LookedUp`), the content of the parent that the
materiality was judged by (`Compared`). `Proposals` says that what an ingest
proposed is approved only if a review has approved it.

The first attempt at the type invariant failed, at the review of a skill: the
model let a review without a status through, which the code answers with 422
(`scoping.py:227`). `Review` has that path now.

### SecretStore

The store is seen twice, as committed (`db`) and as the open write transaction
sees it (`dirty`), and every part of the invariant is about both. `LegalStore`:
each value is sealed by a key that the phase of the procedure allows
(`Sealers`), and the ring of every phase opens those. What makes the next phase
legal is `Progress`: whatever the tool has still to seal lies in the tables it
has not come to, or in its list, in either store, although workers write
meanwhile; they write nothing that would need sealing (`StaleIsOld`). So the
tool's commit leaves nothing to seal behind. `Tokens` says that an id is given
once and that a row which the open transaction lacks was revoked by its owner,
`Revoking` that a handler which goes on to the DELETE has checked a row that is
still its own.

`LockOutlivesErrorsOnly` says when the writer may be left holding the lock
after an answer, and is inductive together with the types and the course of
each handler.

### Documents

`DocumentsInv` says of the store that it refers to documents there are
(`Referenced`) and that tags and edges agree; and of every handler what it may
rely on (`DocSane`), which is six things.

* `Settled` and `DocCourse`: a document is made by one request, once, and that
  request is past the making when anybody else can name the document. So what a
  DELETE has removed does not come back (`SettledGoneStaysGone`), whatever the
  other workers do.
* `Jobs` and `Pointed`: a transaction of links points its document at a primary
  project that is among the tags it sees, unless two workers work at the links
  of the document at the same time (`Disputed`). On one worker they cannot:
  each holds the loop from its first statement to its end (`LinkersOverlap`).
  `TagsAreMirrored` excepts the same case for the primary project, and for the
  edges a DELETE of an old engine that is between two of its statements.
* `Balanced`: what a transaction of links sees of a link that nobody contends
  (`Contended`: an unlink on one worker while another links the same) has an edge if
  and only if it has a tag (`Even`), except for the link it is working at, whose
  edge is one or two statements ahead of its tag (`Midway`). As the statements read
  what is committed when each begins, this is about all that *others* may commit
  in between: one that links or unlinks the same on the same worker cannot, for
  the loop is held, and others leave that link alone (`RowsMove`, `BalancedStays`). The
  commit puts rows that agree in the place of rows that agree.
* `Unregistered`: a subject that is being registered was not there when the
  handler looked, unless it is `Contested` likewise. This gives `TypeIsKept`.
* `Missed`: an edge that the DELETE of an old engine leaves behind was made by a
  link that overlapped it; with `maludb_forget_document` there is none.
* `Searched`: the first statement of a search has fetched `Fetch` chunks or all
  that are older than it; what is dropped was dead. When less than `Limit` are
  left of `Overfetch * Limit`, more than `(Overfetch - 1) * Limit` were dropped
  (`FetchFacts`, `CutFacts`).

One lemma per handler step (`FindEdgeKeeps`, `DeleteTagsKeeps`, `AddTagKeeps`,
`CommitLinksKeeps`, `DeleteKeeps` and so on) shows the store intact and the handler sane (`Keeps`), `KeepsKeeps` carries
the rest, and `CrashKeeps` is the crash, which ends all handlers of a worker.

Assumed is that the jobs of a call unlink before they link and that only a PATCH
unlinks (`JobsAssumption`, `documents.py:308-319`), and that at the start
nobody's document is there, the tags are of documents there are, and a primary
project is one of the document's project tags (`InitAssumption`). Both are
checked by TLC on the runs.

### Upkeep

A sweep stores a vector long after it has claimed the text. The text of a card
and its generation change together, so a claim whose generation is the card's
has the card's present text (`Honest`); `UpkeepInv` says so of every claim in a
batch and of every vector that was made. The work lists are sequences without
SelectSeq, whose value would need an induction; `WithoutFacts` and `WithFacts`
say what is on a list once an item was taken off or put on.

### Requests

What a handler holds is changed at its own steps only. So one lemma for each
group of handlers (`TableMoves`, `AnswerMoves`, `GraphMoves`, `RecordMoves`)
says that a step of it goes on inside of the group or answers with one of its
replies, and `OtherSteps` that all other steps leave the rest alone. From them
follows `LifeInv`: which steps a request can be at (`Types`), that it is told
nothing before it is to be closed (`Told`), and that from `Bind` on its session
is the one its headers ask for (`Bound`). Each theorem has an invariant of its
own on top:

* `Granted`: the chunks found and the namespace stored into are allowed to the
  headers. A search sees what its session sees, and the session is the one of
  the headers, or the call was refused by an engine that could not enforce it;
  the engine's version only grows.
* `Truthful`: from the probe to the answer `report` follows what the probe said
  and not what the engine is by then.
* `Cited`: the evidence is a ranking of allowed chunks; the model has been asked
  only with evidence; an output that is answered with is `Sound` for the very
  evidence that is shown, which is silent about passages below the length that
  the code looks at. `RankingExists` proves that any finite set of chunks
  can be listed by likeness: one that could not and is minimal for inclusion
  would lose its best, and the rest could be listed.
* `Sought`: while the searches run, a memory that the call is about and may see
  has been found, or as many better ones as are asked for (`Covered`), or one of
  the searches to come will find it. Each search gives its best `max` of what is
  not dead among `Overfetch * max` (`OverfetchCovers`); to be covered by a set is
  to be covered by the best of it (`BestCovers`) and by more (`CoveredGrows`), so
  nothing is lost when the searches are put together. The lemmas about the best
  `n` of a set list it by likeness: the k-th has k - 1 above it
  (`RankingFacts`). The searches are a function on the products of the numbers
  of namespaces and subjects (`SearchesFacts`). Assumed of the questions is what
  `parse_request` lets through (`AsksAssumption`): lists, limits, and at least
  one namespace.
* `Kept`: a request has written only if it has committed. It commits in the step
  that decides its answer, or it goes on to `render` with the rows it returns; then it
  fails exactly when one of these cannot be rendered, and they are the rows it wrote.
* `Traced`: where a handler of `Records` is that has committed a step
  (`Marked`) and what it may have told by then. `RecordTraces` reduces each of
  the actions to one of nine ways to go, of which only those that have done what
  they say (`Success`), or lead to the row or the session being read back, enter a
  step into the history.
* `RecordsInv`: `PastInv`, the history is what it says: each step is the next of
  its call and makes of one store the next; `HeldInv`, no two transactions have
  written the same fact (`PutFact` waits); `RecordOf`, what a handler knows at
  each of its steps. It knows the past, not the present: that the row it is about
  to change was there and might be changed at *some* moment since it began
  (`Looked`), that its fact was (`Amending`), that it could be answered so
  (`Once`). What was true of a moment stays true (`MomentsStay`), so others can
  take nothing of it away; of the present it needs only what others cannot undo
  (`Grows`): a row that is gone stays gone and one that is there keeps its kind,
  a fact keeps its creator, sessions stay. So one lemma (`OnwardStays`) covers all
  steps of others, and one lemma for each action what it commits (`Commits`) and
  where it leads. A batch has done the first `m` of its writes, each fact holds
  the last text of them (`Putting`), and at the end that is what `Said` makes of
  all; its first error is the smallest place of one, which is `m + 1`. A deadlock
  is a cycle of two or more waiters, hence of two contended facts. Assumed
  are a store of the shape the schema gives it (`StoresAssumption`) and calls as
  the handlers' checks of the body let them through (`OrdersAssumption`).
* `ImportsInv`: what an import has written and what its payloads have still to
  write are together the nodes and edges of its body (`Carries`), from the step
  that makes the payloads (`PayloadsCarry`: chunks of nodes, one of the edges
  within each, and after them those between, whose ends have all been written)
  over each chunk (`CarriesOn`) to the commit. That needs that all types of its
  nodes stay registered, and that no chunk drops an edge for an end it has not
  seen. `created` is the number of new subjects written so far: a payload that
  does not count brings no new ones, and no two transactions are to add the same
  subject (`Apart`), because the insert of one waits for the other; so what
  others commit meanwhile is none of what this one has counted. The answer gives
  the number at the commit, and the committed graph only grows. The nodes and
  links of a body are lists (`ImportsAssumption`). What the lists keep of them
  is put by the places that are kept (`Picked`), of which the lemmas need no
  induction (`PickedFacts`, `ChunkedFacts`).
* `MergeInv`: what an insert has changed, and what it has committed, it may have
  made of the rows its statement found (`MayInsert`): a row that was not there has
  in each column a value of an item or the default, and one that was there differs
  only if the call merges, and only in columns that an item gives, unless the
  call lists the columns itself. The scan makes the rows of the items one after
  the other; `RunMayInsert` follows them one by one, and what others commit
  between scan and write is kept apart from what the statement found. The items are a list and the
  resolution is one the header can name (`InsertsAssumption`).
* `QueriesInv`: after each walk of a query (`Found`) every object found is as far
  from another seed as is said, in the graph as it is now (`SoundIn`), and all
  that was around a seed already walked when the query began has been found, as
  near or nearer (`Around`). An import only adds edges, so both outlast what
  others commit (`FoundGrows`, `GraphGrows`). That the balls of `Walk` hold the
  ends of the paths of their length, and its depth the shortest of these, is
  `BallsReach` and `WalkFacts` of `Lemmas`; that the nearest `max` objects exist
  needs the graph to be finite, at the start (`GraphsAssumption`) and after each
  import (`WholeFinite`); depth and limit are numbers (`QueriesAssumption`). The
  property speaks of the *other* seeds for a reason the proof brought out: a
  walk does not lead back to its start, so no path from a seed to itself is ever
  looked at, and when there is room for few objects only, seeds can be left out.

### What is only model-checked

* All liveness (`EveryCallEnds`, `WaitersServed`, `EverythingCatchesUp` and the
  others): TLAPS has no rules for fairness and ENABLED.
* `AsAsked`: it compares what the handlers make of the text of a filter with what
  its author meant. How a text is taken apart is a fold over its characters, and
  that quoting and splitting undo each other for every text is an induction over
  data. (The other properties avoid that: a history keeps the stores between the
  steps of `Records`, and of a batch only the last write of a fact and the first
  error count; of an import what is left of a list and what is done make up the
  whole; paths need no recursion, and that of a walk and that of an insert
  over its items are functions on an interval of numbers.)
* Properties of runs that expect a violation are false of the code and so are
  no theorems; what is proved are the weaker statements that hold
  (`DuplicatesOnlyByOverlap` and not that there are no duplicates).


## Plan

Done: `SubjectRegistry` with `Registry`, `SecretStore`, `Links`, `Profile`,
`Documents`, `Skills`, `Upkeep`, and `Requests` with `RequestLife`, `Tables`,
`Answers`, `TenantGraph` and `Records`.

Left, in this order:

1. `SecretStore`: the `user_id` a token gets, and model choices.
2. `Tables`: the lenient dialect of the older routes, NULLs and the other
   operators; the embedding of related tables.
3. `Records`: presence in pools, the project of a note.

## Not modelled

The text of requests and answers, wording, SQL inside the database's own
functions (`maludb_*`, `maludb_core`), the LLM and embedding providers, logging
and the SQL trace. The MCP endpoint dispatches to the operations above; it
authenticates by `authenticate_bearer` alone and binds no principal, so nothing
said of principals is about it. Of `rest.py`: `HEAD`, a PATCH of the key
column, and the 501 of a tenant without the facade. Of `memory.py`: the fused
search and the maintenance routes, which are single calls of the database. Of
`attributes.py`: attribute templates. The lists of types of subjects and verbs
are read only.

Beside what the three violated runs show, the code does other than is said of
it in six places. Four of them are exceptions that properties name, and all four
happen in the runs:

* "A tag on a document is mirrored as a real edge" (`helpers/documents.py:6`):
  an unlink on one worker finds no edge, a link on another commits edge and tag,
  and the unlink deletes the tag; or a link sees the edge that the unlink then deletes
  (`Contended` in `TagsAreMirrored`).
* "An errored request never persists" (`rest.py:556`): a row with a NaN is stored,
  and the answer fails after the commit (`RefusedNeverPersists`).
* "every quoted span inside `answer_md`" is in the evidence (`memory_answer.py:19`,
  `docs/memory-answer.md:36`): passages of less than 20 characters are not looked
  at (`Brief` in `AnsweredIsCited`).
* POST of pools, types and facts, and PATCH of types, answer 500 after they have
  committed (`Unrendered` in `AnswersAreTrueOfAMoment`); so do POST of documents
  and of plain skills.

The other two are left out of the models. When the extraction of a document
gives no JSON, `memory.py` counts the document under `skipped`, as for a tenant
without a model, while `src/README.md` says that failures are listed under
`errors`. The second depends on a function of the database: `graph.py` keeps for a seed the
depth that an earlier walk gave it (`setdefault`, line 358). If
`maludb_graph_walk` leaves out its start, as `Walk` does, that seed is shown
at a depth above 0; `QueryShowsTheGraph` asks of a seed nothing that would
depend on it.

`PROJECT.json` lists each component with its status.
