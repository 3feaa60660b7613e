-------------------------- MODULE SubjectRegistry --------------------------
(***************************************************************************)
(* The registry of subjects, projects and verbs: the CRUD handlers of      *)
(* routers/subjects.py, routers/projects.py and routers/verbs.py over the  *)
(* tables maludb_subject and maludb_verb, whose ids are MAX(id) + 1.       *)
(*                                                                         *)
(* The handlers run in several worker processes.  In each process the      *)
(* "async def" handlers share one event loop, which they give up only at   *)
(* "await request.json()": every database call blocks the loop, the wait   *)
(* for an advisory lock included.  The "def" handlers run in threads and   *)
(* need no loop.  Every statement outside a transaction commits by itself; *)
(* a transaction is READ COMMITTED, so that each of its statements sees    *)
(* what is committed when the statement starts, and its own rows.          *)
(***************************************************************************)
EXTENDS Naturals, FiniteSets

CONSTANTS
  Requests,    \* the requests served in a behaviour
  Workers,     \* the uvicorn worker processes
  NoRequest,   \* "no request": a lock that is free, a loop that is idle
  Calls,       \* the calls a client may make, a subset of CallType
  InitRows     \* the rows the tables hold at the start

Endpoints == {"subjects", "projects", "verbs"}
Tables == {"maludb_subject", "maludb_verb"}

\* Fault: a project is inserted into the view maludb_project.
FaultyTableOf == [subjects |-> "maludb_subject",
                  projects |-> "maludb_project",
                  verbs    |-> "maludb_verb"]

\* A project is a row of maludb_subject whose subject_type is 'project'.
TableOf == [subjects |-> "maludb_subject",
            projects |-> "maludb_subject",
            verbs    |-> "maludb_verb"]

\* Fault: the lock is named after the endpoint instead of the table.
FaultyLockName == [subjects |-> "maludb_subject",
                   projects |-> "maludb_project",
                   verbs    |-> "maludb_verb"]

\* The lock_name each create handler passes to tx_with_advisory_lock.
LockName == [subjects |-> "maludb_subject",
             projects |-> "maludb_subject",
             verbs    |-> "maludb_verb"]

Locks == {LockName[e] : e \in Endpoints}

\* What a PATCH sets: nothing it knows, some column, or the type of a subject.
\* A POST of subjects gives their type, too.
Fields == {"none", "name", "project", "other"}

(***************************************************************************)
(* One call.  A create has "n" items, of which the first to be refused, by *)
(* the handler's validation or by the database, is number "bad" (0: none). *)
(* The other operations name the row "id".                                 *)
(***************************************************************************)
CallType == [op: {"create", "patch", "delete", "archive", "unarchive"},
             ep: Endpoints, id: Nat, n: Nat, bad: Nat, set: Fields]

(***************************************************************************)
(* A row.  "key" says which item of which request inserted it: two rows    *)
(* that carry the same id are still two rows.  "name" is the last request  *)
(* that set one of the text columns.                                       *)
(***************************************************************************)
Key == (Requests \cup {NoRequest}) \X Nat
RowType == [tab: Tables, id: Nat, key: Key, project: BOOLEAN,
            archived: BOOLEAN, name: Requests \cup {NoRequest}]

\* No two rows of a table share an id.
IdsUnique(S) == \A a, b \in S : (a.tab = b.tab /\ a.id = b.id) => a = b

ASSUME NoRequestAssumption == NoRequest \notin Requests
ASSUME CallsAssumption == Calls \subseteq CallType
ASSUME InitRowsAssumption ==
  /\ InitRows \subseteq RowType
  /\ IdsUnique(InitRows)
  /\ \A x \in InitRows : x.key[1] = NoRequest
  /\ \A x, y \in InitRows : x.key = y.key => x = y
  /\ IsFiniteSet(InitRows)

VARIABLES
  rows,     \* the committed rows of both tables
  pend,     \* pend[r]: the rows the open transaction of r has inserted
  lock,     \* lock[t]: the request that holds the advisory lock named t
  loop,     \* loop[w]: the handler that runs on the event loop of worker w
  call,     \* call[r]: the call request r makes
  host,     \* host[r]: the worker that serves r
  pc,       \* pc[r]: how far the handler of r has come
  reply,    \* reply[r]: how r was answered
  dropped   \* the keys of the rows deleted so far

vars == <<rows, pend, lock, loop, call, host, pc, reply, dropped>>

Steps == {"idle", "lock", "txn", "committed", "body", "reload",
          "archive", "reread", "done"}
Replies == {"none", "ok", "gone", "refused", "not_found", "conflict",
            "server_error", "lost"}

Init ==
  /\ rows = InitRows
  /\ pend = [r \in Requests |-> {}]
  /\ lock = [t \in Locks |-> NoRequest]
  /\ loop = [w \in Workers |-> NoRequest]
  /\ call \in [Requests -> Calls]
  /\ host \in [Requests -> Workers]
  /\ pc = [r \in Requests |-> "idle"]
  /\ reply = [r \in Requests |-> "none"]
  /\ dropped = {}

----------------------------------------------------------------------------
(***************************************************************************)
(* Helpers.                                                                *)
(***************************************************************************)

\* The rows of table t with an id: what MAX(subject_id) ranges over.
IdsOf(S, t) == {x.id : x \in {y \in S : y.tab = t}}

\* SELECT COALESCE(MAX(subject_id), 0) + 1
NextId(S, t) ==
  LET I == IdsOf(S, t)
  IN  IF I = {} THEN 1 ELSE (CHOOSE m \in I : \A i \in I : i <= m) + 1

\* What the INSERT of request r reads: the committed rows and its own.
Seen(r) == rows \cup pend[r]

\* The WHERE clause of a handler.  The project endpoints look through the
\* view maludb_project or add AND subject_type = 'project'.
Hit(c, x) == /\ x.tab = TableOf[c.ep]
             /\ x.id = c.id
             /\ c.ep = "projects" => x.project

Exists(c) == \E x \in rows : Hit(c, x)

LoopIdle(r) == loop[host[r]] = NoRequest
Take(r) == loop' = [loop EXCEPT ![host[r]] = r]
Release(r) == loop' = [loop EXCEPT ![host[r]] = NoRequest]

Answer(r, a) == /\ pc' = [pc EXCEPT ![r] = "done"]
                /\ reply' = [reply EXCEPT ![r] = a]
Goto(r, s) == /\ pc' = [pc EXCEPT ![r] = s]
              /\ UNCHANGED reply

----------------------------------------------------------------------------
(***************************************************************************)
(* POST /v1/subjects, /v1/projects, /v1/verbs.  From the body to the       *)
(* answer the handler does not give up its event loop.                     *)
(***************************************************************************)

\* The body has arrived and as_items accepts it; the transaction opens.
BeginCreate(r) ==
  /\ pc[r] = "idle" /\ call[r].op = "create" /\ LoopIdle(r)
  /\ Take(r)
  /\ Goto(r, "lock")
  /\ UNCHANGED <<rows, pend, lock, call, host, dropped>>

\* The body is no JSON, or neither an object nor a list of objects.
RefuseBody(r) ==
  /\ pc[r] = "idle" /\ call[r].op = "create" /\ LoopIdle(r)
  /\ Answer(r, "refused")
  /\ UNCHANGED <<rows, pend, lock, loop, call, host, dropped>>

\* SELECT pg_advisory_xact_lock(hashtext(lock_name))
AcquireLock(r) ==
  LET t == LockName[call[r].ep]
  IN  /\ pc[r] = "lock" /\ lock[t] = NoRequest
      /\ lock' = [lock EXCEPT ![t] = r]
      /\ Goto(r, "txn")
      /\ UNCHANGED <<rows, pend, loop, call, host, dropped>>

\* The number of the item request r is about to insert.
Item(r) == Cardinality(pend[r]) + 1

\* A subject that is posted with type 'project' is a project like any other.
MakesProject(c) == c.ep = "projects" \/ (c.ep = "subjects" /\ c.set = "project")

NewRow(r) ==
  LET t == TableOf[call[r].ep]
  IN  [tab |-> t, id |-> NextId(Seen(r), t), key |-> <<r, Item(r)>>,
       project |-> MakesProject(call[r]), archived |-> FALSE, name |-> r]

\* Fault: the INSERT runs in autocommit mode, outside of the transaction.
FaultyInsertItem(r) ==
  LET k == Cardinality({x \in rows : x.key[1] = r}) + 1
  IN  /\ pc[r] = "txn" /\ k <= call[r].n /\ k # call[r].bad
      /\ rows' = rows \cup {[NewRow(r) EXCEPT !.key = <<r, k>>]}
      /\ UNCHANGED <<pend, lock, loop, call, host, pc, reply, dropped>>

InsertItem(r) ==
  /\ pc[r] = "txn" /\ Item(r) <= call[r].n /\ Item(r) # call[r].bad
  /\ pend' = [pend EXCEPT ![r] = @ \cup {NewRow(r)}]
  /\ UNCHANGED <<rows, lock, loop, call, host, pc, reply, dropped>>

\* The end of a transaction gives the advisory lock back.
EndTxn(r) ==
  /\ pend' = [pend EXCEPT ![r] = {}]
  /\ lock' = [t \in Locks |-> IF lock[t] = r THEN NoRequest ELSE lock[t]]

\* Fault: the rows inserted so far are committed before the refusal.
CommittingRefuseItem(r) ==
  /\ pc[r] = "txn" /\ Item(r) <= call[r].n /\ Item(r) = call[r].bad
  /\ rows' = rows \cup pend[r]
  /\ EndTxn(r)
  /\ Release(r)
  /\ Answer(r, "refused")
  /\ UNCHANGED <<call, host, dropped>>

\* Fault: the handler answers and leaves its transaction open.
FaultyRefuseItem(r) ==
  /\ pc[r] = "txn" /\ Item(r) <= call[r].n /\ Item(r) = call[r].bad
  /\ Release(r)
  /\ Answer(r, "refused")
  /\ UNCHANGED <<rows, pend, lock, call, host, dropped>>

\* An item is refused: json_error or the database raises, and
\* conn.transaction() rolls the whole batch back.
RefuseItem(r) ==
  /\ pc[r] = "txn" /\ Item(r) <= call[r].n /\ Item(r) = call[r].bad
  /\ EndTxn(r)
  /\ Release(r)
  /\ Answer(r, "refused")
  /\ UNCHANGED <<rows, call, host, dropped>>

CommitCreate(r) ==
  /\ pc[r] = "txn" /\ Item(r) > call[r].n
  /\ rows' = rows \cup pend[r]
  /\ EndTxn(r)
  /\ Goto(r, "committed")
  /\ UNCHANGED <<loop, call, host, dropped>>

RespondCreated(r) ==
  /\ pc[r] = "committed"
  /\ Release(r)
  /\ Answer(r, "ok")
  /\ UNCHANGED <<rows, pend, lock, call, host, dropped>>

----------------------------------------------------------------------------
(***************************************************************************)
(* PATCH /v1/subjects/{id}, /v1/projects/{id}, /v1/verbs/{id}: a look-up,  *)
(* the wait for the body, then the UPDATE and the re-read of the row.      *)
(***************************************************************************)

PatchCheck(r) ==
  /\ pc[r] = "idle" /\ call[r].op = "patch" /\ LoopIdle(r)
  /\ IF Exists(call[r]) THEN Goto(r, "body") ELSE Answer(r, "not_found")
  /\ UNCHANGED <<rows, pend, lock, loop, call, host, dropped>>

\* An empty name, or no updatable field.
PatchRefuse(r) ==
  /\ pc[r] = "body" /\ LoopIdle(r) /\ call[r].set = "none"
  /\ Answer(r, "refused")
  /\ UNCHANGED <<rows, pend, lock, loop, call, host, dropped>>

Patched(r, x) ==
  [x EXCEPT !.name = r,
            !.project = IF call[r].set = "name" THEN @
                        ELSE call[r].set = "project"]

\* Fault: update_project without AND subject_type = 'project'.
FaultyPatchUpdate(r) ==
  /\ pc[r] = "body" /\ LoopIdle(r) /\ call[r].set # "none"
  /\ rows' = {IF x.tab = TableOf[call[r].ep] /\ x.id = call[r].id
              THEN Patched(r, x) ELSE x : x \in rows}
  /\ Take(r)
  /\ Goto(r, "reload")
  /\ UNCHANGED <<pend, lock, call, host, dropped>>

PatchUpdate(r) ==
  /\ pc[r] = "body" /\ LoopIdle(r) /\ call[r].set # "none"
  /\ rows' = {IF Hit(call[r], x) THEN Patched(r, x) ELSE x : x \in rows}
  /\ Take(r)
  /\ Goto(r, "reload")
  /\ UNCHANGED <<pend, lock, call, host, dropped>>

\* The answer carries the row as it is now: null when it is gone.
PatchReload(r) ==
  /\ pc[r] = "reload"
  /\ Release(r)
  /\ Answer(r, IF Exists(call[r]) THEN "ok" ELSE "gone")
  /\ UNCHANGED <<rows, pend, lock, call, host, dropped>>

----------------------------------------------------------------------------
(***************************************************************************)
(* DELETE: one statement.  delete_verb is an async handler and needs the   *)
(* event loop; the other two run in a thread.                              *)
(***************************************************************************)

Delete(r) ==
  LET gone == {x \in rows : Hit(call[r], x)}
  IN  /\ pc[r] = "idle" /\ call[r].op = "delete"
      /\ call[r].ep = "verbs" => LoopIdle(r)
      /\ rows' = rows \ gone
      /\ dropped' = dropped \cup {x.key : x \in gone}
      /\ Answer(r, IF gone = {} THEN "not_found" ELSE "ok")
      /\ UNCHANGED <<pend, lock, loop, call, host>>

----------------------------------------------------------------------------
(***************************************************************************)
(* POST /v1/projects/{id}/archive and /unarchive, in a thread: read        *)
(* archived_at, call the database function, read the project again.        *)
(***************************************************************************)

ArchiveOp(r) == call[r].op \in {"archive", "unarchive"}

ArchiveCheck(r) ==
  /\ pc[r] = "idle" /\ ArchiveOp(r)
  /\ \/ ~Exists(call[r]) /\ Answer(r, "not_found")
     \/ \E x \in rows :
          /\ Hit(call[r], x)
          /\ IF x.archived = (call[r].op = "archive")
             THEN Answer(r, "conflict")
             ELSE Goto(r, "archive")
  /\ UNCHANGED <<rows, pend, lock, loop, call, host, dropped>>

\* maludb_project_archive and maludb_project_unarchive are functions of the
\* database; what this module relies on is that they set the flag of that
\* project and touch nothing else.
ArchiveApply(r) ==
  /\ pc[r] = "archive"
  /\ rows' = {IF Hit(call[r], x)
              THEN [x EXCEPT !.archived = (call[r].op = "archive")]
              ELSE x : x \in rows}
  /\ Goto(r, "reread")
  /\ UNCHANGED <<pend, lock, loop, call, host, dropped>>

\* The handler indexes the row it re-reads: None there is a TypeError, a 500.
ArchiveReread(r) ==
  /\ pc[r] = "reread"
  /\ Answer(r, IF Exists(call[r]) THEN "ok" ELSE "server_error")
  /\ UNCHANGED <<rows, pend, lock, loop, call, host, dropped>>

----------------------------------------------------------------------------
(***************************************************************************)
(* A worker process dies and is started again: its requests are lost,      *)
(* their connections close, and the database rolls their transactions back.*)
(***************************************************************************)

InFlight(w) == {r \in Requests : host[r] = w /\ pc[r] \notin {"idle", "done"}}

WorkerCrash(w) ==
  /\ InFlight(w) # {}
  /\ pend' = [r \in Requests |-> IF r \in InFlight(w) THEN {} ELSE pend[r]]
  /\ lock' = [t \in Locks |->
                IF lock[t] \in InFlight(w) THEN NoRequest ELSE lock[t]]
  /\ loop' = [loop EXCEPT ![w] = NoRequest]
  /\ pc' = [r \in Requests |-> IF r \in InFlight(w) THEN "done" ELSE pc[r]]
  /\ reply' = [r \in Requests |->
                 IF r \in InFlight(w) THEN "lost" ELSE reply[r]]
  /\ UNCHANGED <<rows, call, host, dropped>>

\* Every request has been answered.
Quiet == (\A r \in Requests : pc[r] = "done") /\ UNCHANGED vars

Create(r) == \/ BeginCreate(r) \/ RefuseBody(r) \/ AcquireLock(r)
             \/ InsertItem(r) \/ RefuseItem(r) \/ CommitCreate(r)
             \/ RespondCreated(r)
Patch(r) == \/ PatchCheck(r) \/ PatchRefuse(r) \/ PatchUpdate(r)
            \/ PatchReload(r)
Archive(r) == ArchiveCheck(r) \/ ArchiveApply(r) \/ ArchiveReread(r)

Handler(r) == Create(r) \/ Patch(r) \/ Delete(r) \/ Archive(r)

Next == \/ \E r \in Requests : Handler(r)
        \/ \E w \in Workers : WorkerCrash(w)
        \/ Quiet

Spec == Init /\ [][Next]_vars

(***************************************************************************)
(* A handler that has started runs on: the operating system schedules the  *)
(* worker and the database grants a free advisory lock to a waiter.        *)
(***************************************************************************)
FairSpec == Spec /\ \A r \in Requests : WF_vars(Handler(r))

----------------------------------------------------------------------------
(***************************************************************************)
(* Properties.                                                             *)
(***************************************************************************)

TypeOK ==
  /\ rows \subseteq RowType
  /\ pend \in [Requests -> SUBSET RowType]
  /\ lock \in [Locks -> Requests \cup {NoRequest}]
  /\ loop \in [Workers -> Requests \cup {NoRequest}]
  /\ call \in [Requests -> Calls]
  /\ host \in [Requests -> Workers]
  /\ pc \in [Requests -> Steps]
  /\ reply \in [Requests -> Replies]
  /\ dropped \subseteq Key

Pending == UNION {pend[r] : r \in Requests}

\* "So ids can't collide" (writes.py): no two rows of a table, committed or
\* still in somebody's transaction, carry the same id, whatever the workers
\* interleave and whatever is deleted meanwhile.
UniqueIds == IdsUnique(rows \cup Pending)

\* "All inserts run in one transaction (all-or-nothing)": of the rows a bulk
\* create makes, the others see all or none, a client told 201 got all of
\* them, and one told that an item was refused got none.
Born(r) == {k \in 1..call[r].n :
              \/ <<r, k>> \in dropped
              \/ \E x \in rows : x.key = <<r, k>>}

\* And their ids follow one another in the order of the items, also while rows
\* are deleted under the running transaction.
BatchHolds ==
  /\ \A r \in Requests : call[r].op = "create" =>
       /\ Born(r) \in {{}, 1..call[r].n}
       /\ reply[r] = "ok" => Born(r) = 1..call[r].n
       /\ reply[r] = "refused" => Born(r) = {}
  /\ \A x, y \in rows \cup Pending :
       (x.key[1] = y.key[1] /\ x.key[1] \in Requests)
         => x.id + y.key[2] = y.id + x.key[2]

\* What is read before the body arrives may be stale when the UPDATE runs:
\* the row may be gone and its id given to another row.  Even so a project
\* endpoint changes nothing but projects, and only the row whose id it names.
OnlyProjectsThroughProjects ==
  [][\A x \in rows, y \in rows' :
       (x.key = y.key /\ x # y) =>
         \E r \in Requests : /\ pc[r] \in {"body", "archive"}
                             /\ pc'[r] # pc[r]
                             /\ Hit(call[r], x)]_vars

\* What a client can tell of a request: it has not taken effect yet, it has,
\* it is over.
Stage == [r \in Requests |->
            CASE pc[r] = "done" -> "closed"
              [] pc[r] \in {"committed", "reload", "reread"} -> "applied"
              [] OTHER -> "open"]

Promise == INSTANCE Registry WITH stage <- Stage

\* The handlers keep the promise of the module Registry: each request changes
\* the rows in one step and at most once, a batch gets fresh ids in a row, and
\* an answer that says "refused", "not found" or "conflict" comes from a
\* request that has changed nothing.
KeepsPromise == Promise!Spec

\* A create that waits for the lock is answered: whoever holds the lock
\* commits, rolls back or loses its connection.
WaitersServed ==
  \A r \in Requests : pc[r] = "lock" ~> pc[r] = "done"
=============================================================================
