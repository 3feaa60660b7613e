------------------------------- MODULE Links -------------------------------
(***************************************************************************)
(* The links between subjects, verbs and projects: the endpoints that      *)
(* link, unlink, replace and change in routers/projects.py and             *)
(* routers/subjects.py.                                                    *)
(*                                                                         *)
(* None of them takes a lock.  A POST looks for a duplicate in one         *)
(* statement and inserts in another; a PUT reads the links and replaces    *)
(* them in a READ COMMITTED transaction.  As in SubjectRegistry an "async  *)
(* def" handler keeps the event loop of its worker from the moment it has  *)
(* its body, and a "def" handler (DELETE) runs in a thread.                *)
(***************************************************************************)
EXTENDS Naturals, Sequences, FiniteSets

CONSTANTS
  Requests,    \* the requests served in a behaviour
  Workers,     \* the uvicorn worker processes
  NoRequest,   \* "no request": an idle loop, the maker of an initial row
  Calls,       \* the calls a client may make, a subset of CallType
  Known,       \* the ids that subjects and verbs have
  InitRows     \* the links at the start

(***************************************************************************)
(* The tables: "member" is maludb_svpor_relationship with the type         *)
(* has_member, from a project to a subject or a verb; "related" is         *)
(* maludb_subject_relationship; "verb" is maludb_subject_verb.             *)
(***************************************************************************)
Tables == {"member", "related", "verb"}

(***************************************************************************)
(* One call.  A link, an unlink and a replacement name a source and the    *)
(* targets, and the kind of target ("member") or the relationship type     *)
(* ("related").  A patch and a removal name a relationship by its id.      *)
(***************************************************************************)
CallType == [op: {"link", "replace", "unlink", "patch", "remove"}, tab: Tables,
             src: Nat, tgts: SUBSET Nat, type: STRING, id: Nat]

\* A link.  "key" is the request that made it and the target it made it for;
\* "retyped" says that a PATCH has changed its type since.
RowType == [tab: Tables, src: Nat, tgt: Nat, type: STRING, id: Nat,
            key: (Requests \cup {NoRequest}) \X Nat, retyped: BOOLEAN]

\* x and y say the same: source, target and type.
Alike(x, y) == <<x.tab, x.src, x.tgt, x.type>> = <<y.tab, y.src, y.tgt, y.type>>

\* A POST and a DELETE name one target, a PUT replaces the members of a project,
\* PATCH and DELETE by id are for related subjects.
ASSUME LinkAssumption ==
  /\ NoRequest \notin Requests
  /\ Calls \subseteq CallType /\ Known \subseteq Nat
  /\ \A c \in Calls :
       /\ IsFiniteSet(c.tgts)
       /\ c.op \in {"link", "unlink"} => \E t \in c.tgts : c.tgts = {t}
       /\ c.op = "replace" => c.tab = "member"
       /\ c.op \in {"patch", "remove"} => c.tab = "related"

\* No two links at the start are alike, and no two relationships share an id:
\* what is doubled was doubled by the requests.
ASSUME InitRowsAssumption ==
  /\ InitRows \subseteq RowType /\ IsFiniteSet(InitRows)
  /\ \A x \in InitRows : x.key[1] = NoRequest
  /\ \A x, y \in InitRows : x # y =>
       /\ ~Alike(x, y)
       /\ x.tab = "related" /\ y.tab = "related" => x.id # y.id

VARIABLES
  rows,     \* the committed links
  keyed,    \* does the tenant's database enforce unique relationship ids?
  loop,     \* loop[w]: the handler that runs on the event loop of worker w
  call,     \* call[r]: the call request r makes
  host,     \* host[r]: the worker that serves r
  pc,       \* pc[r]: how far the handler of r has come
  reply,    \* reply[r]: how r was answered
  fresh,    \* fresh[r]: the MAX(relationship_id) + 1 that the INSERT of r read
  had,      \* had[r]: the targets a replacement has read
  todo,     \* todo[r]: the targets it has yet to delete, in its order
  gone,     \* gone[r]: the rows its open transaction has deleted
  before    \* before[r]: the requests that were over when r began

vars == <<rows, keyed, loop, call, host, pc, reply, fresh, had, todo, gone,
          before>>

Init ==
  /\ rows = InitRows
  /\ keyed \in BOOLEAN
  /\ loop = [w \in Workers |-> NoRequest]
  /\ call \in [Requests -> Calls]
  /\ host \in [Requests -> Workers]
  /\ pc = [r \in Requests |-> "idle"]
  /\ reply = [r \in Requests |-> "none"]
  /\ fresh = [r \in Requests |-> 0]
  /\ had = [r \in Requests |-> {}]
  /\ todo = [r \in Requests |-> <<>>]
  /\ gone = [r \in Requests |-> {}]
  /\ before = [r \in Requests |-> {}]

----------------------------------------------------------------------------
(***************************************************************************)
(* Helpers.                                                                *)
(***************************************************************************)

LoopIdle(r) == loop[host[r]] = NoRequest
Take(r) == loop' = [loop EXCEPT ![host[r]] = r]
Release(r) == loop' = [loop EXCEPT ![host[r]] = NoRequest]

Answer(r, a) == /\ pc' = [pc EXCEPT ![r] = "done"]
                /\ reply' = [reply EXCEPT ![r] = a]
Goto(r, s) == /\ pc' = [pc EXCEPT ![r] = s]
              /\ UNCHANGED reply

Over == {q \in Requests : pc[q] = "done"}
Begin(r) == before' = [before EXCEPT ![r] = Over]

\* The links of c's table and source, of the kind or type it asks for.
Same(c, x) == x.tab = c.tab /\ x.src = c.src /\ x.type = c.type
Present(c, t) == \E x \in rows : Same(c, x) /\ x.tgt = t

\* The targets exist; neither a project nor a subject is linked to itself.
Valid(c) == /\ c.tgts \subseteq Known
            /\ (c.tab = "related" \/ c.type = "subject") => c.src \notin c.tgts

\* Fault: a subject and a verb with the same id are not told apart.
FaultyUnlinked(c, x) ==
  /\ x.tab = c.tab
  /\ \/ x.src = c.src /\ x.tgt \in c.tgts
     \/ c.tab = "related" /\ x.tgt = c.src /\ x.src \in c.tgts

\* What a DELETE takes away: for related subjects both directions, any type.
Unlinked(c, x) ==
  /\ x.tab = c.tab
  /\ \/ x.src = c.src /\ x.tgt \in c.tgts
     \/ c.tab = "related" /\ x.tgt = c.src /\ x.src \in c.tgts
  /\ c.tab = "member" => x.type = c.type

\* Fault: the relationships are counted.
FaultyNextId == Cardinality({x \in rows : x.tab = "related"}) + 1

Related == {x \in rows : x.tab = "related"}
NextId == LET I == {x.id : x \in Related}
          IN  IF I = {} THEN 1 ELSE (CHOOSE m \in I : \A i \in I : i <= m) + 1

NewRow(r, t, n) ==
  [tab |-> call[r].tab, src |-> call[r].src, tgt |-> t, type |-> call[r].type,
   id |-> n, key |-> <<r, t>>, retyped |-> FALSE]

\* A DELETE of a row waits while another transaction has deleted it.
Blocks(q, S) == S \cap gone[q] # {}

----------------------------------------------------------------------------
(***************************************************************************)
(* POST, PUT and PATCH begin alike: a look-up of the project, the subject  *)
(* or the relationship, then the wait for the body.                        *)
(***************************************************************************)

Look(r) ==
  /\ pc[r] = "idle" /\ call[r].op \in {"link", "replace", "patch"} /\ LoopIdle(r)
  /\ IF \/ call[r].op = "patch" /\ \E x \in Related : x.id = call[r].id
        \/ call[r].op # "patch" /\ call[r].src \in Known
     THEN Goto(r, "body")
     ELSE Answer(r, "not_found")
  /\ Begin(r)
  /\ UNCHANGED <<rows, keyed, loop, call, host, fresh, had, todo, gone>>

\* The body lacks a field or names a target that does not exist.
Refuse(r) ==
  /\ pc[r] = "body" /\ LoopIdle(r)
  /\ Answer(r, "refused")
  /\ UNCHANGED <<rows, keyed, loop, call, host, fresh, had, todo, gone, before>>

(***************************************************************************)
(* POST: the look for a duplicate, then the insertion.                     *)
(***************************************************************************)

\* Fault: the answer "already linked" is left to the database.
FaultyLinkCheck(r) ==
  /\ pc[r] = "body" /\ call[r].op = "link" /\ LoopIdle(r) /\ Valid(call[r])
  /\ Take(r) /\ Goto(r, "insert")
  /\ UNCHANGED <<rows, keyed, call, host, fresh, had, todo, gone, before>>

LinkCheck(r) ==
  /\ pc[r] = "body" /\ call[r].op = "link" /\ LoopIdle(r) /\ Valid(call[r])
  /\ \/ /\ \E t \in call[r].tgts : Present(call[r], t)
        /\ Answer(r, "conflict") /\ UNCHANGED loop
     \/ /\ \A t \in call[r].tgts : ~Present(call[r], t)
        /\ Take(r) /\ Goto(r, "insert")
  /\ UNCHANGED <<rows, keyed, call, host, fresh, had, todo, gone, before>>

\* maludb_svpor_relationship_create adds a row each time it is called;
\* maludb_subject_verb is keyed by the names and keeps one.
InsertLink(r) ==
  /\ pc[r] = "insert" /\ call[r].tab # "related"
  /\ rows' = rows \cup {NewRow(r, t, 0) : t \in
                          {u \in call[r].tgts : call[r].tab = "verb"
                                                  => ~Present(call[r], u)}}
  /\ Goto(r, "answer")
  /\ UNCHANGED <<keyed, loop, call, host, fresh, had, todo, gone, before>>

\* INSERT ... SELECT COALESCE(MAX(relationship_id), 0) + 1: the snapshot ...
ReadMax(r) ==
  /\ pc[r] = "insert" /\ call[r].tab = "related"
  /\ fresh' = [fresh EXCEPT ![r] = NextId]
  /\ Goto(r, "write")
  /\ UNCHANGED <<rows, keyed, loop, call, host, had, todo, gone, before>>

\* ... and the row, which a unique index refuses when the id is taken.
InsertRelated(r) ==
  /\ pc[r] = "write"
  /\ IF keyed /\ \E x \in Related : x.id = fresh[r]
     THEN /\ Answer(r, "conflict") /\ Release(r) /\ UNCHANGED rows
     ELSE /\ rows' = rows \cup {NewRow(r, t, fresh[r]) : t \in call[r].tgts}
          /\ Goto(r, "answer") /\ UNCHANGED loop
  /\ fresh' = [fresh EXCEPT ![r] = 0]
  /\ UNCHANGED <<keyed, call, host, had, todo, gone, before>>

(***************************************************************************)
(* PUT: the targets are read in the transaction, those not wanted are      *)
(* deleted one by one, the missing ones created.  Until the commit nobody  *)
(* sees the created rows, and they lock nothing: they are part of the      *)
(* commit.                                                                 *)
(***************************************************************************)

\* SELECT target_id, in whatever order the database returns the rows.
ReadCurrent(r) ==
  LET cur  == {x.tgt : x \in {y \in rows : Same(call[r], y)}}
      drop == cur \ call[r].tgts
  IN  /\ pc[r] = "body" /\ call[r].op = "replace" /\ LoopIdle(r)
      /\ Valid(call[r])
      /\ had' = [had EXCEPT ![r] = cur]
      /\ \E s \in [1..Cardinality(drop) -> drop] :
           /\ {s[i] : i \in DOMAIN s} = drop
           /\ todo' = [todo EXCEPT ![r] = s]
      /\ Take(r) /\ Goto(r, "txn")
      /\ UNCHANGED <<rows, keyed, call, host, fresh, gone, before>>

Doomed(r) == {x \in rows : Same(call[r], x) /\ x.tgt = Head(todo[r])}

WaitsFor(r, q) == /\ q # r /\ pc[r] = "txn" /\ todo[r] # <<>>
                  /\ Blocks(q, Doomed(r))

DeleteNext(r) ==
  /\ pc[r] = "txn" /\ todo[r] # <<>>
  /\ \A q \in Requests : ~WaitsFor(r, q)
  /\ gone' = [gone EXCEPT ![r] = @ \cup Doomed(r)]
  /\ todo' = [todo EXCEPT ![r] = Tail(@)]
  /\ UNCHANGED <<rows, keyed, loop, call, host, pc, reply, fresh, had, before>>

\* The rows the replacement creates: for each target it has not read.
Created(r) == {NewRow(r, t, 0) : t \in call[r].tgts \ had[r]}

EndTxn(r) == /\ gone' = [gone EXCEPT ![r] = {}]
             /\ todo' = [todo EXCEPT ![r] = <<>>]
             /\ had' = [had EXCEPT ![r] = {}]

\* Fault: the links that are not wanted any more stay.
FaultyCommitReplace(r) ==
  /\ pc[r] = "txn" /\ todo[r] = <<>>
  /\ rows' = rows \cup Created(r)
  /\ EndTxn(r) /\ Goto(r, "answer")
  /\ UNCHANGED <<keyed, loop, call, host, fresh, before>>

CommitReplace(r) ==
  /\ pc[r] = "txn" /\ todo[r] = <<>>
  /\ rows' = (rows \ gone[r]) \cup Created(r)
  /\ EndTxn(r) /\ Goto(r, "answer")
  /\ UNCHANGED <<keyed, loop, call, host, fresh, before>>

\* Fault: the error is answered and the transaction left open.
FaultyRollback(r, a) ==
  /\ Release(r) /\ Answer(r, a)
  /\ UNCHANGED <<rows, keyed, call, host, fresh, before, had, todo, gone>>

Rollback(r, a) ==
  /\ EndTxn(r) /\ Release(r) /\ Answer(r, a)
  /\ UNCHANGED <<rows, keyed, call, host, fresh, before>>

\* The database refuses to create a link.
FailReplace(r) ==
  /\ pc[r] = "txn" /\ todo[r] = <<>> /\ Created(r) # {}
  /\ Rollback(r, "refused")

\* Two replacements that delete in different orders wait for each other;
\* PostgreSQL ends one of them (40P01), which errors.py answers with 409.
Deadlock(r) ==
  \E C \in SUBSET Requests :
    /\ r \in C
    /\ \A p \in C : \E q \in C : WaitsFor(p, q)
    /\ \A p \in C : \E q \in C : WaitsFor(q, p)
BreakDeadlock(r) == Deadlock(r) /\ Rollback(r, "conflict")

(***************************************************************************)
(* PATCH /v1/subject-relationships/{id}; the type "" leaves the type.      *)
(***************************************************************************)

PatchRelationship(r) ==
  /\ pc[r] = "body" /\ call[r].op = "patch" /\ LoopIdle(r)
  /\ rows' = {IF x.tab = "related" /\ x.id = call[r].id /\ call[r].type # ""
              THEN [x EXCEPT !.type = call[r].type, !.retyped = TRUE]
              ELSE x : x \in rows}
  /\ Take(r) /\ Goto(r, "answer")
  /\ UNCHANGED <<keyed, call, host, fresh, had, todo, gone, before>>

\* The row is read again for the answer of a PATCH: null when it is gone.  A
\* related subject that is linked for a time gives its dates as they come from
\* the database, for which a bare JSONResponse has no form.
Respond(r) ==
  /\ pc[r] = "answer"
  /\ \/ Answer(r, IF call[r].op = "patch" /\ ~\E x \in Related : x.id = call[r].id
                  THEN "gone" ELSE "ok")
     \/ call[r].op = "link" /\ call[r].tab = "related" /\ Answer(r, "server_error")
  /\ Release(r)
  /\ UNCHANGED <<rows, keyed, call, host, fresh, had, todo, gone, before>>

(***************************************************************************)
(* DELETE, one statement in a thread.                                      *)
(***************************************************************************)

DeleteRows(r, S) ==
  /\ \A q \in Requests : ~Blocks(q, S)
  /\ rows' = rows \ S
  /\ Answer(r, IF S = {} THEN "not_found" ELSE "ok")
  /\ Begin(r)
  /\ UNCHANGED <<keyed, loop, call, host, fresh, had, todo, gone>>

Unlink(r) ==
  /\ pc[r] = "idle" /\ call[r].op = "unlink"
  /\ DeleteRows(r, {x \in rows : Unlinked(call[r], x)})

RemoveRelationship(r) ==
  /\ pc[r] = "idle" /\ call[r].op = "remove"
  /\ DeleteRows(r, {x \in Related : x.id = call[r].id})

----------------------------------------------------------------------------
(***************************************************************************)
(* A worker dies: its requests are lost and its transactions roll back.    *)
(***************************************************************************)

InFlight(w) == {r \in Requests : host[r] = w /\ pc[r] \notin {"idle", "done"}}

WorkerCrash(w) ==
  LET L == InFlight(w)
  IN  /\ L # {}
      /\ pc' = [r \in Requests |-> IF r \in L THEN "done" ELSE pc[r]]
      /\ reply' = [r \in Requests |-> IF r \in L THEN "lost" ELSE reply[r]]
      /\ gone' = [r \in Requests |-> IF r \in L THEN {} ELSE gone[r]]
      /\ todo' = [r \in Requests |-> IF r \in L THEN <<>> ELSE todo[r]]
      /\ had' = [r \in Requests |-> IF r \in L THEN {} ELSE had[r]]
      /\ fresh' = [r \in Requests |-> IF r \in L THEN 0 ELSE fresh[r]]
      /\ loop' = [loop EXCEPT ![w] = NoRequest]
      /\ UNCHANGED <<rows, keyed, call, host, before>>

Quiet == (\A r \in Requests : pc[r] = "done") /\ UNCHANGED vars

Handler(r) == \/ Look(r) \/ Refuse(r) \/ LinkCheck(r) \/ InsertLink(r)
              \/ ReadMax(r) \/ InsertRelated(r)
              \/ ReadCurrent(r) \/ DeleteNext(r) \/ CommitReplace(r)
              \/ FailReplace(r) \/ BreakDeadlock(r)
              \/ PatchRelationship(r) \/ Respond(r)
              \/ Unlink(r) \/ RemoveRelationship(r)

Next == \/ \E r \in Requests : Handler(r)
        \/ \E w \in Workers : WorkerCrash(w)
        \/ Quiet

Spec == Init /\ [][Next]_vars

(***************************************************************************)
(* The workers and the database are scheduled, and PostgreSQL looks for    *)
(* deadlocks: a handler that can go on does.                               *)
(***************************************************************************)
FairSpec == Spec /\ \A r \in Requests : WF_vars(Handler(r))

----------------------------------------------------------------------------
(***************************************************************************)
(* Properties.                                                             *)
(***************************************************************************)

\* Neither came after the other, and no event loop kept them apart.
Overlapped(q, r) == /\ q \in Requests /\ r \in Requests
                    /\ q \notin before[r] /\ r \notin before[q]
                    /\ host[q] # host[r]

\* "The svpor create helper is not idempotent - dedupe here" (projects.py),
\* "Reject an exact duplicate" (subjects.py): as far as this goes.  Two equal
\* links exist only if two workers made them at the same time or a PATCH made
\* them equal; a client that repeats a call, be it lost or answered, makes no
\* second link.
DuplicatesOnlyByOverlap ==
  \A x, y \in rows :
    /\ x # y /\ ~x.retyped /\ ~y.retyped /\ Alike(x, y)
    => x.tab # "verb" /\ Overlapped(x.key[1], y.key[1])

\* relationship_id is MAX + 1 without the advisory lock: an id is given twice
\* only if no index forbids it and two workers insert at the same time.
RelationshipIdsCollideOnlyByOverlap ==
  \A x, y \in Related : (x # y /\ x.id = y.id)
    => ~keyed /\ Overlapped(x.key[1], y.key[1])

\* After an unlink or a replacement has succeeded, no link it was to take away
\* is left but those of requests that were not over when it began.
RemovedStaysRemoved ==
  \A r \in Requests : reply[r] = "ok" =>
    \A x \in rows :
      \/ call[r].op = "unlink" /\ Unlinked(call[r], x)
      \/ call[r].op = "replace" /\ Same(call[r], x) /\ x.tgt \notin call[r].tgts
      => x.key[1] \in Requests \ before[r]

\* The calls that may take the link from c's source to t away.
Removes(d, c, t) ==
  /\ d.tab = c.tab
  /\ CASE d.op = "replace" -> d.src = c.src /\ d.type = c.type /\ t \notin d.tgts
       [] d.op = "unlink" -> \/ d.src = c.src /\ t \in d.tgts
                                /\ (c.tab = "member" => d.type = c.type)
                             \/ c.tab = "related" /\ d.src = t /\ c.src \in d.tgts
       [] d.op \in {"patch", "remove"} -> c.tab = "related"
       [] OTHER -> FALSE

\* After a link or a replacement has succeeded, every link it asked for is
\* there, unless a call that was not over when it began has taken it away.
LinkedUnlessRemoved ==
  \A r \in Requests : (reply[r] = "ok" /\ call[r].op \in {"link", "replace"}) =>
    \A t \in call[r].tgts :
      \/ Present(call[r], t)
      \/ \E q \in Requests \ before[r] : /\ pc[q] # "idle"
                                          /\ Removes(call[q], call[r], t)

\* Every request is answered or lost: nobody waits for ever for a row that a
\* replacement has deleted, nor for an event loop.
EveryCallEnds == <>(\A r \in Requests : pc[r] = "done")

\* "Reject an exact duplicate (same direction + type)", subjects.py.
NoDuplicateLinks ==
  \A x, y \in rows : Alike(x, y) => x = y
=============================================================================
