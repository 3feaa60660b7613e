------------------------------ MODULE Profile ------------------------------
(***************************************************************************)
(* The profile of a principal, routers/principals.py: keyed entries, each  *)
(* version of which is a row of maludb_memory that names the row it        *)
(* supersedes.  The entry is its newest version; a DELETE adds a tombstone.*)
(*                                                                         *)
(* A PUT checks the limit on keys outside of the transaction that writes;  *)
(* the transaction, READ COMMITTED, reads the newest version and inserts   *)
(* the next.  put_profile_entry is "async def" and keeps the event loop of *)
(* its worker from its body to its answer; DELETE runs in a thread.        *)
(***************************************************************************)
EXTENDS Naturals, FiniteSets

CONSTANTS
  Requests,    \* the requests served in a behaviour
  Workers,     \* the uvicorn worker processes
  NoRequest,   \* "no request": an idle loop, the maker of an initial row
  Keys,        \* the keys of the profile
  MaxKeys,     \* MAX_KEYS
  Calls,       \* the calls a client may make, a subset of CallType
  InitRows     \* the versions at the start

CallType == [op: {"put", "delete"}, key: Keys]

\* A version: memory_id, the key, whether it is a tombstone, the id it
\* supersedes (0: none), and the request that wrote it.
RowType == [id: Nat \ {0}, key: Keys, deleted: BOOLEAN, supersedes: Nat,
            by: Requests \cup {NoRequest}]

VARIABLES
  rows,     \* the committed versions
  seq,      \* the sequence memory_id is taken from: the last id it gave
  loop,     \* loop[w]: the handler that runs on the event loop of worker w
  call,     \* call[r]: the call request r makes
  host,     \* host[r]: the worker that serves r
  pc,       \* pc[r]: how far the handler of r has come
  reply,    \* reply[r]: how r was answered
  prev,     \* prev[r]: the id the transaction of r has read as the newest
  mine,     \* mine[r]: the version it has inserted and not committed
  before    \* before[r]: the requests that were over when r began

vars == <<rows, seq, loop, call, host, pc, reply, prev, mine, before>>

Init ==
  /\ rows = InitRows
  /\ seq = Cardinality(InitRows)
  /\ loop = [w \in Workers |-> NoRequest]
  /\ call \in [Requests -> Calls]
  /\ host \in [Requests -> Workers]
  /\ pc = [r \in Requests |-> "idle"]
  /\ reply = [r \in Requests |-> "none"]
  /\ prev = [r \in Requests |-> 0]
  /\ mine = [r \in Requests |-> {}]
  /\ before = [r \in Requests |-> {}]

----------------------------------------------------------------------------
\* DISTINCT ON (key) ... ORDER BY key, memory_id DESC
Entries(S) == {x \in S : \A y \in S : y.key = x.key => y.id <= x.id}

\* The keys of the entries that are no tombstones.
Live(S) == {x.key : x \in {y \in Entries(S) : ~y.deleted}}

ASSUME NoRequestAssumption == NoRequest \notin Requests
ASSUME WorkersAssumption == IsFiniteSet(Workers) /\ Workers # {}
ASSUME CallsAssumption == Calls \subseteq CallType
\* y is the version of its key that follows x in S.
Follows(y, x, S) ==
  /\ x.key = y.key /\ x.id < y.id
  /\ \A z \in S : z.key = x.key => z.id <= x.id \/ z.id >= y.id

\* The versions at the start have ids from the sequence and were written one
\* after the other; the profile is not over its limit.
ASSUME InitRowsAssumption ==
  /\ InitRows \subseteq RowType /\ IsFiniteSet(InitRows)
  /\ \A x, y \in InitRows : x.id = y.id => x = y
  /\ \A x \in InitRows : /\ x.by = NoRequest /\ x.supersedes < x.id
                         /\ x.id <= Cardinality(InitRows)
  /\ \A x, y \in InitRows : Follows(y, x, InitRows) => y.supersedes = x.id
ASSUME MaxKeysAssumption ==
  MaxKeys \in Nat /\ Cardinality(Live(InitRows)) <= MaxKeys

\* Fault: the newest version that is no tombstone.
FaultyNewest(k) ==
  LET I == {x.id : x \in {y \in rows : y.key = k /\ ~y.deleted}}
  IN  IF I = {} THEN 0 ELSE CHOOSE i \in I : \A j \in I : j <= i

\* ORDER BY memory_id DESC LIMIT 1; 0 when there is no version.
Newest(k) == LET I == {x.id : x \in {y \in rows : y.key = k}}
             IN  IF I = {} THEN 0 ELSE CHOOSE i \in I : \A j \in I : j <= i

Take(r) == loop' = [loop EXCEPT ![host[r]] = r]
Free(r) == loop' = [w \in Workers |-> IF loop[w] = r THEN NoRequest ELSE loop[w]]
LoopIdle(r) == loop[host[r]] = NoRequest

Goto(r, s) == pc' = [pc EXCEPT ![r] = s] /\ UNCHANGED reply
Answer(r, a) == /\ pc' = [pc EXCEPT ![r] = "done"]
                /\ reply' = [reply EXCEPT ![r] = a]
Begin(r) == before' = [before EXCEPT ![r] = {q \in Requests : pc[q] = "done"}]

----------------------------------------------------------------------------
\* PUT: ref and key are well-formed; the handler awaits the body.
BeginPut(r) ==
  /\ pc[r] = "idle" /\ call[r].op = "put" /\ LoopIdle(r)
  /\ Goto(r, "body") /\ Begin(r)
  /\ UNCHANGED <<rows, seq, loop, call, host, prev, mine>>

\* No value, or one that is too large.
RefusePut(r) ==
  /\ pc[r] = "body" /\ LoopIdle(r)
  /\ Answer(r, "refused")
  /\ UNCHANGED <<rows, seq, loop, call, host, prev, mine, before>>

\* Fault: the limit is looked at before the body is awaited.
FaultyCheckLimit(r) ==
  /\ pc[r] = "body" /\ LoopIdle(r)
  /\ Take(r) /\ Goto(r, "read")
  /\ UNCHANGED <<rows, seq, call, host, prev, mine, before>>

CheckLimit(r) ==
  /\ pc[r] = "body" /\ LoopIdle(r)
  /\ IF call[r].key \in Live(rows) \/ Cardinality(Live(rows)) < MaxKeys
     THEN Take(r) /\ Goto(r, "read")
     ELSE Answer(r, "refused") /\ UNCHANGED loop
  /\ UNCHANGED <<rows, seq, call, host, prev, mine, before>>

\* DELETE: an entry that is not there, or a tombstone, is not found.
CheckDelete(r) ==
  /\ pc[r] = "idle" /\ call[r].op = "delete"
  /\ IF call[r].key \in Live(rows) THEN Goto(r, "read")
                                   ELSE Answer(r, "not_found")
  /\ Begin(r)
  /\ UNCHANGED <<rows, seq, loop, call, host, prev, mine>>

\* _write, in its transaction: the newest version ...
ReadPrevious(r) ==
  /\ pc[r] = "read"
  /\ prev' = [prev EXCEPT ![r] = Newest(call[r].key)]
  /\ Goto(r, "insert")
  /\ UNCHANGED <<rows, seq, loop, call, host, mine, before>>

\* ... then the INSERT, whose id nobody else gets ...
InsertVersion(r) ==
  /\ pc[r] = "insert"
  /\ seq' = seq + 1
  /\ mine' = [mine EXCEPT ![r] =
                {[id |-> seq + 1, key |-> call[r].key, supersedes |-> prev[r],
                  deleted |-> call[r].op = "delete", by |-> r]}]
  /\ Goto(r, "commit")
  /\ UNCHANGED <<rows, loop, call, host, prev, before>>

Forget(r) == /\ prev' = [prev EXCEPT ![r] = 0]
             /\ mine' = [mine EXCEPT ![r] = {}]

\* Fault: the version that is superseded is removed.
FaultyCommitVersion(r) ==
  /\ pc[r] = "commit"
  /\ rows' = {x \in rows : x.id # prev[r]} \cup mine[r]
  /\ Forget(r) /\ Goto(r, "answer")
  /\ UNCHANGED <<seq, loop, call, host, before>>

\* ... and the commit.
CommitVersion(r) ==
  /\ pc[r] = "commit"
  /\ rows' = rows \cup mine[r]
  /\ Forget(r) /\ Goto(r, "answer")
  /\ UNCHANGED <<seq, loop, call, host, before>>

Respond(r) ==
  /\ pc[r] = "answer"
  /\ Answer(r, "ok") /\ Free(r)
  /\ UNCHANGED <<rows, seq, call, host, prev, mine, before>>

\* A worker dies; its transactions roll back, their ids are not given again.
WorkerCrash(w) ==
  LET L == {r \in Requests : host[r] = w /\ pc[r] \notin {"idle", "done"}}
  IN  /\ L # {}
      /\ pc' = [r \in Requests |-> IF r \in L THEN "done" ELSE pc[r]]
      /\ reply' = [r \in Requests |-> IF r \in L THEN "lost" ELSE reply[r]]
      /\ prev' = [r \in Requests |-> IF r \in L THEN 0 ELSE prev[r]]
      /\ mine' = [r \in Requests |-> IF r \in L THEN {} ELSE mine[r]]
      /\ loop' = [loop EXCEPT ![w] = NoRequest]
      /\ UNCHANGED <<rows, seq, call, host, before>>

Quiet == (\A r \in Requests : pc[r] = "done") /\ UNCHANGED vars

Handler(r) == \/ BeginPut(r) \/ RefusePut(r) \/ CheckLimit(r)
              \/ CheckDelete(r) \/ ReadPrevious(r) \/ InsertVersion(r)
              \/ CommitVersion(r) \/ Respond(r)

Next == \/ \E r \in Requests : Handler(r)
        \/ \E w \in Workers : WorkerCrash(w)
        \/ Quiet

Spec == Init /\ [][Next]_vars

----------------------------------------------------------------------------
(***************************************************************************)
(* Properties.                                                             *)
(***************************************************************************)

Steps == {"idle", "body", "read", "insert", "commit", "answer", "done"}

\* "A correction never silently destroys history": the versions of a key form
\* one chain, each superseding the one before it, but for writes that overlap
\* and that no event loop keeps apart (another worker, or a DELETE).
HistoryIsAChain ==
  \A x, y \in rows :
    Follows(y, x, rows)
    => \/ y.supersedes = x.id
       \/ /\ x.by \in Requests /\ x.by \notin before[y.by]
          /\ \/ host[x.by] # host[y.by]
             \/ "delete" \in {call[x.by].op, call[y.by].op}

\* Every version that was written stays readable, and is the entry unless a
\* request that was not over when it began wrote a newer one.
WrittenIsRead ==
  \A r \in Requests : reply[r] = "ok" =>
    /\ \E x \in rows : x.by = r /\ x.key = call[r].key
    /\ \A x \in Entries(rows) :
         x.key = call[r].key => x.by \in Requests \ before[r]

\* "A profile holds at most MAX_KEYS entries", as far as it goes: each worker
\* but one may add an entry too many, since a worker checks the limit for one
\* PUT at a time.
LimitNearlyKept ==
  Cardinality(Live(rows)) <= MaxKeys + Cardinality(Workers) - 1
=============================================================================
