----------------------------- MODULE SecretStore -----------------------------
(***************************************************************************)
(* The SQLite auth store (auth_store.py) and its secrets at rest           *)
(* (store_crypto.py, seal_store.py): tokens with a Postgres password,      *)
(* provider API keys and the keys of model prompts, written by the         *)
(* handlers of routers/tokens.py, llm_config.py and model_prompts.py in    *)
(* two worker processes, sealed by a command-line tool, while the operator *)
(* turns sealing on and rotates the key as the README says.                *)
(*                                                                         *)
(* A worker has ONE connection, shared by its event loop and its threads:  *)
(* Python opens a transaction at the first INSERT, UPDATE or DELETE, the   *)
(* connection reads its own uncommitted rows, and a commit by any handler  *)
(* commits what all of them wrote.  SQLite (rollback journal, no WAL)      *)
(* admits one writer at a time, and it commits only when no other          *)
(* connection has a read open.  No handler rolls back: a statement that    *)
(* fails leaves the transaction open that Python has begun for it.         *)
(***************************************************************************)
EXTENDS Naturals, Sequences, FiniteSets

CONSTANTS
  Requests,    \* the requests served in a behaviour
  Workers,     \* the worker processes
  Tool,        \* the process that runs python -m app.seal_store
  Nobody,      \* no process, no request
  Users,       \* user ids with provider keys (for one provider)
  Models,      \* names of model prompts
  Conns,       \* Postgres logins (pg_dbname, pg_user)
  MaxTokens,   \* bound: the rows the table users ever gets
  Secrets,     \* what clients send as an api_key or a password
  Tricky,      \* those of them that begin with the prefix of a sealed value
  Null,        \* no secret: a JSON null, an SQL NULL
  NoRow,       \* no row under a key
  Starts       \* [store, calls]: what the store holds, and what is asked of it

TableSeq == <<"users", "provider", "prompt">>     \* SECRET_COLUMNS
Cells == ({"users"} \X (1..MaxTokens)) \cup ({"provider"} \X Users)
           \cup ({"prompt"} \X Models)

CallType ==
  [op: {"put", "forget"}, who: Users, secret: Secrets \cup {Null}]
    \cup [op: {"prompt"}, who: Models, secret: Secrets \cup {Null}]
    \cup [op: {"mint"}, who: Conns, secret: Secrets]
    \cup [op: {"revoke"}, who: Conns, secret: 1..MaxTokens]

\* A behaviour may have fewer requests.
NoCall == [op |-> "none"]

ASSUME CallsAssumption ==
  \A s \in Starts : s.calls \in [Requests -> CallType \cup {NoCall}]
ASSUME NamesAssumption ==
  /\ Tool \notin Workers /\ Nobody \notin Workers \cup Requests \cup {Tool}
  /\ Null \notin Secrets /\ Tricky \subseteq Secrets /\ MaxTokens \in Nat
  /\ IsFiniteSet(Users) /\ IsFiniteSet(Models)

----------------------------------------------------------------------------
(***************************************************************************)
(* store_crypto: a key ring is MALUDB_STORE_KEY, first key first.          *)
(***************************************************************************)

Keys == {"k1", "k2"}

\* The README's procedure: off, on, both keys, the new key alone.
Ring == <<<<>>, <<"k1">>, <<"k2", "k1">>, <<"k2">>>>

KeysOf(ring) == {ring[i] : i \in 1..Len(ring)}

\* A stored value: its text in the clear, or sealed by a key.
ValueType == [by: Keys \cup {"plain"}, text: Secrets]

\* A plain secret that begins with the prefix would be read as a sealed one.
MaySeal(ring, s) == ring = <<>> => s \notin Tricky

Seal(ring, s) == [by |-> IF ring = <<>> THEN "plain" ELSE ring[1], text |-> s]

Opens(ring, v) == IF v.by = "plain" THEN v.text \notin Tricky
                  ELSE v.by \in KeysOf(ring)

\* A row: its rowid, its secret, and the login a token belongs to.
RowType == [rid: Nat, val: ValueType \cup {Null}, own: Users \cup Models \cup Conns]
StoreType == [row: [Cells -> RowType \cup {NoRow}], seq: 0..MaxTokens]

ASSUME NoRowAssumption == NoRow \notin RowType

\* Sealing is off at first: every secret is plain and begins with no prefix.
ASSUME StartsAssumption ==
  \A s \in {x.store : x \in Starts} :
    /\ s \in StoreType
    /\ \A c \in Cells : s.row[c] # NoRow =>
         /\ s.row[c].val # Null => s.row[c].val.by = "plain" /\ s.row[c].val.text \notin Tricky
         /\ c[1] = "users" => c[2] <= s.seq

----------------------------------------------------------------------------
VARIABLES
  db,       \* what is committed: row[c] for each cell c, and seq
  dirty,    \* what the writer's connection sees: db when nobody writes
  writer,   \* the process with an open write transaction
  readers,  \* the processes that a failed statement left in a transaction
  loop,     \* loop[w]: the async handler that runs on worker w
  call, host, pc, reply,   \* each request: its call, worker, step, answer
  got,      \* got[r]: the secret the handler of r is about to store
  tool,     \* the seal tool: step, table, rows it has read, --reseal
  phase,    \* where the operator is in the procedure
  sealed,   \* the tool has sealed the store since sealing was turned on
  resealed  \* the tool has resealed the store since the last restart

reqVars == <<call, host, pc, reply, got, loop>>
toolVars == <<tool, sealed, resealed>>
vars == <<db, dirty, writer, readers, reqVars, toolVars, phase>>

IdleTool == [step |-> "idle", tab |-> 1, list |-> {}, reseal |-> FALSE]

Init ==
  /\ \E s \in Starts : db = s.store /\ call = s.calls
  /\ dirty = db /\ writer = Nobody /\ readers = {}
  /\ loop = [w \in Workers |-> Nobody]
  /\ host \in {h \in [Requests -> Workers \cup {Nobody}] :
                \A r \in Requests : h[r] = Nobody <=> call[r] = NoCall}
  /\ pc = [r \in Requests |-> IF call[r] = NoCall THEN "done" ELSE "idle"]
  /\ reply = [r \in Requests |-> "none"]
  /\ got = [r \in Requests |-> Null]
  /\ tool = IdleTool
  /\ phase = 1 /\ sealed = FALSE /\ resealed = FALSE

----------------------------------------------------------------------------
(***************************************************************************)
(* One connection per process, one writer at a time.                       *)
(***************************************************************************)

View(p) == IF writer = p THEN dirty ELSE db
MayWrite(p) == writer \in {Nobody, p}

\* A DML statement: BEGIN, unless the process has a transaction open.
Write(p, store) == writer' = p /\ dirty' = store /\ UNCHANGED <<db, readers>>

\* The commit of a writer waits for every other connection that reads.
MayCommit(p) == writer = p => readers \subseteq {p}
Commit(p) == /\ db' = IF writer = p THEN dirty ELSE db
             /\ writer' = IF writer = p THEN Nobody ELSE writer
             /\ readers' = readers \ {p}
             /\ UNCHANGED dirty

\* The connections of the processes P close.
Rollback(P) == /\ dirty' = IF writer \in P THEN db ELSE dirty
               /\ writer' = IF writer \in P THEN Nobody ELSE writer
               /\ readers' = readers \ P
               /\ UNCHANGED db

UnchangedStore == UNCHANGED <<db, dirty, writer, readers>>

Rids(s, t) == {s.row[c].rid : c \in {d \in Cells : d[1] = t /\ s.row[d] # NoRow}}

\* The rowid SQLite gives a new row of a table without AUTOINCREMENT.
NextRid(s, t) == LET I == Rids(s, t)
                 IN  IF I = {} THEN 1 ELSE (CHOOSE m \in I : \A i \in I : i <= m) + 1

----------------------------------------------------------------------------
(***************************************************************************)
(* The handlers.                                                           *)
(***************************************************************************)

MyRing == Ring[phase]
Me(r) == host[r]
IsAsync(r) == call[r].op # "forget"      \* delete_provider_key is a def handler

\* Fault: the table users without AUTOINCREMENT, which gives an id again.
FaultyFreshId(s) == NextRid(s, "users")
\* The id SQLite's AUTOINCREMENT gives the next token.
FreshId(s) == s.seq + 1

\* The cell the call of request r is about.
Cell(r) ==
  CASE call[r].op \in {"put", "forget"} -> <<"provider", call[r].who>>
    [] call[r].op = "prompt" -> <<"prompt", call[r].who>>
    [] call[r].op = "mint" -> <<"users", FreshId(View(Me(r)))>>
    [] call[r].op = "revoke" -> <<"users", call[r].secret>>

Row(r) == View(Me(r)).row[Cell(r)]
Present(r) == Row(r) # NoRow
HasSecret(r) == Present(r) /\ Row(r).val # Null
Unreadable(r) == HasSecret(r) /\ ~Opens(MyRing, Row(r).val)

\* What the handler reads back of the stored secret.
Stored(r) == IF HasSecret(r) THEN Row(r).val.text ELSE Null

LoopIdle(r) == IsAsync(r) => loop[Me(r)] = Nobody
Take(r) == loop' = IF IsAsync(r) THEN [loop EXCEPT ![Me(r)] = r] ELSE loop
Answer(r, a) ==
  /\ pc' = [pc EXCEPT ![r] = "done"]
  /\ reply' = [reply EXCEPT ![r] = a]
  /\ loop' = [w \in Workers |-> IF loop[w] = r THEN Nobody ELSE loop[w]]
  /\ UNCHANGED <<call, host, got>>
Goto(r, s) ==
  /\ pc' = [pc EXCEPT ![r] = s]
  /\ UNCHANGED <<call, host, reply>>

\* From the body to the first write: what each handler looks up before.
\* put_provider_key reads the row, and 400s when there is neither row nor key.
StartPut(r) ==
  /\ pc[r] = "idle" /\ call[r].op = "put" /\ LoopIdle(r)
  /\ IF Unreadable(r) THEN Answer(r, "key_error")
     ELSE IF call[r].secret = Null /\ ~Present(r) THEN Answer(r, "missing")
     ELSE /\ Take(r)
          /\ got' = [got EXCEPT ![r] = call[r].secret]
          /\ Goto(r, IF call[r].secret = Null THEN "reread" ELSE "exec")
  /\ UnchangedStore /\ UNCHANGED <<toolVars, phase>>

\* upsert_user_provider_key reads the row again when it is given no key.
RereadPut(r) ==
  /\ pc[r] = "reread"
  /\ IF Unreadable(r) THEN Answer(r, "key_error")
     ELSE /\ got' = [got EXCEPT ![r] = Stored(r)]
          /\ Goto(r, "exec") /\ UNCHANGED loop
  /\ UnchangedStore /\ UNCHANGED <<toolVars, phase>>

\* upsert_model_prompt keeps the key it reads when it is given none.
StartPrompt(r) ==
  /\ pc[r] = "idle" /\ call[r].op = "prompt" /\ LoopIdle(r)
  /\ IF Unreadable(r) THEN Answer(r, "key_error")
     ELSE /\ Take(r)
          /\ got' = [got EXCEPT ![r] = IF call[r].secret = Null THEN Stored(r)
                                       ELSE call[r].secret]
          /\ Goto(r, "exec")
  /\ UnchangedStore /\ UNCHANGED <<toolVars, phase>>

\* create_token and delete_provider_key have nothing to look up.
StartWrite(r) ==
  /\ pc[r] = "idle" /\ call[r].op \in {"mint", "forget"} /\ LoopIdle(r)
  /\ Take(r)
  /\ got' = [got EXCEPT ![r] = call[r].secret]
  /\ Goto(r, "exec")
  /\ UnchangedStore /\ UNCHANGED <<toolVars, phase>>

\* delete_token: only a token of the login the caller has proved.
StartRevoke(r) ==
  /\ pc[r] = "idle" /\ call[r].op = "revoke" /\ LoopIdle(r)
  /\ IF ~Present(r) THEN Answer(r, "missing")
     ELSE IF Row(r).own # call[r].who THEN Answer(r, "forbidden")
     ELSE Take(r) /\ Goto(r, "exec") /\ UNCHANGED got
  /\ UnchangedStore /\ UNCHANGED <<toolVars, phase>>

Upserts(r) == call[r].op \in {"put", "prompt", "mint"}
Removes(r) == call[r].op \in {"forget", "revoke"}

\* The row an upsert stores.  ON CONFLICT DO UPDATE keeps the rowid of a
\* provider key; INSERT OR REPLACE gives a model prompt a new one.
NewRow(r) ==
  LET s == View(Me(r))
  IN  [rid |-> CASE call[r].op = "mint" -> FreshId(s)
                 [] call[r].op = "put" /\ Present(r) -> Row(r).rid
                 [] OTHER -> NextRid(s, Cell(r)[1]),
       val |-> IF got[r] = Null THEN Null ELSE Seal(MyRing, got[r]),
       own |-> call[r].who]

\* seal() raises SecretFormatError before the statement runs.
RefuseSecret(r) ==
  /\ pc[r] = "exec" /\ Upserts(r)
  /\ got[r] # Null /\ ~MaySeal(MyRing, got[r])
  /\ Answer(r, "bad_secret")
  /\ UnchangedStore /\ UNCHANGED <<toolVars, phase>>

ExecUpsert(r) ==
  LET s == View(Me(r))
  IN  /\ pc[r] = "exec" /\ Upserts(r) /\ MayWrite(Me(r))
      /\ got[r] # Null => MaySeal(MyRing, got[r])
      /\ ~(call[r].op = "put" /\ got[r] = Null)
      /\ call[r].op = "mint" => s.seq < MaxTokens
      /\ Write(Me(r), [row |-> [s.row EXCEPT ![Cell(r)] = NewRow(r)],
                       seq |-> IF call[r].op = "mint" THEN s.seq + 1 ELSE s.seq])
      /\ Goto(r, "commit") /\ UNCHANGED <<got, loop, toolVars, phase>>

\* user_provider_keys.api_key is NOT NULL: the row was deleted since the
\* first look, the INSERT fails, and nobody ends the transaction it opened.
ExecNull(r) ==
  /\ pc[r] = "exec" /\ call[r].op = "put" /\ got[r] = Null /\ MayWrite(Me(r))
  /\ Write(Me(r), View(Me(r)))
  /\ Answer(r, "server_error")
  /\ UNCHANGED <<toolVars, phase>>

\* A DELETE; "got" is Null when it has removed no row.
ExecRemove(r) ==
  LET s == View(Me(r))
  IN  /\ pc[r] = "exec" /\ Removes(r) /\ MayWrite(Me(r))
      /\ Write(Me(r), [s EXCEPT !.row[Cell(r)] = NoRow])
      /\ got' = [got EXCEPT ![r] = Stored(r)]
      /\ Goto(r, "commit") /\ UNCHANGED <<loop, toolVars, phase>>

\* Another process keeps the write lock for longer than sqlite3's timeout of
\* five seconds.  The transaction stays open, and the next look-up (every
\* request makes one) takes the read lock, which nothing but a commit gives
\* back.
ExecLocked(r) ==
  /\ pc[r] = "exec" /\ ~MayWrite(Me(r))
  /\ readers' = readers \cup {Me(r)}
  /\ Answer(r, "locked")
  /\ UNCHANGED <<db, dirty, writer, toolVars, phase>>

\* Fault: a DELETE that has removed no row is not committed.
FaultyCommitWrite(r) ==
  /\ pc[r] = "commit" /\ MayCommit(Me(r))
  /\ IF Removes(r) /\ got[r] = Null THEN UnchangedStore ELSE Commit(Me(r))
  /\ IF call[r].op \in {"put", "prompt"}
     THEN Goto(r, "list") /\ UNCHANGED <<got, loop>>
     ELSE Answer(r, IF call[r].op = "forget" /\ got[r] = Null
                    THEN "missing" ELSE "ok")
  /\ UNCHANGED <<toolVars, phase>>

CommitWrite(r) ==
  /\ pc[r] = "commit" /\ MayCommit(Me(r))
  /\ Commit(Me(r))
  /\ IF call[r].op \in {"put", "prompt"}
     THEN Goto(r, "list") /\ UNCHANGED <<got, loop>>
     ELSE Answer(r, IF call[r].op = "forget" /\ got[r] = Null
                    THEN "missing" ELSE "ok")
  /\ UNCHANGED <<toolVars, phase>>

\* A reader outlasts the timeout: the write stays in the open transaction.
CommitLocked(r) ==
  /\ pc[r] = "commit" /\ ~MayCommit(Me(r))
  /\ Answer(r, "locked")
  /\ UnchangedStore /\ UNCHANGED <<toolVars, phase>>

\* The answer is read back from the store: StopIteration when the row is gone.
ListWritten(r) ==
  /\ pc[r] = "list"
  /\ Answer(r, IF ~Present(r) THEN "server_error"
               ELSE IF call[r].op = "prompt" /\ Unreadable(r) THEN "key_error"
               ELSE "ok")
  /\ UnchangedStore /\ UNCHANGED <<toolVars, phase>>

----------------------------------------------------------------------------
(***************************************************************************)
(* seal_all.  The SELECT of a table runs before the transaction begins,    *)
(* unless a table before it had a row to seal.                             *)
(***************************************************************************)

ToolStart(x) ==
  /\ tool.step = "idle" /\ MyRing # <<>>
  /\ tool' = [step |-> "select", tab |-> 1, list |-> {}, reseal |-> x]
  /\ UnchangedStore /\ UNCHANGED <<reqVars, sealed, resealed, phase>>

\* Fault: --reseal forgotten, what is sealed already is left as it is.
FaultyToSeal(t) ==
  {x \in {View(Tool).row[c] : c \in {d \in Cells : d[1] = t}} \ {NoRow} :
     x.val # Null /\ x.val.by = "plain"}

\* The rows of a table the tool has to seal.
ToSeal(t) ==
  {x \in {View(Tool).row[c] : c \in {d \in Cells : d[1] = t}} \ {NoRow} :
     x.val # Null /\ (x.val.by = "plain" \/ tool.reseal)}

\* Fault: the last table is left out.
FaultyNextTable ==
  tool' = IF tool.tab = Len(TableSeq) - 1
          THEN [tool EXCEPT !.step = "commit", !.list = {}]
          ELSE [tool EXCEPT !.step = "select", !.tab = @ + 1, !.list = {}]
NextTable ==
  tool' = IF tool.tab = Len(TableSeq)
          THEN [tool EXCEPT !.step = "commit", !.list = {}]
          ELSE [tool EXCEPT !.step = "select", !.tab = @ + 1, !.list = {}]

ToolSelect ==
  LET L == ToSeal(TableSeq[tool.tab])
  IN  /\ tool.step = "select"
      /\ \A x \in L : Opens(MyRing, x.val)
      /\ IF L = {} THEN NextTable
         ELSE tool' = [tool EXCEPT !.step = "update", !.list = L]
      /\ UnchangedStore /\ UNCHANGED <<reqVars, sealed, resealed, phase>>

\* UPDATE ... WHERE id or rowid is the one the SELECT gave.
ToolUpdate ==
  LET t == TableSeq[tool.tab]
      s == View(Tool)
      Sealed(row) == LET x == CHOOSE x \in tool.list : x.rid = row.rid
                     IN  [row EXCEPT !.val = Seal(MyRing, x.val.text)]
  IN  /\ tool.step = "update" /\ MayWrite(Tool)
      /\ Write(Tool, [s EXCEPT !.row = [c \in Cells |->
                        IF /\ c[1] = t /\ s.row[c] # NoRow
                           /\ \E x \in tool.list : x.rid = s.row[c].rid
                        THEN Sealed(s.row[c]) ELSE s.row[c]]])
      /\ NextTable
      /\ UNCHANGED <<reqVars, sealed, resealed, phase>>

ToolCommit ==
  /\ tool.step = "commit" /\ MayCommit(Tool)
  /\ Commit(Tool)
  /\ tool' = IdleTool
  /\ sealed' = TRUE
  /\ resealed' = (resealed \/ tool.reseal)
  /\ UNCHANGED <<reqVars, phase>>

\* A value does not open, the store stays locked, or the tool is killed.
ToolFail ==
  /\ tool.step # "idle"
  /\ Rollback({Tool})
  /\ tool' = IdleTool
  /\ UNCHANGED <<reqVars, sealed, resealed, phase>>

----------------------------------------------------------------------------
(***************************************************************************)
(* The operator and the processes.                                         *)
(***************************************************************************)

Lose(R) ==
  /\ pc' = [r \in Requests |-> IF r \in R THEN "done" ELSE pc[r]]
  /\ reply' = [r \in Requests |-> IF r \in R THEN "lost" ELSE reply[r]]
  /\ loop' = [w \in Workers |-> IF loop[w] \in R THEN Nobody ELSE loop[w]]
  /\ UNCHANGED <<call, host, got>>

InFlight(P) == {r \in Requests : host[r] \in P /\ pc[r] \notin {"idle", "done"}}

\* systemctl restart after an edit of MALUDB_STORE_KEY: every worker comes up
\* with the new ring.  The old key goes only after a completed --reseal.
Restart ==
  /\ phase < Len(Ring) /\ tool.step = "idle" /\ (phase = 3 => resealed)
  /\ phase' = phase + 1 /\ resealed' = FALSE
  /\ Lose(InFlight(Workers)) /\ Rollback(Workers)
  /\ UNCHANGED <<tool, sealed>>

WorkerCrash(w) ==
  /\ InFlight({w}) # {}
  /\ Lose(InFlight({w})) /\ Rollback({w})
  /\ UNCHANGED <<toolVars, phase>>

Handler(r) ==
  \/ StartPut(r) \/ RereadPut(r) \/ StartPrompt(r) \/ StartWrite(r)
  \/ StartRevoke(r) \/ RefuseSecret(r) \/ ExecUpsert(r) \/ ExecNull(r)
  \/ ExecRemove(r) \/ ExecLocked(r) \/ CommitWrite(r) \/ CommitLocked(r)
  \/ ListWritten(r)

SealTool == \/ \E x \in BOOLEAN : ToolStart(x)
            \/ ToolSelect \/ ToolUpdate \/ ToolCommit \/ ToolFail

Next == \/ \E r \in Requests : Handler(r)
        \/ SealTool
        \/ Restart
        \/ \E w \in Workers : WorkerCrash(w)

Spec == Init /\ [][Next]_vars

----------------------------------------------------------------------------
(***************************************************************************)
(* Properties.                                                             *)
(***************************************************************************)

Values(s) == {s.row[c].val : c \in {d \in Cells : s.row[d] # NoRow}} \ {Null}

\* "Turning this on can never lock a tenant out" (store_crypto.py): at every
\* point of the procedure that turns sealing on and rotates the key, and
\* whatever the handlers and the tool write meanwhile, each secret that is
\* stored, or about to be, opens with the keys the workers run with.
EverySecretOpens == \A v \in Values(db) \cup Values(dirty) : Opens(MyRing, v)

\* Once the tool has sealed the store no secret is plain, and none becomes
\* plain again, in the file or in an open transaction.
SealedStaysSealed ==
  sealed => \A v \in Values(db) \cup Values(dirty) : v.by # "plain"

\* The login that owns the token n has asked for its revocation.
RevocationBy(login, n) ==
  \E r \in Requests : /\ call[r].op = "revoke" /\ call[r].who = login
                      /\ call[r].secret = n /\ pc[r] # "idle"

\* A token row is removed, or given to another login, only by a revocation
\* from the login that owns it, although the handler looks at the owner in
\* one statement and deletes by id in another.
OwnersRevoke ==
  \A n \in 1..MaxTokens :
    LET x == db.row[<<"users", n>>]
        y == db'.row[<<"users", n>>]
    IN  (x # NoRow /\ (y = NoRow \/ y.own # x.own)) => RevocationBy(x.own, n)
RevokedByOwner == [][OwnersRevoke]_vars

\* A worker holds the write lock while a handler of it is about to commit.
\* Two errors alone leave it held: a PUT without a key whose row was deleted
\* under it (IntegrityError), and a commit that met a reader.
LockOutlivesErrorsOnly ==
  writer \in Workers =>
    \E r \in Requests : host[r] = writer
      /\ \/ pc[r] = "commit" \/ reply[r] = "locked"
         \/ reply[r] = "server_error" /\ call[r].secret = Null

\* "A None api_key on update preserves the stored key" (auth_store.py).
KeylessPutPreserves ==
  [][\A r \in Requests :
       LET x == Row(r)
       IN  (/\ pc[r] = "exec" /\ pc'[r] = "commit"
            /\ call[r].op = "put" /\ call[r].secret = Null /\ Present(r))
             => dirty'.row[Cell(r)].val.text = x.val.text]_vars

\* seal_store "runs in one transaction": what it has read is what it seals,
\* so the secret behind a stored value is the same before and after.
SealKeepsSecrets ==
  [][\A c \in Cells :
       (tool.step = "update" /\ writer' = Tool /\ View(Tool).row[c] # NoRow
         /\ View(Tool).row[c].val # Null)
           => dirty'.row[c].val.text = View(Tool).row[c].val.text]_vars
=============================================================================
