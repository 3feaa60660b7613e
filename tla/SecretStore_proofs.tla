-------------------------- MODULE SecretStore_proofs --------------------------
(***************************************************************************)
(* Proofs about SecretStore, for any requests, workers, secrets and logins *)
(* and any store and calls at the start.                                   *)
(*                                                                         *)
(* What is stored is read through two stores, db and dirty, so that every  *)
(* argument is about both.  The values: each is sealed by a key that the   *)
(* phase of the procedure allows (Legal).  The tool: what it has still to  *)
(* seal lies in the tables it has not come to, in either store, because a  *)
(* worker that writes meanwhile writes sealed values (Progress).  The      *)
(* tokens: an id is given once, so that a row which the open transaction   *)
(* lacks was revoked by its owner (Tokens).                                *)
(***************************************************************************)
EXTENDS SecretStore, Lemmas

Steps == {"idle", "reread", "exec", "commit", "list", "done"}
Replies == {"none", "ok", "missing", "forbidden", "key_error", "bad_secret",
            "server_error", "locked", "lost"}
ToolType == [step: {"idle", "select", "update", "commit"}, tab: 1..3,
             list: SUBSET RowType, reseal: BOOLEAN]
Token(n) == <<"users", n>>

Types ==
  /\ db \in StoreType /\ dirty \in StoreType
  /\ writer \in Workers \cup {Tool, Nobody}
  /\ loop \in [Workers -> Requests \cup {Nobody}]
  /\ call \in [Requests -> CallType \cup {NoCall}]
  /\ host \in [Requests -> Workers \cup {Nobody}]
  /\ pc \in [Requests -> Steps]
  /\ reply \in [Requests -> Replies]
  /\ got \in [Requests -> Secrets \cup {Null}]
  /\ tool \in ToolType
  /\ phase \in 1..4 /\ sealed \in BOOLEAN /\ resealed \in BOOLEAN

\* A request has a call and a worker, an answer when it is over, and holds the
\* secret it was given.
Course(r) ==
  /\ pc[r] # "done" => call[r] # NoCall /\ host[r] # Nobody
  /\ reply[r] # "none" => pc[r] = "done"
  /\ pc[r] = "reread" => call[r].op = "put" /\ call[r].secret = Null
  /\ pc[r] = "exec" /\ call[r].op = "put" /\ call[r].secret # Null => got[r] = call[r].secret

\* Who has sealed what may be stored in each phase.
Sealers == <<{"plain"}, {"plain", "k1"}, {"plain", "k1", "k2"}, {"k2"}>>

Legal(v) ==
  /\ v.by \in Sealers[phase]
  /\ v.by = "plain" => v.text \notin Tricky /\ ~sealed
  /\ phase = 3 /\ resealed => v.by = "k2"

Holds(x) == x # NoRow /\ x.val # Null
LegalStore(s) == \A c \in Cells : Holds(s.row[c]) => Legal(s.row[c].val)

Phases == (sealed \/ tool.step # "idle") => phase >= 2

\* A value the workers would seal otherwise.
Stale(v) == v.by # Seal(MyRing, v.text).by

\* A worker writes no stale value: those of its transaction are committed rows.
StaleIsOld ==
  writer \in Workers =>
    \A c \in Cells : Holds(dirty.row[c]) /\ Stale(dirty.row[c].val) => dirty.row[c] = db.row[c]

\* What the tool has to seal, and the tables it has done.
Pending(x) == Holds(x) /\ (x.val.by = "plain" \/ (tool.reseal /\ x.val.by # MyRing[1]))
Past(t) == IF tool.step = "commit" THEN t \in {"users", "provider", "prompt"}
           ELSE \E i \in 1..(tool.tab - 1) : t = TableSeq[i]

\* What the tool has done in the store s, and what it has read.
Done(s) ==
  \A c \in Cells : Pending(s.row[c]) =>
    /\ ~Past(c[1])
    /\ tool.step = "update" /\ c[1] = TableSeq[tool.tab] =>
         \E x \in tool.list : x.rid = s.row[c].rid

Progress ==
  /\ tool.step # "idle" => Done(dirty) /\ (writer # Tool => Done(db))
  /\ \A x \in tool.list : x.val # Null

\* Token ids are given in order, and none again.
Tokens ==
  /\ db.seq <= dirty.seq
  /\ \A n \in 1..MaxTokens :
       LET x == db.row[Token(n)]
           y == dirty.row[Token(n)]
       IN  /\ x # NoRow => n <= db.seq
           /\ y # NoRow => n <= dirty.seq
           /\ y # NoRow /\ n <= db.seq => x # NoRow /\ x.own = y.own
           /\ x # NoRow /\ y = NoRow => RevocationBy(x.own, n)

\* A revocation that goes on is of a token of its own, if there is one still.
Revoking(r) ==
  pc[r] = "exec" /\ call[r].op = "revoke" =>
    LET s == View(host[r])
        n == call[r].secret
    IN  n <= s.seq /\ (s.row[Token(n)] = NoRow \/ s.row[Token(n)].own = call[r].who)

Clean == writer = Nobody => dirty = db

IInv == /\ Types
        /\ \A r \in Requests : Course(r)
        /\ LegalStore(db) /\ LegalStore(dirty)
        /\ Phases /\ Clean /\ StaleIsOld /\ Progress
        /\ Tokens /\ \A r \in Requests : Revoking(r)
        /\ LockOutlivesErrorsOnly

\* How the request r changes the store when it writes: it puts one row, gives
\* one token, removes one row, or writes nothing and keeps the lock.
Puts(r, c, x, n) ==
  LET s == View(host[r])
  IN  /\ dirty' = [row |-> [s.row EXCEPT ![c] = x], seq |-> n]
      /\ Holds(x) => Legal(x.val) /\ ~Stale(x.val)
      /\ \/ c[1] # "users" /\ n = s.seq
         \/ c = Token(n) /\ n = s.seq + 1 /\ x # NoRow
         \/ /\ c = Token(call[r].secret) /\ call[r].secret \in 1..MaxTokens
            /\ n = s.seq /\ x = NoRow
            /\ call[r].op = "revoke" /\ pc[r] = "exec" /\ pc'[r] = "commit"

Writes(r) ==
  /\ MayWrite(host[r]) /\ writer' = host[r] /\ db' = db
  /\ \/ pc'[r] = "commit"
     \/ reply'[r] = "server_error" /\ call[r].secret = Null
  /\ \/ dirty' = View(host[r])
     \/ \E c \in Cells, x \in RowType \cup {NoRow}, n \in 0..MaxTokens : Puts(r, c, x, n)

----------------------------------------------------------------------------
(***************************************************************************)
(* Calls, keys and rows.                                                   *)
(***************************************************************************)

LEMMA CallFacts ==
  ASSUME NEW c \in CallType \cup {NoCall}
  PROVE  /\ c # NoCall => c.op \in {"put", "forget", "prompt", "mint", "revoke"}
         /\ c # NoCall => c \in CallType
         /\ c.op \in {"put", "forget"} => c.who \in Users /\ c.secret \in Secrets \cup {Null}
         /\ c.op = "prompt" => c.who \in Models /\ c.secret \in Secrets \cup {Null}
         /\ c.op = "mint" => c.who \in Conns /\ c.secret \in Secrets
         /\ c.op = "revoke" => c.who \in Conns /\ c.secret \in 1..MaxTokens
BY DEF CallType, NoCall

\* The ring of each phase.
LEMMA RingFacts ==
  ASSUME phase \in 1..4
  PROVE  /\ MyRing = <<>> <=> phase = 1
         /\ phase = 2 => MyRing[1] = "k1" /\ KeysOf(MyRing) = {"k1"}
         /\ phase = 3 => MyRing[1] = "k2" /\ KeysOf(MyRing) = {"k1", "k2"}
         /\ phase = 4 => MyRing[1] = "k2" /\ KeysOf(MyRing) = {"k2"}
<1>1. CASE phase = 1
  BY <1>1 DEF MyRing, Ring
<1>2. CASE phase = 2
  <2>1. MyRing = <<"k1">>
    BY <1>2 DEF MyRing, Ring
  <2> QED BY <1>2, <2>1 DEF KeysOf
<1>3. CASE phase = 3
  <2>1. MyRing = <<"k2", "k1">>
    BY <1>3 DEF MyRing, Ring
  <2>2. KeysOf(MyRing) = {"k1", "k2"}
    BY <2>1 DEF KeysOf
  <2> QED BY <1>3, <2>1, <2>2
<1>4. CASE phase = 4
  <2>1. MyRing = <<"k2">>
    BY <1>4 DEF MyRing, Ring
  <2> QED BY <1>4, <2>1 DEF KeysOf
<1> QED BY <1>1, <1>2, <1>3, <1>4

\* What a process seals is legal, and is not to be sealed again.
LEMMA SealedIsLegal ==
  ASSUME Types, Phases, NEW s \in Secrets, MaySeal(MyRing, s)
  PROVE  LET v == Seal(MyRing, s)
         IN  v \in ValueType /\ (v # Null => Legal(v) /\ ~Stale(v))
<1>1. phase \in 1..4 /\ (sealed => phase >= 2)
  BY DEF Types, Phases
<1>2. CASE phase = 1
  BY <1>1, <1>2, RingFacts DEF Seal, Legal, Stale, MaySeal, Sealers, ValueType, Keys
<1>3. CASE phase # 1
  BY <1>1, <1>3, RingFacts DEF Seal, Legal, Stale, Sealers, ValueType, Keys
<1> QED BY <1>2, <1>3

LEMMA SealedIsValue ==
  ASSUME phase \in 1..4, NEW s \in Secrets
  PROVE  Seal(MyRing, s) \in ValueType
BY RingFacts DEF Seal, ValueType, Keys

\* A legal value opens.
LEMMA LegalOpens ==
  ASSUME phase \in 1..4, NEW v \in ValueType, Legal(v)
  PROVE  Opens(MyRing, v)
BY RingFacts DEF Legal, Sealers, Opens

\* A value that is sealed as the workers seal is not for the tool.
LEMMA NotForTheTool ==
  ASSUME phase \in 1..4, Phases, tool.step # "idle", NEW x,
         Holds(x) => ~Stale(x.val)
  PROVE  ~Pending(x)
BY RingFacts DEF Phases, Pending, Stale, Seal

\* What a process sees is a store, and what it reads of it a row.
LEMMA ViewFacts ==
  ASSUME Types, NEW p
  PROVE  /\ View(p) \in StoreType /\ View(p).seq \in 0..MaxTokens
         /\ View(p) = [row |-> View(p).row, seq |-> View(p).seq]
         /\ \A c \in Cells : View(p).row[c] # NoRow =>
              /\ View(p).row[c] \in RowType /\ View(p).row[c].rid \in Nat
              /\ View(p).row[c].val # Null =>
                   View(p).row[c].val \in ValueType /\ View(p).row[c].val.text \in Secrets
<1>1. View(p) \in StoreType
  BY DEF Types, View
<1>2. /\ View(p).seq \in 0..MaxTokens /\ View(p).row \in [Cells -> RowType \cup {NoRow}]
      /\ View(p) = [row |-> View(p).row, seq |-> View(p).seq]
  BY <1>1 DEF StoreType
<1>3. ASSUME NEW x \in RowType
      PROVE  x.rid \in Nat /\ (x.val # Null => x.val \in ValueType /\ x.val.text \in Secrets)
  BY DEF RowType, ValueType
<1> QED BY <1>1, <1>2, <1>3

LEMMA StoredIsSecret ==
  ASSUME Types, NEW r \in Requests, Cell(r) \in Cells
  PROVE  Stored(r) \in Secrets \cup {Null}
BY ViewFacts DEF Stored, HasSecret, Present, Row

\* There are finitely many cells, so that a new rowid is a number.
LEMMA NextRidIsNat ==
  ASSUME NEW s \in StoreType, NEW t PROVE NextRid(s, t) \in Nat
<1> DEFINE I == Rids(s, t)
           D == {d \in Cells : d[1] = t /\ s.row[d] # NoRow}
           f == [d \in D |-> s.row[d].rid]
<1>1. IsFiniteSet(Cells)
  <2>0. \A x : IsFiniteSet({x})
    BY FS_Singleton
  <2>1. IsFiniteSet(1..MaxTokens)
    <3>1. 1 \in Int /\ MaxTokens \in Int
      BY NamesAssumption
    <3> QED BY <3>1, FS_Interval
  <2>2. /\ IsFiniteSet({"users"} \X (1..MaxTokens)) /\ IsFiniteSet({"provider"} \X Users)
        /\ IsFiniteSet({"prompt"} \X Models)
    BY <2>0, <2>1, FS_Product, NamesAssumption
  <2> QED BY <2>2, FS_Union DEF Cells
<1>2. I \subseteq Nat
  BY DEF Rids, StoreType, RowType
<1>3. IsFiniteSet(I)
  <2>1. IsFiniteSet(D)
    BY <1>1, FS_Subset
  <2>2. f \in Surjection(D, I)
    BY DEF Rids, Surjection
  <2> HIDE DEF D, f, I
  <2> QED BY <2>1, <2>2, FS_Surjection
<1>4. CASE I = {}
  BY <1>4 DEF NextRid
<1>5. CASE I # {}
  <2> HIDE DEF I
  <2>0. I \subseteq Int
    BY <1>2
  <2>1. PICK m \in I : \A i \in I : i <= m
    BY <2>0, <1>3, <1>5, FiniteSetHasMax, Zenon
  <2>2. (CHOOSE k \in I : \A i \in I : i <= k) \in I
    BY <2>1
  <2>3. NextRid(s, t) = (CHOOSE k \in I : \A i \in I : i <= k) + 1
    BY <1>5, Zenon DEF NextRid, I
  <2>4. (CHOOSE k \in I : \A i \in I : i <= k) \in Nat
    BY <1>2, <2>2
  <2> QED BY <2>3, <2>4
<1> QED BY <1>4, <1>5

----------------------------------------------------------------------------

(***************************************************************************)
(* What a step of a handler does to its request and to the store.          *)
(***************************************************************************)

\* The requests' own state after an answer, or after a step that goes on.
ReqTypes ==
  /\ loop \in [Workers -> Requests \cup {Nobody}]
  /\ call \in [Requests -> CallType \cup {NoCall}]
  /\ host \in [Requests -> Workers \cup {Nobody}]
  /\ pc \in [Requests -> Steps]
  /\ reply \in [Requests -> Replies]
  /\ got \in [Requests -> Secrets \cup {Null}]

Others(r) == \A q \in Requests \ {r} : pc'[q] = pc[q] /\ reply'[q] = reply[q] /\ got'[q] = got[q]

LEMMA AnswerFacts ==
  ASSUME Types, NEW r \in Requests, NEW a \in Replies, Answer(r, a)
  PROVE  /\ ReqTypes' /\ Others(r) /\ Course(r)'
         /\ pc'[r] = "done" /\ reply'[r] = a /\ UNCHANGED <<call, host>>
BY DEF Types, ReqTypes, Others, Course, Answer, Steps, Replies

LEMMA GotoFacts ==
  ASSUME Types, NEW r \in Requests, Course(r), pc[r] # "done", NEW s \in Steps, Goto(r, s),
         NEW x \in Secrets \cup {Null}, got' = [got EXCEPT ![r] = x],
         loop' \in [Workers -> Requests \cup {Nobody}],
         s = "reread" => call[r].op = "put" /\ call[r].secret = Null,
         s = "exec" /\ call[r].op = "put" /\ call[r].secret # Null => x = call[r].secret
  PROVE  /\ ReqTypes' /\ Others(r) /\ Course(r)'
         /\ pc'[r] = s /\ reply'[r] = "none" /\ UNCHANGED <<call, host>>
<1>1. UNCHANGED <<call, host, reply>> /\ pc' = [pc EXCEPT ![r] = s]
  BY DEF Goto
<1>2. reply[r] = "none" /\ call[r] # NoCall /\ host[r] # Nobody
  BY DEF Course, Types, Replies
<1>3. ReqTypes'
  BY <1>1 DEF Types, ReqTypes
<1> QED BY <1>1, <1>2, <1>3 DEF Types, Others, Course

LEMMA TakeFacts ==
  ASSUME Types, NEW r \in Requests, Take(r)
  PROVE  loop' \in [Workers -> Requests \cup {Nobody}]
BY DEF Types, Take

LEMMA KeepsGot ==
  ASSUME Types, NEW r \in Requests, UNCHANGED got
  PROVE  got[r] \in Secrets \cup {Null} /\ got' = [got EXCEPT ![r] = got[r]]
BY DEF Types

\* Every step of a handler is about its own request.
Moves(r) ==
  /\ ReqTypes' /\ Others(r) /\ Course(r)'
  /\ UNCHANGED <<call, host, toolVars, phase>>
  /\ pc[r] # "done" /\ pc'[r] # "idle"

Resting == UNCHANGED <<db, dirty, writer>>

\* A step that leaves the store; after a commit that failed the lock is held.
Rests(r) ==
  /\ Resting
  /\ pc[r] = "commit" => reply'[r] = "locked"
  /\ pc'[r] = "exec" /\ call[r].op = "revoke" =>
       Present(r) /\ Row(r).own = call[r].who

Commits(r) ==
  /\ pc[r] = "commit" /\ pc'[r] # "exec" /\ db' = View(host[r]) /\ dirty' = dirty
  /\ writer' = IF writer = host[r] THEN Nobody ELSE writer

LEMMA StartsMove ==
  ASSUME Types, NEW r \in Requests, Course(r),
         \/ StartPut(r) \/ RereadPut(r) \/ StartPrompt(r) \/ StartWrite(r) \/ StartRevoke(r)
  PROVE  Moves(r) /\ Rests(r)
<1>0. /\ pc[r] # "done" => call[r] \in CallType
      /\ UNCHANGED loop => loop' \in [Workers -> Requests \cup {Nobody}]
      /\ {"none", "key_error", "missing", "forbidden"} \subseteq Replies
      /\ {"reread", "exec"} \subseteq Steps
  BY CallFacts DEF Types, Course, Replies, Steps
<1>1. CASE StartPut(r)
  <2>1. /\ pc[r] = "idle" /\ call[r].op = "put" /\ Resting
        /\ UNCHANGED <<toolVars, phase>>
    BY <1>1 DEF StartPut, Resting, UnchangedStore
  <2>2. call[r].secret \in Secrets \cup {Null}
    BY <1>0, <2>1, CallFacts
  <2>3. CASE \E a \in {"key_error", "missing"} : Answer(r, a)
    BY <1>0, <2>1, <2>3, AnswerFacts DEF Moves, Rests
  <2>4. CASE /\ Take(r) /\ got' = [got EXCEPT ![r] = call[r].secret]
             /\ Goto(r, IF call[r].secret = Null THEN "reread" ELSE "exec")
    <3>1. loop' \in [Workers -> Requests \cup {Nobody}]
      BY <2>4, TakeFacts
    <3>2. CASE call[r].secret = Null
      BY <1>0, <2>1, <2>2, <2>4, <3>1, <3>2, GotoFacts DEF Moves, Rests
    <3>3. CASE call[r].secret # Null
      BY <1>0, <2>1, <2>2, <2>4, <3>1, <3>3, GotoFacts, ZenonT(40) DEF Moves, Rests
    <3> QED BY <3>2, <3>3
  <2> QED BY <1>1, <2>3, <2>4 DEF StartPut
<1>2. CASE RereadPut(r)
  <2>1. /\ pc[r] = "reread" /\ Resting /\ UNCHANGED <<toolVars, phase>>
        /\ call[r].op = "put" /\ call[r].secret = Null
    BY <1>2 DEF RereadPut, Resting, UnchangedStore, Course
  <2>2. Stored(r) \in Secrets \cup {Null}
    <3>1. Cell(r) \in Cells
      BY <1>0, <2>1, CallFacts DEF Cell, Cells
    <3> QED BY <3>1, StoredIsSecret
  <2>3. CASE Answer(r, "key_error")
    BY <1>0, <2>1, <2>3, AnswerFacts DEF Moves, Rests
  <2>4. CASE got' = [got EXCEPT ![r] = Stored(r)] /\ Goto(r, "exec") /\ UNCHANGED loop
    BY <1>0, <2>1, <2>2, <2>4, GotoFacts DEF Moves, Rests
  <2> QED BY <1>2, <2>3, <2>4 DEF RereadPut
<1>3. CASE StartPrompt(r)
  <2>1. /\ pc[r] = "idle" /\ call[r].op = "prompt" /\ Resting
        /\ UNCHANGED <<toolVars, phase>>
    BY <1>3 DEF StartPrompt, Resting, UnchangedStore
  <2> DEFINE x == IF call[r].secret = Null THEN Stored(r) ELSE call[r].secret
  <2>2. x \in Secrets \cup {Null}
    <3>1. Cell(r) \in Cells /\ call[r].secret \in Secrets \cup {Null}
      BY <1>0, <2>1, CallFacts DEF Cell, Cells
    <3> QED BY <3>1, StoredIsSecret
  <2>3. CASE Answer(r, "key_error")
    BY <1>0, <2>1, <2>3, AnswerFacts DEF Moves, Rests
  <2>4. CASE Take(r) /\ got' = [got EXCEPT ![r] = x] /\ Goto(r, "exec")
    <3>1. loop' \in [Workers -> Requests \cup {Nobody}]
      BY <2>4, TakeFacts
    <3> HIDE DEF x
    <3> QED BY <1>0, <2>1, <2>2, <2>4, <3>1, GotoFacts DEF Moves, Rests
  <2> QED BY <1>3, <2>3, <2>4 DEF StartPrompt
<1>4. CASE StartWrite(r)
  <2>1. /\ pc[r] = "idle" /\ call[r].op \in {"mint", "forget"} /\ Resting /\ Take(r)
        /\ UNCHANGED <<toolVars, phase>> /\ Goto(r, "exec")
        /\ got' = [got EXCEPT ![r] = call[r].secret]
    BY <1>4 DEF StartWrite, Resting, UnchangedStore
  <2>2. call[r].secret \in Secrets \cup {Null}
    BY <1>0, <2>1, CallFacts
  <2>3. loop' \in [Workers -> Requests \cup {Nobody}]
    BY <2>1, TakeFacts
  <2> QED BY <1>0, <2>1, <2>2, <2>3, GotoFacts DEF Moves, Rests
<1>5. CASE StartRevoke(r)
  <2>1. /\ pc[r] = "idle" /\ call[r].op = "revoke" /\ Resting
        /\ UNCHANGED <<toolVars, phase>>
    BY <1>5 DEF StartRevoke, Resting, UnchangedStore
  <2>3. CASE \E a \in {"missing", "forbidden"} : Answer(r, a)
    BY <1>0, <2>1, <2>3, AnswerFacts DEF Moves, Rests
  <2>4. CASE /\ Present(r) /\ Row(r).own = call[r].who
             /\ Take(r) /\ Goto(r, "exec") /\ UNCHANGED got
    <3>1. loop' \in [Workers -> Requests \cup {Nobody}]
      BY <2>4, TakeFacts
    <3> QED BY <1>0, <2>1, <2>4, <3>1, KeepsGot, GotoFacts DEF Moves, Rests
  <2> QED BY <1>5, <2>3, <2>4 DEF StartRevoke
<1> QED BY <1>1, <1>2, <1>3, <1>4, <1>5

\* The steps from the write on that write nothing.
LEMMA RefusalsMove ==
  ASSUME Types, NEW r \in Requests, Course(r),
         RefuseSecret(r) \/ ExecLocked(r) \/ CommitLocked(r) \/ ListWritten(r)
  PROVE  Moves(r) /\ Rests(r)
<1>1. {"bad_secret", "locked", "server_error", "key_error", "ok"} \subseteq Replies
  BY DEF Replies
<1>2. CASE RefuseSecret(r)
  BY <1>1, <1>2, AnswerFacts DEF RefuseSecret, Moves, Rests, Resting, UnchangedStore
<1>3. CASE ExecLocked(r)
  BY <1>1, <1>3, AnswerFacts DEF ExecLocked, Moves, Rests, Resting
<1>4. CASE CommitLocked(r)
  BY <1>1, <1>4, AnswerFacts DEF CommitLocked, Moves, Rests, Resting, UnchangedStore
<1>5. CASE ListWritten(r)
  <2>1. PICK a \in Replies : Answer(r, a)
    BY <1>1, <1>5 DEF ListWritten
  <2> QED BY <1>5, <2>1, AnswerFacts DEF ListWritten, Moves, Rests, Resting, UnchangedStore
<1> QED BY <1>2, <1>3, <1>4, <1>5

LEMMA CommitMoves ==
  ASSUME Types, NEW r \in Requests, Course(r), CommitWrite(r)
  PROVE  Moves(r) /\ Commits(r)
<1>1. /\ pc[r] = "commit" /\ Commit(Me(r)) /\ UNCHANGED <<toolVars, phase>>
      /\ {"missing", "ok"} \subseteq Replies /\ "list" \in Steps
  BY DEF CommitWrite, Replies, Steps
<1>2. CASE \E a \in {"missing", "ok"} : Answer(r, a)
  BY <1>1, <1>2, AnswerFacts DEF Moves, Commits, Commit, View, Me
<1>3. CASE Goto(r, "list") /\ UNCHANGED <<got, loop>>
  <2>1. loop' \in [Workers -> Requests \cup {Nobody}]
    BY <1>3 DEF Types
  <2> QED BY <1>1, <1>3, <2>1, KeepsGot, GotoFacts DEF Moves, Commits, Commit, View, Me
<1> QED BY <1>2, <1>3 DEF CommitWrite

\* The row an upsert stores is a legal row.
LEMMA NewRowFacts ==
  ASSUME Types, Phases, NEW r \in Requests, call[r] \in CallType, Upserts(r),
         Cell(r) \in Cells, got[r] # Null => MaySeal(MyRing, got[r])
  PROVE  /\ NewRow(r) \in RowType /\ NewRow(r) # NoRow
         /\ Holds(NewRow(r)) => Legal(NewRow(r).val) /\ ~Stale(NewRow(r).val)
<1> DEFINE s == View(Me(r))
           i == CASE call[r].op = "mint" -> FreshId(s)
                  [] call[r].op = "put" /\ Present(r) -> Row(r).rid
                  [] OTHER -> NextRid(s, Cell(r)[1])
           v == IF got[r] = Null THEN Null ELSE Seal(MyRing, got[r])
<1>1. NewRow(r) = [rid |-> i, val |-> v, own |-> call[r].who]
  BY DEF NewRow
<1>2. i \in Nat
  <2>1. s \in StoreType /\ s.seq \in Nat
    BY ViewFacts, NamesAssumption
  <2>2. NextRid(s, Cell(r)[1]) \in Nat
    BY <2>1, NextRidIsNat
  <2>3. Present(r) => Row(r).rid \in Nat
    BY ViewFacts DEF Present, Row
  <2> HIDE DEF s
  <2> QED BY <2>1, <2>2, <2>3 DEF FreshId
<1>3. /\ v \in ValueType \cup {Null}
      /\ v # Null => Legal(v) /\ ~Stale(v)
  <2>1. got[r] \in Secrets \cup {Null}
    BY DEF Types
  <2> QED BY <2>1, SealedIsLegal, SealedIsValue DEF Types
<1>4. call[r].who \in Users \cup Models \cup Conns
  BY CallFacts DEF Upserts
<1> HIDE DEF i, v
<1>5. NewRow(r) \in RowType
  BY <1>1, <1>2, <1>3, <1>4 DEF RowType
<1> QED BY <1>1, <1>3, <1>5, NoRowAssumption DEF Holds

LEMMA WritesMove ==
  ASSUME Types, Phases, NEW r \in Requests, Course(r),
         ExecUpsert(r) \/ ExecNull(r) \/ ExecRemove(r)
  PROVE  Moves(r) /\ Writes(r)
<1> DEFINE s == View(host[r])
<1>0. /\ pc[r] = "exec" /\ call[r] \in CallType /\ "commit" \in Steps
      /\ "server_error" \in Replies /\ Me(r) = host[r]
      /\ s.seq \in 0..MaxTokens /\ MaxTokens \in Nat
      /\ s = [row |-> s.row, seq |-> s.seq]
      /\ loop \in [Workers -> Requests \cup {Nobody}]
  BY CallFacts, ViewFacts, NamesAssumption DEF Types, Course, Steps, Replies, ExecUpsert, ExecNull,
     ExecRemove, Me
<1>1. CASE ExecUpsert(r)
  <2>1. /\ Upserts(r) /\ MayWrite(host[r]) /\ Goto(r, "commit")
        /\ got[r] # Null => MaySeal(MyRing, got[r])
        /\ call[r].op = "mint" => s.seq < MaxTokens
        /\ UNCHANGED <<got, loop, toolVars, phase>>
        /\ Write(Me(r), [row |-> [s.row EXCEPT ![Cell(r)] = NewRow(r)],
                         seq |-> IF call[r].op = "mint" THEN s.seq + 1 ELSE s.seq])
    BY <1>1, <1>0 DEF ExecUpsert
  <2>2. Moves(r) /\ pc'[r] = "commit"
    BY <1>0, <2>1, KeepsGot, GotoFacts DEF Moves
  <2> HIDE DEF s
  <2>3. CASE call[r].op = "mint"
    <3>1. Cell(r) = Token(s.seq + 1) /\ Cell(r) \in Cells /\ s.seq + 1 \in 0..MaxTokens
      BY <1>0, <2>1, <2>3 DEF Cell, Cells, FreshId, Token, s
    <3>2. NewRow(r) \in RowType /\ Puts(r, Cell(r), NewRow(r), s.seq + 1)
      BY <1>0, <2>1, <2>3, <3>1, NewRowFacts DEF Puts, Write, s
    <3> QED BY <1>0, <2>1, <2>2, <3>1, <3>2 DEF Writes, Write
  <2>4. CASE call[r].op \in {"put", "prompt"}
    <3>1. Cell(r) \in Cells /\ Cell(r)[1] # "users"
      BY <1>0, <2>4, CallFacts DEF Cell, Cells
    <3>2. NewRow(r) \in RowType /\ Puts(r, Cell(r), NewRow(r), s.seq)
      BY <1>0, <2>1, <2>4, <3>1, NewRowFacts DEF Puts, Write, s
    <3> QED BY <1>0, <2>1, <2>2, <3>1, <3>2 DEF Writes, Write
  <2> QED BY <2>1, <2>3, <2>4 DEF Upserts
<1>2. CASE ExecNull(r)
  <2>1. /\ call[r].op = "put" /\ got[r] = Null /\ MayWrite(host[r])
        /\ Write(Me(r), s) /\ Answer(r, "server_error") /\ UNCHANGED <<toolVars, phase>>
    BY <1>2, <1>0 DEF ExecNull
  <2>2. call[r].secret = Null
    <3>1. call[r].secret \in Secrets \cup {Null}
      BY <1>0, <2>1, CallFacts
    <3> QED BY <1>0, <2>1, <3>1, NamesAssumption DEF Course
  <2>3. Moves(r) /\ reply'[r] = "server_error"
    BY <1>0, <2>1, AnswerFacts DEF Moves
  <2> QED BY <1>0, <2>1, <2>2, <2>3 DEF Writes, Write
<1>3. CASE ExecRemove(r)
  <2>1. /\ Removes(r) /\ MayWrite(host[r]) /\ Goto(r, "commit")
        /\ Write(Me(r), [s EXCEPT !.row[Cell(r)] = NoRow])
        /\ got' = [got EXCEPT ![r] = Stored(r)]
        /\ UNCHANGED <<loop, toolVars, phase>>
    BY <1>3, <1>0 DEF ExecRemove
  <2>2. /\ Cell(r) \in Cells
        /\ \/ Cell(r)[1] # "users"
           \/ /\ Cell(r) = Token(call[r].secret) /\ call[r].op = "revoke"
              /\ call[r].secret \in 1..MaxTokens
    BY <1>0, <2>1, CallFacts DEF Removes, Cell, Cells, Token
  <2>3. Moves(r) /\ pc'[r] = "commit"
    BY <1>0, <2>1, <2>2, StoredIsSecret, GotoFacts DEF Moves
  <2> HIDE DEF s
  <2>4. [s EXCEPT !.row[Cell(r)] = NoRow]
          = [row |-> [s.row EXCEPT ![Cell(r)] = NoRow], seq |-> s.seq]
    BY <1>0
  <2>5. Puts(r, Cell(r), NoRow, s.seq)
    BY <1>0, <2>1, <2>2, <2>3, <2>4 DEF Puts, Write, Holds, s
  <2> QED BY <1>0, <2>1, <2>2, <2>3, <2>5 DEF Writes, Write
<1> QED BY <1>1, <1>2, <1>3

\* Every step of a handler.
LEMMA HandlerSteps ==
  ASSUME Types, Phases, NEW r \in Requests, Course(r), Handler(r)
  PROVE  Moves(r) /\ (Rests(r) \/ Writes(r) \/ Commits(r))
BY StartsMove, RefusalsMove, CommitMoves, WritesMove DEF Handler

----------------------------------------------------------------------------

(***************************************************************************)
(* A step of a handler preserves the invariant.                            *)
(***************************************************************************)

\* The step of the request r, in a state of the invariant.
Step(r) == IInv /\ Moves(r) /\ (Rests(r) \/ Writes(r) \/ Commits(r))

\* The row and the number a write leaves behind.
LEMMA PutFacts ==
  ASSUME Types, NEW r, NEW c \in Cells, NEW x \in RowType \cup {NoRow},
         NEW n \in 0..MaxTokens, Puts(r, c, x, n)
  PROVE  /\ dirty' \in StoreType /\ dirty'.seq = n
         /\ \A d \in Cells : dirty'.row[d] = IF d = c THEN x ELSE View(host[r]).row[d]
BY ViewFacts DEF Puts, StoreType

LEMMA HandlerTypes ==
  ASSUME NEW r \in Requests, Step(r) PROVE Types' /\ \A q \in Requests : Course(q)'
<1>1. Types /\ ReqTypes' /\ Others(r) /\ Course(r)' /\ UNCHANGED <<call, host, tool, sealed, resealed, phase>>
  BY DEF Step, IInv, Moves, toolVars
<1>2. /\ host[r] \in Workers \cup {Nobody} /\ db \in StoreType /\ dirty \in StoreType
      /\ View(host[r]) \in StoreType
  BY <1>1, ViewFacts DEF Types
<1>3. db' \in StoreType /\ dirty' \in StoreType /\ writer' \in Workers \cup {Tool, Nobody}
  <2>1. CASE Rests(r)
    BY <1>1, <1>2, <2>1 DEF Rests, Resting, Types
  <2>2. CASE Writes(r)
    BY <1>1, <1>2, <2>2, PutFacts DEF Writes
  <2>3. CASE Commits(r)
    BY <1>1, <1>2, <2>3 DEF Commits, Types
  <2> QED BY <2>1, <2>2, <2>3 DEF Step
<1>4. Types'
  BY <1>1, <1>3 DEF Types, ReqTypes
<1>5. \A q \in Requests : Course(q)
  BY DEF Step, IInv
<1> QED BY <1>1, <1>4, <1>5 DEF Course, Others

\* Both stores stay legal, and what is stale stays what was committed.
LEMMA HandlerLegal ==
  ASSUME NEW r \in Requests, Step(r)
  PROVE  LegalStore(db)' /\ LegalStore(dirty)' /\ Phases' /\ Clean' /\ StaleIsOld'
<1>1. /\ Types /\ LegalStore(db) /\ LegalStore(dirty) /\ Phases /\ Clean /\ StaleIsOld
      /\ UNCHANGED <<call, host, tool, sealed, resealed, phase>>
      /\ LegalStore(View(host[r])) /\ pc[r] # "done" /\ Course(r)
  BY DEF Step, IInv, Moves, toolVars, View
<1>2. /\ \A v : Legal(v)' = Legal(v)
      /\ \A v : Stale(v)' = Stale(v)
      /\ Phases' /\ host[r] \in Workers
  BY <1>1 DEF Legal, Stale, Seal, MyRing, Phases, Course, Types
<1>3. CASE Rests(r)
  BY <1>1, <1>2, <1>3 DEF Rests, Resting, LegalStore, Clean, StaleIsOld
<1>4. CASE Writes(r)
  <2>1. writer' = host[r] /\ db' = db /\ host[r] # Nobody /\ MayWrite(host[r])
    BY <1>2, <1>4, NamesAssumption DEF Writes
  <2>2. \A c \in Cells : LET x == View(host[r]).row[c]
                         IN  Holds(x) /\ Stale(x.val) => x = db.row[c]
    BY <1>1, <1>2, <2>1 DEF View, MayWrite, StaleIsOld, Clean
  <2>3. CASE dirty' = View(host[r])
    BY <1>1, <1>2, <2>1, <2>2, <2>3 DEF LegalStore, Clean, StaleIsOld
  <2>4. ASSUME NEW c \in Cells, NEW x \in RowType \cup {NoRow}, NEW n \in 0..MaxTokens,
               Puts(r, c, x, n)
        PROVE  LegalStore(dirty)' /\ StaleIsOld'
    <3>1. /\ \A d \in Cells : dirty'.row[d] = IF d = c THEN x ELSE View(host[r]).row[d]
          /\ Holds(x) => Legal(x.val) /\ ~Stale(x.val)
      BY <1>1, <2>4, PutFacts DEF Puts
    <3> QED BY <1>1, <1>2, <2>1, <2>2, <3>1 DEF LegalStore, StaleIsOld
  <2>5. LegalStore(db)' /\ Clean'
    BY <1>1, <1>2, <2>1 DEF LegalStore, Clean
  <2> QED BY <1>2, <1>4, <2>3, <2>4, <2>5 DEF Writes
<1>5. CASE Commits(r)
  <2>1. LegalStore(db)' /\ LegalStore(dirty)'
    BY <1>1, <1>2, <1>5 DEF Commits, LegalStore, View
  <2>2. CASE writer = host[r]
    BY <1>1, <1>2, <1>5, <2>1, <2>2, NamesAssumption DEF Commits, View, Clean, StaleIsOld
  <2>3. CASE writer # host[r]
    BY <1>1, <1>2, <1>5, <2>1, <2>3 DEF Commits, View, Clean, StaleIsOld
  <2> QED BY <2>2, <2>3, <2>1, <1>2
<1> QED BY <1>3, <1>4, <1>5 DEF Step

\* Nothing a handler writes is for the tool.
LEMMA HandlerProgress ==
  ASSUME NEW r \in Requests, Step(r) PROVE Progress'
<1>1. /\ Types /\ Progress /\ Phases /\ Clean /\ pc[r] # "done" /\ Course(r)
      /\ UNCHANGED <<call, host, tool, sealed, resealed, phase>>
      /\ phase \in 1..4
  BY DEF Step, IInv, Moves, toolVars, Types
<1>2. /\ \A x : Pending(x)' = Pending(x)
      /\ \A t : Past(t)' = Past(t)
      /\ host[r] \in Workers /\ host[r] # Tool
  BY <1>1, NamesAssumption DEF Pending, MyRing, Past, Course, Types
<1>3. SUFFICES ASSUME tool.step # "idle"
               PROVE  Done(dirty)' /\ (writer' # Tool => Done(db)')
  BY <1>1 DEF Progress
<1>4. Done(dirty) /\ (writer # Tool => Done(db))
  BY <1>1, <1>3 DEF Progress
<1>5. CASE Rests(r)
  BY <1>1, <1>2, <1>4, <1>5 DEF Rests, Resting, Done
<1>6. CASE Writes(r)
  <2>1. writer # Tool /\ db' = db /\ Done(db) /\ Done(View(host[r]))
    BY <1>2, <1>4, <1>6, NamesAssumption DEF Writes, MayWrite, View
  <2>2. Done(db)'
    BY <1>1, <1>2, <2>1 DEF Done
  <2>3. CASE dirty' = View(host[r])
    BY <1>1, <1>2, <2>1, <2>2, <2>3 DEF Done
  <2>4. ASSUME NEW c \in Cells, NEW x \in RowType \cup {NoRow}, NEW n \in 0..MaxTokens,
               Puts(r, c, x, n)
        PROVE  Done(dirty)'
    <3>1. \A d \in Cells : dirty'.row[d] = IF d = c THEN x ELSE View(host[r]).row[d]
      <4>1. Types
        BY <1>1
      <4> QED BY <4>1, <2>4, PutFacts DEF Puts
    <3>2. ~Pending(x)
      BY <1>1, <1>3, <2>4, NotForTheTool DEF Puts
    <3> QED BY <1>1, <1>2, <2>1, <3>1, <3>2 DEF Done
  <2> QED BY <1>6, <2>2, <2>3, <2>4 DEF Writes
<1>7. CASE Commits(r)
  <2>1. dirty' = dirty /\ Done(dirty)'
    BY <1>1, <1>2, <1>4, <1>7 DEF Commits, Done
  <2>2. CASE writer = host[r]
    BY <1>1, <1>2, <1>4, <1>7, <2>1, <2>2 DEF Commits, View, Done
  <2>3. CASE writer # host[r]
    BY <1>1, <1>2, <1>4, <1>7, <2>1, <2>3 DEF Commits, View, Done
  <2> QED BY <2>2, <2>3
<1> QED BY <1>5, <1>6, <1>7 DEF Step

\* The request r has asked for the revocation it is about to commit.
LEMMA RevocationStays ==
  ASSUME NEW r \in Requests, Moves(r)
  PROVE  \A o, n : RevocationBy(o, n) => RevocationBy(o, n)'
BY DEF Moves, Others, RevocationBy

\* The cells of the tokens are cells, each of its own.
LEMMA TokenFacts ==
  /\ \A n \in 1..MaxTokens : Token(n) \in Cells /\ Token(n)[1] = "users"
  /\ \A m, n : Token(m) = Token(n) => m = n
BY DEF Token, Cells

\* Ids are given in order, and what a handler removes was its login's.
LEMMA HandlerTokens ==
  ASSUME NEW r \in Requests, Step(r) PROVE Tokens' /\ \A q \in Requests : Revoking(q)'
<1> DEFINE s == View(host[r])
<1>1. /\ Types /\ Tokens /\ Clean /\ Moves(r) /\ pc[r] # "done" /\ Course(r)
      /\ host' = host /\ call' = call /\ pc'[r] # "idle" /\ MaxTokens \in Nat
      /\ \A q \in Requests : Revoking(q)
      /\ \A q \in Requests \ {r} : pc'[q] = pc[q]
      /\ db.seq \in Nat /\ dirty.seq \in Nat /\ db.seq <= dirty.seq
      /\ \A n \in 1..MaxTokens : Token(n) \in Cells
  BY NamesAssumption DEF Step, IInv, Moves, Others, Types, StoreType, Tokens, Cells, Token
<1>2. /\ host[r] \in Workers /\ host[r] # Nobody
      /\ \A q \in Requests : pc[q] = "exec" => call[q] \in CallType
      /\ \A q \in Requests : pc[q] = "exec" /\ call[q].op = "revoke" => call[q].secret \in 1..MaxTokens
  BY <1>1, NamesAssumption, CallFacts DEF Course, Types, Step, IInv
<1>3. CASE Rests(r)
  <2>1. db' = db /\ dirty' = dirty /\ writer' = writer
    BY <1>3 DEF Rests, Resting
  <2>2. Tokens'
    BY <1>1, <2>1, RevocationStays DEF Tokens
  <2>3. ASSUME NEW q \in Requests \ {r} PROVE Revoking(q)'
    BY <1>1, <2>1, <2>3 DEF Revoking, View
  <2>4. Revoking(r)'
    <3>1. SUFFICES ASSUME pc'[r] = "exec", call[r].op = "revoke" PROVE Revoking(r)'
      BY <1>1 DEF Revoking
    <3>2. /\ s.row[Token(call[r].secret)] # NoRow
          /\ s.row[Token(call[r].secret)].own = call[r].who
      BY <1>3, <3>1 DEF Rests, Present, Row, Cell, Me, Token
    <3>3. call[r].secret \in 1..MaxTokens
      BY <1>1, <3>1, CallFacts DEF Course, Types
    <3>4. call[r].secret <= s.seq
      BY <1>1, <3>2, <3>3 DEF Tokens, View
    <3> QED BY <1>1, <2>1, <3>2, <3>4 DEF Revoking, View
  <2> QED BY <2>2, <2>3, <2>4
<1>4. CASE Writes(r)
  <2>1. /\ writer' = host[r] /\ db' = db /\ pc'[r] # "exec"
        /\ writer \in {Nobody, host[r]}
    <3>1. pc'[r] # "exec"
      BY <1>1, <1>4 DEF Writes, Moves, Course
    <3> QED BY <1>4, <3>1 DEF Writes, MayWrite
  \* What the writer sees is the open transaction.
  <2>2. s = dirty
    BY <1>1, <1>2, <2>1 DEF View, Clean
  <2>3. CASE dirty' = s
    <3>1. Tokens'
      BY <1>1, <2>1, <2>2, <2>3, RevocationStays DEF Tokens
    <3>2. ASSUME NEW q \in Requests, pc'[q] = "exec" PROVE Revoking(q)'
      BY <1>1, <1>2, <2>1, <2>2, <2>3, <3>2 DEF Revoking, View, Clean
    <3> QED BY <3>1, <3>2 DEF Revoking
  <2>4. ASSUME NEW c \in Cells, NEW x \in RowType \cup {NoRow}, NEW n \in 0..MaxTokens,
               Puts(r, c, x, n)
        PROVE  Tokens' /\ \A q \in Requests : Revoking(q)'
    <3>0. Types
      BY <1>1
    <3>1. /\ dirty'.seq = n
          /\ \A d \in Cells : dirty'.row[d] = IF d = c THEN x ELSE s.row[d]
      <4>1. dirty'.seq = n
        BY <3>0, <2>4 DEF Puts
      <4> QED BY <3>0, <2>4, <4>1, PutFacts DEF Puts
    <3>2. \/ c[1] # "users" /\ n = dirty.seq
          \/ c = Token(n) /\ n = dirty.seq + 1 /\ x # NoRow
          \/ /\ c = Token(call[r].secret) /\ call[r].secret \in 1..MaxTokens
             /\ n = dirty.seq /\ x = NoRow
             /\ call[r].op = "revoke" /\ pc[r] = "exec" /\ pc'[r] = "commit"
      BY <2>2, <2>4 DEF Puts
    <3>3. CASE c[1] # "users" /\ n = dirty.seq
      <4>1. \A m \in 1..MaxTokens : dirty'.row[Token(m)] = dirty.row[Token(m)]
        BY <2>2, <3>1, <3>3, TokenFacts
      <4>2. Tokens'
        BY <1>1, <2>1, <3>1, <3>3, <4>1, RevocationStays DEF Tokens
      <4>3. ASSUME NEW q \in Requests, pc'[q] = "exec" PROVE Revoking(q)'
        BY <1>1, <1>2, <2>1, <2>2, <3>1, <3>3, <4>1, <4>3 DEF Revoking, View, Clean
      <4> QED BY <4>2, <4>3 DEF Revoking
    <3>4. CASE c = Token(n) /\ n = dirty.seq + 1 /\ x # NoRow
      <4>1. \A m \in 1..MaxTokens : dirty'.row[Token(m)]
                                      = IF m = n THEN x ELSE dirty.row[Token(m)]
        BY <2>2, <3>1, <3>4, TokenFacts
      <4>2. Tokens'
        BY <1>1, <2>1, <3>1, <3>4, <4>1, RevocationStays DEF Tokens
      <4>3. ASSUME NEW q \in Requests, pc'[q] = "exec" PROVE Revoking(q)'
        BY <1>1, <1>2, <2>1, <2>2, <3>1, <3>4, <4>1, <4>3 DEF Revoking, View, Clean
      <4> QED BY <4>2, <4>3 DEF Revoking
    <3>5. CASE /\ c = Token(call[r].secret) /\ call[r].secret \in 1..MaxTokens
               /\ n = dirty.seq /\ x = NoRow
               /\ call[r].op = "revoke" /\ pc[r] = "exec" /\ pc'[r] = "commit"
      <4> DEFINE k == call[r].secret
      <4>1. \A m \in 1..MaxTokens : dirty'.row[Token(m)]
                                      = IF m = k THEN NoRow ELSE dirty.row[Token(m)]
        BY <2>2, <3>1, <3>5, TokenFacts
      <4>2. dirty.row[Token(k)] = NoRow \/ dirty.row[Token(k)].own = call[r].who
        BY <1>1, <2>2, <3>5 DEF Revoking
      <4>3. RevocationBy(call[r].who, k)'
        BY <1>1, <3>5 DEF RevocationBy
      <4>4. k <= dirty.seq
        BY <1>1, <2>2, <3>5 DEF Revoking
      <4>5. db.row[Token(k)] # NoRow => RevocationBy(db.row[Token(k)].own, k)'
        <5>1. CASE dirty.row[Token(k)] = NoRow
          <6>1. db.row[Token(k)] # NoRow => RevocationBy(db.row[Token(k)].own, k)
            BY <1>1, <3>5, <5>1 DEF Tokens
          <6> QED BY <1>1, <2>1, <6>1, RevocationStays
        <5>2. CASE dirty.row[Token(k)] # NoRow
          BY <1>1, <2>1, <3>5, <4>2, <4>3, <5>2 DEF Tokens
        <5> QED BY <5>1, <5>2
      <4>6. Tokens'
        <5> HIDE DEF k
        <5>1. ASSUME NEW m \in 1..MaxTokens, db.row[Token(m)] # NoRow,
                     dirty'.row[Token(m)] = NoRow
              PROVE  RevocationBy(db.row[Token(m)].own, m)'
          <6>1. CASE m = k
            BY <1>1, <2>1, <4>5, <5>1, <6>1 DEF k
          <6>2. CASE m # k
            <7>1. RevocationBy(db.row[Token(m)].own, m)
              BY <1>1, <4>1, <5>1, <6>2 DEF Tokens
            <7> QED BY <1>1, <2>1, <7>1, RevocationStays
          <6> QED BY <6>1, <6>2
        <5> QED BY <1>1, <2>1, <3>1, <3>5, <4>1, <5>1 DEF Tokens
      <4>7. ASSUME NEW q \in Requests, pc'[q] = "exec" PROVE Revoking(q)'
        BY <1>1, <1>2, <2>1, <2>2, <3>1, <3>5, <4>1, <4>7 DEF Revoking, View, Clean
      <4> QED BY <4>6, <4>7 DEF Revoking
    <3> QED BY <3>2, <3>3, <3>4, <3>5
  <2> QED BY <1>4, <2>3, <2>4 DEF Writes
<1>5. CASE Commits(r)
  <2>1. db' = s /\ dirty' = dirty /\ pc'[r] # "exec"
    BY <1>5 DEF Commits
  <2>2. CASE writer = host[r]
    <3>1. db' = dirty /\ writer' = Nobody
      BY <1>5, <2>1, <2>2 DEF Commits, View
    <3>2. Tokens'
      BY <1>1, <2>1, <3>1 DEF Tokens
    <3>3. ASSUME NEW q \in Requests, pc'[q] = "exec", call[q].op = "revoke" PROVE Revoking(q)'
      <4>1. q # r /\ pc[q] = "exec" /\ Revoking(q) /\ call[q].secret \in 1..MaxTokens
        BY <1>1, <1>2, <2>1, <3>3
      <4>2. View(host[q])' = dirty
        BY <2>1, <3>1 DEF View
      <4>3. CASE View(host[q]) = dirty
        BY <1>1, <3>3, <4>1, <4>2, <4>3 DEF Revoking
      <4>4. CASE View(host[q]) = db
        BY <1>1, <3>3, <4>1, <4>2, <4>4 DEF Revoking, Tokens
      <4> QED BY <4>3, <4>4 DEF View
    <3> QED BY <1>1, <3>2, <3>3 DEF Revoking
  <2>3. CASE writer # host[r]
    <3>1. db' = db /\ writer' = writer
      BY <1>5, <2>1, <2>3 DEF Commits, View
    <3>2. Tokens'
      BY <1>1, <2>1, <3>1, RevocationStays DEF Tokens
    <3>3. ASSUME NEW q \in Requests, pc'[q] = "exec" PROVE Revoking(q)'
      BY <1>1, <2>1, <3>1, <3>3 DEF Revoking, View
    <3> QED BY <3>2, <3>3 DEF Revoking
  <2> QED BY <2>2, <2>3
<1> QED BY <1>3, <1>4, <1>5 DEF Step

\* A worker that has written commits, or one of the two errors keeps the lock.
LEMMA HandlerLock ==
  ASSUME NEW r \in Requests, Step(r) PROVE LockOutlivesErrorsOnly'
<1>1. /\ LockOutlivesErrorsOnly /\ host' = host /\ call' = call /\ pc[r] # "done"
      /\ \A q \in Requests \ {r} : pc'[q] = pc[q] /\ reply'[q] = reply[q]
      /\ reply[r] = "none"
  BY DEF Step, IInv, Moves, Others, Course
<1>2. CASE Rests(r)
  BY <1>1, <1>2 DEF Rests, Resting, LockOutlivesErrorsOnly
<1>3. CASE Writes(r)
  BY <1>1, <1>3 DEF Writes, LockOutlivesErrorsOnly
<1>4. CASE Commits(r)
  <2>1. CASE writer = host[r]
    BY <1>4, <2>1, NamesAssumption DEF Commits, LockOutlivesErrorsOnly
  <2>2. CASE writer # host[r]
    BY <1>1, <1>4, <2>2 DEF Commits, LockOutlivesErrorsOnly
  <2> QED BY <2>1, <2>2
<1> QED BY <1>2, <1>3, <1>4 DEF Step

LEMMA HandlerKeeps ==
  ASSUME IInv, NEW r \in Requests, Handler(r) PROVE IInv'
<1>1. Step(r)
  BY HandlerSteps DEF IInv, Step
<1> QED BY <1>1, HandlerTypes, HandlerLegal, HandlerProgress, HandlerTokens, HandlerLock DEF IInv

----------------------------------------------------------------------------

(***************************************************************************)
(* The tool, the restarts and the crashes.                                 *)
(***************************************************************************)

\* The requests are as they were.
Bystanders == UNCHANGED <<reqVars, phase>>

LEMMA BystandersKeep ==
  ASSUME IInv, Bystanders
  PROVE  /\ \A r \in Requests : Course(r)'
         /\ \A o, n : RevocationBy(o, n)' = RevocationBy(o, n)
         /\ Resting => Tokens' /\ \A r \in Requests : Revoking(r)'
<1>1. UNCHANGED <<call, host, pc, reply, got, loop, phase>>
  BY DEF Bystanders, reqVars
<1>2. \A o, n : RevocationBy(o, n)' = RevocationBy(o, n)
  BY <1>1 DEF RevocationBy
<1>3. \A r \in Requests : Course(r)'
  BY <1>1 DEF IInv, Course
<1>4. ASSUME Resting PROVE Tokens' /\ \A r \in Requests : Revoking(r)'
  <2>1. Tokens /\ \A r \in Requests : Revoking(r)
    BY DEF IInv
  <2> QED BY <1>1, <1>2, <1>4, <2>1 DEF Resting, Tokens, Revoking, View
<1> QED BY <1>2, <1>3, <1>4

\* A step of the tool that only reads.
LEMMA ToolReads ==
  ASSUME IInv, Bystanders, Resting, UNCHANGED <<sealed, resealed>>, tool' \in ToolType,
         tool'.step # "idle" => phase >= 2, Progress'
  PROVE  IInv'
<1>1. UNCHANGED <<db, dirty, writer, call, host, pc, reply, got, loop, phase, sealed, resealed>>
  BY DEF Bystanders, reqVars, Resting
<1>2. Types'
  BY <1>1 DEF IInv, Types
<1>3. /\ \A v : Legal(v)' = Legal(v)
      /\ \A v : Stale(v)' = Stale(v)
  BY <1>1 DEF Legal, Stale, Seal, MyRing
<1>4. LegalStore(db)' /\ LegalStore(dirty)' /\ Clean' /\ StaleIsOld' /\ Phases'
  BY <1>1, <1>3 DEF IInv, LegalStore, Clean, StaleIsOld, Phases
<1>5. LockOutlivesErrorsOnly'
  BY <1>1 DEF IInv, LockOutlivesErrorsOnly
<1> QED BY <1>2, <1>4, <1>5, BystandersKeep DEF IInv

LEMMA ToolStartKeeps ==
  ASSUME IInv, NEW x \in BOOLEAN, ToolStart(x) PROVE IInv'
<1>1. /\ Bystanders /\ Resting /\ UNCHANGED <<sealed, resealed>> /\ MyRing # <<>>
      /\ tool' = [step |-> "select", tab |-> 1, list |-> {}, reseal |-> x]
  BY DEF ToolStart, UnchangedStore, Resting, Bystanders
<1>2. tool' \in ToolType
  BY <1>1 DEF ToolType
<1>3. phase \in 1..4 /\ phase >= 2
  BY <1>1, RingFacts DEF IInv, Types
<1>4. Progress'
  <2>1. \A t : ~Past(t)'
    BY <1>1 DEF Past
  <2> QED BY <1>1, <2>1 DEF Progress, Done
<1> QED BY <1>1, <1>2, <1>3, <1>4, ToolReads

\* The next table, or the commit after the last.
LEMMA NextTableFacts ==
  ASSUME tool \in ToolType, tool.step \in {"select", "update"}, NextTable
  PROVE  /\ tool' \in ToolType /\ tool'.step \in {"select", "commit"} /\ tool'.list = {}
         /\ tool'.reseal = tool.reseal
         /\ \A t : Past(t)' => Past(t) \/ t = TableSeq[tool.tab]
<1>1. /\ tool.tab \in 1..3 /\ tool.list \in SUBSET RowType /\ tool.reseal \in BOOLEAN
      /\ tool = [step |-> tool.step, tab |-> tool.tab, list |-> tool.list, reseal |-> tool.reseal]
  BY DEF ToolType
<1>2. Len(TableSeq) = 3 /\ TableSeq[1] = "users" /\ TableSeq[2] = "provider" /\ TableSeq[3] = "prompt"
  BY DEF TableSeq
<1>3. CASE tool.tab = 3
  <2>1. tool' = [step |-> "commit", tab |-> 3, list |-> {}, reseal |-> tool.reseal]
    BY <1>1, <1>2, <1>3 DEF NextTable
  <2>2. tool' \in ToolType
    BY <1>1, <2>1 DEF ToolType
  <2>3. \A t : Past(t)' => Past(t) \/ t = TableSeq[tool.tab]
    BY <1>2, <1>3, <2>1 DEF Past
  <2> QED BY <2>1, <2>2, <2>3
<1>4. CASE tool.tab # 3
  <2>1. tool' = [step |-> "select", tab |-> tool.tab + 1, list |-> {}, reseal |-> tool.reseal]
    BY <1>1, <1>2, <1>4 DEF NextTable
  <2>2. tool' \in ToolType
    BY <1>1, <1>4, <2>1 DEF ToolType
  <2>3. \A t : Past(t)' => Past(t) \/ t = TableSeq[tool.tab]
    BY <1>1, <1>4, <2>1 DEF Past
  <2> QED BY <2>1, <2>2, <2>3
<1> QED BY <1>3, <1>4

\* What is pending in either store is a committed row, or the tool's own.
LEMMA PendingIsRead ==
  ASSUME IInv, tool.step # "idle", NEW c \in Cells, NEW s \in {db, dirty},
         writer = Tool => s = dirty, Pending(s.row[c])
  PROVE  View(Tool).row[c] = s.row[c] /\ s.row[c] \in ToSeal(c[1])
<1>1. /\ phase \in 1..4 /\ phase >= 2 /\ Clean /\ StaleIsOld
      /\ writer \in Workers \cup {Tool, Nobody}
  BY DEF IInv, Phases, Types
<1>2. Holds(s.row[c]) /\ Stale(s.row[c].val)
  BY <1>1, NotForTheTool DEF IInv
<1>3. View(Tool).row[c] = s.row[c]
  <2>1. CASE writer = Tool
    BY <2>1 DEF View
  <2>2. CASE writer # Tool
    BY <1>1, <1>2, <2>2 DEF View, Clean, StaleIsOld
  <2> QED BY <2>1, <2>2
<1>4. s.row[c].val.by = "plain" \/ tool.reseal
  BY DEF Pending
<1> QED BY <1>2, <1>3, <1>4 DEF Holds, ToSeal

LEMMA ToolSelectKeeps ==
  ASSUME IInv, ToolSelect PROVE IInv'
<1> DEFINE L == ToSeal(TableSeq[tool.tab])
<1>1. /\ Bystanders /\ Resting /\ UNCHANGED <<sealed, resealed>> /\ tool.step = "select"
      /\ tool \in ToolType /\ Types /\ Progress /\ phase' = phase /\ phase >= 2
  BY DEF ToolSelect, UnchangedStore, Resting, Bystanders, IInv, Types, Phases
<1>2. L \subseteq RowType /\ \A x \in L : x.val # Null
  BY <1>1, ViewFacts DEF ToSeal
<1>3. ASSUME NEW s \in {db, dirty}, writer = Tool => s = dirty, NEW c \in Cells,
             Pending(s.row[c])
      PROVE  ~Past(c[1]) /\ (c[1] = TableSeq[tool.tab] => s.row[c] \in L)
  <2>1. Done(s)
    BY <1>1, <1>3 DEF Progress
  <2> QED BY <1>1, <1>3, <2>1, PendingIsRead DEF Done
<1>4. \A y : tool'.reseal = tool.reseal => Pending(y)' = Pending(y)
  BY <1>1 DEF Pending, MyRing
<1> HIDE DEF L
<1>5. CASE L = {} /\ NextTable
  <2>1. /\ tool' \in ToolType /\ tool'.step \in {"select", "commit"} /\ tool'.list = {}
        /\ tool'.reseal = tool.reseal
        /\ \A t : Past(t)' => Past(t) \/ t = TableSeq[tool.tab]
    BY <1>1, <1>5, NextTableFacts
  <2>2. ASSUME NEW s \in {db, dirty}, writer = Tool => s = dirty, NEW c \in Cells,
               Pending(s.row[c])'
        PROVE  ~Past(c[1])'
    BY <1>1, <1>3, <1>4, <1>5, <2>1, <2>2 DEF Resting
  <2>3. Progress'
    BY <1>1, <2>1, <2>2 DEF Progress, Done, Resting
  <2> QED BY <1>1, <2>1, <2>3, ToolReads
<1>6. CASE tool' = [tool EXCEPT !.step = "update", !.list = L]
  <2>1. tool' = [step |-> "update", tab |-> tool.tab, list |-> L, reseal |-> tool.reseal]
    BY <1>1, <1>6 DEF ToolType
  <2>2. tool' \in ToolType /\ \A t : Past(t)' => Past(t)
    BY <1>1, <1>2, <2>1 DEF ToolType, Past
  <2>3. Progress'
    BY <1>1, <1>2, <1>3, <1>4, <2>1, <2>2 DEF Progress, Done, Resting
  <2> QED BY <1>1, <2>1, <2>2, <2>3, ToolReads
<1> QED BY <1>5, <1>6 DEF ToolSelect, L

\* A row the tool has written: the same but for the value, which is legal.
LEMMA SealedRow ==
  ASSUME Types, Phases, phase >= 2, NEW x \in RowType, NEW w \in Secrets
  PROVE  LET y == [x EXCEPT !.val = Seal(MyRing, w)]
         IN  /\ y \in RowType /\ y # NoRow /\ y.rid = x.rid /\ y.own = x.own
             /\ Holds(y) => Legal(y.val) /\ ~Stale(y.val)
<1> DEFINE v == Seal(MyRing, w)
<1>1. v \in ValueType /\ (v # Null => Legal(v) /\ ~Stale(v))
  <2>1. MaySeal(MyRing, w)
    BY RingFacts DEF Types, MaySeal
  <2> QED BY <2>1, SealedIsLegal
<1> HIDE DEF v
<1>2. [x EXCEPT !.val = v] = [rid |-> x.rid, val |-> v, own |-> x.own]
      /\ x.rid \in Nat /\ x.own \in Users \cup Models \cup Conns
  BY DEF RowType
<1>3. [x EXCEPT !.val = v] \in RowType
  BY <1>1, <1>2 DEF RowType
<1> QED BY <1>1, <1>2, <1>3, NoRowAssumption DEF Holds, v

\* What an UPDATE of the tool does to each row.
LEMMA UpdateFacts ==
  ASSUME IInv, ToolUpdate
  PROVE  /\ dirty' \in StoreType /\ dirty'.seq = View(Tool).seq
         /\ \A c \in Cells :
              LET x == View(Tool).row[c]
                  y == dirty'.row[c]
              IN  \/ /\ y = x
                     /\ x # NoRow /\ c[1] = TableSeq[tool.tab] =>
                          ~\E z \in tool.list : z.rid = x.rid
                  \/ /\ x # NoRow /\ y # NoRow /\ y.own = x.own
                     /\ Holds(y) => Legal(y.val) /\ ~Stale(y.val)
<1> DEFINE s == View(Tool)
           t == TableSeq[tool.tab]
           Hit(c) == /\ c[1] = t /\ s.row[c] # NoRow
                     /\ \E x \in tool.list : x.rid = s.row[c].rid
           Old(c) == CHOOSE x \in tool.list : x.rid = s.row[c].rid
           New(c) == [s.row[c] EXCEPT !.val = Seal(MyRing, Old(c).val.text)]
<1>1. /\ Types /\ Phases /\ phase >= 2 /\ tool \in ToolType /\ Progress
      /\ s \in StoreType /\ s = [row |-> s.row, seq |-> s.seq] /\ s.seq \in 0..MaxTokens
      /\ \A c \in Cells : s.row[c] \in RowType \cup {NoRow}
  BY ViewFacts DEF IInv, Types, Phases, ToolUpdate
<1>2. dirty' = [s EXCEPT !.row = [c \in Cells |-> IF Hit(c) THEN New(c) ELSE s.row[c]]]
  BY DEF ToolUpdate, Write
<1>3. ASSUME NEW c \in Cells, Hit(c)
      PROVE  /\ New(c) \in RowType /\ New(c) # NoRow /\ New(c).own = s.row[c].own
             /\ Holds(New(c)) => Legal(New(c).val) /\ ~Stale(New(c).val)
  <2>1. Old(c) \in tool.list
    BY <1>3
  <2>2. Old(c) \in RowType /\ Old(c).val # Null
    BY <1>1, <2>1 DEF ToolType, Progress
  <2>3. Old(c).val.text \in Secrets
    BY <2>2 DEF RowType, ValueType
  <2>4. s.row[c] \in RowType
    BY <1>1, <1>3
  <2> HIDE DEF Old, s
  <2> QED BY <1>1, <2>3, <2>4, SealedRow
<1> HIDE DEF s, New, Old
<1>4. dirty' = [row |-> [c \in Cells |-> IF Hit(c) THEN New(c) ELSE s.row[c]], seq |-> s.seq]
  BY <1>1, <1>2
<1>5. dirty' \in StoreType
  <2>1. [c \in Cells |-> IF Hit(c) THEN New(c) ELSE s.row[c]] \in [Cells -> RowType \cup {NoRow}]
    <3> HIDE DEF Hit
    <3> QED BY <1>1, <1>3
  <2> HIDE DEF Hit
  <2> QED BY <1>1, <1>4, <2>1 DEF StoreType
<1>6. \A c \in Cells : \/ dirty'.row[c] = s.row[c] /\ ~Hit(c)
                       \/ dirty'.row[c] = New(c) /\ Hit(c)
  <2> HIDE DEF Hit
  <2> QED BY <1>4
<1> QED BY <1>3, <1>4, <1>5, <1>6 DEF s

LEMMA ToolUpdateKeeps ==
  ASSUME IInv, ToolUpdate PROVE IInv'
<1> DEFINE s == View(Tool)
<1>1. /\ Bystanders /\ UNCHANGED <<sealed, resealed, call, host, pc, reply, got, loop, phase>>
      /\ tool.step = "update" /\ tool \in ToolType /\ phase >= 2
      /\ Types /\ Progress /\ Phases /\ Clean /\ Tokens /\ MaxTokens \in Nat
      /\ writer \in {Nobody, Tool} /\ writer' = Tool /\ db' = db /\ NextTable
      /\ Tool \notin Workers /\ Tool # Nobody
  BY NamesAssumption DEF ToolUpdate, Write, MayWrite, Bystanders, IInv, Types, Phases, reqVars
<1>2. /\ tool' \in ToolType /\ tool'.step \in {"select", "commit"} /\ tool'.list = {}
      /\ tool'.reseal = tool.reseal
      /\ \A t : Past(t)' => Past(t) \/ t = TableSeq[tool.tab]
  BY <1>1, NextTableFacts
<1>3. s = dirty
  BY <1>1 DEF View, Clean
<1>4. /\ \A v : Legal(v)' = Legal(v)
      /\ \A v : Stale(v)' = Stale(v)
      /\ \A x : Pending(x)' = Pending(x)
  BY <1>1, <1>2 DEF Legal, Stale, Seal, MyRing, Pending
<1>5. /\ dirty' \in StoreType /\ dirty'.seq = dirty.seq
      /\ \A c \in Cells :
              LET x == dirty.row[c]
                  y == dirty'.row[c]
              IN  \/ /\ y = x
                     /\ x # NoRow /\ c[1] = TableSeq[tool.tab] =>
                          ~\E z \in tool.list : z.rid = x.rid
                  \/ /\ x # NoRow /\ y # NoRow /\ y.own = x.own
                     /\ Holds(y) => Legal(y.val) /\ ~Stale(y.val)
  BY <1>3, UpdateFacts
<1>6. Types'
  BY <1>1, <1>2, <1>5 DEF Types
<1>7. LegalStore(db)' /\ LegalStore(dirty)'
  BY <1>1, <1>4, <1>5 DEF IInv, LegalStore
<1>8. Phases' /\ Clean' /\ StaleIsOld' /\ LockOutlivesErrorsOnly'
  BY <1>1 DEF Phases, Clean, StaleIsOld, LockOutlivesErrorsOnly
<1>9. Progress'
  <2>1. Done(dirty)
    BY <1>1 DEF Progress
  <2>2. ASSUME NEW c \in Cells, Pending(dirty'.row[c]) PROVE ~Past(c[1])'
    <3>1. ~(Holds(dirty'.row[c]) => Legal(dirty'.row[c].val) /\ ~Stale(dirty'.row[c].val))
      BY <1>1, <2>2, NotForTheTool DEF Types
    <3>2. /\ dirty'.row[c] = dirty.row[c] /\ dirty.row[c] # NoRow
          /\ c[1] = TableSeq[tool.tab] => ~\E z \in tool.list : z.rid = dirty.row[c].rid
      BY <1>5, <2>2, <3>1 DEF Pending, Holds
    <3> QED BY <1>1, <1>2, <2>1, <2>2, <3>2 DEF Done
  <2> QED BY <1>1, <1>2, <1>4, <2>2 DEF Progress, Done
<1>10. Tokens'
  <2>1. \A n \in 1..MaxTokens :
          /\ dirty'.row[Token(n)] = NoRow <=> dirty.row[Token(n)] = NoRow
          /\ dirty.row[Token(n)] # NoRow => dirty'.row[Token(n)].own = dirty.row[Token(n)].own
    BY <1>5, TokenFacts
  <2> QED BY <1>1, <1>5, <2>1, BystandersKeep DEF Tokens
<1>11. ASSUME NEW r \in Requests PROVE Revoking(r)'
  BY <1>1 DEF IInv, Revoking, View, Course, Types
<1> QED BY <1>1, <1>6, <1>7, <1>8, <1>9, <1>10, <1>11, BystandersKeep DEF IInv

\* The seal tool ends: what it has written is committed, and nothing is plain.
LEMMA ToolCommitKeeps ==
  ASSUME IInv, ToolCommit PROVE IInv'
<1>1. /\ Bystanders /\ UNCHANGED <<call, host, pc, reply, got, loop, phase>>
      /\ tool.step = "commit" /\ tool' = IdleTool /\ sealed' = TRUE
      /\ resealed' = (resealed \/ tool.reseal) /\ tool \in ToolType
      /\ phase >= 2 /\ phase \in 1..4
      /\ Types /\ Progress /\ Phases /\ Clean /\ Tokens /\ MaxTokens \in Nat
      /\ dirty' = dirty /\ Nobody \notin Workers \cup {Tool} /\ Tool \notin Workers
      /\ db' = IF writer = Tool THEN dirty ELSE db
      /\ writer' = IF writer = Tool THEN Nobody ELSE writer
  BY NamesAssumption DEF ToolCommit, Commit, Bystanders, IInv, Types, Phases, reqVars
<1>2. Types'
  <2>1. tool' \in ToolType
    BY <1>1 DEF IdleTool, ToolType
  <2> QED BY <1>1, <2>1 DEF Types
<1>3. ASSUME NEW s \in {db', dirty'}, NEW c \in Cells, Holds(s.row[c])
      PROVE  Legal(s.row[c].val)'
  <2>1. s \in {db, dirty} /\ Done(s)
    BY <1>1, <1>3 DEF Progress
  <2>2. Past(c[1])
    BY <1>1 DEF Past, Cells
  <2>3. ~Pending(s.row[c])
    BY <2>1, <2>2 DEF Done
  <2>4. Legal(s.row[c].val)
    BY <1>3, <2>1 DEF IInv, LegalStore
  <2> QED BY <1>1, <1>3, <2>3, <2>4, RingFacts DEF Pending, Legal
<1>4. LegalStore(db)' /\ LegalStore(dirty)'
  BY <1>3 DEF LegalStore
<1>5. Phases' /\ Clean'
  BY <1>1 DEF Phases, Clean
<1>6. StaleIsOld'
  BY <1>1 DEF IInv, StaleIsOld, Stale, Seal, MyRing
<1>7. Progress'
  BY <1>1 DEF Progress, IdleTool
<1>8. LockOutlivesErrorsOnly'
  BY <1>1 DEF IInv, LockOutlivesErrorsOnly
<1>9. Tokens'
  <2>1. CASE writer = Tool
    BY <1>1, <2>1 DEF Tokens, Types, StoreType
  <2>2. CASE writer # Tool
    BY <1>1, <2>2, BystandersKeep DEF Tokens
  <2> QED BY <2>1, <2>2
<1>10. ASSUME NEW q \in Requests, pc[q] = "exec", call[q].op = "revoke" PROVE Revoking(q)'
  <2>1. /\ call[q].secret \in 1..MaxTokens /\ host[q] \in Workers /\ Revoking(q)
        /\ db.seq \in Nat /\ dirty.seq \in Nat /\ db.seq <= dirty.seq
    BY <1>1, <1>10, CallFacts DEF IInv, Course, Types, Tokens, StoreType
  <2>2. CASE writer = Tool
    <3>1. View(host[q]) = db /\ View(host[q])' = dirty
      BY <1>1, <2>1, <2>2 DEF View
    <3> QED BY <1>1, <1>10, <2>1, <3>1 DEF Revoking, Tokens
  <2>3. CASE writer # Tool
    BY <1>1, <2>1, <2>3 DEF Revoking, View
  <2> QED BY <2>2, <2>3
<1>11. \A q \in Requests : Revoking(q)'
  BY <1>1, <1>10 DEF Revoking
<1> QED BY <1>1, <1>2, <1>4, <1>5, <1>6, <1>7, <1>8, <1>9, <1>11, BystandersKeep DEF IInv

\* The connections of some processes close, and requests of theirs are lost.
Loses(P) ==
  /\ Rollback(P)
  /\ UNCHANGED <<call, host, got>>
  /\ pc \in [Requests -> Steps] /\ pc' \in [Requests -> Steps] /\ reply' \in [Requests -> Replies]
  /\ loop' \in [Workers -> Requests \cup {Nobody}]
  /\ \A q \in Requests :
       \/ pc'[q] = pc[q] /\ reply'[q] = reply[q] /\ (host[q] \in P => pc[q] # "exec")
       \/ pc[q] # "idle" /\ pc'[q] = "done" /\ host[q] \in P

LEMMA RollbackKeeps ==
  ASSUME IInv, NEW P \in SUBSET (Workers \cup {Tool}), Loses(P),
         Tool \in P => tool' = IdleTool, tool' \in {tool, IdleTool},
         phase' \in {phase, phase + 1}, phase' \in 1..4, sealed' = sealed,
         resealed' \in BOOLEAN, phase' # phase => tool'.step = "idle" /\ Workers \subseteq P,
         \A v : Legal(v) => Legal(v)'
  PROVE  IInv'
<1>1. /\ Types /\ Tokens /\ Clean /\ Progress /\ Phases /\ db' = db /\ call' = call /\ host' = host
      /\ dirty' = IF writer \in P THEN db ELSE dirty
      /\ writer' = IF writer \in P THEN Nobody ELSE writer
      /\ Nobody \notin Workers \cup {Tool} /\ Tool \notin Workers
      /\ got' = got /\ tool \in ToolType /\ phase \in 1..4
  BY NamesAssumption DEF IInv, Types, Loses, Rollback
<1>2. Types'
  <2>1. IdleTool \in ToolType
    BY DEF IdleTool, ToolType
  <2> QED BY <1>1, <2>1 DEF Types, Loses
<1>3. \A q \in Requests : Course(q)'
  BY <1>1 DEF IInv, Course, Loses
<1>4. LegalStore(db)' /\ LegalStore(dirty)'
  BY <1>1 DEF IInv, LegalStore
<1>5. Phases' /\ Clean'
  BY <1>1 DEF Phases, Clean, IdleTool
<1>6. StaleIsOld'
  <2>1. SUFFICES ASSUME writer' \in Workers PROVE StaleIsOld'
    BY DEF StaleIsOld
  <2>2. writer' = writer /\ dirty' = dirty /\ phase' = phase
    BY <1>1, <2>1
  <2> QED BY <1>1, <2>2 DEF IInv, StaleIsOld, Stale, Seal, MyRing
<1>7. Progress'
  <2>1. CASE tool'.step = "idle"
    BY <1>1, <2>1 DEF Progress, IdleTool
  <2>2. CASE tool'.step # "idle"
    <3>1. tool' = tool /\ phase' = phase
      BY <2>2 DEF IdleTool
    <3>2. /\ \A x : Pending(x)' = Pending(x)
          /\ \A t : Past(t)' = Past(t)
      BY <3>1 DEF Pending, Past, MyRing
    <3>3. Tool \notin P
      BY <2>2 DEF IdleTool
    <3>4. Done(dirty)' /\ (writer' # Tool => Done(db)')
      BY <1>1, <2>2, <3>1, <3>2, <3>3 DEF Progress, Done
    <3> QED BY <1>1, <3>1, <3>4 DEF Progress
  <2> QED BY <2>1, <2>2
<1>8. Tokens'
  <2>1. CASE writer \in P
    BY <1>1, <2>1 DEF Tokens, Types, StoreType
  <2>2. CASE writer \notin P
    <3>1. \A o, n : RevocationBy(o, n) => RevocationBy(o, n)'
      BY <1>1 DEF RevocationBy, Loses
    <3> QED BY <1>1, <2>2, <3>1 DEF Tokens
  <2> QED BY <2>1, <2>2
<1>9. ASSUME NEW q \in Requests, pc'[q] = "exec" PROVE Revoking(q)'
  <2>1. pc[q] = "exec" /\ host[q] \notin P /\ Revoking(q) /\ host[q] \in Workers
    BY <1>1, <1>9 DEF Loses, IInv, Course, Types
  <2> QED BY <1>1, <2>1 DEF Revoking, View
<1>10. LockOutlivesErrorsOnly'
  BY <1>1 DEF IInv, LockOutlivesErrorsOnly, Loses
<1> QED BY <1>2, <1>3, <1>4, <1>5, <1>6, <1>7, <1>8, <1>9, <1>10 DEF IInv, Revoking

LEMMA ToolFailKeeps ==
  ASSUME IInv, ToolFail PROVE IInv'
<1>1. /\ Rollback({Tool}) /\ tool' = IdleTool /\ UNCHANGED <<reqVars, sealed, resealed, phase>>
      /\ Types /\ Tool \notin Workers /\ Tool # Nobody
  BY NamesAssumption DEF ToolFail, IInv
<1>2. Loses({Tool})
  BY <1>1 DEF Loses, reqVars, Types
<1>3. \A v : Legal(v)' = Legal(v)
  BY <1>1 DEF Legal
<1>4. phase' \in 1..4 /\ resealed' \in BOOLEAN
  BY <1>1 DEF Types
<1> QED BY <1>1, <1>2, <1>3, <1>4, RollbackKeeps

\* The requests in flight on the workers P are lost.
LEMMA InFlightLost ==
  ASSUME IInv, NEW P \in SUBSET Workers, Lose(InFlight(P)), Rollback(P)
  PROVE  Loses(P)
<1>1. Types
  BY DEF IInv
<1>2. /\ pc' \in [Requests -> Steps] /\ reply' \in [Requests -> Replies]
      /\ loop' \in [Workers -> Requests \cup {Nobody}]
  BY <1>1 DEF Lose, Types, Steps, Replies
<1> QED BY <1>1, <1>2 DEF Loses, Lose, InFlight, Types

LEMMA RestartKeeps ==
  ASSUME IInv, Restart PROVE IInv'
<1>1. /\ Types /\ phase \in 1..4 /\ phase < Len(Ring) /\ tool.step = "idle" /\ tool' = tool
      /\ phase' = phase + 1 /\ resealed' = FALSE /\ sealed' = sealed
      /\ phase = 3 => resealed
      /\ Rollback(Workers) /\ Lose(InFlight(Workers)) /\ Phases
  BY DEF Restart, IInv, Types
<1>2. phase < 4 /\ Loses(Workers)
  BY <1>1, InFlightLost DEF Ring
<1>3. ASSUME NEW v, Legal(v) PROVE Legal(v)'
  <2>1. CASE phase = 3
    BY <1>1, <1>3, <2>1 DEF Legal, Sealers
  <2>2. CASE phase \in {1, 2}
    BY <1>1, <1>3, <2>2 DEF Legal, Sealers
  <2> QED BY <1>1, <1>2, <2>1, <2>2
<1>4. resealed' \in BOOLEAN
  BY <1>1
<1>5. phase' \in 1..4
  BY <1>1, <1>2
<1> QED BY <1>1, <1>2, <1>3, <1>4, <1>5, RollbackKeeps, NamesAssumption

LEMMA WorkerCrashKeeps ==
  ASSUME IInv, NEW w \in Workers, WorkerCrash(w) PROVE IInv'
<1>1. /\ Rollback({w}) /\ Lose(InFlight({w})) /\ UNCHANGED <<tool, sealed, resealed, phase>> /\ Types
  BY DEF WorkerCrash, toolVars, IInv
<1>2. Loses({w})
  BY <1>1, InFlightLost
<1>3. \A v : Legal(v)' = Legal(v)
  BY <1>1 DEF Legal
<1>4. phase' \in 1..4 /\ resealed' \in BOOLEAN
  BY <1>1 DEF Types
<1> QED BY <1>1, <1>2, <1>3, <1>4, RollbackKeeps, NamesAssumption

----------------------------------------------------------------------------
(***************************************************************************)
(* The theorems.                                                           *)
(***************************************************************************)

LEMMA InitHolds == Init => IInv
<1> SUFFICES ASSUME Init PROVE IInv
  OBVIOUS
<1>1. PICK b \in Starts : db = b.store /\ call = b.calls
  BY DEF Init
<1>2. /\ db \in StoreType /\ call \in [Requests -> CallType \cup {NoCall}]
      /\ \A c \in Cells : db.row[c] # NoRow =>
           /\ db.row[c].val # Null => db.row[c].val.by = "plain" /\ db.row[c].val.text \notin Tricky
           /\ c[1] = "users" => c[2] <= db.seq
  BY <1>1, StartsAssumption, CallsAssumption
<1>3. /\ dirty = db /\ writer = Nobody /\ phase = 1 /\ sealed = FALSE /\ resealed = FALSE
      /\ tool = IdleTool /\ Nobody \notin Workers \cup {Tool}
      /\ loop = [w \in Workers |-> Nobody]
      /\ reply = [r \in Requests |-> "none"] /\ got = [r \in Requests |-> Null]
      /\ pc = [r \in Requests |-> IF call[r] = NoCall THEN "done" ELSE "idle"]
      /\ host \in [Requests -> Workers \cup {Nobody}]
      /\ \A r \in Requests : host[r] = Nobody <=> call[r] = NoCall
  BY NamesAssumption DEF Init
<1>4. Types
  <2>1. IdleTool \in ToolType
    BY DEF IdleTool, ToolType
  <2>2. pc \in [Requests -> Steps] /\ reply \in [Requests -> Replies]
    BY <1>3 DEF Steps, Replies
  <2>3. got \in [Requests -> Secrets \cup {Null}] /\ loop \in [Workers -> Requests \cup {Nobody}]
    BY <1>3
  <2>4. phase \in 1..4
    BY <1>3
  <2>5. sealed \in BOOLEAN /\ resealed \in BOOLEAN
    BY <1>3
  <2> QED BY <1>2, <1>3, <2>1, <2>2, <2>3, <2>4, <2>5 DEF Types
<1>5. \A r \in Requests : Course(r) /\ Revoking(r)
  BY <1>3 DEF Course, Revoking
<1>6. LegalStore(db) /\ LegalStore(dirty)
  BY <1>2, <1>3 DEF LegalStore, Holds, Legal, Sealers
<1>7. Phases /\ Clean /\ StaleIsOld /\ Progress /\ LockOutlivesErrorsOnly
  BY <1>3 DEF Phases, Clean, StaleIsOld, Progress, IdleTool, LockOutlivesErrorsOnly
<1>8. Tokens
  <2>1. \A n \in 1..MaxTokens : Token(n) \in Cells /\ Token(n)[1] = "users" /\ Token(n)[2] = n
    BY DEF Token, Cells
  <2>2. db.seq \in Nat
    BY <1>2 DEF StoreType
  <2> QED BY <1>2, <1>3, <2>1, <2>2 DEF Tokens
<1> QED BY <1>4, <1>5, <1>6, <1>7, <1>8 DEF IInv

LEMMA StutterKeeps == IInv /\ UNCHANGED vars => IInv'
<1> SUFFICES ASSUME IInv, UNCHANGED vars PROVE IInv'
  OBVIOUS
<1>1. /\ Bystanders /\ Resting /\ UNCHANGED <<tool, sealed, resealed, phase>> /\ tool \in ToolType
      /\ Progress /\ Phases
  BY DEF vars, toolVars, Bystanders, Resting, IInv, Types
<1>2. Progress'
  BY <1>1 DEF Progress, Done, Pending, Past, MyRing, Resting
<1> QED BY <1>1, <1>2, ToolReads DEF Phases

\* The invariant, for any requests, workers, secrets and starts.
THEOREM StoreInvariance == Spec => []IInv
<1>1. IInv /\ [Next]_vars => IInv'
  BY HandlerKeeps, ToolStartKeeps, ToolSelectKeeps, ToolUpdateKeeps, ToolCommitKeeps,
     ToolFailKeeps, RestartKeeps, WorkerCrashKeeps, StutterKeeps DEF Next, SealTool
<1> QED BY InitHolds, <1>1, PTL DEF Spec

\* Turning sealing on and rotating the key locks no tenant out.
THEOREM NobodyIsLockedOut == Spec => []EverySecretOpens
<1>1. IInv => EverySecretOpens
  <2> SUFFICES ASSUME IInv, NEW s \in {db, dirty}, NEW c \in Cells, Holds(s.row[c])
               PROVE  Opens(MyRing, s.row[c].val)
    BY DEF EverySecretOpens, Values, Holds
  <2>1. Legal(s.row[c].val) /\ phase \in 1..4 /\ s \in StoreType
    BY DEF IInv, LegalStore, Types
  <2>2. s.row[c].val \in ValueType
    BY <2>1 DEF StoreType, RowType, Holds
  <2> QED BY <2>1, <2>2, LegalOpens
<1> QED BY StoreInvariance, <1>1, PTL

\* What the tool has sealed once is never stored in the clear again.
THEOREM NothingIsUnsealed == Spec => []SealedStaysSealed
<1>1. IInv => SealedStaysSealed
  BY DEF IInv, LegalStore, Legal, Holds, SealedStaysSealed, Values
<1> QED BY StoreInvariance, <1>1, PTL

\* Two errors alone leave a worker with the write lock.
THEOREM LockIsGivenBack == Spec => []LockOutlivesErrorsOnly
<1>1. IInv => LockOutlivesErrorsOnly
  BY DEF IInv
<1> QED BY StoreInvariance, <1>1, PTL

\* A token is revoked by its owner, though the handler looks in one statement
\* and deletes in another, and two processes write.
THEOREM TokensAreTheirOwners == Spec => RevokedByOwner
<1>1. IInv /\ [Next]_vars => [OwnersRevoke]_vars
  <2> SUFFICES ASSUME IInv, Next PROVE OwnersRevoke
    OBVIOUS
  \* What is committed is what a process saw.
  <2>1. db' = db \/ db' = dirty
    <3>1. ASSUME NEW r \in Requests, Handler(r) PROVE db' = db \/ db' = dirty
      <4>1. Rests(r) \/ Writes(r) \/ Commits(r)
        BY <3>1, HandlerSteps DEF IInv
      <4> QED BY <4>1 DEF Rests, Resting, Writes, Commits, View
    <3>2. CASE SealTool
      BY <3>2 DEF SealTool, ToolStart, ToolSelect, ToolUpdate, ToolCommit, ToolFail, Write, Commit,
         Rollback, UnchangedStore
    <3>3. CASE Restart
      BY <3>3 DEF Restart, Rollback
    <3>4. ASSUME NEW w \in Workers, WorkerCrash(w) PROVE db' = db
      BY <3>4 DEF WorkerCrash, Rollback
    <3> QED BY <3>1, <3>2, <3>3, <3>4 DEF Next
  <2>2. SUFFICES ASSUME NEW n \in 1..MaxTokens, db.row[Token(n)] # NoRow,
                        \/ db'.row[Token(n)] = NoRow
                        \/ db'.row[Token(n)].own # db.row[Token(n)].own
                 PROVE  RevocationBy(db.row[Token(n)].own, n)
    BY DEF OwnersRevoke, Token
  <2> QED BY <2>1, <2>2 DEF IInv, Tokens
<1> QED BY StoreInvariance, <1>1, PTL DEF Spec, RevokedByOwner
=============================================================================
