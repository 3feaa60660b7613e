--------------------------- MODULE Profile_proofs ---------------------------
(***************************************************************************)
(* Proofs about Profile, for any number of requests, workers and keys.     *)
(*                                                                         *)
(* The limit on keys is checked outside of the transaction that writes.    *)
(* What bounds the profile nevertheless is the event loop: between its     *)
(* check and its answer a PUT holds the loop of its worker, so that no     *)
(* more PUTs than workers have been admitted and not committed.  Counted   *)
(* together with the keys these are about to add, the live keys are never  *)
(* more than MaxKeys + Cardinality(Workers) - 1.                           *)
(***************************************************************************)
EXTENDS Profile, Lemmas

\* The PUTs that have passed the check and have not committed, and their keys.
Admitted == {r \in Requests : /\ call[r].op = "put"
                              /\ pc[r] \in {"read", "insert", "commit"}}
AdmittedKeys == {call[r].key : r \in Admitted}

\* The keys that are live or will be once every admitted PUT has committed.
Held == Live(rows) \cup AdmittedKeys

Types ==
  /\ loop \in [Workers -> Requests \cup {NoRequest}]
  /\ call \in [Requests -> Calls] /\ host \in [Requests -> Workers]
  /\ pc \in [Requests -> Steps]
  /\ mine = [r \in Requests |-> mine[r]]

\* An admitted PUT has the loop of its worker.
LoopHeld == \A r \in Admitted : loop[host[r]] = r

\* The version a transaction has inserted is the one that was asked for.
Mine == \A r \in Requests : \A v \in mine[r] :
          v.key = call[r].key /\ v.deleted = (call[r].op = "delete")

Bounded == /\ IsFiniteSet(Held)
           /\ Cardinality(Held) <= MaxKeys + Cardinality(Workers) - 1

LimitInv == Types /\ LoopHeld /\ Mine /\ Bounded

----------------------------------------------------------------------------
(***************************************************************************)
(* Facts about the entries of a profile.                                   *)
(***************************************************************************)

\* A new version makes at most its own key live; a tombstone makes none live.
LEMMA LiveAfterVersion ==
  ASSUME NEW S, NEW V
  PROVE  Live(S \cup V) \subseteq Live(S) \cup {v.key : v \in {u \in V : ~u.deleted}}
BY DEF Live, Entries

\* A finite table has finitely many live keys, no more than it has rows.
LEMMA LiveFinite ==
  ASSUME NEW S, IsFiniteSet(S)
  PROVE  IsFiniteSet(Live(S))
<1> DEFINE T == {y \in Entries(S) : ~y.deleted}
           f == [y \in T |-> y.key]
<1>1. IsFiniteSet(T)
  BY FS_Subset DEF Entries
<1>2. f \in Surjection(T, Live(S))
  BY DEF Live, Surjection
<1> QED
  <2> HIDE DEF T, f
  <2> QED BY <1>1, <1>2, FS_Surjection

\* The workers can be counted, and there is one.
LEMMA WorkersCount == Cardinality(Workers) \in Nat /\ Cardinality(Workers) >= 1
<1>1. Cardinality(Workers) \in Nat
  BY WorkersAssumption, FS_CardinalityType
<1>2. Cardinality(Workers) # 0
  BY WorkersAssumption, FS_EmptySet
<1> QED BY <1>1, <1>2

FewAdmitted == /\ IsFiniteSet(AdmittedKeys)
               /\ Cardinality(AdmittedKeys) \in Nat
               /\ Cardinality(AdmittedKeys) <= Cardinality(Workers)

\* Admitted PUTs sit on different loops: their keys are no more than workers.
LEMMA AdmittedKeysBounded == Types /\ LoopHeld => FewAdmitted
<1> SUFFICES ASSUME Types, LoopHeld PROVE FewAdmitted
  OBVIOUS
<1> DEFINE A == Admitted
           g == [r \in A |-> host[r]]
           f == [r \in A |-> call[r].key]
<1>1. g \in Injection(A, Workers)
  <2>1. g \in [A -> Workers]
    BY DEF Admitted, Types
  <2>2. \A q, r \in A : g[q] = g[r] => q = r
    BY DEF LoopHeld
  <2> QED BY <2>1, <2>2 DEF Injection, IsInjective
<1>2. IsFiniteSet(A) /\ Cardinality(A) <= Cardinality(Workers)
  <2> HIDE DEF A, g
  <2> QED BY <1>1, WorkersAssumption, FS_Injection
<1>3. f \in Surjection(A, AdmittedKeys)
  BY DEF Surjection, AdmittedKeys
<1>4. IsFiniteSet(AdmittedKeys) /\ Cardinality(AdmittedKeys) <= Cardinality(A)
  <2> HIDE DEF A, f
  <2> QED BY <1>2, <1>3, FS_Surjection
<1>5. Cardinality(A) \in Nat /\ Cardinality(AdmittedKeys) \in Nat
  BY <1>2, <1>4, FS_CardinalityType
<1> QED BY <1>2, <1>4, <1>5, WorkersCount DEF FewAdmitted

\* The same after a step.
LEMMA AdmittedKeysBoundedNext == Types' /\ LoopHeld' => FewAdmitted'
BY AdmittedKeysBounded, PTL

\* As long as no key is added to Held, the bound holds.
LEMMA FewerHeld ==
  ASSUME Bounded, Held' \subseteq Held
  PROVE  Bounded'
<1>1. IsFiniteSet(Held') /\ Cardinality(Held') <= Cardinality(Held)
  BY FS_Subset DEF Bounded
<1>2. Cardinality(Held') \in Nat /\ Cardinality(Held) \in Nat
  BY <1>1, FS_CardinalityType DEF Bounded
<1> QED BY <1>1, <1>2, WorkersCount, MaxKeysAssumption DEF Bounded

----------------------------------------------------------------------------
LEMMA InitLimitInv == Init => LimitInv
<1> SUFFICES ASSUME Init PROVE LimitInv
  OBVIOUS
<1>1. Admitted = {}
  BY DEF Init, Admitted
<1>2. Types /\ LoopHeld /\ Mine
  BY <1>1 DEF Init, Types, LoopHeld, Mine, Steps
<1>3. Bounded
  <2>1. Held = Live(InitRows)
    BY <1>1 DEF Held, AdmittedKeys, Init
  <2>2. IsFiniteSet(Live(InitRows)) /\ Cardinality(Live(InitRows)) \in Nat
    BY InitRowsAssumption, LiveFinite, FS_CardinalityType
  <2> QED BY <2>1, <2>2, MaxKeysAssumption, WorkersCount DEF Bounded
<1> QED BY <1>2, <1>3 DEF LimitInv

\* The steps that change neither the versions nor who is admitted, or only let
\* an admitted PUT go.
LEMMA NobodyAdmitted ==
  ASSUME LimitInv, UNCHANGED <<rows, call>>, Admitted' \subseteq Admitted
  PROVE  Bounded'
<1>1. AdmittedKeys' \subseteq AdmittedKeys
  BY DEF AdmittedKeys
<1>2. Live(rows)' = Live(rows)
  BY DEF Live, Entries
<1> QED BY <1>1, <1>2, FewerHeld DEF LimitInv, Held

LEMMA HandlerKeepsLimitInv ==
  ASSUME LimitInv, NEW r \in Requests, Handler(r)
  PROVE  LimitInv'
<1> USE DEF LimitInv
<1>1. CASE BeginPut(r) \/ RefusePut(r) \/ CheckDelete(r) \/ ReadPrevious(r)
  <2>1. UNCHANGED <<rows, loop, call, host, mine>>
    BY <1>1 DEF BeginPut, RefusePut, CheckDelete, ReadPrevious
  <2>2. \E s \in Steps :
          /\ pc' = [pc EXCEPT ![r] = s]
          /\ (call[r].op = "put" /\ s \in {"read", "insert", "commit"})
               => pc[r] = "read"
    BY <1>1 DEF BeginPut, RefusePut, CheckDelete, ReadPrevious, Goto, Answer, Steps
  <2>3. Admitted' \subseteq Admitted
    BY <2>1, <2>2 DEF Admitted, Types
  <2>4. Types' /\ LoopHeld' /\ Mine'
    BY <2>1, <2>2, <2>3 DEF Types, LoopHeld, Mine, Admitted
  <2> QED BY <2>1, <2>3, <2>4, NobodyAdmitted
<1>2. CASE CheckLimit(r)
  <2>1. /\ UNCHANGED <<rows, call, host, mine>> /\ LoopIdle(r)
        /\ pc[r] = "body"
    BY <1>2 DEF CheckLimit
  <2>2. CASE pc' = [pc EXCEPT ![r] = "done"] /\ UNCHANGED loop
    <3>1. Admitted' \subseteq Admitted
      BY <2>1, <2>2 DEF Admitted, Types
    <3>2. Types' /\ LoopHeld' /\ Mine'
      BY <2>1, <2>2, <3>1 DEF Types, LoopHeld, Mine, Admitted, Steps
    <3> QED BY <2>1, <3>1, <3>2, NobodyAdmitted
  <2>3. CASE /\ call[r].key \in Live(rows) \/ Cardinality(Live(rows)) < MaxKeys
             /\ Take(r) /\ pc' = [pc EXCEPT ![r] = "read"]
    <3>1. Admitted' \subseteq Admitted \cup {r}
      BY <2>1, <2>3 DEF Admitted, Types
    <3>2. Types' /\ Mine'
      BY <2>1, <2>3 DEF Types, Mine, Take, Steps
    <3>3. LoopHeld'
      <4>1. \A q \in Admitted : q # r => host[q] # host[r]
        BY <2>1, NoRequestAssumption DEF LoopIdle, LoopHeld, Admitted
      <4> QED BY <2>1, <2>3, <3>1, <4>1 DEF LoopHeld, Take, Types, Admitted
    <3>4. Live(rows)' = Live(rows)
      BY <2>1 DEF Live, Entries
    <3>5. CASE call[r].key \in Live(rows)
      <4>1. Held' \subseteq Held
        BY <2>1, <3>1, <3>4, <3>5 DEF Held, AdmittedKeys
      <4> QED BY <3>2, <3>3, <4>1, FewerHeld
    <3>6. CASE Cardinality(Live(rows)) < MaxKeys
      <4> DEFINE K == AdmittedKeys'
                 V == Live(rows)
      <4>1. IsFiniteSet(K) /\ Cardinality(K) \in Nat
            /\ Cardinality(K) <= Cardinality(Workers)
        BY <3>2, <3>3, AdmittedKeysBoundedNext DEF FewAdmitted
      <4>2. IsFiniteSet(V) /\ Cardinality(V) \in Nat
        BY FS_Subset, FS_CardinalityType DEF Bounded, Held
      <4>3. Held' = V \cup K
        BY <3>4 DEF Held
      <4> HIDE DEF K, V
      <4>4. IsFiniteSet(V \cup K) /\ IsFiniteSet(V \cap K)
        BY <4>1, <4>2, FS_Union, FS_Subset
      <4>5. Cardinality(V \cup K) = Cardinality(V) + Cardinality(K)
                                      - Cardinality(V \cap K)
        BY <4>1, <4>2, FS_Union
      <4>6. Cardinality(V \cap K) \in Nat
        BY <4>4, FS_CardinalityType
      <4>7. Cardinality(V) < MaxKeys
        BY <3>6 DEF V
      <4>8. Cardinality(V \cup K) <= MaxKeys + Cardinality(Workers) - 1
        BY <4>1, <4>2, <4>5, <4>6, <4>7, WorkersCount, MaxKeysAssumption
      <4>9. Bounded'
        BY <4>3, <4>4, <4>8 DEF Bounded
      <4> QED BY <3>2, <3>3, <4>9
    <3> QED BY <2>3, <3>5, <3>6
  <2> QED BY <1>2, <2>2, <2>3 DEF CheckLimit, Goto, Answer
<1>3. CASE InsertVersion(r)
  <2>1. /\ UNCHANGED <<rows, loop, call, host>> /\ pc[r] = "insert"
        /\ pc' = [pc EXCEPT ![r] = "commit"]
        /\ mine' = [q \in Requests |-> mine'[q]]
    BY <1>3 DEF InsertVersion, Goto, Types
  <2>2. Admitted' \subseteq Admitted
    BY <2>1 DEF Admitted, Types
  <2>3. LoopHeld' /\ Bounded'
    BY <2>1, <2>2, NobodyAdmitted DEF LoopHeld, Admitted
  <2>4. Mine'
    BY <1>3, <2>1 DEF InsertVersion, Mine, Types
  <2> QED BY <2>1, <2>3, <2>4 DEF Types, Steps
<1>4. CASE CommitVersion(r)
  <2>1. /\ rows' = rows \cup mine[r] /\ mine' = [mine EXCEPT ![r] = {}]
        /\ UNCHANGED <<loop, call, host>> /\ pc[r] = "commit"
        /\ pc' = [pc EXCEPT ![r] = "answer"]
    BY <1>4 DEF CommitVersion, Forget, Goto
  <2>2. Admitted' \subseteq Admitted
    BY <2>1 DEF Admitted, Types
  <2>3. Types' /\ LoopHeld' /\ Mine'
    BY <2>1, <2>2 DEF Types, LoopHeld, Mine, Admitted, Steps
  <2>4. {v.key : v \in {u \in mine[r] : ~u.deleted}} \subseteq AdmittedKeys
    <3> SUFFICES ASSUME NEW v \in mine[r], ~v.deleted
                 PROVE  v.key \in AdmittedKeys
      OBVIOUS
    <3>1. v.key = call[r].key /\ call[r].op # "delete"
      BY DEF Mine
    <3>2. call[r].op = "put"
      BY <3>1, CallsAssumption DEF Types, CallType
    <3> QED BY <2>1, <3>1, <3>2 DEF Admitted, AdmittedKeys
  <2>5. Live(rows)' \subseteq Live(rows) \cup AdmittedKeys
    BY <2>1, <2>4, LiveAfterVersion
  <2>6. AdmittedKeys' \subseteq AdmittedKeys
    BY <2>1, <2>2 DEF AdmittedKeys
  <2> QED BY <2>3, <2>5, <2>6, FewerHeld DEF Held
<1>5. CASE Respond(r)
  <2>1. /\ UNCHANGED <<rows, call, host, mine>> /\ pc[r] = "answer"
        /\ pc' = [pc EXCEPT ![r] = "done"]
        /\ loop' = [w \in Workers |-> IF loop[w] = r THEN NoRequest ELSE loop[w]]
    BY <1>5 DEF Respond, Answer, Free
  <2>2. Admitted' \subseteq Admitted \ {r}
    BY <2>1 DEF Admitted, Types
  <2>3. Types' /\ LoopHeld' /\ Mine'
    BY <2>1, <2>2 DEF Types, LoopHeld, Mine, Admitted, Steps
  <2> QED BY <2>1, <2>2, <2>3, NobodyAdmitted
<1> QED BY <1>1, <1>2, <1>3, <1>4, <1>5 DEF Handler

LEMMA CrashKeepsLimitInv ==
  ASSUME LimitInv, NEW w \in Workers, WorkerCrash(w)
  PROVE  LimitInv'
<1> USE DEF LimitInv
<1> DEFINE L == {r \in Requests : host[r] = w /\ pc[r] \notin {"idle", "done"}}
<1>1. /\ pc' = [r \in Requests |-> IF r \in L THEN "done" ELSE pc[r]]
      /\ mine' = [r \in Requests |-> IF r \in L THEN {} ELSE mine[r]]
      /\ loop' = [loop EXCEPT ![w] = NoRequest]
      /\ UNCHANGED <<rows, call, host>>
  BY DEF WorkerCrash
<1>2. Admitted' \subseteq Admitted \ L
  BY <1>1 DEF Admitted, Types
<1>3. \A r \in Admitted' : host[r] # w
  BY <1>2 DEF Admitted
<1>4. Types' /\ LoopHeld' /\ Mine'
  BY <1>1, <1>2, <1>3 DEF Types, LoopHeld, Mine, Admitted, Steps
<1> QED BY <1>1, <1>2, <1>4, NobodyAdmitted

THEOREM LimitInvariance == Spec => []LimitInv
<1>1. LimitInv /\ [Next]_vars => LimitInv'
  <2> SUFFICES ASSUME LimitInv, [Next]_vars PROVE LimitInv'
    OBVIOUS
  <2>1. ASSUME NEW r \in Requests, Handler(r) PROVE LimitInv'
    BY <2>1, HandlerKeepsLimitInv
  <2>2. ASSUME NEW w \in Workers, WorkerCrash(w) PROVE LimitInv'
    BY <2>2, CrashKeepsLimitInv
  <2>3. CASE UNCHANGED vars
    BY <2>3 DEF vars, LimitInv, Types, LoopHeld, Mine, Bounded, Admitted,
                AdmittedKeys, Held, Live, Entries
  <2> QED BY <2>1, <2>2, <2>3 DEF Next, Quiet
<1> QED BY <1>1, InitLimitInv, PTL DEF Spec

\* "A profile holds at most MAX_KEYS entries": however many writes and
\* deletions of however many clients overlap, and whatever crashes, it holds
\* less than MAX_KEYS plus the number of workers.
THEOREM LimitTheorem == Spec => []LimitNearlyKept
<1>1. LimitInv => LimitNearlyKept
  <2> SUFFICES ASSUME LimitInv PROVE LimitNearlyKept
    OBVIOUS
  <2>1. IsFiniteSet(Held) /\ Live(rows) \in SUBSET Held
    BY DEF LimitInv, Bounded, Held
  <2>2. IsFiniteSet(Live(rows)) /\ Cardinality(Live(rows)) <= Cardinality(Held)
    BY <2>1, FS_Subset
  <2>3. Cardinality(Live(rows)) \in Nat /\ Cardinality(Held) \in Nat
    BY <2>1, <2>2, FS_CardinalityType
  <2> QED BY <2>2, <2>3, WorkersCount, MaxKeysAssumption
       DEF LimitInv, Bounded, LimitNearlyKept
<1> QED BY <1>1, LimitInvariance, PTL

----------------------------------------------------------------------------
(***************************************************************************)
(* The history of an entry.  A version is numbered when it is inserted and *)
(* seen when it is committed; what a transaction has read is stale from    *)
(* the first commit of another one.  The invariant says of every version   *)
(* that its transaction did not see who wrote it: a request that was not   *)
(* over when it began, and that no loop kept apart from it.                *)
(***************************************************************************)

Replies == {"none", "refused", "not_found", "ok", "lost"}

HistoryTypes ==
  /\ rows \subseteq RowType /\ seq \in Nat
  /\ reply \in [Requests -> Replies] /\ prev \in [Requests -> Nat]
  /\ mine \in [Requests -> SUBSET RowType]
  /\ before \in [Requests -> SUBSET Requests]

\* The requests that were over when another one began still are.
Over == \A r \in Requests : \A q \in before[r] : pc[q] = "done"

\* No loop keeps the writes of q and r apart.
NotInTurn(q, r) == \/ host[q] # host[r]
                   \/ "delete" \in {call[q].op, call[r].op}

\* x may have been committed after the transaction of r read the profile.
Unseen(x, r) == x.by \in Requests \ before[r] /\ NotInTurn(x.by, r)

\* The versions at the start stay, and are older than all others.
Oldest ==
  /\ InitRows \subseteq rows /\ Cardinality(InitRows) <= seq
  /\ \A x \in rows : IF x.by = NoRequest
                     THEN x \in InitRows
                     ELSE x.id > Cardinality(InitRows)

\* Ids are from the sequence and not given twice.
Numbered ==
  /\ \A x \in rows : x.id <= seq
  /\ \A x, y \in rows : x.id = y.id => x = y

\* What a transaction has inserted: its version, with what it has read as the
\* newest, a number nobody else has, greater than that of all it could see.
PendingOf(r) ==
  /\ (pc[r] = "commit") = (mine[r] # {})
  /\ \A v \in mine[r] :
       /\ v.by = r /\ v.supersedes = prev[r] /\ prev[r] < v.id
       /\ Cardinality(InitRows) < v.id /\ v.id <= seq
       /\ \A u \in mine[r] : u = v
       /\ \A x \in rows : /\ x.id # v.id
                          /\ x.by \in before[r] => x.id < v.id
                          /\ x.id > v.id => NotInTurn(r, x.by)
       /\ \A q \in Requests : \A u \in mine[q] : u.id = v.id => q = r

\* What a transaction has read: the newest version, but for those of writes
\* that were committed after the read.
ReadOf(r) ==
  pc[r] \in {"insert", "commit"} =>
    /\ prev[r] <= seq
    /\ prev[r] = 0 \/ \E z \in rows : z.key = call[r].key /\ z.id = prev[r]
    /\ \A x \in rows : x.key = call[r].key /\ x.id > prev[r] => Unseen(x, r)

\* A version that a request has committed.
LinkedRow(y) ==
  /\ y.key = call[y.by].key /\ pc[y.by] \in {"answer", "done"}
  /\ y.supersedes < y.id
  /\ y.supersedes = 0 \/ \E z \in rows : z.key = y.key /\ z.id = y.supersedes
  /\ \A x \in rows :
       /\ x.key = y.key /\ y.supersedes < x.id /\ x.id < y.id => Unseen(x, y.by)
       /\ x.by \in before[y.by] => x.id < y.id
Linked == \A y \in rows : y.by \in Requests => LinkedRow(y)

\* An answered write is among the versions.
Written ==
  \A r \in Requests :
    /\ reply[r] = "ok" => pc[r] = "done"
    /\ pc[r] = "answer" \/ reply[r] = "ok" =>
         \E x \in rows : x.by = r /\ x.key = call[r].key

HistoryInv ==
  /\ HistoryTypes /\ Over /\ Oldest /\ Numbered
  /\ \A r \in Requests : PendingOf(r) /\ ReadOf(r)
  /\ Linked /\ Written


LEMMA InitHistoryInv == Init => HistoryInv
<1> SUFFICES ASSUME Init PROVE HistoryInv
  OBVIOUS
<1>1. Cardinality(InitRows) \in Nat
  BY InitRowsAssumption, FS_CardinalityType
<1>2. HistoryTypes
  BY <1>1, InitRowsAssumption DEF Init, HistoryTypes, Replies
<1>3. Oldest /\ Numbered
  BY <1>1, InitRowsAssumption DEF Init, Oldest, Numbered, RowType
<1>4. \A y \in rows : y.by \notin Requests
  BY InitRowsAssumption, NoRequestAssumption DEF Init
<1>5. Over /\ Linked /\ Written
  BY <1>4 DEF Init, Over, Linked, Written
<1>6. \A r \in Requests : PendingOf(r) /\ ReadOf(r)
  BY DEF Init, PendingOf, ReadOf
<1> QED BY <1>2, <1>3, <1>5, <1>6 DEF HistoryInv

\* r goes to a step outside of the transaction, and holds nothing there.
Walks(r) ==
  /\ pc[r] # "done" /\ pc'[r] \notin {"insert", "commit", "answer"}
  /\ mine'[r] = {}
  /\ pc[r] = "answer" => pc'[r] = "done"
  /\ reply'[r] = "ok" => pc[r] = "answer"
  /\ \/ before'[r] = before[r]
     \/ pc[r] = "idle" /\ before'[r] = {q \in Requests : pc[q] = "done"}

\* r does nothing.
Waits(r) ==
  /\ pc'[r] = pc[r] /\ mine'[r] = mine[r] /\ reply'[r] = reply[r]
  /\ prev'[r] = prev[r] /\ before'[r] = before[r]

\* The steps that number and commit nothing.
LEMMA WalkersKeepHistory ==
  ASSUME HistoryInv, LimitInv, HistoryTypes', UNCHANGED <<rows, seq, call, host>>,
         \A r \in Requests : Walks(r) \/ Waits(r)
  PROVE  HistoryInv'
<1> USE DEF HistoryInv
<1>1. Over'
  BY DEF Over, Walks, Waits, HistoryTypes
<1>2. Oldest' /\ Numbered'
  BY DEF Oldest, Numbered
<1>3. ASSUME NEW r \in Requests PROVE PendingOf(r)' /\ ReadOf(r)'
  <2>1. CASE Walks(r)
    BY <2>1 DEF Walks, PendingOf, ReadOf
  <2>2. CASE Waits(r)
    <3>1. \A q \in Requests : mine'[q] \subseteq mine[q]
      BY DEF Walks, Waits
    <3>2. PendingOf(r)'
      BY <2>2, <3>1 DEF Waits, PendingOf, NotInTurn
    <3>3. ReadOf(r)'
      BY <2>2 DEF Waits, ReadOf, Unseen, NotInTurn
    <3> QED BY <3>2, <3>3
  <2> QED BY <2>1, <2>2
<1>4. Linked'
  <2> SUFFICES ASSUME NEW y \in rows, y.by \in Requests PROVE LinkedRow(y)'
    BY DEF Linked
  <2>1. LinkedRow(y)
    BY DEF Linked
  <2>2. before'[y.by] = before[y.by] /\ pc'[y.by] \in {"answer", "done"}
    BY <2>1 DEF LinkedRow, Walks, Waits
  <2> QED BY <2>1, <2>2 DEF LinkedRow, Unseen, NotInTurn
<1>5. Written'
  BY DEF Written, Walks, Waits
<1> QED BY <1>1, <1>2, <1>3, <1>4, <1>5

\* The newest version of a key.
LEMMA NewestIsNewest ==
  ASSUME HistoryInv, NEW k
  PROVE  /\ Newest(k) \in Nat /\ Newest(k) <= seq
         /\ Newest(k) = 0 \/ \E z \in rows : z.key = k /\ z.id = Newest(k)
         /\ \A x \in rows : x.key = k => x.id <= Newest(k)
<1> DEFINE I == {x.id : x \in {y \in rows : y.key = k}}
<1>1. I \subseteq 0..seq /\ I \subseteq Int /\ seq \in Nat
  BY DEF HistoryInv, HistoryTypes, Numbered, RowType
<1>2. IsFiniteSet(I)
  <2>1. IsFiniteSet(0..seq)
    BY <1>1, FS_Interval
  <2> HIDE DEF I
  <2> QED BY <1>1, <2>1, FS_Subset
<1>3. CASE I = {}
  BY <1>1, <1>3 DEF Newest
<1>4. CASE I # {}
  <2>1. \E m \in I : \A j \in I : j <= m
    <3> HIDE DEF I
    <3> QED BY <1>1, <1>2, <1>4, FiniteSetHasMax
  <2>2. Newest(k) = CHOOSE m \in I : \A j \in I : j <= m
    BY <1>4 DEF Newest
  <2>3. Newest(k) \in I /\ \A j \in I : j <= Newest(k)
    <3> HIDE DEF I
    <3> QED BY <2>1, <2>2
  <2> QED BY <1>1, <2>3
<1> QED BY <1>3, <1>4

LEMMA ReadKeepsHistory ==
  ASSUME HistoryInv, LimitInv, NEW r \in Requests, ReadPrevious(r)
  PROVE  HistoryInv'
<1> USE DEF HistoryInv
<1>1. /\ pc[r] = "read" /\ pc' = [pc EXCEPT ![r] = "insert"]
      /\ prev' = [prev EXCEPT ![r] = Newest(call[r].key)]
      /\ UNCHANGED <<rows, seq, loop, call, host, mine, before, reply>>
  BY DEF ReadPrevious, Goto
<1>2. HistoryTypes'
  BY <1>1, NewestIsNewest DEF HistoryTypes
<1>3. Over' /\ Oldest' /\ Numbered'
  BY <1>1 DEF Over, Oldest, Numbered, LimitInv, Types
<1>4. ASSUME NEW q \in Requests PROVE PendingOf(q)' /\ ReadOf(q)'
  <2>1. CASE q = r
    <3>1. mine[r] = {}
      BY <1>1 DEF PendingOf
    <3>2. pc'[r] = "insert" /\ prev'[r] = Newest(call[r].key)
      BY <1>1 DEF LimitInv, Types, HistoryTypes
    <3>3. PendingOf(r)'
      BY <1>1, <3>1, <3>2 DEF PendingOf
    <3>4. ReadOf(r)'
      BY <1>1, <3>2, NewestIsNewest DEF ReadOf, HistoryTypes, RowType
    <3> QED BY <2>1, <3>3, <3>4
  <2>2. CASE q # r
    BY <1>1, <2>2 DEF PendingOf, ReadOf, Unseen, NotInTurn
  <2> QED BY <2>1, <2>2
<1>5. Linked' /\ Written'
  BY <1>1 DEF Linked, LinkedRow, Unseen, NotInTurn, Written, LimitInv, Types
<1> QED BY <1>2, <1>3, <1>4, <1>5


LEMMA InsertKeepsHistory ==
  ASSUME HistoryInv, LimitInv, NEW r \in Requests, InsertVersion(r)
  PROVE  HistoryInv'
<1> USE DEF HistoryInv
<1> DEFINE v == [id |-> seq + 1, key |-> call[r].key, supersedes |-> prev[r],
                 deleted |-> call[r].op = "delete", by |-> r]
<1>1. /\ pc[r] = "insert" /\ pc' = [pc EXCEPT ![r] = "commit"]
      /\ mine' = [mine EXCEPT ![r] = {v}] /\ seq' = seq + 1
      /\ UNCHANGED <<rows, loop, call, host, prev, before, reply>>
  BY DEF InsertVersion, Goto
<1>2. seq \in Nat /\ prev[r] \in Nat /\ prev[r] <= seq
  BY <1>1 DEF HistoryTypes, ReadOf
<1>3. Cardinality(InitRows) \in Nat
  BY InitRowsAssumption, FS_CardinalityType
<1>4. v \in RowType
  <2>1. call[r].key \in Keys
    BY CallsAssumption DEF LimitInv, Types, CallType
  <2>2. (call[r].op = "delete") \in BOOLEAN
    OBVIOUS
  <2> QED BY <1>2, <2>1, <2>2 DEF RowType
<1>5. /\ v.id = seq + 1 /\ v.key = call[r].key /\ v.supersedes = prev[r]
      /\ v.by = r
  OBVIOUS
<1>6. mine'[r] = {v} /\ pc'[r] = "commit"
  BY <1>1 DEF LimitInv, Types, HistoryTypes
<1> HIDE DEF v
<1>7. HistoryTypes'
  BY <1>1, <1>2, <1>4 DEF HistoryTypes
<1>8. Over' /\ Oldest' /\ Numbered'
  BY <1>1, <1>2, <1>3 DEF Over, Oldest, Numbered, HistoryTypes, RowType, LimitInv, Types
<1>9. \A q \in Requests \ {r} : pc'[q] = pc[q] /\ mine'[q] = mine[q]
  BY <1>1 DEF LimitInv, Types, HistoryTypes
<1>10. \A q \in Requests : \A u \in mine[q] : u.id \in Nat /\ u.id <= seq
  BY DEF PendingOf, HistoryTypes, RowType
<1>11. \A x \in rows : x.id \in Nat /\ x.id <= seq
  BY DEF Numbered, HistoryTypes, RowType
<1>12. PendingOf(r)'
  <2>1. /\ prev'[r] < v.id /\ Cardinality(InitRows) < v.id /\ v.id <= seq'
    BY <1>1, <1>2, <1>3, <1>5 DEF Oldest
  <2>2. \A x \in rows' : x.id < v.id /\ x.id # v.id /\ ~(x.id > v.id)
    BY <1>1, <1>2, <1>5, <1>11
  <2>3. \A q \in Requests : \A u \in mine'[q] : u.id = v.id => q = r
    BY <1>2, <1>5, <1>9, <1>10
  <2> QED BY <1>1, <1>5, <1>6, <2>1, <2>2, <2>3 DEF PendingOf
<1>13. ASSUME NEW q \in Requests, q # r PROVE PendingOf(q)'
  <2>1. PendingOf(q)
    OBVIOUS
  <2>2. \A w \in mine[q] : w.id <= seq' /\ v.id # w.id
    BY <1>1, <1>2, <1>5, <1>10
  <2>3. \A w \in mine'[q] : \A p \in Requests : \A u \in mine'[p] : u.id = w.id => p = q
    BY <1>6, <1>9, <1>13, <2>1, <2>2 DEF PendingOf
  <2> QED BY <1>1, <1>9, <1>13, <2>1, <2>2, <2>3 DEF PendingOf, NotInTurn
<1>14. ASSUME NEW q \in Requests PROVE ReadOf(q)'
  <2>1. ReadOf(q) /\ prev[q] \in Nat
    BY DEF HistoryTypes
  <2>2. pc'[q] \in {"insert", "commit"} => pc[q] \in {"insert", "commit"}
    BY <1>1, <1>9
  <2> QED BY <1>1, <1>2, <2>1, <2>2 DEF ReadOf, Unseen, NotInTurn
<1>15. Linked' /\ Written'
  BY <1>1 DEF Linked, LinkedRow, Unseen, NotInTurn, Written, LimitInv, Types
<1> QED BY <1>7, <1>8, <1>12, <1>13, <1>14, <1>15

\* The PUTs of one worker are admitted one after the other.
LEMMA AdmittedInTurn ==
  ASSUME LimitInv, NEW q \in Requests, NEW r \in Requests, q # r,
         pc[q] \in {"read", "insert", "commit"},
         pc[r] \in {"read", "insert", "commit"}
  PROVE  NotInTurn(q, r)
<1>1. \A p \in {q, r} : call[p].op \in {"put", "delete"}
  BY CallsAssumption DEF LimitInv, Types, CallType
<1>2. CASE call[q].op = "put" /\ call[r].op = "put"
  <2>1. loop[host[q]] = q /\ loop[host[r]] = r
    BY <1>2 DEF LimitInv, LoopHeld, Admitted
  <2> QED BY <2>1 DEF NotInTurn
<1> QED BY <1>1, <1>2 DEF NotInTurn

LEMMA CommitKeepsHistory ==
  ASSUME HistoryInv, LimitInv, NEW r \in Requests, CommitVersion(r)
  PROVE  HistoryInv'
<1> USE DEF HistoryInv
<1>1. /\ pc[r] = "commit" /\ pc' = [pc EXCEPT ![r] = "answer"]
      /\ rows' = rows \cup mine[r] /\ mine' = [mine EXCEPT ![r] = {}]
      /\ prev' = [prev EXCEPT ![r] = 0]
      /\ UNCHANGED <<seq, loop, call, host, before, reply>>
  BY DEF CommitVersion, Forget, Goto
<1>2. PICK v \in mine[r] : mine[r] = {v}
  BY <1>1 DEF PendingOf
<1>3. /\ v \in RowType /\ v.by = r /\ v.key = call[r].key /\ v.supersedes = prev[r]
      /\ prev[r] < v.id /\ Cardinality(InitRows) < v.id /\ v.id <= seq
      /\ \A x \in rows : /\ x.id # v.id
                         /\ x.by \in before[r] => x.id < v.id
                         /\ x.id > v.id => NotInTurn(r, x.by)
      /\ \A q \in Requests : \A u \in mine[q] : u.id = v.id => q = r
  BY DEF PendingOf, HistoryTypes, LimitInv, Mine
<1>4. rows' = rows \cup {v}
  BY <1>1, <1>2
<1>5. /\ pc'[r] = "answer" /\ mine'[r] = {}
      /\ \A q \in Requests \ {r} : /\ pc'[q] = pc[q] /\ mine'[q] = mine[q]
                                   /\ prev'[q] = prev[q]
  BY <1>1 DEF LimitInv, Types, HistoryTypes
<1>6. \A q \in Requests : r \notin before[q]
  BY <1>1 DEF Over
<1>7. Cardinality(InitRows) \in Nat /\ seq \in Nat /\ v.id \in Nat /\ prev[r] \in Nat
  BY <1>3, InitRowsAssumption, FS_CardinalityType DEF HistoryTypes, RowType
<1>8. HistoryTypes' /\ Over'
  BY <1>1, <1>3, <1>4, <1>5 DEF HistoryTypes, Over
<1>9. Oldest'
  BY <1>1, <1>3, <1>4, NoRequestAssumption DEF Oldest
<1>10. Numbered'
  BY <1>1, <1>3, <1>4 DEF Numbered
<1>11. ASSUME NEW q \in Requests PROVE PendingOf(q)'
  <2>1. CASE q = r
    BY <1>5, <2>1 DEF PendingOf
  <2>2. CASE q # r
    <3>1. pc[q] = "commit" => NotInTurn(q, r)
      BY <1>1, <2>2, AdmittedInTurn
    <3>2. ASSUME NEW w \in mine[q], NEW x \in rows'
          PROVE /\ x.id # w.id
                /\ x.by \in before[q] => x.id < w.id
                /\ x.id > w.id => NotInTurn(q, x.by)
      BY <1>3, <1>4, <1>6, <2>2, <3>1 DEF PendingOf
    <3>3. \A p \in Requests : mine'[p] \subseteq mine[p]
      BY <1>5
    <3> QED BY <1>1, <1>5, <2>2, <3>2, <3>3 DEF PendingOf, NotInTurn
  <2> QED BY <2>1, <2>2
<1>12. ASSUME NEW q \in Requests PROVE ReadOf(q)'
  <2>1. CASE q = r
    BY <1>5, <2>1 DEF ReadOf
  <2>2. CASE q # r /\ pc[q] \in {"insert", "commit"}
    <3>1. Unseen(v, q)
      <4>1. NotInTurn(r, q)
        BY <1>1, <2>2, AdmittedInTurn
      <4> QED BY <1>3, <1>6, <4>1 DEF Unseen
    <3>2. ReadOf(q)
      OBVIOUS
    <3> QED BY <1>1, <1>4, <1>5, <2>2, <3>1, <3>2 DEF ReadOf, Unseen, NotInTurn
  <2>3. CASE q # r /\ pc[q] \notin {"insert", "commit"}
    BY <1>5, <2>3 DEF ReadOf
  <2> QED BY <2>1, <2>2, <2>3
<1>13. LinkedRow(v)'
  <2>1. /\ prev[r] = 0 \/ \E z \in rows : z.key = call[r].key /\ z.id = prev[r]
        /\ \A x \in rows : x.key = call[r].key /\ x.id > prev[r] => Unseen(x, r)
    BY <1>1 DEF ReadOf
  <2>2. /\ v.key = call'[v.by].key /\ pc'[v.by] \in {"answer", "done"}
        /\ v.supersedes < v.id
        /\ v.supersedes = 0 \/ \E z \in rows' : z.key = v.key /\ z.id = v.supersedes
    BY <1>1, <1>3, <1>4, <1>5, <2>1
  <2>3. ASSUME NEW x \in rows'
        PROVE /\ x.key = v.key /\ v.supersedes < x.id /\ x.id < v.id => Unseen(x, v.by)
              /\ x.by \in before[v.by] => x.id < v.id
    BY <1>3, <1>4, <1>6, <1>7, <2>1
  <2> QED BY <1>1, <2>2, <2>3 DEF LinkedRow, Unseen, NotInTurn
<1>14. ASSUME NEW y \in rows, y.by \in Requests PROVE LinkedRow(y)'
  <2>1. LinkedRow(y) /\ y.by # r
    BY <1>1, <1>14 DEF Linked, LinkedRow
  <2>2. v.id < y.id => Unseen(v, y.by)
    <3>1. v.id < y.id => y.id > v.id
      BY <1>7 DEF HistoryTypes, RowType
    <3>2. v.id < y.id => NotInTurn(r, y.by)
      BY <1>3, <3>1
    <3> QED BY <1>3, <1>6, <1>14, <3>2 DEF Unseen
  <2>3. v.by \notin before[y.by]
    BY <1>3, <1>6, <1>14
  <2> QED BY <1>1, <1>4, <1>5, <1>14, <2>1, <2>2, <2>3 DEF LinkedRow, Unseen, NotInTurn
<1>15. Linked'
  BY <1>3, <1>4, <1>13, <1>14 DEF Linked
<1>16. Written'
  BY <1>1, <1>3, <1>4, <1>5 DEF Written
<1> QED BY <1>8, <1>9, <1>10, <1>11, <1>12, <1>15, <1>16

LEMMA HandlerKeepsHistory ==
  ASSUME HistoryInv, LimitInv, NEW r \in Requests, Handler(r)
  PROVE  HistoryInv'
<1>1. CASE BeginPut(r) \/ RefusePut(r) \/ CheckLimit(r) \/ CheckDelete(r) \/ Respond(r)
  <2>1. /\ UNCHANGED <<rows, seq, call, host, prev, mine>>
        /\ \E s \in {"body", "read", "done"} :
             /\ pc' = [pc EXCEPT ![r] = s]
             /\ pc[r] = "answer" => s = "done"
        /\ \/ reply' = reply
           \/ \E a \in {"refused", "not_found"} : reply' = [reply EXCEPT ![r] = a]
           \/ pc[r] = "answer" /\ reply' = [reply EXCEPT ![r] = "ok"]
        /\ \/ before' = before
           \/ pc[r] = "idle" /\ Begin(r)
        /\ pc[r] \in {"idle", "body", "answer"}
    BY <1>1 DEF BeginPut, RefusePut, CheckLimit, CheckDelete, Respond, Goto, Answer
  <2>2. HistoryTypes'
    BY <2>1 DEF HistoryInv, HistoryTypes, Replies, Begin
  <2>3. Walks(r)
    <3>1. mine'[r] = {}
      BY <2>1 DEF HistoryInv, PendingOf
    <3>2. reply'[r] = "ok" => pc[r] = "answer"
      BY <2>1 DEF HistoryInv, HistoryTypes, Written
    <3>3. /\ pc[r] # "done" /\ pc'[r] \notin {"insert", "commit", "answer"}
          /\ pc[r] = "answer" => pc'[r] = "done"
      BY <2>1 DEF LimitInv, Types
    <3>4. \/ before'[r] = before[r]
          \/ pc[r] = "idle" /\ before'[r] = {q \in Requests : pc[q] = "done"}
      BY <2>1 DEF Begin, HistoryInv, HistoryTypes
    <3> QED BY <3>1, <3>2, <3>3, <3>4 DEF Walks
  <2>4. \A q \in Requests \ {r} : Waits(q)
    BY <2>1 DEF Waits, Begin, HistoryInv, HistoryTypes, LimitInv, Types
  <2> QED BY <2>1, <2>2, <2>3, <2>4, WalkersKeepHistory
<1>2. CASE ReadPrevious(r)
  BY <1>2, ReadKeepsHistory
<1>3. CASE InsertVersion(r)
  BY <1>3, InsertKeepsHistory
<1>4. CASE CommitVersion(r)
  BY <1>4, CommitKeepsHistory
<1> QED BY <1>1, <1>2, <1>3, <1>4 DEF Handler


LEMMA CrashKeepsHistory ==
  ASSUME HistoryInv, LimitInv, NEW w \in Workers, WorkerCrash(w)
  PROVE  HistoryInv'
<1> DEFINE L == {r \in Requests : host[r] = w /\ pc[r] \notin {"idle", "done"}}
<1>1. /\ pc' = [r \in Requests |-> IF r \in L THEN "done" ELSE pc[r]]
      /\ reply' = [r \in Requests |-> IF r \in L THEN "lost" ELSE reply[r]]
      /\ prev' = [r \in Requests |-> IF r \in L THEN 0 ELSE prev[r]]
      /\ mine' = [r \in Requests |-> IF r \in L THEN {} ELSE mine[r]]
      /\ UNCHANGED <<rows, seq, call, host, before>>
  BY DEF WorkerCrash
<1>2. HistoryTypes'
  BY <1>1 DEF HistoryInv, HistoryTypes, Replies
<1>3. ASSUME NEW r \in Requests PROVE Walks(r) \/ Waits(r)
  <2>1. CASE r \in L
    BY <1>1, <2>1 DEF Walks
  <2>2. CASE r \notin L
    BY <1>1, <2>2 DEF Waits
  <2> QED BY <2>1, <2>2
<1> QED BY <1>1, <1>2, <1>3, WalkersKeepHistory

THEOREM HistoryInvariance == Spec => []HistoryInv
<1>1. LimitInv /\ HistoryInv /\ [Next]_vars => HistoryInv'
  <2> SUFFICES ASSUME LimitInv, HistoryInv, [Next]_vars PROVE HistoryInv'
    OBVIOUS
  <2>1. ASSUME NEW r \in Requests, Handler(r) PROVE HistoryInv'
    BY <2>1, HandlerKeepsHistory
  <2>2. ASSUME NEW w \in Workers, WorkerCrash(w) PROVE HistoryInv'
    BY <2>2, CrashKeepsHistory
  <2>3. CASE UNCHANGED vars
    <3>1. HistoryTypes'
      BY <2>3 DEF vars, HistoryInv, HistoryTypes
    <3>2. \A r \in Requests : Waits(r)
      BY <2>3 DEF vars, Waits
    <3> QED BY <2>3, <3>1, <3>2, WalkersKeepHistory DEF vars
  <2> QED BY <2>1, <2>2, <2>3 DEF Next, Quiet
<1> QED BY <1>1, InitHistoryInv, LimitInvariance, PTL DEF Spec

\* "A correction never silently destroys history": every version supersedes
\* the one before it, but for a write that overlapped with it and that no event
\* loop kept apart from it.
THEOREM CorrectionsKeepHistory == Spec => []HistoryIsAChain
<1>1. HistoryInv => HistoryIsAChain
  <2> SUFFICES ASSUME HistoryInv, NEW x \in rows, NEW y \in rows, Follows(y, x, rows)
               PROVE  y.supersedes = x.id \/ Unseen(x, y.by)
    BY DEF HistoryIsAChain, Unseen, NotInTurn
  <2>1. x.id \in Nat /\ y.id \in Nat /\ y.supersedes \in Nat /\ x.id > 0 /\ x.id < y.id
        /\ x.key = y.key /\ y.by \in Requests \cup {NoRequest}
    BY DEF HistoryInv, HistoryTypes, RowType, Follows
  <2>2. CASE y.by \in Requests
    <3>1. LinkedRow(y)
      BY <2>2 DEF HistoryInv, Linked
    <3>2. CASE y.supersedes < x.id
      BY <2>1, <3>1, <3>2 DEF LinkedRow
    <3>3. CASE y.supersedes > x.id
      <4>1. PICK z \in rows : z.key = y.key /\ z.id = y.supersedes
        BY <2>1, <3>1, <3>3 DEF LinkedRow
      <4>2. z.id <= x.id \/ z.id >= y.id
        BY <2>1, <4>1 DEF Follows
      <4> QED BY <2>1, <3>1, <3>3, <4>1, <4>2 DEF LinkedRow
    <3> QED BY <2>1, <3>2, <3>3
  <2>3. CASE y.by = NoRequest
    <3>1. y \in InitRows /\ InitRows \subseteq rows
      BY <2>3 DEF HistoryInv, Oldest
    <3>2. Cardinality(InitRows) \in Nat /\ y.id <= Cardinality(InitRows)
      BY <3>1, InitRowsAssumption, FS_CardinalityType
    <3>3. x \in InitRows
      BY <2>1, <3>2 DEF HistoryInv, Oldest
    <3>4. Follows(y, x, InitRows)
      BY <3>1, <3>3 DEF Follows
    <3> QED BY <3>1, <3>3, <3>4, InitRowsAssumption
  <2> QED BY <2>1, <2>2, <2>3
<1> QED BY <1>1, HistoryInvariance, PTL

\* A write that was answered stays readable, and is the entry unless a request
\* that was not over when it began has written a newer version.
THEOREM WritesAreRead == Spec => []WrittenIsRead
<1>1. HistoryInv => WrittenIsRead
  <2> SUFFICES ASSUME HistoryInv, NEW r \in Requests, reply[r] = "ok"
               PROVE  /\ \E y \in rows : y.by = r /\ y.key = call[r].key
                      /\ \A x \in Entries(rows) :
                           x.key = call[r].key => x.by \in Requests \ before[r]
    BY DEF WrittenIsRead
  <2>1. PICK y \in rows : y.by = r /\ y.key = call[r].key
    BY DEF HistoryInv, Written
  <2>2. ASSUME NEW x \in Entries(rows), x.key = call[r].key
        PROVE  x.by \in Requests \ before[r]
    <3>1. x \in rows /\ y.id <= x.id
      BY <2>1, <2>2 DEF Entries
    <3>2. x.id \in Nat /\ y.id \in Nat /\ x.by \in Requests \cup {NoRequest}
      BY <3>1 DEF HistoryInv, HistoryTypes, RowType
    <3>3. x.by \in before[r] => x.id < y.id
      BY <2>1, <3>1 DEF HistoryInv, Linked, LinkedRow
    <3>4. x.by = NoRequest => x.id < y.id
      <4>1. Cardinality(InitRows) \in Nat
        BY InitRowsAssumption, FS_CardinalityType
      <4>2. y.id > Cardinality(InitRows)
        BY <2>1, NoRequestAssumption DEF HistoryInv, Oldest
      <4>3. x.by = NoRequest => x.id <= Cardinality(InitRows)
        BY <3>1, InitRowsAssumption DEF HistoryInv, Oldest
      <4> QED BY <3>2, <4>1, <4>2, <4>3
    <3> QED BY <3>1, <3>2, <3>3, <3>4
  <2> QED BY <2>1, <2>2
<1> QED BY <1>1, HistoryInvariance, PTL
=============================================================================
