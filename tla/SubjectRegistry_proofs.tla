----------------------- MODULE SubjectRegistry_proofs -----------------------
(***************************************************************************)
(* Proofs about SubjectRegistry, for any number of requests and workers,   *)
(* any batches, any calls and any finite initial tables.                   *)
(*                                                                         *)
(* The ids are unique because of three facts that are inductive together:  *)
(* a transaction that has inserted rows holds the advisory lock of their   *)
(* table (LockHeld), so what its INSERT does not see belongs to the other  *)
(* table; the ids in use are bounded (BoundedIds), so MAX(id) is defined   *)
(* and MAX(id) + 1 is new; and no statement but the INSERT touches an id.  *)
(***************************************************************************)
EXTENDS SubjectRegistry, Lemmas

\* The ids in use are bounded: a table is finite.
BoundedIds == \E hi \in Nat : \A x \in rows \cup Pending : x.id <= hi

\* The rows an open transaction has inserted can be counted.
PendFinite == \A r \in Requests : IsFiniteSet(pend[r])

\* No row is committed and pending at once.
Disjoint == \A r \in Requests : rows \cap pend[r] = {}

\* The rows of an open transaction are rows of one table, and the transaction
\* holds the advisory lock of that table from its first statement to its end.
LockHeld ==
  /\ \A r \in Requests : pend[r] # {} =>
       /\ pc[r] = "txn"
       /\ \A x \in pend[r] : x.tab = TableOf[call[r].ep]
  /\ \A r \in Requests : pc[r] = "txn" => lock[LockName[call[r].ep]] = r

IInv == /\ TypeOK
        /\ PendFinite
        /\ LockHeld
        /\ BoundedIds
        /\ Disjoint
        /\ UniqueIds

----------------------------------------------------------------------------
(***************************************************************************)
(* Lemmas about the operators of the module.                               *)
(***************************************************************************)

LEMMA LocksAreTables ==
  \A e \in Endpoints : /\ LockName[e] = TableOf[e]
                       /\ TableOf[e] \in Tables
                       /\ LockName[e] \in Locks
BY DEF LockName, TableOf, Tables, Endpoints, Locks

\* MAX(id) + 1 is a natural number greater than every id of the table.
LEMMA NextIdIsNew ==
  ASSUME NEW S, S \subseteq RowType, NEW t, NEW hi \in Nat,
         \A x \in S : x.id <= hi
  PROVE  /\ NextId(S, t) \in Nat
         /\ NextId(S, t) <= hi + 1
         /\ \A x \in S : x.tab = t => x.id < NextId(S, t)
         /\ \A x \in S : x.tab = t =>
              \E z \in S : z.tab = t /\ NextId(S, t) = z.id + 1
<1> DEFINE I == IdsOf(S, t)
<1>1. I \subseteq Nat /\ \A i \in I : i <= hi
  BY DEF IdsOf, RowType
<1>2. \A x \in S : x.tab = t => x.id \in I
  BY DEF IdsOf
<1>3. CASE I = {}
  BY <1>2, <1>3 DEF NextId
<1>4. CASE I # {}
  <2>1. IsFiniteSet(I)
    <3> HIDE DEF I
    <3> QED BY <1>1, FS_BoundedSetOfNaturals
  <2>2. \E m \in I : \A i \in I : i <= m
    <3>1. I \subseteq Int
      BY <1>1
    <3> HIDE DEF I
    <3> QED BY <1>4, <2>1, <3>1, FiniteSetHasMax
  <2>3. PICK m \in I : (\A i \in I : i <= m) /\ NextId(S, t) = m + 1
    BY <1>4, <2>2 DEF NextId
  <2>4. m \in Nat /\ m <= hi /\ \A i \in I : i <= m
    BY <1>1, <2>3
  <2>5. ASSUME NEW x \in S, x.tab = t PROVE x.id < m + 1
    <3>1. x.id \in I /\ x.id \in Nat
      BY <1>1, <1>2, <2>5
    <3> HIDE DEF I
    <3> QED BY <2>4, <3>1
  <2>6. \E z \in S : z.tab = t /\ z.id = m
    BY DEF IdsOf
  <2> HIDE DEF I
  <2> QED BY <2>3, <2>4, <2>5, <2>6
<1> QED BY <1>3, <1>4

\* Two transactions that have inserted rows have inserted them into
\* different tables: each holds the lock of its own.
LEMMA OneInserterPerTable ==
  ASSUME TypeOK, LockHeld,
         NEW q \in Requests, NEW r \in Requests, q # r,
         NEW x \in pend[q], pc[r] = "txn"
  PROVE  x.tab # TableOf[call[r].ep]
<1>1. call[q].ep \in Endpoints /\ call[r].ep \in Endpoints
  BY CallsAssumption DEF TypeOK, CallType
<1>2. /\ x.tab = LockName[call[q].ep]
      /\ lock[LockName[call[q].ep]] = q
      /\ lock[LockName[call[r].ep]] = r
  BY <1>1, LocksAreTables DEF LockHeld
<1> QED BY <1>1, <1>2, LocksAreTables

\* What an UPDATE does to the rows: each keeps its table, its id and its key.
Rewrites(F) ==
  /\ rows' = {F[x] : x \in rows}
  /\ \A x \in rows : /\ F[x] \in RowType
                     /\ F[x].tab = x.tab /\ F[x].id = x.id /\ F[x].key = x.key

\* The two UPDATE statements, of the PATCH handlers and of the archive functions.
PatchedRow(r) == [x \in rows |-> IF Hit(call[r], x) THEN Patched(r, x) ELSE x]
ArchivedRow(r) ==
  [x \in rows |-> IF Hit(call[r], x)
                  THEN [x EXCEPT !.archived = (call[r].op = "archive")]
                  ELSE x]

LEMMA PatchRewrites ==
  ASSUME TypeOK, NEW r \in Requests, PatchUpdate(r)
  PROVE  Rewrites(PatchedRow(r))
<1>1. rows' = {PatchedRow(r)[x] : x \in rows}
  BY DEF PatchUpdate, PatchedRow
<1>2. ASSUME NEW x \in rows
      PROVE  /\ Patched(r, x) \in RowType /\ Patched(r, x).tab = x.tab
             /\ Patched(r, x).id = x.id /\ Patched(r, x).key = x.key
  BY DEF Patched, RowType, TypeOK
<1> QED BY <1>1, <1>2 DEF Rewrites, PatchedRow, TypeOK

LEMMA ArchiveRewrites ==
  ASSUME TypeOK, NEW r \in Requests, ArchiveApply(r)
  PROVE  Rewrites(ArchivedRow(r))
<1> DEFINE F == ArchivedRow(r)
<1>1. rows' = {F[x] : x \in rows}
  BY DEF ArchiveApply, ArchivedRow
<1>2. ASSUME NEW x \in RowType, NEW b \in BOOLEAN
      PROVE  /\ [x EXCEPT !.archived = b] \in RowType
             /\ [x EXCEPT !.archived = b].tab = x.tab
             /\ [x EXCEPT !.archived = b].id = x.id
             /\ [x EXCEPT !.archived = b].key = x.key
  BY DEF RowType
<1>3. (call[r].op = "archive") \in BOOLEAN
  OBVIOUS
<1>4. \A x \in rows : /\ F[x] \in RowType /\ F[x].tab = x.tab
                     /\ F[x].id = x.id /\ F[x].key = x.key
  BY <1>2, <1>3, Zenon DEF TypeOK, ArchivedRow
<1> QED BY <1>1, <1>4, Zenon DEF Rewrites

\* An UPDATE outside of every transaction keeps the invariant on the rows.
LEMMA RewriteKeepsRows ==
  ASSUME IInv, UNCHANGED pend, NEW F, Rewrites(F)
  PROVE  /\ rows' \subseteq RowType
         /\ BoundedIds' /\ Disjoint' /\ UniqueIds'
<1>1. \A y \in rows' : \E x \in rows : /\ y = F[x] /\ y \in RowType
                                       /\ y.tab = x.tab /\ y.id = x.id
  BY DEF Rewrites
<1>2. rows' \subseteq RowType
  BY <1>1
<1>3. Pending' = Pending
  BY DEF Pending
<1>4. BoundedIds'
  <2>1. PICK hi \in Nat : \A x \in rows \cup Pending : x.id <= hi
    BY DEF IInv, BoundedIds
  <2>2. \A x \in rows' \cup Pending' : x.id <= hi
    BY <1>1, <1>3, <2>1
  <2> QED BY <2>1, <2>2 DEF BoundedIds
<1>5. Disjoint'
  <2>1. SUFFICES ASSUME NEW r \in Requests, NEW y \in rows', y \in pend[r]
                 PROVE  FALSE
    BY DEF Disjoint
  <2>2. PICK x \in rows : y.tab = x.tab /\ y.id = x.id
    BY <1>1
  <2>3. y \in Pending
    BY <2>1 DEF Pending
  <2>4. x = y
    BY <2>2, <2>3 DEF IInv, UniqueIds, IdsUnique
  <2> QED BY <2>1, <2>4 DEF IInv, Disjoint
<1>6. UniqueIds'
  <2>1. SUFFICES ASSUME NEW a \in rows' \cup Pending, NEW b \in rows' \cup Pending,
                        a.tab = b.tab, a.id = b.id
                 PROVE  a = b
    BY <1>3 DEF UniqueIds, IdsUnique
  <2>2. IdsUnique(rows \cup Pending) /\ rows \cap Pending = {}
    BY DEF IInv, UniqueIds, Disjoint, Pending
  <2>3. CASE a \in rows' /\ b \in rows'
    BY <1>1, <2>1, <2>2, <2>3 DEF IdsUnique
  <2>4. CASE a \in rows' /\ b \in Pending
    BY <1>1, <2>1, <2>2, <2>4 DEF IdsUnique
  <2>5. CASE a \in Pending /\ b \in rows'
    BY <1>1, <2>1, <2>2, <2>5 DEF IdsUnique
  <2>6. CASE a \in Pending /\ b \in Pending
    BY <2>1, <2>2, <2>6 DEF IdsUnique
  <2> QED BY <2>1, <2>3, <2>4, <2>5, <2>6
<1> QED BY <1>2, <1>4, <1>5, <1>6

\* The parts of the invariant that no row takes part in, while the rows and
\* the open transactions stay as they are.
LEMMA NoRowChanges ==
  ASSUME IInv, UNCHANGED <<rows, pend>>
  PROVE  /\ rows' \subseteq RowType /\ pend' \in [Requests -> SUBSET RowType]
         /\ PendFinite' /\ BoundedIds' /\ Disjoint' /\ UniqueIds'
<1>1. Pending' = Pending
  BY DEF Pending
<1> QED BY <1>1 DEF IInv, TypeOK, PendFinite, BoundedIds, Disjoint, UniqueIds

\* A rollback: some transactions lose their rows.
LEMMA RollbackKeepsRows ==
  ASSUME IInv, UNCHANGED rows,
         pend' \in [Requests -> SUBSET RowType],
         \A r \in Requests : pend'[r] = pend[r] \/ pend'[r] = {}
  PROVE  /\ PendFinite' /\ BoundedIds' /\ Disjoint' /\ UniqueIds'
<1>1. Pending' \subseteq Pending
  BY DEF Pending
<1>2. PendFinite'
  BY FS_EmptySet DEF IInv, PendFinite
<1>3. BoundedIds' /\ UniqueIds'
  BY <1>1 DEF IInv, BoundedIds, UniqueIds, IdsUnique
<1>4. Disjoint'
  BY DEF IInv, Disjoint
<1> QED BY <1>2, <1>3, <1>4

----------------------------------------------------------------------------
(***************************************************************************)
(* The invariant holds at the start.                                       *)
(***************************************************************************)

LEMMA InitIInv == Init => IInv
<1> SUFFICES ASSUME Init PROVE IInv
  OBVIOUS
<1>1. Pending = {}
  BY DEF Init, Pending
<1>2. TypeOK
  BY InitRowsAssumption DEF Init, TypeOK, Steps, Replies
<1>3. PendFinite /\ LockHeld /\ Disjoint
  BY FS_EmptySet DEF Init, PendFinite, LockHeld, Disjoint
<1>4. UniqueIds
  BY <1>1, InitRowsAssumption DEF Init, UniqueIds
<1>5. BoundedIds
  <2> DEFINE I == {x.id : x \in InitRows}
             f == [x \in InitRows |-> x.id]
  <2>1. f \in Surjection(InitRows, I)
    BY DEF Surjection
  <2>2. IsFiniteSet(I) /\ I \subseteq Nat
    <3>1. IsFiniteSet(InitRows) /\ I \subseteq Nat
      BY InitRowsAssumption DEF RowType
    <3> HIDE DEF I, f
    <3> QED BY <2>1, <3>1, FS_Surjection
  <2>3. \A x \in InitRows : x.id \in I
    OBVIOUS
  <2>4. I = {} \/ \E m \in I : \A i \in I : i <= m
    <3>1. I \subseteq Int
      BY <2>2
    <3> HIDE DEF I
    <3> QED BY <2>2, <3>1, FiniteSetHasMax
  <2>5. \E hi \in Nat : \A x \in InitRows : x.id <= hi
    <3> HIDE DEF I
    <3>1. CASE I = {}
      BY <2>3, <3>1
    <3>2. CASE \E m \in I : \A i \in I : i <= m
      BY <2>2, <2>3, <3>2
    <3> QED BY <2>4, <3>1, <3>2
  <2> QED BY <1>1, <2>5 DEF Init, BoundedIds
<1> QED BY <1>2, <1>3, <1>4, <1>5 DEF IInv

----------------------------------------------------------------------------
(***************************************************************************)
(* Every step keeps it: one lemma per operation.                           *)
(***************************************************************************)

LEMMA CreateKeepsIInv ==
  ASSUME IInv, NEW r \in Requests, Create(r)
  PROVE  IInv'
<1> USE DEF IInv
<1>1. CASE BeginCreate(r) \/ RefuseBody(r) \/ AcquireLock(r) \/ RespondCreated(r)
  <2>1. UNCHANGED <<rows, pend, call, host>>
    BY <1>1 DEF BeginCreate, RefuseBody, AcquireLock, RespondCreated
  <2>2. TypeOK'
    <3>1. call[r].ep \in Endpoints
      BY CallsAssumption DEF TypeOK, CallType
    <3> QED BY <1>1, <2>1, <3>1, LocksAreTables
         DEF BeginCreate, RefuseBody, AcquireLock, RespondCreated, TypeOK,
             Take, Release, Goto, Answer, Steps, Replies
  <2>3. LockHeld'
    <3>1. CASE AcquireLock(r)
      <4>1. \A q \in Requests : call[q].ep \in Endpoints
        BY CallsAssumption DEF TypeOK, CallType
      <4> QED BY <3>1, <4>1, <2>1, LocksAreTables, NoRequestAssumption
           DEF AcquireLock, LockHeld, Goto, TypeOK
    <3>2. CASE BeginCreate(r) \/ RefuseBody(r) \/ RespondCreated(r)
      BY <3>2, <2>1 DEF BeginCreate, RefuseBody, RespondCreated, LockHeld,
                        Goto, Answer, TypeOK
    <3> QED BY <1>1, <3>1, <3>2
  <2> QED BY <2>1, <2>2, <2>3, NoRowChanges
<1>2. CASE InsertItem(r)
  <2> DEFINE t == TableOf[call[r].ep]
             y == NewRow(r)
  <2>1. /\ pc[r] = "txn"
        /\ pend' = [pend EXCEPT ![r] = @ \cup {y}]
        /\ UNCHANGED <<rows, lock, loop, call, host, pc, reply, dropped>>
    BY <1>2 DEF InsertItem
  <2>2. call[r].ep \in Endpoints /\ t \in Tables
    BY CallsAssumption, LocksAreTables DEF TypeOK, CallType
  <2>3. PICK hi \in Nat : \A x \in rows \cup Pending : x.id <= hi
    BY DEF BoundedIds
  <2>4. /\ NextId(Seen(r), t) \in Nat /\ NextId(Seen(r), t) <= hi + 1
        /\ \A x \in Seen(r) : x.tab = t => x.id < NextId(Seen(r), t)
    <3>1. Seen(r) \subseteq RowType /\ \A x \in Seen(r) : x.id <= hi
      BY <2>3 DEF Seen, TypeOK, Pending
    <3> HIDE DEF t
    <3> QED BY <3>1, NextIdIsNew
  <2>5. y.tab = t /\ y.id = NextId(Seen(r), t) /\ y \in RowType
    <3>1. Item(r) \in Nat
      BY FS_CardinalityType DEF PendFinite, Item
    <3> QED BY <2>2, <2>4, <3>1 DEF NewRow, MakesProject, RowType, Key
  <2>6. \A x \in rows \cup Pending : x.tab = t => x.id # y.id
    <3>1. SUFFICES ASSUME NEW x \in rows \cup Pending, x.tab = t, x.id = y.id
                   PROVE  x \in Seen(r)
      <4>1. \A x \in RowType : x.id \in Nat
        BY DEF RowType
      <4>2. rows \cup Pending \subseteq RowType
        BY DEF TypeOK, Pending
      <4> QED BY <2>4, <2>5, <4>1, <4>2
    <3>2. CASE x \in rows
      BY <3>2 DEF Seen
    <3>3. CASE x \in Pending
      <4>1. PICK q \in Requests : x \in pend[q]
        BY <3>3 DEF Pending
      <4>2. q = r
        BY <2>1, <3>1, <4>1, OneInserterPerTable
      <4> QED BY <4>1, <4>2 DEF Seen
    <3> QED BY <3>2, <3>3
  <2> HIDE DEF t, y
  <2>7. Pending' = Pending \cup {y}
    BY <2>1 DEF Pending, TypeOK
  <2>8. TypeOK' /\ PendFinite'
    <3>1. TypeOK'
      BY <2>1, <2>5 DEF TypeOK
    <3>2. PendFinite'
      BY <2>1, FS_AddElement DEF PendFinite, TypeOK
    <3> QED BY <3>1, <3>2
  <2>9. LockHeld'
    BY <2>1, <2>5 DEF LockHeld, TypeOK, t
  <2>10. BoundedIds'
    <3>1. \A x \in rows' \cup Pending' : x.id <= hi + 1
      <4>1. \A x \in rows \cup Pending : x.id \in Nat
        BY DEF TypeOK, Pending, RowType
      <4> QED BY <2>1, <2>3, <2>4, <2>5, <2>7, <4>1
    <3> QED BY <3>1 DEF BoundedIds
  <2>11. Disjoint' /\ UniqueIds'
    <3>1. y \notin rows
      BY <2>5, <2>6
    <3>2. Disjoint'
      BY <2>1, <3>1 DEF Disjoint, TypeOK
    <3>3. UniqueIds'
      BY <2>1, <2>5, <2>6, <2>7 DEF UniqueIds, IdsUnique
    <3> QED BY <3>2, <3>3
  <2> QED BY <2>8, <2>9, <2>10, <2>11
<1>3. CASE RefuseItem(r)
  <2>1. /\ pend' = [pend EXCEPT ![r] = {}] /\ pc[r] = "txn"
        /\ lock' = [u \in Locks |-> IF lock[u] = r THEN NoRequest ELSE lock[u]]
        /\ UNCHANGED <<rows, call, host, dropped>>
    BY <1>3 DEF RefuseItem, EndTxn
  <2>2. TypeOK'
    BY <1>3, <2>1 DEF RefuseItem, TypeOK, Release, Answer, Steps, Replies
  <2>3. LockHeld'
    <3>1. pc' = [pc EXCEPT ![r] = "done"]
      BY <1>3 DEF RefuseItem, Answer
    <3>2. \A q \in Requests : LockName[call[q].ep] \in Locks
      BY CallsAssumption, LocksAreTables DEF TypeOK, CallType
    <3> QED BY <2>1, <3>1, <3>2 DEF LockHeld, TypeOK
  <2>4. \A q \in Requests : pend'[q] = pend[q] \/ pend'[q] = {}
    BY <2>1 DEF TypeOK
  <2> QED BY <2>1, <2>2, <2>3, <2>4, RollbackKeepsRows DEF TypeOK
<1>4. CASE CommitCreate(r)
  <2>1. /\ pend' = [pend EXCEPT ![r] = {}] /\ pc[r] = "txn"
        /\ rows' = rows \cup pend[r]
        /\ lock' = [u \in Locks |-> IF lock[u] = r THEN NoRequest ELSE lock[u]]
        /\ pc' = [pc EXCEPT ![r] = "committed"]
        /\ UNCHANGED <<loop, call, host, reply, dropped>>
    BY <1>4 DEF CommitCreate, EndTxn, Goto
  <2>2. TypeOK'
    BY <2>1 DEF TypeOK, Steps
  <2>3. LockHeld'
    <3>1. \A q \in Requests : LockName[call[q].ep] \in Locks
      BY CallsAssumption, LocksAreTables DEF TypeOK, CallType
    <3> QED BY <2>1, <3>1 DEF LockHeld, TypeOK
  <2>4. rows' \cup Pending' \subseteq rows \cup Pending
    BY <2>1 DEF Pending, TypeOK
  <2>5. BoundedIds' /\ UniqueIds'
    BY <2>4 DEF BoundedIds, UniqueIds, IdsUnique
  <2>6. PendFinite'
    BY <2>1, FS_EmptySet DEF PendFinite, TypeOK
  <2>7. Disjoint'
    <3>1. \A q \in Requests : q # r => pend[q] \cap pend[r] = {}
      BY <2>1, OneInserterPerTable DEF LockHeld
    <3> QED BY <2>1, <3>1 DEF Disjoint, TypeOK
  <2> QED BY <2>2, <2>3, <2>5, <2>6, <2>7
<1> QED BY <1>1, <1>2, <1>3, <1>4 DEF Create

\* The steps that leave pending rows and locks alone and do not enter or
\* leave a transaction.
LEMMA OutsideTxnKeepsLockHeld ==
  ASSUME IInv, NEW r \in Requests, UNCHANGED <<pend, lock, call>>,
         NEW s, pc' = [pc EXCEPT ![r] = s], pc[r] # "txn", s # "txn"
  PROVE  LockHeld'
BY DEF IInv, LockHeld, TypeOK

LEMMA PatchKeepsIInv ==
  ASSUME IInv, NEW r \in Requests, Patch(r)
  PROVE  IInv'
<1> USE DEF IInv
<1>1. CASE PatchCheck(r) \/ PatchRefuse(r) \/ PatchReload(r)
  <2>1. UNCHANGED <<rows, pend, lock, call, host>>
    BY <1>1 DEF PatchCheck, PatchRefuse, PatchReload
  <2>2. TypeOK'
    BY <1>1, <2>1 DEF PatchCheck, PatchRefuse, PatchReload, TypeOK,
                      Release, Goto, Answer, Steps, Replies
  <2>3. LockHeld'
    <3>1. pc[r] # "txn" /\ \E s \in {"body", "done"} : pc' = [pc EXCEPT ![r] = s]
      BY <1>1 DEF PatchCheck, PatchRefuse, PatchReload, Goto, Answer
    <3> QED BY <2>1, <3>1, OutsideTxnKeepsLockHeld
  <2> QED BY <2>1, <2>2, <2>3, NoRowChanges
<1>2. CASE PatchUpdate(r)
  <2> DEFINE F == PatchedRow(r)
  <2>1. /\ UNCHANGED <<pend, lock, call, host, reply, dropped>>
        /\ pc[r] = "body" /\ pc' = [pc EXCEPT ![r] = "reload"]
        /\ loop' = [loop EXCEPT ![host[r]] = r]
    BY <1>2 DEF PatchUpdate, Take, Goto
  <2>2. Rewrites(F)
    BY <1>2, PatchRewrites
  <2>3. rows' \subseteq RowType /\ BoundedIds' /\ Disjoint' /\ UniqueIds'
    <3> HIDE DEF F, IInv
    <3> QED BY <2>1, <2>2, RewriteKeepsRows
  <2>4. TypeOK' /\ PendFinite'
    BY <2>1, <2>3 DEF TypeOK, PendFinite, Steps
  <2>5. LockHeld'
    BY <2>1, OutsideTxnKeepsLockHeld
  <2> QED BY <2>3, <2>4, <2>5
<1> QED BY <1>1, <1>2 DEF Patch

LEMMA DeleteKeepsIInv ==
  ASSUME IInv, NEW r \in Requests, Delete(r)
  PROVE  IInv'
<1> USE DEF IInv
<1> DEFINE gone == {x \in rows : Hit(call[r], x)}
<1>1. /\ rows' = rows \ gone
      /\ dropped' = dropped \cup {x.key : x \in gone}
      /\ UNCHANGED <<pend, lock, loop, call, host>>
      /\ pc[r] = "idle" /\ Answer(r, IF gone = {} THEN "not_found" ELSE "ok")
  BY DEF Delete
<1>2. TypeOK' /\ PendFinite'
  <2>1. {x.key : x \in gone} \subseteq Key
    BY DEF TypeOK, RowType
  <2> HIDE DEF gone
  <2> QED BY <1>1, <2>1 DEF TypeOK, PendFinite, Answer, Steps, Replies
<1>3. LockHeld'
  BY <1>1, OutsideTxnKeepsLockHeld DEF Answer
<1>4. rows' \cup Pending' \subseteq rows \cup Pending
  BY <1>1 DEF Pending
<1>5. BoundedIds' /\ UniqueIds' /\ Disjoint'
  BY <1>1, <1>4 DEF BoundedIds, UniqueIds, IdsUnique, Disjoint
<1> QED BY <1>2, <1>3, <1>5

LEMMA ArchiveKeepsIInv ==
  ASSUME IInv, NEW r \in Requests, Archive(r)
  PROVE  IInv'
<1> USE DEF IInv
<1>1. CASE ArchiveCheck(r) \/ ArchiveReread(r)
  <2>1. UNCHANGED <<rows, pend, lock, loop, call, host, dropped>>
    BY <1>1 DEF ArchiveCheck, ArchiveReread
  <2>2. /\ pc[r] # "txn"
        /\ \E s \in {"archive", "done"} : pc' = [pc EXCEPT ![r] = s]
        /\ reply' = reply \/ \E a \in Replies : reply' = [reply EXCEPT ![r] = a]
    BY <1>1 DEF ArchiveCheck, ArchiveReread, Goto, Answer, Replies
  <2>3. TypeOK'
    BY <2>1, <2>2 DEF TypeOK, Steps
  <2>4. LockHeld'
    BY <2>1, <2>2, OutsideTxnKeepsLockHeld
  <2> QED BY <2>1, <2>3, <2>4, NoRowChanges
<1>2. CASE ArchiveApply(r)
  <2> DEFINE F == ArchivedRow(r)
  <2>1. /\ UNCHANGED <<pend, lock, loop, call, host, reply, dropped>>
        /\ pc[r] = "archive" /\ pc' = [pc EXCEPT ![r] = "reread"]
    BY <1>2 DEF ArchiveApply, Goto
  <2>2. Rewrites(F)
    BY <1>2, ArchiveRewrites
  <2>3. rows' \subseteq RowType /\ BoundedIds' /\ Disjoint' /\ UniqueIds'
    <3> HIDE DEF F, IInv
    <3> QED BY <2>1, <2>2, RewriteKeepsRows
  <2>4. TypeOK' /\ PendFinite'
    BY <2>1, <2>3 DEF TypeOK, PendFinite, Steps
  <2>5. LockHeld'
    BY <2>1, OutsideTxnKeepsLockHeld
  <2> QED BY <2>3, <2>4, <2>5
<1> QED BY <1>1, <1>2 DEF Archive

LEMMA CrashKeepsIInv ==
  ASSUME IInv, NEW w \in Workers, WorkerCrash(w)
  PROVE  IInv'
<1> USE DEF IInv
<1> DEFINE lost == InFlight(w)
<1>1. /\ pend' = [r \in Requests |-> IF r \in lost THEN {} ELSE pend[r]]
      /\ lock' = [t \in Locks |-> IF lock[t] \in lost THEN NoRequest ELSE lock[t]]
      /\ loop' = [loop EXCEPT ![w] = NoRequest]
      /\ pc' = [r \in Requests |-> IF r \in lost THEN "done" ELSE pc[r]]
      /\ reply' = [r \in Requests |-> IF r \in lost THEN "lost" ELSE reply[r]]
      /\ UNCHANGED <<rows, call, host, dropped>>
  BY DEF WorkerCrash
<1> HIDE DEF lost
<1>2. TypeOK'
  BY <1>1 DEF TypeOK, Steps, Replies
<1>3. LockHeld'
  <2>1. \A q \in Requests : LockName[call[q].ep] \in Locks
    BY CallsAssumption, LocksAreTables DEF TypeOK, CallType
  <2> QED BY <1>1, <2>1 DEF LockHeld, TypeOK
<1>4. \A r \in Requests : pend'[r] = pend[r] \/ pend'[r] = {}
  BY <1>1
<1> QED BY <1>1, <1>2, <1>3, <1>4, RollbackKeepsRows DEF TypeOK

LEMMA StepKeepsIInv == IInv /\ [Next]_vars => IInv'
<1> SUFFICES ASSUME IInv, [Next]_vars PROVE IInv'
  OBVIOUS
<1>1. CASE UNCHANGED vars
  BY <1>1 DEF vars, IInv, TypeOK, PendFinite, LockHeld, BoundedIds, Disjoint,
              UniqueIds, IdsUnique, Pending
<1>2. ASSUME NEW r \in Requests, Handler(r) PROVE IInv'
  BY <1>2, CreateKeepsIInv, PatchKeepsIInv, DeleteKeepsIInv, ArchiveKeepsIInv
  DEF Handler
<1>3. ASSUME NEW w \in Workers, WorkerCrash(w) PROVE IInv'
  BY <1>3, CrashKeepsIInv
<1> QED BY <1>1, <1>2, <1>3 DEF Next, Quiet

----------------------------------------------------------------------------
(***************************************************************************)
(* The theorems.                                                           *)
(***************************************************************************)

\* The inductive invariant holds in every behaviour of the registry.
THEOREM Invariance == Spec => []IInv
<1>1. Init => IInv
  BY InitIInv
<1>2. IInv /\ [Next]_vars => IInv'
  BY StepKeepsIInv
<1> QED BY <1>1, <1>2, PTL DEF Spec

\* Type correctness of the handlers of subjects, projects and verbs.
THEOREM TypeCorrect == Spec => []TypeOK
<1>1. IInv => TypeOK
  BY DEF IInv
<1> QED BY <1>1, Invariance, PTL

\* A transaction of tx_with_advisory_lock that has inserted rows holds the
\* lock of their table, also when other transactions crash or roll back.
THEOREM InsertersHoldTheLock == Spec => []LockHeld
<1>1. IInv => LockHeld
  BY DEF IInv
<1> QED BY <1>1, Invariance, PTL

\* "So ids can't collide": MAX(id) + 1 under the advisory lock never gives
\* two rows of a table one id, for any number of requests, workers and items.
THEOREM IdsNeverCollide == Spec => []UniqueIds
<1>1. IInv => UniqueIds
  BY DEF IInv
<1> QED BY <1>1, Invariance, PTL


----------------------------------------------------------------------------
(***************************************************************************)
(* The batches.  The rows of an open transaction carry the numbers of the  *)
(* items up to the last one inserted; their ids follow one another because *)
(* the last one is the greatest id its next INSERT sees: committed rows of *)
(* the table have lower ones, also after deletes, and nobody commits rows  *)
(* into the table meanwhile.                                               *)
(***************************************************************************)

\* The keys of the rows that were ever committed.
Made == {x.key : x \in rows} \cup dropped

\* No row of request r was ever committed.
Unborn(r) == \A k \in Made : k[1] # r

\* Ids and items of one request go up together.
InStep(x, y) == x.id + y.key[2] = y.id + x.key[2]

CommittedRuns ==
  \A x, y \in rows :
    /\ x.key = y.key => x = y
    /\ x.key[1] = y.key[1] /\ x.key[1] \in Requests => InStep(x, y)

\* The rows inserted so far, one for each item up to the number of them.
PendingRun(r) ==
  /\ Cardinality(pend[r]) <= call[r].n
  /\ \A i \in 1..Cardinality(pend[r]) : \E x \in pend[r] : x.key = <<r, i>>
  /\ \A x \in pend[r] :
       /\ x.key[1] = r /\ x.key[2] \in 1..Cardinality(pend[r])
       /\ \A y \in pend[r] : InStep(x, y) /\ (x.key = y.key => x = y)
       /\ \A y \in rows : y.tab = x.tab => y.id < x.id

\* How far a batch has come, and what of it the others see.
BatchOf(r) ==
  /\ pc[r] \in {"lock", "txn", "committed"} => call[r].op = "create"
  /\ pc[r] \in {"idle", "lock", "txn"} => Unborn(r)
  /\ call[r].op = "create" =>
       /\ pc[r] \in {"idle", "lock", "txn", "committed", "done"}
       /\ pc[r] # "done" => reply[r] = "none"
       /\ Unborn(r) \/ Born(r) = 1..call[r].n
       /\ pc[r] = "committed" \/ reply[r] = "ok" => Born(r) = 1..call[r].n
       /\ reply[r] = "refused" => Unborn(r)

BatchInv == CommittedRuns /\ \A r \in Requests : PendingRun(r) /\ BatchOf(r)


LEMMA InitBatchInv == Init => BatchInv
<1> SUFFICES ASSUME Init PROVE BatchInv
  OBVIOUS
<1>1. CommittedRuns
  BY InitRowsAssumption, NoRequestAssumption DEF Init, CommittedRuns
<1>2. Made = {x.key : x \in InitRows}
  BY DEF Init, Made
<1>3. \A r \in Requests : Unborn(r)
  BY <1>2, InitRowsAssumption, NoRequestAssumption DEF Unborn
<1>4. ASSUME NEW r \in Requests PROVE PendingRun(r)
  <2>1. Cardinality(pend[r]) = 0 /\ pend[r] = {}
    BY FS_EmptySet DEF Init
  <2>2. call[r].n \in Nat
    BY CallsAssumption DEF Init, CallType
  <2> QED BY <2>1, <2>2 DEF PendingRun
<1>5. \A r \in Requests : BatchOf(r)
  BY <1>3 DEF Init, BatchOf
<1> QED BY <1>1, <1>4, <1>5 DEF BatchInv

\* Some of the committed rows remain, with table, id and key.
Carried(F, S) ==
  /\ S \subseteq rows /\ rows' = {F[x] : x \in S}
  /\ \A x \in S : F[x].tab = x.tab /\ F[x].id = x.id /\ F[x].key = x.key

\* The statements that neither insert nor commit.
LEMMA CarriedKeepsRuns ==
  ASSUME IInv, BatchInv, UNCHANGED call, NEW F, NEW S, Carried(F, S),
         \A r \in Requests : pend'[r] = pend[r] \/ pend'[r] = {}
  PROVE  CommittedRuns' /\ \A r \in Requests : PendingRun(r)'
<1>1. \A y \in rows' : \E x \in S : /\ x \in rows /\ y = F[x]
                                    /\ y.tab = x.tab /\ y.id = x.id /\ y.key = x.key
  BY DEF Carried
<1>2. CommittedRuns'
  <2> SUFFICES ASSUME NEW y \in rows', NEW z \in rows'
               PROVE  /\ y.key = z.key => y = z
                      /\ y.key[1] = z.key[1] /\ y.key[1] \in Requests => InStep(y, z)
    BY DEF CommittedRuns, InStep
  <2>1. PICK a \in S : /\ a \in rows /\ y = F[a]
                       /\ y.tab = a.tab /\ y.id = a.id /\ y.key = a.key
    BY <1>1
  <2>2. PICK b \in S : /\ b \in rows /\ z = F[b]
                       /\ z.tab = b.tab /\ z.id = b.id /\ z.key = b.key
    BY <1>1
  <2> QED BY <2>1, <2>2 DEF BatchInv, CommittedRuns, InStep
<1>3. ASSUME NEW r \in Requests PROVE PendingRun(r)'
  <2>1. PendingRun(r) /\ call[r].n \in Nat
    BY CallsAssumption DEF BatchInv, IInv, TypeOK, CallType
  <2>2. CASE pend'[r] = {}
    <3>1. Cardinality(pend'[r]) = 0
      BY <2>2, FS_EmptySet
    <3> QED BY <2>1, <2>2, <3>1 DEF PendingRun
  <2>3. CASE pend'[r] = pend[r]
    <3>1. \A x \in pend[r] : \A y \in rows' : y.tab = x.tab => y.id < x.id
      BY <1>1, <2>1 DEF PendingRun
    <3> QED BY <2>1, <2>3, <3>1 DEF PendingRun, InStep
  <2> QED BY <2>2, <2>3
<1> QED BY <1>2, <1>3

\* Nothing is carried along by a statement that reads only.
LEMMA UnchangedRowsCarried ==
  ASSUME UNCHANGED rows PROVE Carried([x \in rows |-> x], rows)
BY DEF Carried

\* What the others see of a batch stays as it is while nothing is committed.
LEMMA SeenBatchStays ==
  ASSUME NEW q \in Requests, Made' = Made, UNCHANGED call
  PROVE  Born(q)' = Born(q) /\ Unborn(q)' = Unborn(q)
<1>1. \A k \in Nat : /\ (<<q, k>> \in dropped \/ \E x \in rows : x.key = <<q, k>>)
                           <=> <<q, k>> \in Made
                     /\ (<<q, k>> \in dropped' \/ \E x \in rows' : x.key = <<q, k>>)
                           <=> <<q, k>> \in Made'
  BY DEF Made
<1>2. Born(q)' = Born(q)
  BY <1>1 DEF Born
<1>3. Unborn(q)' = Unborn(q)
  BY <1>1 DEF Unborn
<1> QED BY <1>2, <1>3

\* A step of one request that commits and inserts nothing.
LEMMA NothingMade ==
  ASSUME IInv, BatchInv, NEW r \in Requests, NEW F, NEW S, Carried(F, S),
         Made' = Made, UNCHANGED call,
         \A q \in Requests : pend'[q] = pend[q] \/ pend'[q] = {},
         \A q \in Requests \ {r} : pc'[q] = pc[q] /\ reply'[q] = reply[q],
         \/ BatchOf(r)'
         \/ call[r].op # "create" /\ pc'[r] \notin {"idle", "lock", "txn", "committed"}
  PROVE  BatchInv'
<1>1. CommittedRuns' /\ \A q \in Requests : PendingRun(q)'
  BY CarriedKeepsRuns
<1>2. ASSUME NEW q \in Requests \ {r} PROVE BatchOf(q)'
  BY <1>2, SeenBatchStays DEF BatchInv, BatchOf
<1>3. BatchOf(r)'
  BY DEF BatchOf
<1> QED BY <1>1, <1>2, <1>3 DEF BatchInv

LEMMA InsertKeepsBatches ==
  ASSUME IInv, BatchInv, NEW r \in Requests, InsertItem(r)
  PROVE  BatchInv'
<1> DEFINE t == TableOf[call[r].ep]
           y == NewRow(r)
           c == Cardinality(pend[r])
<1>1. /\ pc[r] = "txn" /\ c + 1 <= call[r].n
      /\ pend' = [pend EXCEPT ![r] = @ \cup {y}]
      /\ UNCHANGED <<rows, lock, loop, call, host, pc, reply, dropped>>
  BY DEF InsertItem, Item
<1>2. c \in Nat /\ call[r].n \in Nat /\ IsFiniteSet(pend[r]) /\ (c = 0 => pend[r] = {})
  BY CallsAssumption, FS_CardinalityType, FS_EmptySet
  DEF IInv, PendFinite, TypeOK, CallType
<1>3. \A x \in rows \cup pend[r] : x \in RowType /\ x.id \in Nat /\ x.key[2] \in Nat
  BY DEF IInv, TypeOK, RowType, Key
<1>4. PendingRun(r) /\ \A x \in pend[r] : x.tab = t
  BY DEF BatchInv, IInv, LockHeld
<1>5. y.tab = t /\ y.key = <<r, c + 1>> /\ y.id = NextId(Seen(r), t)
  BY DEF NewRow, Item
<1>6. /\ y.id \in Nat
      /\ \A x \in Seen(r) : x.tab = t => x.id < y.id
      /\ \A x \in Seen(r) : x.tab = t => \E z \in Seen(r) : z.tab = t /\ y.id = z.id + 1
  <2>1. PICK hi \in Nat : \A x \in rows \cup Pending : x.id <= hi
    BY DEF IInv, BoundedIds
  <2>2. Seen(r) \subseteq RowType /\ \A x \in Seen(r) : x.id <= hi
    BY <1>3, <2>1 DEF Seen, Pending
  <2>3. /\ NextId(Seen(r), t) \in Nat
        /\ \A x \in Seen(r) : x.tab = t => x.id < NextId(Seen(r), t)
        /\ \A x \in Seen(r) : x.tab = t =>
             \E z \in Seen(r) : z.tab = t /\ NextId(Seen(r), t) = z.id + 1
    <3> HIDE DEF t, y
    <3> QED BY <2>1, <2>2, NextIdIsNew
  <2> HIDE DEF t, y
  <2> QED BY <1>5, <2>3, Zenon
<1> HIDE DEF y, t
<1>7. y \notin pend[r] /\ \A x \in pend[r] : x.key # y.key /\ x.id < y.id
  <2>1. \A x \in pend[r] : x.key[2] <= c /\ x.id < y.id
    BY <1>2, <1>4, <1>6 DEF PendingRun, Seen
  <2> QED BY <1>2, <1>5, <2>1
<1>8. \A x \in pend[r] : InStep(x, y)
  <2> SUFFICES ASSUME NEW x \in pend[r] PROVE InStep(x, y)
    OBVIOUS
  <2>1. c \in 1..c
    BY <1>2
  <2>2. PICK top \in pend[r] : top.key = <<r, c>>
    BY <1>4, <2>1 DEF PendingRun
  <2>3. PICK z \in Seen(r) : z.tab = t /\ y.id = z.id + 1
    BY <1>4, <1>6 DEF Seen
  <2>4. z.id <= top.id
    <3>1. CASE z \in rows
      BY <1>3, <1>4, <2>3, <3>1 DEF PendingRun
    <3>2. CASE z \in pend[r]
      <4>1. z.id + c = top.id + z.key[2] /\ z.key[2] <= c
        BY <1>2, <1>4, <2>2, <3>2 DEF PendingRun, InStep
      <4> HIDE DEF c
      <4> QED BY <1>2, <1>3, <3>2, <4>1
    <3> QED BY <3>1, <3>2 DEF Seen
  <2>5. top.id < y.id
    BY <1>7
  <2>6. y.id = top.id + 1
    BY <1>3, <2>3, <2>4, <2>5 DEF Seen
  <2>7. x.id + c = top.id + x.key[2]
    BY <1>4, <2>2 DEF PendingRun, InStep
  <2>8. x.id + (c + 1) = y.id + x.key[2]
    <3> HIDE DEF c
    <3> QED BY <1>2, <1>3, <2>6, <2>7
  <2> QED BY <1>5, <2>8 DEF InStep
<1>9. Cardinality(pend[r] \cup {y}) = c + 1
  BY <1>2, <1>7, FS_AddElement
<1> HIDE DEF c
<1>10. PendingRun(r)'
  <2>1. pend'[r] = pend[r] \cup {y} /\ Cardinality(pend'[r]) = c + 1
    BY <1>1, <1>9 DEF IInv, TypeOK
  <2>2. \A i \in 1..(c + 1) : \E x \in pend'[r] : x.key = <<r, i>>
    <3>1. \A i \in 1..(c + 1) : i \in 1..c \/ i = c + 1
      BY <1>2
    <3> QED BY <1>4, <1>5, <2>1, <3>1 DEF PendingRun, c
  <2>3. ASSUME NEW x \in pend'[r]
        PROVE  x.key[1] = r /\ x.key[2] \in 1..(c + 1)
    BY <1>2, <1>4, <1>5, <2>1 DEF PendingRun, c
  <2>4. InStep(y, y) /\ \A x \in pend[r] : InStep(y, x)
    <3>1. y.id \in Nat /\ y.key[2] \in Nat
      BY <1>2, <1>5, <1>6
    <3> QED BY <1>3, <1>8, <3>1 DEF InStep
  <2>5. ASSUME NEW x \in pend'[r], NEW z \in pend'[r]
        PROVE  InStep(x, z) /\ (x.key = z.key => x = z)
    BY <1>4, <1>7, <1>8, <2>1, <2>4 DEF PendingRun, InStep
  <2>6. ASSUME NEW x \in pend'[r], NEW z \in rows, z.tab = x.tab
        PROVE  z.id < x.id
    BY <1>4, <1>5, <1>6, <2>1, <2>6 DEF PendingRun, Seen
  <2> QED BY <1>1, <2>1, <2>2, <2>3, <2>5, <2>6 DEF PendingRun, InStep
<1>11. ASSUME NEW q \in Requests, q # r PROVE PendingRun(q)'
  <2>1. pend'[q] = pend[q] /\ PendingRun(q)
    BY <1>1, <1>11 DEF IInv, TypeOK, BatchInv
  <2> QED BY <1>1, <2>1 DEF PendingRun, InStep
<1>12. CommittedRuns' /\ \A q \in Requests : BatchOf(q)'
  BY <1>1 DEF BatchInv, CommittedRuns, InStep, BatchOf, Unborn, Born, Made
<1> QED BY <1>10, <1>11, <1>12 DEF BatchInv


LEMMA CommitKeepsBatches ==
  ASSUME IInv, BatchInv, NEW r \in Requests, CommitCreate(r)
  PROVE  BatchInv'
<1> DEFINE n == call[r].n
<1>1. /\ pc[r] = "txn" /\ Cardinality(pend[r]) + 1 > n
      /\ pend' = [pend EXCEPT ![r] = {}]
      /\ rows' = rows \cup pend[r]
      /\ pc' = [pc EXCEPT ![r] = "committed"]
      /\ UNCHANGED <<call, reply, dropped>>
  BY DEF CommitCreate, EndTxn, Goto, Item
<1>2. n \in Nat /\ PendingRun(r) /\ BatchOf(r)
  BY CallsAssumption DEF BatchInv, IInv, TypeOK, CallType
<1>3. Cardinality(pend[r]) = n
  <2>1. Cardinality(pend[r]) \in Nat
    BY FS_CardinalityType DEF IInv, PendFinite
  <2> QED BY <1>1, <1>2, <2>1 DEF PendingRun
<1>4. Unborn(r) /\ \A x \in rows : x.key[1] # r
  BY <1>1, <1>2 DEF BatchOf, Unborn, Made
<1>5. \A x \in pend[r] : x.key[1] = r
  BY <1>2 DEF PendingRun
<1>6. \A q \in Requests \ {r} : /\ pend'[q] = pend[q] /\ pc'[q] = pc[q]
                                /\ PendingRun(q) /\ BatchOf(q)
  BY <1>1 DEF BatchInv, IInv, TypeOK
<1>7. pend'[r] = {} /\ pc'[r] = "committed"
  BY <1>1 DEF IInv, TypeOK
<1> HIDE DEF n
<1>8. CommittedRuns'
  <2> SUFFICES ASSUME NEW x \in rows \cup pend[r], NEW y \in rows \cup pend[r]
               PROVE  /\ x.key = y.key => x = y
                      /\ x.key[1] = y.key[1] /\ x.key[1] \in Requests => InStep(x, y)
    BY <1>1 DEF CommittedRuns, InStep
  <2>1. CASE x \in rows /\ y \in rows
    BY <2>1 DEF BatchInv, CommittedRuns
  <2>2. CASE x \in pend[r] /\ y \in pend[r]
    BY <1>2, <2>2 DEF PendingRun
  <2>3. CASE (x \in rows) # (y \in rows)
    BY <1>4, <1>5, <2>3
  <2> QED BY <1>4, <1>5, <2>1, <2>2, <2>3
<1>9. ASSUME NEW q \in Requests PROVE PendingRun(q)'
  <2>1. CASE q = r
    <3>1. Cardinality(pend'[r]) = 0
      BY <1>7, FS_EmptySet
    <3> QED BY <1>1, <1>2, <1>7, <2>1, <3>1 DEF PendingRun, n
  <2>2. CASE q # r
    <3>1. \A x \in pend[q] : \A y \in pend[r] : x.tab # y.tab
      <4>1. \A x \in pend[q] : x.tab # TableOf[call[r].ep]
        BY <1>1, <2>2, OneInserterPerTable DEF IInv
      <4>2. \A y \in pend[r] : y.tab = TableOf[call[r].ep]
        BY DEF IInv, LockHeld
      <4> QED BY <4>1, <4>2
    <3>2. pend'[q] = pend[q] /\ PendingRun(q) /\ call' = call
      BY <1>1, <1>6, <2>2
    <3>3. \A x \in pend[q] : \A y \in rows' : y.tab = x.tab => y.id < x.id
      BY <1>1, <3>1, <3>2 DEF PendingRun
    <3> QED BY <3>2, <3>3 DEF PendingRun, InStep
  <2> QED BY <2>1, <2>2
<1>10. Made' = Made \cup {x.key : x \in pend[r]}
  BY <1>1 DEF Made
<1>11. ASSUME NEW q \in Requests PROVE BatchOf(q)'
  <2>1. CASE q = r
    <3>1. Born(r)' = 1..n
      <4>1. \A i \in 1..n : \E x \in rows' : x.key = <<r, i>>
        BY <1>1, <1>2, <1>3 DEF PendingRun
      <4> QED BY <1>1, <4>1 DEF Born, n
    <3> QED BY <1>1, <1>2, <1>7, <2>1, <3>1 DEF BatchOf, n
  <2>2. CASE q # r
    <3>1. Unborn(q)' <=> Unborn(q)
      BY <1>5, <1>10, <2>2 DEF Unborn
    <3>2. Born(q)' = Born(q)
      <4>1. \A i \in Nat : \A x \in pend[r] : x.key # <<q, i>>
        BY <1>5, <2>2
      <4> QED BY <1>1, <4>1 DEF Born
    <3> QED BY <1>1, <1>6, <2>2, <3>1, <3>2 DEF BatchOf
  <2> QED BY <2>1, <2>2
<1> QED BY <1>8, <1>9, <1>11 DEF BatchInv


LEMMA HandlerKeepsBatches ==
  ASSUME IInv, BatchInv, NEW r \in Requests, Handler(r)
  PROVE  BatchInv'
<1> DEFINE Id == [x \in rows |-> x]
<1>1. BatchOf(r) /\ r \in DOMAIN pc /\ r \in DOMAIN reply /\ r \in DOMAIN pend
  BY DEF BatchInv, IInv, TypeOK
<1>2. CASE InsertItem(r)
  BY <1>2, InsertKeepsBatches
<1>3. CASE CommitCreate(r)
  BY <1>3, CommitKeepsBatches
<1>4. CASE BeginCreate(r) \/ RefuseBody(r) \/ AcquireLock(r) \/ RefuseItem(r)
           \/ RespondCreated(r)
  <2>1. /\ UNCHANGED <<rows, call, dropped>>
        /\ pend' = pend \/ pend' = [pend EXCEPT ![r] = {}]
    BY <1>4 DEF BeginCreate, RefuseBody, AcquireLock, RefuseItem, EndTxn, RespondCreated
  <2>2. \/ /\ pc[r] = "idle" /\ call[r].op = "create"
           /\ pc' = [pc EXCEPT ![r] = "lock"] /\ reply' = reply
        \/ /\ pc[r] = "lock"
           /\ pc' = [pc EXCEPT ![r] = "txn"] /\ reply' = reply
        \/ /\ pc[r] \in {"idle", "txn"} /\ pc' = [pc EXCEPT ![r] = "done"]
           /\ reply' = [reply EXCEPT ![r] = "refused"]
        \/ /\ pc[r] = "committed" /\ pc' = [pc EXCEPT ![r] = "done"]
           /\ reply' = [reply EXCEPT ![r] = "ok"]
    BY <1>4 DEF BeginCreate, RefuseBody, AcquireLock, RefuseItem, RespondCreated,
                Goto, Answer
  <2>3. Made' = Made
    BY <2>1 DEF Made
  <2>4. Born(r)' = Born(r) /\ Unborn(r)' = Unborn(r)
    BY <2>1, <2>3, SeenBatchStays
  <2>5. BatchOf(r)'
    BY <1>1, <2>1, <2>2, <2>4 DEF BatchOf
  <2>6. \A q \in Requests \ {r} : pc'[q] = pc[q] /\ reply'[q] = reply[q]
    BY <2>2 DEF IInv, TypeOK
  <2>7. \A q \in Requests : pend'[q] = pend[q] \/ pend'[q] = {}
    BY <2>1 DEF IInv, TypeOK
  <2>8. Carried(Id, rows)
    BY <2>1, UnchangedRowsCarried
  <2> HIDE DEF Id
  <2> QED BY <2>1, <2>3, <2>5, <2>6, <2>7, <2>8, NothingMade
<1>5. CASE Patch(r) \/ Delete(r) \/ Archive(r)
  <2>1. /\ UNCHANGED <<pend, call>>
        /\ \E s \in {"body", "reload", "archive", "reread", "done"} :
             pc' = [pc EXCEPT ![r] = s]
        /\ reply' = reply \/ \E a \in Replies : reply' = [reply EXCEPT ![r] = a]
    BY <1>5 DEF Patch, PatchCheck, PatchRefuse, PatchUpdate, PatchReload, Delete,
                Archive, ArchiveCheck, ArchiveApply, ArchiveReread, Goto, Answer,
                Replies
  <2>2. call[r].op # "create"
    BY <1>1, <1>5 DEF BatchOf, Patch, PatchCheck, PatchRefuse, PatchUpdate,
       PatchReload, Delete, Archive, ArchiveCheck, ArchiveApply, ArchiveReread, ArchiveOp
  <2>3. pc'[r] \notin {"idle", "lock", "txn", "committed"}
    BY <1>1, <2>1
  <2>4. \A q \in Requests \ {r} : pc'[q] = pc[q] /\ reply'[q] = reply[q]
    BY <2>1 DEF IInv, TypeOK
  <2>5. \E F, S : Carried(F, S) /\ Made' = Made
    <3>1. CASE UNCHANGED <<rows, dropped>>
      BY <3>1, UnchangedRowsCarried DEF Made
    <3>2. CASE Delete(r)
      <4> DEFINE gone == {x \in rows : Hit(call[r], x)}
      <4>1. rows' = rows \ gone /\ dropped' = dropped \cup {x.key : x \in gone}
        BY <3>2 DEF Delete
      <4>2. Carried(Id, rows \ gone)
        BY <4>1 DEF Carried
      <4>3. Made' = Made
        BY <4>1 DEF Made
      <4> QED BY <4>2, <4>3
    <3>3. ASSUME NEW F, Rewrites(F), dropped' = dropped
          PROVE  Carried(F, rows) /\ Made' = Made
      BY <3>3 DEF Rewrites, Carried, Made
    <3>4. CASE PatchUpdate(r)
      <4>1. Rewrites(PatchedRow(r)) /\ dropped' = dropped
        BY <3>4, PatchRewrites DEF IInv, PatchUpdate
      <4> QED BY <3>3, <4>1
    <3>5. CASE ArchiveApply(r)
      <4>1. Rewrites(ArchivedRow(r)) /\ dropped' = dropped
        BY <3>5, ArchiveRewrites DEF IInv, ArchiveApply
      <4> QED BY <3>3, <4>1
    <3> QED BY <1>5, <3>1, <3>2, <3>4, <3>5
         DEF Patch, PatchCheck, PatchRefuse, PatchReload, Archive, ArchiveCheck,
             ArchiveReread
  <2>6. PICK F, S : Carried(F, S) /\ Made' = Made
    BY <2>5
  <2> HIDE DEF Id
  <2> QED BY <2>1, <2>2, <2>3, <2>4, <2>6, NothingMade
<1> QED BY <1>2, <1>3, <1>4, <1>5 DEF Handler, Create

LEMMA CrashKeepsBatches ==
  ASSUME IInv, BatchInv, NEW w \in Workers, WorkerCrash(w)
  PROVE  BatchInv'
<1> DEFINE Id == [x \in rows |-> x]
<1>1. /\ pend' = [r \in Requests |-> IF r \in InFlight(w) THEN {} ELSE pend[r]]
      /\ pc' = [r \in Requests |-> IF r \in InFlight(w) THEN "done" ELSE pc[r]]
      /\ reply' = [r \in Requests |-> IF r \in InFlight(w) THEN "lost" ELSE reply[r]]
      /\ UNCHANGED <<rows, call, dropped>>
  BY DEF WorkerCrash
<1>2. Carried(Id, rows) /\ Made' = Made
  BY <1>1, UnchangedRowsCarried DEF Made
<1>3. \A r \in Requests : pend'[r] = pend[r] \/ pend'[r] = {}
  BY <1>1
<1>4. CommittedRuns' /\ \A r \in Requests : PendingRun(r)'
  <2> HIDE DEF Id
  <2> QED BY <1>1, <1>2, <1>3, CarriedKeepsRuns
<1>5. ASSUME NEW r \in Requests PROVE BatchOf(r)'
  <2>1. BatchOf(r) /\ Born(r)' = Born(r) /\ Unborn(r)' = Unborn(r)
    BY <1>1, <1>2, SeenBatchStays DEF BatchInv
  <2>2. CASE r \in InFlight(w)
    BY <1>1, <2>1, <2>2 DEF BatchOf
  <2>3. CASE r \notin InFlight(w)
    BY <1>1, <2>1, <2>3 DEF BatchOf
  <2> QED BY <2>2, <2>3
<1> QED BY <1>4, <1>5 DEF BatchInv

LEMMA StepKeepsBatches == IInv /\ BatchInv /\ [Next]_vars => BatchInv'
<1> SUFFICES ASSUME IInv, BatchInv, [Next]_vars PROVE BatchInv'
  OBVIOUS
<1>1. CASE UNCHANGED vars
  <2>1. /\ CommittedRuns' = CommittedRuns
        /\ \A r \in Requests : PendingRun(r)' = PendingRun(r)
    BY <1>1 DEF vars, CommittedRuns, PendingRun, InStep
  <2>2. \A r \in Requests : BatchOf(r)' = BatchOf(r)
    BY <1>1 DEF vars, BatchOf, Unborn, Born, Made
  <2> QED BY <2>1, <2>2 DEF BatchInv
<1>2. ASSUME NEW r \in Requests, Handler(r) PROVE BatchInv'
  BY <1>2, HandlerKeepsBatches
<1>3. ASSUME NEW w \in Workers, WorkerCrash(w) PROVE BatchInv'
  BY <1>3, CrashKeepsBatches
<1> QED BY <1>1, <1>2, <1>3 DEF Next, Quiet

\* The invariant of the batches.
THEOREM BatchInvariance == Spec => []BatchInv
<1>1. IInv /\ BatchInv /\ [Next]_vars => BatchInv'
  BY StepKeepsBatches
<1> QED BY <1>1, InitBatchInv, Invariance, PTL DEF Spec

\* "All inserts run in one transaction (all-or-nothing)": of a bulk create the
\* others see all rows or none, a 201 means all and a refusal none, and their
\* ids follow one another, whoever deletes or crashes meanwhile.
THEOREM BatchesAreWhole == Spec => []BatchHolds
<1>1. IInv /\ BatchInv => BatchHolds
  <2> SUFFICES ASSUME IInv, BatchInv PROVE BatchHolds
    OBVIOUS
  <2>1. ASSUME NEW r \in Requests, call[r].op = "create"
        PROVE  /\ Born(r) \in {{}, 1..call[r].n}
               /\ reply[r] = "ok" => Born(r) = 1..call[r].n
               /\ reply[r] = "refused" => Born(r) = {}
    <3>1. Unborn(r) => Born(r) = {}
      <4>1. \A i \in Nat : (<<r, i>> \in dropped \/ \E x \in rows : x.key = <<r, i>>)
                             => <<r, i>> \in Made
        BY DEF Made
      <4> QED BY <4>1 DEF Unborn, Born
    <3> QED BY <2>1, <3>1 DEF BatchInv, BatchOf
  <2>2. ASSUME NEW q \in Requests, NEW x \in pend[q]
        PROVE  x.key[1] = q /\ \A y \in rows : y.key[1] # q
    <3>1. Unborn(q)
      BY DEF IInv, LockHeld, BatchInv, BatchOf
    <3> QED BY <3>1 DEF Unborn, Made, BatchInv, PendingRun
  <2>3. ASSUME NEW x \in rows \cup Pending, NEW y \in rows \cup Pending,
               x.key[1] = y.key[1], x.key[1] \in Requests
        PROVE  InStep(x, y)
    <3>1. CASE x \in rows /\ y \in rows
      BY <2>3, <3>1 DEF BatchInv, CommittedRuns
    <3>2. CASE x \in Pending /\ y \in Pending
      BY <2>2, <2>3, <3>2 DEF Pending, BatchInv, PendingRun
    <3>3. CASE (x \in Pending /\ y \in rows) \/ (x \in rows /\ y \in Pending)
      BY <2>2, <2>3, <3>3 DEF Pending
    <3> QED BY <3>1, <3>2, <3>3
  <2> QED BY <2>1, <2>3 DEF BatchHolds, InStep
<1> QED BY <1>1, Invariance, BatchInvariance, PTL

\* What is read before the body arrives may be stale when the UPDATE runs: even
\* so a row changes only under a request that names it, and a project endpoint
\* changes nothing but projects.
THEOREM ChangesAreAskedFor == Spec => OnlyProjectsThroughProjects
<1> DEFINE Allowed == \A x \in rows, y \in rows' :
                        (x.key = y.key /\ x # y) =>
                          \E r \in Requests : /\ pc[r] \in {"body", "archive"}
                                              /\ pc'[r] # pc[r]
                                              /\ Hit(call[r], x)
<1>1. IInv /\ BatchInv /\ [Next]_vars => Allowed
  <2> SUFFICES ASSUME IInv, BatchInv, [Next]_vars,
                      NEW x \in rows, NEW y \in rows', x.key = y.key, x # y
               PROVE  \E r \in Requests : /\ pc[r] \in {"body", "archive"}
                                          /\ pc'[r] # pc[r]
                                          /\ Hit(call[r], x)
    OBVIOUS
  <2>1. y \notin rows
    BY DEF BatchInv, CommittedRuns
  <2>2. PICK r \in Requests : CommitCreate(r) \/ PatchUpdate(r) \/ ArchiveApply(r)
    BY <2>1 DEF Next, Quiet, vars, Handler, Create, Patch, Archive, Delete, BeginCreate,
       RefuseBody, AcquireLock, InsertItem, RefuseItem, RespondCreated, PatchCheck,
       PatchRefuse, PatchReload, ArchiveCheck, ArchiveReread, WorkerCrash
  <2>3. CASE CommitCreate(r)
    <3>1. y \in pend[r] /\ Unborn(r)
      BY <2>1, <2>3 DEF CommitCreate, BatchInv, BatchOf
    <3> QED BY <3>1 DEF Unborn, Made, BatchInv, PendingRun
  <2>4. ASSUME NEW F, Rewrites(F), y # x
        PROVE  y = F[x]
    BY <2>4 DEF Rewrites, BatchInv, CommittedRuns
  <2>5. CASE PatchUpdate(r)
    <3>1. y = PatchedRow(r)[x]
      BY <2>4, <2>5, PatchRewrites DEF IInv
    <3>2. Hit(call[r], x)
      BY <3>1 DEF PatchedRow
    <3>3. pc[r] = "body" /\ pc'[r] = "reload"
      BY <2>5 DEF PatchUpdate, Goto, IInv, TypeOK
    <3> QED BY <3>2, <3>3
  <2>6. CASE ArchiveApply(r)
    <3>1. y = ArchivedRow(r)[x]
      BY <2>4, <2>6, ArchiveRewrites DEF IInv
    <3>2. Hit(call[r], x)
      BY <3>1 DEF ArchivedRow
    <3>3. pc[r] = "archive" /\ pc'[r] = "reread"
      BY <2>6 DEF ArchiveApply, Goto, IInv, TypeOK
    <3> QED BY <3>2, <3>3
  <2> QED BY <2>2, <2>3, <2>5, <2>6
<1> QED BY <1>1, Invariance, BatchInvariance, PTL DEF Spec, OnlyProjectsThroughProjects


----------------------------------------------------------------------------
(***************************************************************************)
(* The handlers implement the module Registry: every step of a request is  *)
(* one step of the promise or changes nothing that it speaks of.           *)
(***************************************************************************)

\* What a step of a handler is to its client.
StageName(s) == CASE s = "done" -> "closed"
                  [] s \in {"committed", "reload", "reread"} -> "applied"
                  [] OTHER -> "open"

LEMMA StageNames ==
  /\ StageName("done") = "closed"
  /\ \A s \in {"committed", "reload", "reread"} : StageName(s) = "applied"
  /\ \A s \in {"idle", "lock", "txn", "body", "archive"} : StageName(s) = "open"
BY DEF StageName

LEMMA StageMoves ==
  ASSUME TypeOK, NEW r \in Requests,
         NEW s \in Steps, pc' = [pc EXCEPT ![r] = s]
  PROVE  /\ Stage[r] = StageName(pc[r])
         /\ Stage' = [Stage EXCEPT ![r] = StageName(s)]
<1>1. Stage = [q \in Requests |-> StageName(pc[q])]
  BY DEF Stage, StageName
<1>2. Stage' = [q \in Requests |-> StageName(pc'[q])]
  BY DEF Stage, StageName
<1>3. pc'[r] = s /\ \A q \in Requests \ {r} : pc'[q] = pc[q]
  BY DEF TypeOK
<1>4. Stage' = [q \in Requests |-> IF q = r THEN StageName(s) ELSE StageName(pc[q])]
  BY <1>2, <1>3
<1> HIDE DEF Stage
<1> QED BY <1>1, <1>4

\* The answer of a request that has changed nothing.
LEMMA Refuses ==
  ASSUME TypeOK, NEW r \in Requests, UNCHANGED <<rows, call>>,
         NEW a \in {"refused", "not_found", "conflict"}, Answer(r, a),
         pc[r] \in {"idle", "lock", "txn", "body", "archive"}
  PROVE  Promise!Refuse(r)
<1>1. /\ pc' = [pc EXCEPT ![r] = "done"] /\ reply' = [reply EXCEPT ![r] = a]
  BY DEF Answer
<1>2. Stage[r] = "open" /\ Stage' = [Stage EXCEPT ![r] = "closed"]
  BY <1>1, StageMoves, StageNames DEF Steps
<1> QED BY <1>1, <1>2 DEF Promise!Refuse, Promise!Close

\* The answer of a request that has taken effect.
LEMMA Responds ==
  ASSUME TypeOK, NEW r \in Requests, UNCHANGED <<rows, call>>,
         NEW a \in {"ok", "gone", "server_error"}, Answer(r, a),
         pc[r] \in {"committed", "reload", "reread"}
  PROVE  Promise!Respond(r)
<1>1. /\ pc' = [pc EXCEPT ![r] = "done"] /\ reply' = [reply EXCEPT ![r] = a]
  BY DEF Answer
<1>2. Stage[r] = "applied" /\ Stage' = [Stage EXCEPT ![r] = "closed"]
  BY <1>1, StageMoves, StageNames DEF Steps
<1> QED BY <1>1, <1>2 DEF Promise!Respond, Promise!Close

\* A statement the client does not see.
LEMMA Hides ==
  ASSUME TypeOK, NEW r \in Requests, UNCHANGED <<rows, call, reply>>,
         NEW s \in {"lock", "txn", "body", "archive"}, pc' = [pc EXCEPT ![r] = s],
         pc[r] \in {"idle", "lock", "txn", "body", "archive"}
  PROVE  UNCHANGED Promise!vars
<1>0. s \in Steps
  BY DEF Steps
<1>1. Stage[r] = "open" /\ Stage' = [Stage EXCEPT ![r] = "open"]
  <2>1. Stage[r] = StageName(pc[r]) /\ Stage' = [Stage EXCEPT ![r] = StageName(s)]
    BY <1>0, StageMoves
  <2> QED BY <2>1, StageNames
<1>2. Stage' = Stage
  BY <1>1 DEF Stage
<1> QED BY <1>2 DEF Promise!vars

LEMMA CommitCreates ==
  ASSUME IInv, BatchInv, NEW r \in Requests, CommitCreate(r)
  PROVE  Promise!Create(r)
<1> DEFINE n == call[r].n
<1>1. /\ pc[r] = "txn" /\ Cardinality(pend[r]) + 1 > n
      /\ rows' = rows \cup pend[r]
      /\ pc' = [pc EXCEPT ![r] = "committed"]
      /\ UNCHANGED <<call, reply>>
  BY DEF CommitCreate, Goto, Item
<1>2. /\ n \in Nat /\ PendingRun(r) /\ call[r].op = "create"
      /\ \A x \in pend[r] : x \in RowType
  BY <1>1, CallsAssumption DEF BatchInv, BatchOf, IInv, TypeOK, CallType
<1>3. Cardinality(pend[r]) = n
  <2>1. Cardinality(pend[r]) \in Nat
    BY FS_CardinalityType DEF IInv, PendFinite
  <2> QED BY <1>1, <1>2, <2>1 DEF PendingRun
<1>4. Stage[r] = "open" /\ Stage' = [Stage EXCEPT ![r] = "applied"]
  <2>1. TypeOK /\ pc' = [pc EXCEPT ![r] = "committed"] /\ "committed" \in Steps
    BY <1>1 DEF IInv, Steps
  <2>2. Stage[r] = StageName(pc[r]) /\ Stage' = [Stage EXCEPT ![r] = StageName("committed")]
    BY <2>1, StageMoves
  <2> QED BY <1>1, <2>2, StageNames
<1>5. rows' \ rows = pend[r]
  BY <1>1 DEF IInv, Disjoint
<1>6. {x.key : x \in pend[r]} = {r} \X (1..n)
  <2>1. \A x \in pend[r] : x.key = <<r, x.key[2]>> /\ x.key[2] \in 1..n
    BY <1>2, <1>3 DEF PendingRun, RowType, Key
  <2>2. \A i \in 1..n : \E x \in pend[r] : x.key = <<r, i>>
    BY <1>2, <1>3 DEF PendingRun
  <2> HIDE DEF n
  <2>3. \A x \in pend[r] : x.key \in {r} \X (1..n)
    <3>1. ASSUME NEW x \in pend[r], NEW i \in 1..n, x.key = <<r, i>>
          PROVE  x.key \in {r} \X (1..n)
      BY <3>1
    <3> QED BY <2>1, <3>1
  <2>4. {r} \X (1..n) \subseteq {x.key : x \in pend[r]}
    BY <2>2
  <2> QED BY <2>3, <2>4
<1>7. \A x, y \in pend[r] : /\ x.tab = y.tab
                            /\ x.id + y.key[2] = y.id + x.key[2]
                            /\ x.key = y.key => x = y
  <2>1. \A x, y \in pend[r] : x.tab = y.tab
    BY DEF IInv, LockHeld
  <2> QED BY <1>2, <2>1 DEF PendingRun, InStep
<1>8. \A x \in pend[r], y \in rows : x.tab = y.tab => x.id # y.id
  BY DEF IInv, UniqueIds, IdsUnique, Disjoint, Pending
<1>9. Promise!Batch(r, rows' \ rows)
  BY <1>5, <1>6, <1>7, <1>8 DEF Promise!Batch
<1> QED BY <1>1, <1>2, <1>4, <1>9 DEF Promise!Create, Promise!Apply

\* An UPDATE of the row a call names.
LEMMA UpdateChanges ==
  ASSUME IInv, NEW r \in Requests, UNCHANGED <<call, reply>>,
         call[r].op \in {"patch", "archive", "unarchive"},
         NEW F, Rewrites(F), \A x \in rows : ~Hit(call[r], x) => F[x] = x,
         NEW s \in {"reload", "reread"}, pc' = [pc EXCEPT ![r] = s],
         pc[r] \in {"body", "archive"}
  PROVE  Promise!Change(r)
<1>0. s \in Steps /\ TypeOK
  BY DEF Steps, IInv
<1>1. Stage[r] = "open" /\ Stage' = [Stage EXCEPT ![r] = "applied"]
  <2>1. Stage[r] = StageName(pc[r]) /\ Stage' = [Stage EXCEPT ![r] = StageName(s)]
    BY <1>0, StageMoves
  <2> QED BY <2>1, StageNames
<1>2. \A x \in rows : /\ F[x] \in rows'
                      /\ F[x].tab = x.tab /\ F[x].id = x.id /\ F[x].key = x.key
                      /\ x.id # call[r].id => F[x] = x
  BY DEF Rewrites, Hit
<1>3. \A y \in rows' : \E x \in rows : y = F[x]
  BY DEF Rewrites
<1>4. Promise!Identities(rows') = Promise!Identities(rows)
  BY <1>2, <1>3 DEF Promise!Identities
<1>5. \A x \in (rows \cup rows') : x.id # call[r].id => x \in rows \cap rows'
  BY <1>2, <1>3
<1> QED BY <1>1, <1>4, <1>5 DEF Promise!Change, Promise!Apply

LEMMA DeleteRemoves ==
  ASSUME IInv, NEW r \in Requests, Delete(r)
  PROVE  Promise!Remove(r) \/ Promise!Refuse(r)
<1> DEFINE gone == {x \in rows : Hit(call[r], x)}
<1>1. /\ pc[r] = "idle" /\ call[r].op = "delete"
      /\ rows' = rows \ gone /\ UNCHANGED call
      /\ Answer(r, IF gone = {} THEN "not_found" ELSE "ok")
  BY DEF Delete
<1>2. CASE gone = {}
  BY <1>1, <1>2, Refuses DEF IInv
<1>3. CASE gone # {}
  <2>1. PICK x \in rows : x \in gone
    BY <1>3
  <2>2. gone = {x} /\ x.id = call[r].id
    BY <2>1 DEF Hit, IInv, UniqueIds, IdsUnique
  <2>3. pc' = [pc EXCEPT ![r] = "done"] /\ reply' = [reply EXCEPT ![r] = "ok"]
    BY <1>1, <1>3 DEF Answer
  <2>4. Stage[r] = "open" /\ Stage' = [Stage EXCEPT ![r] = "closed"]
    <3>1. "done" \in Steps /\ TypeOK
      BY DEF Steps, IInv
    <3>2. Stage[r] = StageName(pc[r]) /\ Stage' = [Stage EXCEPT ![r] = StageName("done")]
      BY <2>3, <3>1, StageMoves
    <3> QED BY <1>1, <3>2, StageNames
  <2> QED BY <1>1, <2>2, <2>3, <2>4 DEF Promise!Remove, Promise!Close
<1> QED BY <1>2, <1>3

\* A deletion is one statement.
DeletedAtOnce ==
  \A r \in Requests : call[r].op = "delete" => pc[r] \in {"idle", "done"}

LEMMA DeletionsAreOneStep == IInv /\ DeletedAtOnce /\ [Next]_vars => DeletedAtOnce'
<1> SUFFICES ASSUME IInv, DeletedAtOnce, [Next]_vars PROVE DeletedAtOnce'
  OBVIOUS
<1>1. CASE UNCHANGED vars
  BY <1>1 DEF vars, DeletedAtOnce
<1>2. ASSUME NEW r \in Requests, Handler(r) PROVE DeletedAtOnce'
  <2>1. CASE Delete(r)
    BY <2>1 DEF Delete, Answer, DeletedAtOnce, IInv, TypeOK
  <2>2. CASE call[r].op # "delete"
    <3>1. UNCHANGED call /\ \E s \in Steps : pc' = [pc EXCEPT ![r] = s]
      <4>1. CASE Create(r)
        BY <4>1 DEF Create, BeginCreate, RefuseBody, AcquireLock, InsertItem,
           RefuseItem, CommitCreate, RespondCreated, Goto, Answer, Steps, IInv, TypeOK
      <4>2. CASE Patch(r) \/ Archive(r)
        BY <4>2 DEF Patch, Archive, PatchCheck, PatchRefuse, PatchUpdate,
           PatchReload, ArchiveCheck, ArchiveApply, ArchiveReread, Goto, Answer, Steps
      <4> QED BY <1>2, <2>2, <4>1, <4>2 DEF Handler, Delete
    <3> QED BY <2>2, <3>1 DEF DeletedAtOnce, IInv, TypeOK
  <2>3. CASE call[r].op = "delete" /\ ~Delete(r)
    BY <1>2, <2>3 DEF DeletedAtOnce, Handler, Create, BeginCreate, RefuseBody,
       AcquireLock, InsertItem, RefuseItem, CommitCreate, RespondCreated, Patch,
       PatchCheck, PatchRefuse, PatchUpdate, PatchReload, Archive, ArchiveCheck,
       ArchiveApply, ArchiveReread, ArchiveOp
  <2> QED BY <2>1, <2>2, <2>3
<1>3. ASSUME NEW w \in Workers, WorkerCrash(w) PROVE DeletedAtOnce'
  BY <1>3 DEF WorkerCrash, DeletedAtOnce
<1> QED BY <1>1, <1>2, <1>3 DEF Next, Quiet


\* A worker that dies loses its requests at once.
LEMMA CrashLoses ==
  ASSUME TypeOK, NEW w \in Workers, WorkerCrash(w)
  PROVE  Promise!Lose
<1>1. /\ pc' = [r \in Requests |-> IF r \in InFlight(w) THEN "done" ELSE pc[r]]
      /\ reply' = [r \in Requests |-> IF r \in InFlight(w) THEN "lost" ELSE reply[r]]
      /\ UNCHANGED <<rows, call>>
  BY DEF WorkerCrash
<1>2. \A r \in Requests : Stage[r] = StageName(pc[r]) /\ Stage'[r] = StageName(pc'[r])
  BY DEF Stage, StageName
<1>3. \A s \in Steps : StageName(s) = "closed" => s = "done"
  BY DEF StageName
<1>4. ASSUME NEW r \in Requests
      PROVE  \/ Stage'[r] = Stage[r] /\ reply'[r] = reply[r]
             \/ Stage[r] # "closed" /\ Stage'[r] = "closed" /\ reply'[r] = "lost"
  <2>1. CASE r \in InFlight(w)
    <3>1. pc[r] \in Steps /\ pc[r] # "done" /\ pc'[r] = "done" /\ reply'[r] = "lost"
      BY <1>1, <2>1 DEF InFlight, TypeOK
    <3> QED BY <1>2, <1>3, <3>1, StageNames
  <2>2. CASE r \notin InFlight(w)
    <3>1. pc'[r] = pc[r] /\ reply'[r] = reply[r]
      BY <1>1, <2>2
    <3> QED BY <1>2, <3>1
  <2> QED BY <2>1, <2>2
<1> QED BY <1>1, <1>4 DEF Promise!Lose

LEMMA HandlerKeepsPromise ==
  ASSUME IInv, BatchInv, DeletedAtOnce, NEW r \in Requests, Handler(r)
  PROVE  Promise!Next \/ UNCHANGED Promise!vars
<1>1. TypeOK /\ r \in DOMAIN pc
  BY DEF IInv, TypeOK
<1>0. pc[r] \in {"body", "archive"} => call[r].op \in {"patch", "archive", "unarchive"}
  <2>1. call[r].op \in {"create", "patch", "delete", "archive", "unarchive"}
    BY CallsAssumption DEF IInv, TypeOK, CallType
  <2>2. call[r].op = "create" => pc[r] \notin {"body", "archive"}
    BY DEF BatchInv, BatchOf
  <2>3. call[r].op = "delete" => pc[r] \notin {"body", "archive"}
    BY DEF DeletedAtOnce
  <2> QED BY <2>1, <2>2, <2>3
<1>2. CASE BeginCreate(r) \/ AcquireLock(r)
  <2>1. /\ UNCHANGED <<rows, call, reply>> /\ pc[r] \in {"idle", "lock"}
        /\ \E s \in {"lock", "txn"} : pc' = [pc EXCEPT ![r] = s]
    BY <1>2 DEF BeginCreate, AcquireLock, Goto
  <2> QED BY <1>1, <2>1, Hides
<1>3. CASE InsertItem(r)
  <2>1. UNCHANGED <<rows, call, reply, pc>>
    BY <1>3 DEF InsertItem
  <2> QED BY <2>1 DEF Promise!vars, Stage
<1>4. CASE RefuseBody(r) \/ RefuseItem(r)
  <2>1. /\ UNCHANGED <<rows, call>> /\ Answer(r, "refused")
        /\ pc[r] \in {"idle", "txn"}
    BY <1>4 DEF RefuseBody, RefuseItem
  <2> QED BY <1>1, <2>1, Refuses DEF Promise!Next
<1>5. CASE CommitCreate(r)
  BY <1>5, CommitCreates DEF Promise!Next
<1>6. CASE RespondCreated(r)
  <2>1. UNCHANGED <<rows, call>> /\ Answer(r, "ok") /\ pc[r] = "committed"
    BY <1>6 DEF RespondCreated
  <2> QED BY <1>1, <2>1, Responds DEF Promise!Next
<1>7. CASE PatchCheck(r) \/ PatchRefuse(r) \/ ArchiveCheck(r)
  <2>1. UNCHANGED <<rows, call>> /\ pc[r] \in {"idle", "body"}
    BY <1>7 DEF PatchCheck, PatchRefuse, ArchiveCheck
  <2>2. \/ \E s \in {"body", "archive"} : Goto(r, s)
        \/ \E a \in {"refused", "not_found", "conflict"} : Answer(r, a)
    BY <1>7 DEF PatchCheck, PatchRefuse, ArchiveCheck
  <2>3. CASE \E s \in {"body", "archive"} : Goto(r, s)
    BY <1>1, <2>1, <2>3, Hides DEF Goto
  <2>4. CASE \E a \in {"refused", "not_found", "conflict"} : Answer(r, a)
    BY <1>1, <2>1, <2>4, Refuses DEF Promise!Next
  <2> QED BY <2>2, <2>3, <2>4
<1>8. CASE PatchUpdate(r)
  <2>1. Rewrites(PatchedRow(r))
    BY <1>1, <1>8, PatchRewrites
  <2>2. \A x \in rows : ~Hit(call[r], x) => PatchedRow(r)[x] = x
    BY DEF PatchedRow
  <2>3. /\ UNCHANGED <<call, reply>> /\ pc[r] = "body"
        /\ pc' = [pc EXCEPT ![r] = "reload"]
    BY <1>8 DEF PatchUpdate, Goto
  <2>4. call[r].op \in {"patch", "archive", "unarchive"}
    BY <1>0, <2>3
  <2>5. Promise!Change(r)
    BY <2>1, <2>2, <2>3, <2>4, UpdateChanges
  <2> QED BY <2>5 DEF Promise!Next
<1>9. CASE ArchiveApply(r)
  <2>1. Rewrites(ArchivedRow(r))
    BY <1>1, <1>9, ArchiveRewrites
  <2>2. \A x \in rows : ~Hit(call[r], x) => ArchivedRow(r)[x] = x
    BY DEF ArchivedRow
  <2>3. /\ UNCHANGED <<call, reply>> /\ pc[r] = "archive"
        /\ pc' = [pc EXCEPT ![r] = "reread"]
    BY <1>9 DEF ArchiveApply, Goto
  <2>4. call[r].op \in {"patch", "archive", "unarchive"}
    BY <1>0, <2>3
  <2>5. Promise!Change(r)
    BY <2>1, <2>2, <2>3, <2>4, UpdateChanges
  <2> QED BY <2>5 DEF Promise!Next
<1>10. CASE PatchReload(r) \/ ArchiveReread(r)
  <2>1. /\ UNCHANGED <<rows, call>> /\ pc[r] \in {"reload", "reread"}
        /\ \E a \in {"ok", "gone", "server_error"} : Answer(r, a)
    BY <1>10 DEF PatchReload, ArchiveReread
  <2> QED BY <1>1, <2>1, Responds DEF Promise!Next
<1>11. CASE Delete(r)
  BY <1>11, DeleteRemoves DEF Promise!Next
<1> QED BY <1>2, <1>3, <1>4, <1>5, <1>6, <1>7, <1>8, <1>9, <1>10, <1>11
     DEF Handler, Create, Patch, Archive

\* The handlers keep the promise of the module Registry: a request changes the
\* rows in one step and at most once, and its answer says truly whether it has.
THEOREM PromiseIsKept == Spec => KeepsPromise
<1>1. Init => Promise!Init /\ DeletedAtOnce
  BY DEF Init, Promise!Init, Stage, DeletedAtOnce
<1>2. IInv /\ BatchInv /\ DeletedAtOnce /\ [Next]_vars
        => [Promise!Next]_(Promise!vars)
  <2> SUFFICES ASSUME IInv, BatchInv, DeletedAtOnce, [Next]_vars
               PROVE  Promise!Next \/ UNCHANGED Promise!vars
    OBVIOUS
  <2>1. CASE UNCHANGED vars
    BY <2>1 DEF vars, Promise!vars, Stage
  <2>2. ASSUME NEW r \in Requests, Handler(r)
        PROVE  Promise!Next \/ UNCHANGED Promise!vars
    BY <2>2, HandlerKeepsPromise
  <2>3. ASSUME NEW w \in Workers, WorkerCrash(w)
        PROVE  Promise!Next
    BY <2>3, CrashLoses DEF Promise!Next, IInv
  <2> QED BY <2>1, <2>2, <2>3 DEF Next, Quiet
<1> QED BY <1>1, <1>2, DeletionsAreOneStep, Invariance, BatchInvariance, PTL
     DEF Spec, KeepsPromise, Promise!Spec
=============================================================================
