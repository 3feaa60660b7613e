----------------------------- MODULE Skills_proofs -----------------------------
(***************************************************************************)
(* Proofs about Skills, for any number of requests and workers, any calls, *)
(* any skills at the start and any engine.                                 *)
(*                                                                         *)
(* Every argument rests on how the table evolves (Evolves): an id is given *)
(* once, and what has a bundle_hash keeps its name and its content.  So    *)
(* what a handler has read between two awaits is not stale where it        *)
(* matters: the bundle it has not found among the skills there were        *)
(* (Unfound), the bundle_hash a PATCH has looked for (LookedUp), and the   *)
(* content of the parent that the materiality was judged by (Compared).    *)
(***************************************************************************)
EXTENDS Skills, Lemmas

Steps == {"idle", "parent", "compare", "register", "reread", "patch", "fork", "done"}
Replies == {"none", "ok", "reused", "missing", "unavailable", "unconfigured", "keyless", "upstream",
            "preview", "error", "immutable", "invalid", "null", "forbidden"}
MemoType == [bundle: BOOLEAN, parent: 0..MaxId, read: Content \cup {NoRow}, material: BOOLEAN]

Types ==
  /\ row \in [Ids -> RowType \cup {NoRow}]
  /\ seq \in 0..MaxId
  /\ call \in [Requests -> Calls]
  /\ pc \in [Requests -> Steps]
  /\ reply \in [Requests -> Replies]
  /\ got \in [Requests -> MemoType]
  /\ seen \in [Requests -> SUBSET Ids]

\* The ids in use, and those a handler has had in view, have been given.
Given ==
  /\ \A i \in Rows : i <= seq
  /\ \A r \in Requests : \A i \in seen[r] : i <= seq

\* An ingest that goes on has not found its bundle, and it still is not among
\* the skills there were; a preview looks for none, and never registers.
Unfound(r) ==
  /\ pc[r] \in {"parent", "compare", "register"} =>
       /\ call[r].op = "ingest"
       /\ ~call[r].preview => SameBundle(call[r]) \cap seen[r] = {}
  /\ pc[r] = "register" => ~call[r].preview

\* Whether the skill of a PATCH has a bundle_hash is what the handler has read.
LookedUp(r) ==
  pc[r] = "patch" =>
    /\ call[r].op = "patch" /\ call[r].id \in 1..seq
    /\ call[r].id \in Rows => row[call[r].id].bundle = got[r].bundle

\* Only a duplicate comes to the fork.
Forked(r) == pc[r] = "fork" => call[r].op = "duplicate"

\* Why a revision with the content new may hide its parent with the content old.
Hideable(c, old) ==
  \/ c.differs = "no"
  \/ /\ c.content.fm = old.fm /\ c.content.files = old.files
     /\ c.content.text = old.text \/ c.model = "ready"

\* What the handler has read of the parent is true of a registered parent.
Compared(r) ==
  (pc[r] = "register" /\ got[r].parent # 0) =>
    LET p == got[r].parent IN
    /\ p <= seq /\ got[r].read \in Content
    /\ p \in Rows /\ row[p].bundle => row[p].content = got[r].read
    /\ ~got[r].material => Hideable(call[r], got[r].read)

\* A review of the skill i has approved it.
ApprovedByReview(i) ==
  \E q \in Requests : /\ call[q].op = "review" /\ call[q].id = i
                      /\ call[q].review = "approved" /\ reply[q] = "ok"

\* The row of i was written by an ingest that proposes.
Proposed(i) ==
  /\ row[i].by \in Requests
  /\ call[row[i].by].op = "ingest" /\ call[row[i].by].review = "proposed"

\* What is proposed is not approved but by a review.
Proposals == \A i \in Rows : Proposed(i) /\ row[i].review = "approved" => ApprovedByReview(i)

\* A request that is answered is over.
Answered == \A r \in Requests : reply[r] # "none" => pc[r] = "done"

IInv == /\ Types
        /\ Given
        /\ \A r \in Requests : Unfound(r) /\ LookedUp(r) /\ Forked(r) /\ Compared(r)
        /\ Answered
        /\ Proposals

\* How the table may evolve in a step.
Evolves ==
  /\ seq <= seq'
  /\ \A i \in Rows' : i \in Rows \/ (i = seq + 1 /\ seq' = seq + 1)
  /\ \A i \in Rows \cap Rows' :
       /\ row'[i].bundle = row[i].bundle /\ row'[i].by = row[i].by
       /\ row[i].bundle => row'[i].name = row[i].name /\ row'[i].content = row[i].content

----------------------------------------------------------------------------
(***************************************************************************)
(* Lemmas about the operators of the module.                               *)
(***************************************************************************)

\* A row of the table, field by field.
LEMMA IsRow ==
  ASSUME NEW n \in Names, NEW c \in Content, NEW b \in BOOLEAN, NEW e \in BOOLEAN,
         NEW v \in {"approved", "proposed", "rejected"}, NEW o \in 0..MaxId,
         NEW q \in Requests \cup {NoRequest}
  PROVE  [name |-> n, content |-> c, bundle |-> b, enabled |-> e, review |-> v,
          over |-> o, by |-> q] \in RowType
  BY DEF RowType

\* The newest of some ids is one of them, and 0 when there are none.
LEMMA NewestOf ==
  ASSUME NEW I, I \subseteq Ids
  PROVE  IF I = {} THEN Newest(I) = 0
         ELSE Newest(I) \in I /\ \A j \in I : j <= Newest(I)
<1>1. IsFiniteSet(I)
  <2>1. MaxId \in Int
    BY SkillsAssumption
  <2>2. IsFiniteSet(Ids)
    BY <2>1, FS_Interval DEF Ids
  <2> QED BY <2>2, FS_Subset
<1>2. I \subseteq Int
  BY SkillsAssumption DEF Ids
<1>3. I # {} => \E m \in I : \A j \in I : j <= m
  BY <1>1, <1>2, FiniteSetHasMax
<1> QED BY <1>3 DEF Newest

\* A register finds the bundle among the rows, or takes the next id.
LEMMA RegisteredIdIs ==
  ASSUME NEW r \in Requests, Types, Given
  PROVE  IF SameBundle(call[r]) = {} THEN RegisteredId(r) = seq + 1
         ELSE /\ RegisteredId(r) \in SameBundle(call[r])
              /\ RegisteredId(r) \in Rows /\ RegisteredId(r) <= seq
<1>1. SameBundle(call[r]) \subseteq Rows /\ Rows \subseteq Ids
  BY DEF SameBundle, Rows
<1> QED BY <1>1, NewestOf DEF RegisteredId, Given

\* What a registration that is committed does to the table.
LEMMA RegisterForms ==
  ASSUME NEW r \in Requests, Types, Given, IngestRegister(r)
  PROVE  LET c == call[r]
             i == RegisteredId(r)
         IN  \/ UNCHANGED <<row, seq>>
             \/ /\ i \in SameBundle(c) /\ i \in Rows /\ seq' = seq
                /\ c.review = "proposed"
                /\ row' = [row EXCEPT ![i].review = "proposed"]
             \/ /\ SameBundle(c) = {} /\ i = seq + 1 /\ seq' = i
                /\ i \in Ids /\ i \notin Rows
                /\ row' \in [Ids -> RowType \cup {NoRow}]
                /\ row'[i] = [name |-> c.name, content |-> c.content, bundle |-> TRUE,
                              enabled |-> c.enabled, over |-> 0, by |-> r,
                              review |-> IF c.review = "proposed" THEN "proposed"
                                         ELSE "approved"]
                /\ \A j \in Ids : j # i =>
                     row'[j] = IF j = got[r].parent /\ j \in Rows /\ ~got[r].material
                               THEN [row[j] EXCEPT !.over = i] ELSE row[j]
<1> DEFINE c == call[r]
           i == RegisteredId(r)
<1>1. IF SameBundle(c) = {} THEN i = seq + 1 /\ i \notin Rows
      ELSE i \in SameBundle(c) /\ i \in Rows /\ i <= seq
  BY RegisteredIdIs DEF Given, Types
<1>a. SUFFICES ASSUME ~UNCHANGED <<row, seq>>
               PROVE  \/ /\ i \in SameBundle(c) /\ i \in Rows /\ seq' = seq
                         /\ c.review = "proposed"
                         /\ row' = [row EXCEPT ![i].review = "proposed"]
                      \/ /\ SameBundle(c) = {} /\ i = seq + 1 /\ seq' = i
                         /\ i \in Ids /\ i \notin Rows
                         /\ row' \in [Ids -> RowType \cup {NoRow}]
                         /\ row'[i] = [name |-> c.name, content |-> c.content, bundle |-> TRUE,
                                       enabled |-> c.enabled, over |-> 0, by |-> r,
                                       review |-> IF c.review = "proposed" THEN "proposed"
                                                  ELSE "approved"]
                         /\ \A j \in Ids : j # i =>
                              row'[j] = IF j = got[r].parent /\ j \in Rows /\ ~got[r].material
                                        THEN [row[j] EXCEPT !.over = i] ELSE row[j]
  OBVIOUS
<1>2. /\ i <= MaxId
      /\ row' = IF c.review = "proposed" THEN Reviewed(Registered(r, i), i, "proposed")
                ELSE Registered(r, i)
      /\ seq' = IF i > seq THEN i ELSE seq
  BY <1>a DEF IngestRegister
<1>3. i \in Ids
  BY <1>1, <1>2, SkillsAssumption DEF Ids, Types, Rows
<1> HIDE DEF i
<1>4. CASE SameBundle(c) # {}
  <2>1. Registered(r, i) = row
    BY <1>1, <1>4 DEF Registered
  <2>2. seq' = seq
    BY <1>1, <1>2, <1>3, <1>4, SkillsAssumption DEF Ids, Types
  <2> QED BY <1>a, <1>1, <1>2, <1>4, <2>1, <2>2 DEF Reviewed
<1>5. CASE SameBundle(c) = {}
  <2> DEFINE new == [name |-> c.name, content |-> c.content, bundle |-> TRUE,
                     enabled |-> c.enabled, review |-> "approved", over |-> 0, by |-> r]
             W == [j \in Ids |->
                     IF j = i THEN new
                     ELSE IF j = got[r].parent /\ j \in Rows /\ ~got[r].material
                          THEN [row[j] EXCEPT !.over = i] ELSE row[j]]
  <2>1. Registered(r, i) = W
    BY <1>1, <1>5 DEF Registered
  <2>2. c \in CallType
    BY SkillsAssumption DEF Types
  <2>3. new \in RowType /\ [new EXCEPT !.review = "proposed"] \in RowType
    <3>1. c.name \in Names /\ c.content \in Content /\ c.enabled \in BOOLEAN
      BY <2>2 DEF CallType
    <3>2. 0 \in 0..MaxId
      BY SkillsAssumption
    <3>3. new \in RowType
      BY <3>1, <3>2, IsRow
    <3> QED BY <3>3 DEF RowType
  <2>4. \A j \in Rows : [row[j] EXCEPT !.over = i] \in RowType
    <3>1. \A j \in Rows : row[j] \in RowType
      BY DEF Types, Rows
    <3>2. i \in 0..MaxId
      BY <1>3, SkillsAssumption DEF Ids
    <3> QED BY <3>1, <3>2 DEF RowType
  <2>5. W \in [Ids -> RowType \cup {NoRow}]
    BY <2>3, <2>4 DEF Types
  <2>6. row' = IF c.review = "proposed" THEN [W EXCEPT ![i].review = "proposed"] ELSE W
    BY <1>2, <2>1 DEF Reviewed
  <2>7. row' \in [Ids -> RowType \cup {NoRow}]
    BY <1>3, <2>3, <2>5, <2>6
  <2>8. row'[i] = IF c.review = "proposed" THEN [new EXCEPT !.review = "proposed"] ELSE new
    BY <1>3, <2>6
  <2>9. \A j \in Ids : j # i => row'[j] = W[j]
    BY <1>3, <2>6
  <2>10. seq' = i
    BY <1>1, <1>2, <1>5 DEF Types
  <2> QED BY <1>1, <1>3, <1>5, <2>7, <2>8, <2>9, <2>10
<1> QED BY <1>4, <1>5

\* The steps of the handler of r.
Handler(r) ==
  \/ IngestCheck(r) \/ IngestParent(r) \/ IngestCompare(r) \/ IngestRegister(r)
  \/ Create(r) \/ PatchRead(r) \/ PatchWrite(r) \/ Delete(r)
  \/ DuplicateRead(r) \/ DuplicateFork(r) \/ DuplicateReread(r) \/ Review(r)

\* A step of r leaves what the other requests hold alone.
OnlyMine(r) ==
  /\ call' = call
  /\ \A q \in Requests \ {r} : /\ pc'[q] = pc[q] /\ reply'[q] = reply[q]
                               /\ got'[q] = got[q] /\ seen'[q] = seen[q]

\* It goes on, or is answered.
LEMMA StepIsMine ==
  ASSUME NEW r \in Requests, Types, Handler(r)
  PROVE  /\ OnlyMine(r) /\ pc[r] # "done"
         /\ pc' \in [Requests -> Steps]
         /\ reply' \in [Requests -> Replies]
         /\ reply' = reply \/ pc'[r] = "done"
         /\ seen' \in [Requests -> SUBSET Ids]
<1> USE DEF OnlyMine, Types, Steps, Replies, Goto, Answer
<1>0. Rows \subseteq Ids
  BY DEF Rows
<1>1. CASE IngestCheck(r)
  BY <1>0, <1>1 DEF IngestCheck, Visible
<1>2. CASE IngestParent(r)
  BY <1>2 DEF IngestParent
<1>3. CASE IngestCompare(r)
  <2>1. call[r] \in CallType
    BY SkillsAssumption
  <2>2. Extractions(call[r]) \subseteq Replies
    BY <2>1 DEF Extractions, CallType
  <2>3. \E x \in Replies : Answer(r, x) \/ \E memo : Goto(r, "register", memo)
    BY <1>3, <2>2 DEF IngestCompare
  <2>4. pc[r] = "compare" /\ seen' = seen
    BY <1>3 DEF IngestCompare
  <2> QED BY <2>3, <2>4
<1>4. CASE IngestRegister(r)
  BY <1>4 DEF IngestRegister
<1>5. CASE Create(r)
  BY <1>5 DEF Create
<1>6. CASE PatchRead(r)
  BY <1>6 DEF PatchRead
<1>7. CASE PatchWrite(r)
  BY <1>7 DEF PatchWrite
<1>8. CASE Delete(r)
  BY <1>8 DEF Delete
<1>9. CASE DuplicateRead(r)
  BY <1>9 DEF DuplicateRead
<1>10. CASE DuplicateFork(r)
  BY <1>10 DEF DuplicateFork
<1>11. CASE DuplicateReread(r)
  BY <1>11 DEF DuplicateReread
<1>12. CASE Review(r)
  BY <1>12 DEF Review
<1> QED BY <1>1, <1>2, <1>3, <1>4, <1>5, <1>6, <1>7, <1>8, <1>9, <1>10, <1>11, <1>12
        DEF Handler

\* What a write does to the table: nothing, a new row, one row removed, or one
\* row changed; or it is a registration.
Writes(r) ==
  \/ UNCHANGED <<row, seq>>
  \/ \E x \in RowType : /\ seq < MaxId /\ seq' = seq + 1 /\ x.by = r
                         /\ row' = [row EXCEPT ![seq + 1] = x]
                         /\ call[r].op \in {"create", "duplicate"}
  \/ \E i \in Rows : seq' = seq /\ row' = [row EXCEPT ![i] = NoRow]
  \/ /\ PatchWrite(r) /\ call[r].id \in Rows /\ seq' = seq
     /\ ~Immutable(got[r].bundle, call[r].set)
     /\ row' = [row EXCEPT ![call[r].id] = Patched(@, call[r])]
  \/ /\ call[r].op = "review" /\ call[r].review # "unset"
     /\ call[r].id \in Rows /\ seq' = seq
     /\ row' = Reviewed(row, call[r].id, call[r].review)
     /\ pc'[r] = "done" /\ reply'[r] = "ok"
  \/ IngestRegister(r)

LEMMA StepWrites ==
  ASSUME NEW r \in Requests, IInv, Handler(r)
  PROVE  Writes(r)
<1> USE DEF Writes
<1>0. /\ row \in [Ids -> RowType \cup {NoRow}] /\ seq \in 0..MaxId /\ call[r] \in CallType
      /\ MaxId \in Nat /\ pc \in [Requests -> Steps] /\ reply \in [Requests -> Replies]
  BY SkillsAssumption DEF IInv, Types
<1>1. CASE IngestCheck(r)
  BY <1>1 DEF IngestCheck
<1>2. CASE IngestParent(r)
  BY <1>2 DEF IngestParent
<1>3. CASE IngestCompare(r)
  BY <1>3 DEF IngestCompare
<1>4. CASE IngestRegister(r)
  BY <1>4
<1>5. CASE Create(r)
  <2> DEFINE x == [name |-> call[r].name, content |-> [call[r].content EXCEPT !.files = 0],
                   bundle |-> FALSE, enabled |-> call[r].enabled, review |-> "approved",
                   over |-> 0, by |-> r]
  <2>1. /\ call[r].name \in Names /\ call[r].content \in Content /\ call[r].enabled \in BOOLEAN
    BY <1>0 DEF CallType
  <2>2. [call[r].content EXCEPT !.files = 0] \in Content
    BY <2>1 DEF Content
  <2>3. 0 \in 0..MaxId
    BY <1>0
  <2>4. x \in RowType
    BY <2>1, <2>2, <2>3, IsRow
  <2>5. call[r].op = "create" /\ (UNCHANGED <<row, seq>> \/ (/\ seq < MaxId /\ seq' = seq + 1
                                     /\ row' = [row EXCEPT ![seq + 1] = x]))
    BY <1>5 DEF Create
  <2> HIDE DEF x
  <2>6. x.by = r
    BY DEF x
  <2> QED BY <2>4, <2>5, <2>6
<1>6. CASE PatchRead(r)
  BY <1>6 DEF PatchRead
<1>7. CASE PatchWrite(r)
  BY <1>7 DEF PatchWrite, Visible
<1>8. CASE Delete(r)
  BY <1>8 DEF Delete, Visible
<1>9. CASE DuplicateRead(r)
  BY <1>9 DEF DuplicateRead
<1>10. CASE DuplicateFork(r)
  <2> DEFINE c == call[r]
             Copy(b, v) == [row[c.id] EXCEPT !.name = c.name, !.bundle = b,
                                             !.review = v, !.over = 0, !.by = r]
  <2>1. CASE UNCHANGED <<row, seq>>
    BY <2>1
  <2>2. ASSUME ~UNCHANGED <<row, seq>> PROVE Writes(r)
    <3>1. pc[r] = "fork" /\ c.id \in Rows /\ seq < MaxId /\ seq' = seq + 1
      BY <1>10, <2>2 DEF DuplicateFork
    <3>2. PICK b \in {FALSE, row[c.id].bundle}, v \in {"approved", row[c.id].review} :
            row' = [row EXCEPT ![seq + 1] = Copy(b, v)]
      BY <1>10, <2>2 DEF DuplicateFork
    <3>3. row[c.id] \in RowType
      BY <1>0, <3>1 DEF Rows
    <3>4. c.name \in Names /\ 0 \in 0..MaxId
      BY <1>0 DEF CallType
    <3>5. b \in BOOLEAN /\ v \in {"approved", "proposed", "rejected"}
      BY <3>3 DEF RowType
    <3>6. Copy(b, v) \in RowType
      BY <3>3, <3>4, <3>5 DEF RowType
    <3>7. Copy(b, v).by = r
      BY <3>3 DEF RowType
    <3>8. c.op = "duplicate"
      BY <3>1, <1>0 DEF IInv, Forked
    <3> HIDE DEF Copy
    <3> QED BY <3>1, <3>2, <3>6, <3>7, <3>8
  <2> QED BY <2>1, <2>2
<1>11. CASE DuplicateReread(r)
  BY <1>11 DEF DuplicateReread
<1>12. CASE Review(r)
  BY <1>0, <1>12 DEF Review, Answer
<1> QED BY <1>1, <1>2, <1>3, <1>4, <1>5, <1>6, <1>7, <1>8, <1>9, <1>10, <1>11, <1>12
        DEF Handler

\* An id is given once, and what has a bundle_hash keeps what it resolves to.
LEMMA StepEvolves ==
  ASSUME NEW r \in Requests, IInv, Handler(r)
  PROVE  Evolves /\ row' \in [Ids -> RowType \cup {NoRow}] /\ seq' \in 0..MaxId
<1>0. /\ row \in [Ids -> RowType \cup {NoRow}] /\ seq \in 0..MaxId /\ call[r] \in CallType
      /\ MaxId \in Nat /\ Ids = 1..MaxId /\ NoRow \notin RowType
      /\ \A i \in Ids : i \in Rows <=> row[i] # NoRow
      /\ \A i \in Ids : i \in Rows' <=> row'[i] # NoRow
      /\ Rows \subseteq Ids /\ Rows' \subseteq Ids
      /\ \A i \in Rows : i <= seq /\ row[i] \in RowType
  BY SkillsAssumption DEF IInv, Types, Given, Rows, Ids
<1>1. CASE UNCHANGED <<row, seq>>
  BY <1>0, <1>1 DEF Evolves
<1>2. CASE \E x \in RowType : /\ seq < MaxId /\ seq' = seq + 1 /\ x.by = r
                              /\ row' = [row EXCEPT ![seq + 1] = x]
  <2>1. PICK x \in RowType : row' = [row EXCEPT ![seq + 1] = x]
    BY <1>2
  <2>2. seq + 1 \in Ids /\ seq + 1 \notin Rows /\ seq' = seq + 1 /\ seq' \in 0..MaxId
    BY <1>0, <1>2
  <2>3. \A i \in Ids : row'[i] = IF i = seq + 1 THEN x ELSE row[i]
    BY <1>0, <2>1, <2>2
  <2> QED BY <1>0, <2>1, <2>2, <2>3 DEF Evolves
<1>3. CASE \E i \in Rows : seq' = seq /\ row' = [row EXCEPT ![i] = NoRow]
  BY <1>0, <1>3 DEF Evolves
<1>4. CASE /\ PatchWrite(r) /\ call[r].id \in Rows /\ seq' = seq
           /\ ~Immutable(got[r].bundle, call[r].set)
           /\ row' = [row EXCEPT ![call[r].id] = Patched(@, call[r])]
  <2> DEFINE c == call[r]
             i == c.id
             new == Patched(row[i], c)
  <2>1. row[i] \in RowType /\ i \in Ids
    BY <1>0, <1>4
  <2>2. row[i].bundle = got[r].bundle
    BY <1>4 DEF IInv, LookedUp, PatchWrite
  <2>3. c.name \in Names /\ c.content \in Content /\ c.enabled \in BOOLEAN
    BY <1>0 DEF CallType
  <2>4. row[i].content \in Content
    BY <2>1 DEF RowType
  <2>5. new \in RowType /\ new.by = row[i].by /\ new.bundle = row[i].bundle
    BY <2>1, <2>3, <2>4 DEF RowType, Content, Patched
  <2>6. row[i].bundle => new.name = row[i].name /\ new.content = row[i].content
    BY <1>4, <2>1, <2>2, <2>4 DEF RowType, Content, Patched, Immutable
  <2>7. row' = [row EXCEPT ![i] = new]
    BY <1>4
  <2> HIDE DEF new
  <2> QED BY <1>0, <1>4, <2>1, <2>5, <2>6, <2>7 DEF Evolves
<1>5. CASE /\ call[r].review # "unset" /\ call[r].id \in Rows /\ seq' = seq
           /\ row' = Reviewed(row, call[r].id, call[r].review)
  <2> DEFINE i == call[r].id
             new == [row[i] EXCEPT !.review = call[r].review]
  <2>1. row[i] \in RowType /\ i \in Ids
    BY <1>0, <1>5
  <2>2. row' = [row EXCEPT ![i] = new]
    BY <1>5, <2>1 DEF Reviewed
  <2>3. call[r].review \in {"approved", "proposed", "rejected"}
    BY <1>0, <1>5 DEF CallType
  <2>4. /\ new \in RowType /\ new.bundle = row[i].bundle /\ new.by = row[i].by
        /\ new.name = row[i].name /\ new.content = row[i].content
    BY <2>1, <2>3 DEF RowType
  <2> HIDE DEF new, i
  <2>5. \A j \in Ids : row'[j] = IF j = i THEN new ELSE row[j]
    BY <1>0, <2>1, <2>2
  <2>6. row' \in [Ids -> RowType \cup {NoRow}]
    BY <1>0, <2>1, <2>2, <2>4
  <2>7. seq' = seq
    BY <1>5
  <2> QED BY <1>0, <2>1, <2>4, <2>5, <2>6, <2>7 DEF Evolves
<1>6. CASE IngestRegister(r)
  <2>1. Types /\ Given
    BY DEF IInv
  <2> DEFINE i == RegisteredId(r)
  <2>2. CASE /\ i \in Rows /\ seq' = seq /\ row' = [row EXCEPT ![i].review = "proposed"]
    <3>1. row[i] \in RowType /\ i \in Ids
      BY <1>0, <2>2
    <3>2. row' = [row EXCEPT ![i] = [row[i] EXCEPT !.review = "proposed"]]
      BY <2>2, <3>1
    <3> HIDE DEF i
    <3>3. [row[i] EXCEPT !.review = "proposed"] \in RowType
      BY <3>1 DEF RowType
    <3> QED BY <1>0, <2>2, <3>1, <3>2, <3>3, SMTT(30) DEF Evolves, RowType
  <2>3. CASE /\ i = seq + 1 /\ seq' = i /\ i \in Ids
             /\ row' \in [Ids -> RowType \cup {NoRow}]
             /\ \A j \in Ids : j # i =>
                  row'[j] = IF j = got[r].parent /\ j \in Rows /\ ~got[r].material
                            THEN [row[j] EXCEPT !.over = i] ELSE row[j]
    <3> HIDE DEF i
    <3>1. \A j \in Rows : /\ j # i /\ j \in Ids
                          /\ row'[j].bundle = row[j].bundle /\ row'[j].by = row[j].by
                          /\ row'[j].name = row[j].name /\ row'[j].content = row[j].content
      BY <1>0, <2>3 DEF RowType
    <3>2. \A j \in Ids : j # i /\ j \notin Rows => j \notin Rows'
      BY <1>0, <2>3
    <3>3. i \in 0..MaxId /\ seq <= i
      BY <1>0, <2>3
    <3> QED BY <1>0, <2>3, <3>1, <3>2, <3>3 DEF Evolves
  <2>4. CASE UNCHANGED <<row, seq>>
    BY <1>1, <2>4
  <2> HIDE DEF i
  <2> QED BY <1>6, <2>1, <2>2, <2>3, <2>4, RegisterForms DEF i
<1> QED BY <1>1, <1>2, <1>3, <1>4, <1>5, <1>6, StepWrites DEF Writes

\* What a handler holds stays true while others run.
LEMMA OthersKeep ==
  ASSUME NEW r \in Requests, NEW q \in Requests \ {r}, IInv, OnlyMine(r), Evolves,
         seq' \in 0..MaxId
  PROVE  Unfound(q)' /\ LookedUp(q)' /\ Forked(q)' /\ Compared(q)'
<1>0. /\ pc'[q] = pc[q] /\ got'[q] = got[q] /\ seen'[q] = seen[q] /\ call' = call
      /\ Unfound(q) /\ LookedUp(q) /\ Forked(q) /\ Compared(q)
      /\ seq \in Int /\ seq' \in Int /\ MaxId \in Nat /\ got[q].parent \in Int
      /\ \A i \in seen[q] : i \in Int /\ i <= seq
      /\ \A i \in Rows' : i \in Rows \/ i > seq
      /\ \A i \in Rows \cup Rows' : i \in Int
      /\ seq <= seq'
  BY SkillsAssumption DEF OnlyMine, IInv, Types, Given, MemoType, Evolves, Rows, Ids
<1>1. Unfound(q)'
  <2>1. \A i \in SameBundle(call[q])' \cap seen[q] : i \in SameBundle(call[q])
    <3>1. \A i \in SameBundle(call[q])' :
            /\ i \in Rows' /\ row'[i].bundle /\ row'[i].name = call[q].name
            /\ row'[i].content = call[q].content
      BY <1>0 DEF SameBundle
    <3>2. \A i \in SameBundle(call[q])' \cap seen[q] : i \in Rows
      BY <1>0, <3>1
    <3> QED BY <3>1, <3>2 DEF SameBundle, Evolves
  <2> QED BY <1>0, <2>1 DEF Unfound
<1>2. LookedUp(q)'
  BY <1>0 DEF LookedUp, Evolves
<1>3. Compared(q)'
  BY <1>0 DEF Compared, Evolves
<1> QED BY <1>0, <1>1, <1>2, <1>3 DEF Forked

\* A verdict that a revision is not material has a reason.
LEMMA VerdictHasReason ==
  ASSUME NEW c \in CallType, NEW old, FALSE \in Verdicts(c, old)
  PROVE  Hideable(c, old)
<1>1. CASE c.differs # "unset"
  BY <1>1 DEF Verdicts, Hideable, CallType
<1>2. CASE c.differs = "unset"
  <2>1. Screens(old, c.content) # "material"
    BY <1>2 DEF Verdicts
  <2>2. c.content.fm = old.fm /\ c.content.files = old.files
    BY <2>1 DEF Screens
  <2>3. old.text = c.content.text \/ c.model = "ready"
    BY <1>2, <2>2 DEF Verdicts, Screens
  <2> QED BY <2>2, <2>3 DEF Hideable
<1> QED BY <1>1, <1>2

\* What the handler of r holds after its own step.
LEMMA MineKeeps ==
  ASSUME NEW r \in Requests, IInv, Handler(r)
  PROVE  /\ Unfound(r)' /\ LookedUp(r)' /\ Forked(r)' /\ Compared(r)'
         /\ got' \in [Requests -> MemoType]
<1> DEFINE Kept == Unfound(r)' /\ LookedUp(r)' /\ Forked(r)' /\ Compared(r)'
           Typed == got' \in [Requests -> MemoType]
<1>0. /\ call[r] \in CallType /\ MaxId \in Nat /\ pc \in [Requests -> Steps]
      /\ got \in [Requests -> MemoType] /\ NoMemo \in MemoType
      /\ Unfound(r) /\ LookedUp(r) /\ Forked(r) /\ Compared(r)
      /\ Ids = 1..MaxId /\ seq \in 0..MaxId
      /\ \A i \in Rows : i \in Ids /\ i <= seq /\ row[i] \in RowType
      /\ \A i \in Ids : i \in Rows <=> row[i] # NoRow
      /\ seen \in [Requests -> SUBSET Ids]
  BY SkillsAssumption DEF IInv, Types, Given, NoMemo, MemoType, Rows, Ids
<1>1. ASSUME pc'[r] \notin {"parent", "compare", "register", "patch", "fork"} PROVE Kept
  BY <1>1 DEF Unfound, LookedUp, Forked, Compared
<1>2. CASE IngestCheck(r)
  <2>1. Typed
    BY <1>0, <1>2 DEF IngestCheck, Goto, Answer
  <2>2. CASE pc'[r] # "parent"
    BY <1>0, <1>1, <1>2, <2>2 DEF IngestCheck, Goto, Answer
  <2>3. CASE pc'[r] = "parent"
    <3>1. /\ call' = call /\ call[r].op = "ingest" /\ ~Known(call[r])
          /\ UNCHANGED row /\ seen'[r] = Visible
      BY <1>0, <1>2, <2>3 DEF IngestCheck, Goto, Answer
    <3>2. SameBundle(call[r])' = SameBundle(call[r])
      BY <3>1 DEF SameBundle, Rows
    <3>3. ~call[r].preview => SameBundle(call[r]) \cap Visible = {}
      BY <3>1 DEF Known
    <3>4. Unfound(r)'
      BY <2>3, <3>1, <3>2, <3>3 DEF Unfound
    <3> QED BY <2>1, <2>3, <3>4 DEF LookedUp, Forked, Compared
  <2> QED BY <2>1, <2>2, <2>3
<1>3. CASE IngestParent(r)
  <2>1. /\ pc[r] = "parent" /\ pc'[r] = "compare" /\ UNCHANGED <<row, seen, call>>
    BY <1>0, <1>3 DEF IngestParent, Goto
  <2>2. SameBundle(call[r])' = SameBundle(call[r])
    BY <2>1 DEF SameBundle, Rows
  <2>3. Kept
    BY <1>0, <2>1, <2>2 DEF Unfound, LookedUp, Forked, Compared
  <2> DEFINE p == IF call[r].id # 0 THEN call[r].id
                  ELSE Newest({i \in Visible : row[i].name = call[r].name /\ row[i].enabled})
  <2>4. p \in 0..MaxId
    <3>1. {i \in Visible : row[i].name = call[r].name /\ row[i].enabled} \subseteq Ids
      BY <1>0 DEF Visible
    <3> QED BY <1>0, <3>1, NewestOf DEF CallType
  <2>5. got' = [got EXCEPT ![r] = [got[r] EXCEPT !.parent = p]]
    BY <1>3 DEF IngestParent, Goto
  <2> HIDE DEF p
  <2>6. Typed
    BY <1>0, <2>4, <2>5 DEF MemoType
  <2> QED BY <2>3, <2>6
<1>4. CASE IngestCompare(r)
  <2> DEFINE c == call[r]
             p == got[r].parent
             old == IF p = 0 THEN NoRow ELSE row[p]
  <2>1. CASE \E a : Answer(r, a)
    BY <1>0, <1>1, <2>1 DEF Answer
  <2>2. ASSUME ~\E a : Answer(r, a) PROVE Kept /\ Typed
    <3>1. ~(p # 0 /\ old = NoRow)
      BY <1>4, <2>2 DEF IngestCompare
    <3>2. PICK x \in Extractions(c), v \in IF p = 0 THEN {TRUE} ELSE Verdicts(c, old.content) :
            IF x # "ok" THEN Answer(r, x)
            ELSE Goto(r, "register", [got[r] EXCEPT !.read = IF p = 0 THEN NoRow ELSE old.content,
                                                    !.material = v])
      BY <1>4, <3>1 DEF IngestCompare
    <3>3. x = "ok"
      BY <2>2, <3>2
    <3>4. ~c.preview
      BY <3>3 DEF Extractions
    <3>5. /\ pc[r] = "compare" /\ pc'[r] = "register" /\ UNCHANGED <<row, seq, seen, call>>
      BY <1>0, <1>4, <3>2, <3>3 DEF IngestCompare, Goto
    <3>6. SameBundle(c)' = SameBundle(c)
      BY <3>5 DEF SameBundle, Rows
    <3>7. p \in 0..MaxId /\ (p # 0 => p \in Rows /\ p <= seq /\ old.content \in Content)
      BY <1>0, <3>1 DEF MemoType, RowType
    <3>8. v \in BOOLEAN
      BY DEF Verdicts
    <3>9. p # 0 /\ ~v => Hideable(c, old.content)
      BY <1>0, <3>2, <3>8, VerdictHasReason
    <3>10. got' = [got EXCEPT ![r] = [got[r] EXCEPT !.read = IF p = 0 THEN NoRow ELSE old.content,
                                                    !.material = v]]
      BY <3>2, <3>3 DEF Goto
    <3>11. /\ got'[r].parent = p /\ got'[r].material = v
           /\ got'[r].read = IF p = 0 THEN NoRow ELSE old.content
      BY <1>0, <3>10 DEF MemoType
    <3>12. Typed
      BY <1>0, <3>7, <3>8, <3>10 DEF MemoType
    <3>13. Unfound(r)' /\ LookedUp(r)' /\ Forked(r)'
      BY <1>0, <3>4, <3>5, <3>6 DEF Unfound, LookedUp, Forked
    <3>14. Compared(r)'
      <4>1. SUFFICES ASSUME p # 0
                     PROVE  /\ p <= seq' /\ got'[r].read \in Content
                            /\ p \in Rows' /\ row'[p].bundle => row'[p].content = got'[r].read
                            /\ ~got'[r].material => Hideable(call[r], got'[r].read)
        BY <3>5, <3>11 DEF Compared, Hideable
      <4> QED BY <3>5, <3>7, <3>9, <3>11, <4>1
    <3> QED BY <3>12, <3>13, <3>14
  <2> QED BY <2>1, <2>2
<1>5. CASE IngestRegister(r) \/ Create(r) \/ PatchWrite(r) \/ Delete(r) \/ DuplicateReread(r) \/ Review(r)
  <2>1. \E a : Answer(r, a)
    BY <1>5 DEF IngestRegister, Create, PatchWrite, Delete, DuplicateReread, Review
  <2> QED BY <1>0, <1>1, <2>1 DEF Answer
<1>6. CASE PatchRead(r)
  <2> DEFINE i == call[r].id
  <2>0. Visible \subseteq Rows
    BY DEF Visible
  <2>1. CASE i \notin Visible
    BY <1>0, <1>1, <1>6, <2>1 DEF PatchRead, Answer
  <2>2. CASE i \in Visible
    <3>1. /\ pc'[r] = "patch" /\ UNCHANGED <<row, seq, call>> /\ call[r].op = "patch"
          /\ got' = [got EXCEPT ![r] = [NoMemo EXCEPT !.bundle = row[i].bundle]]
      BY <1>0, <1>6, <2>2 DEF PatchRead, Goto
    <3>2. row[i].bundle \in BOOLEAN
      BY <1>0, <2>0, <2>2 DEF RowType
    <3>3. Typed
      BY <1>0, <3>1, <3>2 DEF NoMemo, MemoType
    <3>4. got'[r].bundle = row[i].bundle
      BY <1>0, <3>1 DEF NoMemo
    <3>5. i \in 1..seq
      BY <1>0, <2>0, <2>2
    <3>6. Kept
      BY <3>1, <3>4, <3>5 DEF Unfound, LookedUp, Forked, Compared
    <3> QED BY <3>3, <3>6
  <2> QED BY <2>1, <2>2
<1>7. CASE DuplicateRead(r)
  BY <1>0, <1>7 DEF DuplicateRead, Goto, Answer, Unfound, LookedUp, Forked, Compared
<1>8. CASE DuplicateFork(r)
  <2>1. CASE Answer(r, "error")
    BY <1>0, <1>1, <2>1 DEF Answer
  <2>2. CASE seq < MaxId /\ Goto(r, "reread", [NoMemo EXCEPT !.parent = seq + 1])
    <3>1. [NoMemo EXCEPT !.parent = seq + 1] \in MemoType
      <4>1. seq + 1 \in 0..MaxId
        BY <1>0, <2>2
      <4>2. NoMemo \in MemoType
        BY <1>0
      <4> QED BY <4>1, <4>2 DEF MemoType
    <3>2. pc'[r] = "reread"
      BY <1>0, <2>2 DEF Goto
    <3>3. got' = [got EXCEPT ![r] = [NoMemo EXCEPT !.parent = seq + 1]]
      BY <2>2 DEF Goto
    <3>4. Typed
      BY <1>0, <3>1, <3>3
    <3> QED BY <1>1, <3>2, <3>4
  <2> QED BY <1>8, <2>1, <2>2 DEF DuplicateFork
<1> QED BY <1>2, <1>3, <1>4, <1>5, <1>6, <1>7, <1>8 DEF Handler

\* A review that has approved stays one: who is answered takes no more steps.
LEMMA ApprovalStays ==
  ASSUME NEW r \in Requests, IInv, OnlyMine(r), pc[r] # "done", NEW i, ApprovedByReview(i)
  PROVE  ApprovedByReview(i)'
<1>1. PICK q \in Requests : /\ call[q].op = "review" /\ call[q].id = i
                            /\ call[q].review = "approved" /\ reply[q] = "ok"
  BY DEF ApprovedByReview
<1>2. pc[q] = "done"
  BY <1>1 DEF IInv, Answered
<1>3. reply'[q] = "ok" /\ call' = call
  BY <1>1, <1>2 DEF OnlyMine
<1> QED BY <1>1, <1>3 DEF ApprovedByReview

\* A step approves what is proposed only if it is the review.
LEMMA StepKeepsProposals ==
  ASSUME NEW r \in Requests, IInv, Handler(r)
  PROVE  Proposals'
<1>0. /\ row \in [Ids -> RowType \cup {NoRow}] /\ seq \in 0..MaxId /\ call[r] \in CallType
      /\ MaxId \in Nat /\ Ids = 1..MaxId /\ NoRow \notin RowType
      /\ \A i \in Rows : i \in Ids /\ i <= seq /\ row[i] \in RowType
      /\ \A i \in Ids : i \in Rows <=> row[i] # NoRow
      /\ \A i : i \in Rows' => i \in Ids /\ row'[i] # NoRow
  BY SkillsAssumption DEF IInv, Types, Given, Rows, Ids
<1>1. OnlyMine(r) /\ pc[r] # "done" /\ call' = call
  BY StepIsMine DEF IInv, OnlyMine
<1>2. SUFFICES ASSUME NEW i \in Rows', Proposed(i)', row'[i].review = "approved"
               PROVE  ApprovedByReview(i)'
  BY DEF Proposals
<1>3. ASSUME i \in Rows, row'[i].by = row[i].by, row'[i].review = row[i].review
      PROVE  ApprovedByReview(i)'
  <2>1. Proposed(i) /\ row[i].review = "approved"
    BY <1>1, <1>2, <1>3 DEF Proposed
  <2> QED BY <1>1, <1>3, <2>1, ApprovalStays DEF IInv, Proposals
<1>4. CASE UNCHANGED <<row, seq>>
  BY <1>0, <1>3, <1>4
<1>5. CASE \E x \in RowType : /\ seq < MaxId /\ seq' = seq + 1 /\ x.by = r
                              /\ row' = [row EXCEPT ![seq + 1] = x]
                              /\ call[r].op \in {"create", "duplicate"}
  <2>1. PICK x \in RowType : x.by = r /\ row' = [row EXCEPT ![seq + 1] = x]
    BY <1>5
  <2>2. i # seq + 1
    BY <1>0, <1>1, <1>2, <1>5, <2>1 DEF Proposed
  <2>3. row'[i] = row[i] /\ i \in Rows
    BY <1>0, <2>1, <2>2
  <2> QED BY <1>3, <2>3
<1>6. CASE \E j \in Rows : seq' = seq /\ row' = [row EXCEPT ![j] = NoRow]
  <2>1. PICK j \in Rows : row' = [row EXCEPT ![j] = NoRow]
    BY <1>6
  <2>2. row'[i] = row[i] /\ i \in Rows
    BY <1>0, <2>1
  <2> QED BY <1>3, <2>2
<1>7. CASE call[r].id \in Rows /\ row' = [row EXCEPT ![call[r].id] = Patched(@, call[r])]
  <2>1. /\ Patched(row[call[r].id], call[r]).by = row[call[r].id].by
        /\ Patched(row[call[r].id], call[r]).review = row[call[r].id].review
    BY <1>0, <1>7 DEF Patched, RowType
  <2>2. i \in Rows /\ row'[i].by = row[i].by /\ row'[i].review = row[i].review
    BY <1>0, <1>7, <2>1
  <2> QED BY <1>3, <2>2
<1>8. CASE /\ call[r].op = "review" /\ call[r].review # "unset"
           /\ call[r].id \in Rows /\ seq' = seq
           /\ row' = Reviewed(row, call[r].id, call[r].review)
           /\ pc'[r] = "done" /\ reply'[r] = "ok"
  <2>1. row' = [row EXCEPT ![call[r].id] = [row[call[r].id] EXCEPT !.review = call[r].review]]
    BY <1>8 DEF Reviewed
  <2>2. CASE i # call[r].id
    <3>1. row'[i] = row[i] /\ i \in Rows
      BY <1>0, <2>1, <2>2
    <3> QED BY <1>3, <3>1
  <2>3. CASE i = call[r].id
    <3>1. call[r].review = "approved"
      BY <1>0, <1>2, <1>8, <2>1, <2>3 DEF RowType
    <3> QED BY <1>1, <1>8, <2>3, <3>1 DEF ApprovedByReview
  <2> QED BY <2>2, <2>3
<1>9. CASE IngestRegister(r)
  <2> DEFINE c == call[r]
             k == RegisteredId(r)
  <2>1. CASE /\ k \in Rows /\ c.review = "proposed"
             /\ row' = [row EXCEPT ![k].review = "proposed"]
    <3>1. i # k
      BY <1>0, <1>2, <2>1 DEF RowType
    <3>2. row'[i] = row[i] /\ i \in Rows
      BY <1>0, <2>1, <3>1
    <3> QED BY <1>3, <3>2
  <2>2. CASE /\ k = seq + 1 /\ k \in Ids
             /\ row'[k] = [name |-> c.name, content |-> c.content, bundle |-> TRUE,
                           enabled |-> c.enabled, over |-> 0, by |-> r,
                           review |-> IF c.review = "proposed" THEN "proposed" ELSE "approved"]
             /\ \A j \in Ids : j # k =>
                  row'[j] = IF j = got[r].parent /\ j \in Rows /\ ~got[r].material
                            THEN [row[j] EXCEPT !.over = k] ELSE row[j]
    <3>1. row'[k].by = r /\ (c.review = "proposed" => row'[k].review = "proposed")
      BY <2>2
    <3> HIDE DEF k
    <3>2. i # k
      BY <1>1, <1>2, <3>1 DEF Proposed
    <3>3. i \in Rows
      BY <1>0, <2>2, <3>2
    <3>4. row'[i].by = row[i].by /\ row'[i].review = row[i].review
      BY <1>0, <2>2, <3>2, <3>3, ZenonT(40) DEF RowType
    <3> QED BY <1>3, <3>3, <3>4
  <2>3. Types /\ Given
    BY DEF IInv
  <2> HIDE DEF k
  <2> QED BY <1>4, <1>9, <2>1, <2>2, <2>3, RegisterForms DEF k
<1> QED BY <1>4, <1>5, <1>6, <1>7, <1>8, <1>9, StepWrites DEF Writes

----------------------------------------------------------------------------
(***************************************************************************)
(* The inductive invariant.                                                *)
(***************************************************************************)

LEMMA InitIInv == Init => IInv
<1> SUFFICES ASSUME Init PROVE IInv
  OBVIOUS
<1> DEFINE D == DOMAIN InitRows
<1>1. IsFiniteSet(D)
  <2>1. MaxId \in Int
    BY SkillsAssumption
  <2>2. IsFiniteSet(1..MaxId)
    BY <2>1, FS_Interval
  <2> QED BY <2>2, FS_Subset, SkillsAssumption DEF Ids
<1>2. Cardinality(D) \in Nat
  BY <1>1, FS_CardinalityType
<1>3. Cardinality(D) <= MaxId
  <2>1. Cardinality(D) # 0 => Cardinality(D) \in D
    BY <1>2, SkillsAssumption
  <2> QED BY <1>2, <2>1, SkillsAssumption DEF Ids
<1>4. row \in [Ids -> RowType \cup {NoRow}]
  BY SkillsAssumption DEF Init
<1>5. \A i \in Rows : i \in D /\ row[i] = InitRows[i]
  BY DEF Init, Rows
<1>6. Types
  <2>1. NoMemo \in MemoType
    BY SkillsAssumption DEF NoMemo, MemoType
  <2>2. seq \in 0..MaxId
    BY <1>2, <1>3, SkillsAssumption DEF Init
  <2>3. got \in [Requests -> MemoType]
    BY <2>1 DEF Init
  <2>4. call \in [Requests -> Calls] /\ seen \in [Requests -> SUBSET Ids]
    BY DEF Init
  <2>5. pc \in [Requests -> Steps] /\ reply \in [Requests -> Replies]
    BY DEF Init, Steps, Replies
  <2> QED BY <1>4, <2>2, <2>3, <2>4, <2>5 DEF Types
<1>7. Given
  <2>1. seq = Cardinality(D) /\ \A r \in Requests : seen[r] = {}
    BY DEF Init
  <2>2. D = 1..Cardinality(D)
    BY SkillsAssumption
  <2> HIDE DEF D
  <2> QED BY <1>2, <1>5, <2>1, <2>2 DEF Given
<1>8. \A r \in Requests : Unfound(r) /\ LookedUp(r) /\ Forked(r) /\ Compared(r)
  BY DEF Init, Unfound, LookedUp, Forked, Compared
<1>9. Proposals
  BY <1>5, SkillsAssumption DEF Proposals, Proposed
<1> QED BY <1>6, <1>7, <1>8, <1>9 DEF IInv, Answered, Init

LEMMA StepKeepsIInv ==
  ASSUME NEW r \in Requests, IInv, Handler(r)
  PROVE  IInv'
<1>1. /\ OnlyMine(r) /\ pc[r] # "done" /\ pc' \in [Requests -> Steps]
      /\ reply' \in [Requests -> Replies] /\ (reply' = reply \/ pc'[r] = "done")
      /\ seen' \in [Requests -> SUBSET Ids]
  BY StepIsMine DEF IInv
<1>2. Evolves /\ row' \in [Ids -> RowType \cup {NoRow}] /\ seq' \in 0..MaxId
  BY StepEvolves
<1>3. Unfound(r)' /\ LookedUp(r)' /\ Forked(r)' /\ Compared(r)' /\ got' \in [Requests -> MemoType]
  BY MineKeeps
<1>4. \A q \in Requests : Unfound(q)' /\ LookedUp(q)' /\ Forked(q)' /\ Compared(q)'
  BY <1>1, <1>2, <1>3, OthersKeep
<1>5. Types'
  BY <1>1, <1>2, <1>3 DEF IInv, Types, OnlyMine
<1>6. Given'
  <2>0. MaxId \in Nat /\ Ids = 1..MaxId /\ seq \in 0..MaxId /\ \A q \in Requests : seen[q] \subseteq Ids
    BY SkillsAssumption DEF IInv, Types, Ids
  <2>1. \A i \in Rows' : i <= seq'
    <3>1. \A i \in Rows : i \in Ids /\ i <= seq
      BY DEF IInv, Given, Rows
    <3> QED BY <1>2, <2>0, <3>1 DEF Evolves
  <2>2. \A q \in Requests : seen'[q] = seen[q] \/ seen'[q] = Visible
    BY <1>1 DEF OnlyMine, Handler, IngestCheck, IngestParent, IngestCompare, IngestRegister, Create,
                PatchRead, PatchWrite, Delete, DuplicateRead, DuplicateFork, DuplicateReread, Review,
                IInv, Types
  <2>3. \A q \in Requests : \A i \in seen'[q] : i <= seq /\ i \in Ids
    BY <2>0, <2>2 DEF IInv, Given, Visible, Rows
  <2> QED BY <1>2, <2>0, <2>1, <2>3 DEF Given, Evolves
<1>7. Answered'
  BY <1>1 DEF IInv, Answered, OnlyMine
<1>8. Proposals'
  BY StepKeepsProposals
<1> QED BY <1>4, <1>5, <1>6, <1>7, <1>8 DEF IInv

LEMMA NextKeepsIInv == IInv /\ [Next]_vars => IInv'
<1> SUFFICES ASSUME IInv, [Next]_vars PROVE IInv'
  OBVIOUS
<1>1. ASSUME NEW r \in Requests, Handler(r) PROVE IInv'
  BY <1>1, StepKeepsIInv
<1>2. CASE UNCHANGED vars
  BY <1>2 DEF vars, reqVars, IInv, Types, Given, Unfound, LookedUp, Forked, Compared, Hideable,
              Answered, Proposals, Proposed, ApprovedByReview, Rows, SameBundle
<1> QED BY <1>1, <1>2 DEF Next, Handler, Terminating

\* The inductive invariant holds in every behaviour of the skills.
THEOREM SkillsInvariance == Spec => []IInv
  BY InitIInv, NextKeepsIInv, PTL DEF Spec

----------------------------------------------------------------------------
(***************************************************************************)
(* The theorems.                                                           *)
(***************************************************************************)

\* What a resolve finds, by name or by pin, is visible.
LEMMA ResolvedIsVisible ==
  ASSUME NEW i \in Rows, i = Resolve(row[i].name) \/ i = ResolvePin(row[i].name, row[i].content)
  PROVE  row[i].review = "approved"
<1>1. i # 0
  BY SkillsAssumption DEF Rows, Ids
<1> DEFINE I == {j \in Visible : row[j].name = row[i].name /\ row[j].enabled}
           J == {j \in Visible : row[j].name = row[i].name /\ row[j].bundle
                                   /\ row[j].content = row[i].content}
<1>2. i \in I \/ i \in J
  <2>1. i = Newest(I) \/ i = Newest(J)
    BY DEF Resolve, ResolvePin
  <2>2. I \subseteq Ids /\ J \subseteq Ids
    BY DEF Visible, Rows
  <2> HIDE DEF I, J
  <2> QED BY <1>1, <2>1, <2>2, NewestOf
<1> QED BY <1>2 DEF Visible

\* A proposal never resolves until a review has approved it, for any requests,
\* any calls, any skills at the start, whatever the engine does of what it may.
THEOREM ProposalsWait == Spec => []ProposedNeverLive
<1>1. IInv => ProposedNeverLive
  BY ResolvedIsVisible DEF IInv, Proposals, Proposed, ApprovedByReview, ProposedNeverLive
<1> QED BY <1>1, SkillsInvariance, PTL

\* A registered version never changes and its id is never given again, although
\* a PATCH looks for the bundle_hash in one statement and writes in another.
THEOREM VersionsAreImmutable == Spec => PinsNeverChange
<1>1. IInv /\ [Next]_vars => [PinsStay]_vars
  <2> SUFFICES ASSUME IInv, Next PROVE PinsStay
    BY DEF PinsStay
  <2>1. seq \in Int /\ Ids \subseteq Int
    BY SkillsAssumption DEF IInv, Types, Ids
  <2>2. ASSUME NEW r \in Requests, Handler(r) PROVE PinsStay
    BY <2>1, <2>2, StepEvolves DEF Evolves, PinsStay
  <2>3. CASE Terminating
    BY <2>3 DEF Terminating, vars, PinsStay, Rows
  <2> QED BY <2>2, <2>3 DEF Next, Handler
<1> QED BY <1>1, SkillsInvariance, PTL DEF Spec, PinsNeverChange

\* Nothing but a review withdraws an approved version, or a proposal of the
\* same bundle that did not have it in view when it looked.
THEOREM ReviewersWithdraw == Spec => WithdrawnByReview
<1>1. IInv /\ [Next]_vars => [ReviewWithdraws]_vars
  <2> SUFFICES ASSUME IInv, Next, ~UNCHANGED vars PROVE ReviewWithdraws
    OBVIOUS
  <2>0. PICK r \in Requests : Handler(r)
    BY DEF Next, Handler, Terminating
  <2>1. /\ row \in [Ids -> RowType \cup {NoRow}] /\ seq \in 0..MaxId /\ MaxId \in Nat
        /\ Ids = 1..MaxId /\ NoRow \notin RowType /\ call[r] \in CallType
        /\ pc[r] # "done" /\ pc \in [Requests -> Steps]
        /\ \A i \in Rows : i \in Ids /\ i <= seq /\ row[i] \in RowType
        /\ \A i : i \in Rows' => i \in Ids /\ row'[i] # NoRow
    BY <2>0, StepIsMine, SkillsAssumption DEF IInv, Types, Given, Rows, Ids
  <2>2. SUFFICES ASSUME NEW i \in Rows, i \in Rows', row[i].review = "approved",
                        row'[i].review # "approved"
                 PROVE  /\ pc'[r] = "done"
                        /\ \/ call[r].op = "review" /\ call[r].id = i
                           \/ call[r].op = "ingest" /\ i \notin seen[r]
    BY <2>1 DEF ReviewWithdraws, Visible
  <2>3. CASE UNCHANGED <<row, seq>>
    BY <2>2, <2>3
  <2>4. CASE \E x \in RowType : /\ seq < MaxId /\ seq' = seq + 1 /\ x.by = r
                                /\ row' = [row EXCEPT ![seq + 1] = x]
    BY <2>1, <2>2, <2>4
  <2>5. CASE \E j \in Rows : seq' = seq /\ row' = [row EXCEPT ![j] = NoRow]
    BY <2>1, <2>2, <2>5
  <2>6. CASE call[r].id \in Rows /\ row' = [row EXCEPT ![call[r].id] = Patched(@, call[r])]
    <3>1. Patched(row[call[r].id], call[r]).review = row[call[r].id].review
      BY <2>1, <2>6 DEF Patched, RowType
    <3> QED BY <2>1, <2>2, <2>6, <3>1
  <2>7. CASE /\ call[r].op = "review" /\ call[r].id \in Rows
             /\ row' = Reviewed(row, call[r].id, call[r].review) /\ pc'[r] = "done"
    <3>1. \A j \in Ids : j # call[r].id => row'[j] = row[j]
      BY <2>1, <2>7 DEF Reviewed
    <3> QED BY <2>1, <2>2, <2>7, <3>1
  <2>8. CASE IngestRegister(r)
    <3> DEFINE c == call[r]
               k == RegisteredId(r)
    <3>1. pc[r] = "register" /\ pc'[r] = "done"
      BY <2>1, <2>8 DEF IngestRegister, Answer
    <3>2. c.op = "ingest" /\ SameBundle(c) \cap seen[r] = {}
      BY <3>1 DEF IInv, Unfound
    <3>3. CASE /\ k \in SameBundle(c) /\ k \in Rows
               /\ row' = [row EXCEPT ![k].review = "proposed"]
      <4>1. i = k
        BY <2>1, <2>2, <3>3
      <4> QED BY <3>1, <3>2, <3>3, <4>1
    <3>4. CASE /\ k = seq + 1
               /\ \A j \in Ids : j # k =>
                    row'[j] = IF j = got[r].parent /\ j \in Rows /\ ~got[r].material
                              THEN [row[j] EXCEPT !.over = k] ELSE row[j]
      <4> HIDE DEF k
      <4>1. i \in Ids /\ i # k /\ row[i] \in RowType
        BY <2>1, <2>2, <3>4
      <4>2. [row[i] EXCEPT !.over = k].review = row[i].review
        BY <4>1 DEF RowType
      <4>3. row'[i] = row[i] \/ row'[i] = [row[i] EXCEPT !.over = k]
        BY <3>4, <4>1
      <4> QED BY <2>2, <4>2, <4>3
    <3>5. Types /\ Given
      BY DEF IInv
    <3> HIDE DEF k
    <3> QED BY <2>3, <2>8, <3>3, <3>4, <3>5, RegisterForms DEF k
  <2> QED BY <2>0, <2>3, <2>4, <2>5, <2>6, <2>7, <2>8, StepWrites DEF Writes
<1> QED BY <1>1, SkillsInvariance, PTL DEF Spec, WithdrawnByReview

\* What hides a parent is what the handler has read of it, whoever changes the
\* table between that reading and the registration.
THEOREM HiddenForAReason == Spec => HiddenOnlyIfSame
<1>1. IInv /\ [Next]_vars => [SameIsHidden]_vars
  <2> SUFFICES ASSUME IInv, Next, ~UNCHANGED vars PROVE SameIsHidden
    OBVIOUS
  <2>0. PICK r \in Requests : Handler(r)
    BY DEF Next, Handler, Terminating
  <2>1. /\ row \in [Ids -> RowType \cup {NoRow}] /\ seq \in 0..MaxId /\ MaxId \in Nat
        /\ Ids = 1..MaxId /\ NoRow \notin RowType /\ call[r] \in CallType
        /\ \A i \in Rows : i \in Ids /\ i <= seq /\ row[i] \in RowType
        /\ \A i : i \in Rows' => i \in Ids /\ row'[i] # NoRow
    BY SkillsAssumption DEF IInv, Types, Given, Rows, Ids
  <2>2. SUFFICES ASSUME NEW i \in Rows, i \in Rows', row[i].over = 0, row'[i].over # 0
                 PROVE  LET new == row'[row'[i].over]
                            c == call[new.by]
                        IN  \/ c.differs = "no"
                            \/ ~row[i].bundle /\ row[i].content # got[new.by].read
                            \/ /\ new.content.fm = row[i].content.fm
                               /\ new.content.files = row[i].content.files
                               /\ new.content.text = row[i].content.text \/ c.model = "ready"
    BY DEF SameIsHidden
  <2>3. CASE UNCHANGED <<row, seq>>
    BY <2>2, <2>3
  <2>4. CASE \E x \in RowType : /\ seq < MaxId /\ seq' = seq + 1 /\ x.by = r
                                /\ row' = [row EXCEPT ![seq + 1] = x]
    BY <2>1, <2>2, <2>4
  <2>5. CASE \E j \in Rows : seq' = seq /\ row' = [row EXCEPT ![j] = NoRow]
    BY <2>1, <2>2, <2>5
  <2>6. CASE call[r].id \in Rows /\ row' = [row EXCEPT ![call[r].id] = Patched(@, call[r])]
    <3>1. Patched(row[call[r].id], call[r]).over = row[call[r].id].over
      BY <2>1, <2>6 DEF Patched, RowType
    <3> QED BY <2>1, <2>2, <2>6, <3>1
  <2>7. CASE call[r].id \in Rows /\ row' = Reviewed(row, call[r].id, call[r].review)
    <3>1. [row[call[r].id] EXCEPT !.review = call[r].review].over = row[call[r].id].over
      BY <2>1, <2>7 DEF RowType
    <3> QED BY <2>1, <2>2, <2>7, <3>1 DEF Reviewed
  <2>8. CASE IngestRegister(r)
    <3> DEFINE c == call[r]
               k == RegisteredId(r)
    <3>1. CASE k \in Rows /\ row' = [row EXCEPT ![k].review = "proposed"]
      <4>1. [row[k] EXCEPT !.review = "proposed"].over = row[k].over
        BY <2>1, <3>1 DEF RowType
      <4> QED BY <2>1, <2>2, <3>1, <4>1
    <3>2. CASE /\ k = seq + 1 /\ k \in Ids
               /\ row'[k] = [name |-> c.name, content |-> c.content, bundle |-> TRUE,
                             enabled |-> c.enabled, over |-> 0, by |-> r,
                             review |-> IF c.review = "proposed" THEN "proposed" ELSE "approved"]
               /\ \A j \in Ids : j # k =>
                    row'[j] = IF j = got[r].parent /\ j \in Rows /\ ~got[r].material
                              THEN [row[j] EXCEPT !.over = k] ELSE row[j]
      <4>1. row'[k].by = r /\ row'[k].content = c.content
        BY <3>2
      <4> HIDE DEF k
      <4>2. i # k /\ row'[i] # row[i]
        BY <2>1, <2>2, <3>2
      <4>3. i = got[r].parent /\ ~got[r].material /\ row'[i] = [row[i] EXCEPT !.over = k]
        BY <2>1, <2>2, <3>2, <4>2
      <4>4. row'[i].over = k /\ i # 0
        BY <2>1, <2>2, <4>3 DEF RowType
      <4>5. pc[r] = "register"
        BY <2>8 DEF IngestRegister
      <4>6. /\ row[i].bundle => row[i].content = got[r].read
            /\ Hideable(c, got[r].read)
        BY <2>2, <4>3, <4>4, <4>5 DEF IInv, Compared
      <4>7. row[i].content = got[r].read \/ (~row[i].bundle /\ row[i].content # got[r].read)
        BY <4>6
      <4>8. call[row'[row'[i].over].by] = c /\ row'[row'[i].over].content = c.content
            /\ got[row'[row'[i].over].by] = got[r]
        BY <4>1, <4>4
      <4>9. CASE row[i].content = got[r].read
        <5>1. Hideable(c, row[i].content)
          BY <4>6, <4>9
        <5>2. \/ c.differs = "no"
              \/ /\ c.content.fm = row[i].content.fm
                 /\ c.content.files = row[i].content.files
                 /\ c.content.text = row[i].content.text \/ c.model = "ready"
          BY <5>1 DEF Hideable
        <5> HIDE DEF c
        <5> QED BY <4>8, <5>2
      <4> QED BY <4>7, <4>8, <4>9
    <3>3. Types /\ Given
      BY DEF IInv
    <3> HIDE DEF k
    <3> QED BY <2>3, <2>8, <3>1, <3>2, <3>3, RegisterForms DEF k
  <2> QED BY <2>0, <2>3, <2>4, <2>5, <2>6, <2>7, <2>8, StepWrites DEF Writes
<1> QED BY <1>1, SkillsInvariance, PTL DEF Spec, HiddenOnlyIfSame
=============================================================================
