---------------------------- MODULE Links_proofs ----------------------------
(***************************************************************************)
(* Proofs about Links, for any number of requests and workers, any calls   *)
(* and any links at the start.                                             *)
(*                                                                         *)
(* No handler takes a lock, so what a handler has read may be out of date  *)
(* at its next step.  The invariant says by how much: what differs was     *)
(* made, or taken away, by a request that was not over when the handler    *)
(* began (Unseen, Later, Excused).  A step of one request is, for all the  *)
(* others, of one form (Acts): rows it makes, takes away, or retypes.      *)
(***************************************************************************)
EXTENDS Links, Lemmas, SequenceTheorems

Steps == {"idle", "body", "insert", "write", "txn", "answer", "done"}
Replies ==
  {"none", "ok", "conflict", "refused", "not_found", "gone", "server_error", "lost"}

\* A handler that is about to make rows.
Making == {"insert", "write", "txn"}

Types ==
  /\ rows \subseteq RowType /\ IsFiniteSet(rows)
  /\ keyed \in BOOLEAN
  /\ loop \in [Workers -> Requests \cup {NoRequest}]
  /\ call \in [Requests -> Calls]
  /\ host \in [Requests -> Workers]
  /\ pc \in [Requests -> Steps]
  /\ reply \in [Requests -> Replies]
  /\ fresh \in [Requests -> Nat]
  /\ had \in [Requests -> SUBSET Nat]
  /\ todo \in [Requests -> Seq(Nat)]
  /\ gone \in [Requests -> SUBSET RowType]
  /\ before \in [Requests -> SUBSET Requests]

\* Where r is, what its call is and what it holds.
Course(r) ==
  /\ before[r] \subseteq Over
  /\ pc[r] \in Making \cup {"answer"} => loop[host[r]] = r
  /\ pc[r] \in {"insert", "write"} => call[r].op = "link"
  /\ pc[r] = "insert" => Valid(call[r])
  /\ pc[r] = "write" => call[r].tab = "related"
  /\ pc[r] = "txn" => call[r].op = "replace"
  /\ pc[r] # "done" => reply[r] = "none"
  /\ pc[r] = "answer" => call[r].op \in {"link", "replace", "patch"}

\* A link is what its maker was asked for, which has made it and is past that.
Born ==
  /\ \A x \in rows : x.key[1] \in Requests =>
       LET q == x.key[1]
       IN  /\ pc[q] \in {"answer", "done"}
           /\ x.key[2] = x.tgt
  /\ \A x, y \in rows : x.key[1] \in Requests /\ x.key = y.key => x = y

\* The targets r is about to link.
Wanted(r) == IF pc[r] = "txn" THEN call[r].tgts \ had[r] ELSE call[r].tgts

\* A link that r is about to make exists only if one made it meanwhile.
Unseen(r) ==
  /\ pc[r] \in Making =>
       \A x \in rows : Same(call[r], x) /\ x.tgt \in Wanted(r) /\ ~x.retyped
         => Overlapped(x.key[1], r)
  /\ pc[r] = "write" =>
       \A x \in Related : x.id >= fresh[r] => Overlapped(x.key[1], r)

\* x was made by a request that was not over when r began.
Later(r, x) == x.key[1] \in Requests \ before[r]

\* The links r is to take away.
Unwanted(r, x) ==
  \/ call[r].op = "unlink" /\ Unlinked(call[r], x)
  \/ call[r].op = "replace" /\ Same(call[r], x) /\ x.tgt \notin call[r].tgts

\* x is still to be deleted by the transaction of r.
Queued(r, x) == \E i \in 1..Len(todo[r]) : todo[r][i] = x.tgt

Cleared(r) ==
  /\ \A x \in gone[r] : Unwanted(r, x) /\ call[r].op = "replace"
  /\ \A i \in 1..Len(todo[r]) : todo[r][i] \notin call[r].tgts
  /\ pc[r] = "txn" =>
       \A x \in rows : Unwanted(r, x) => x \in gone[r] \/ Queued(r, x) \/ Later(r, x)
  /\ pc[r] = "answer" \/ reply[r] = "ok" =>
       \A x \in rows : Unwanted(r, x) => Later(r, x)

\* A request that was not over when r began may have taken the link to t away.
Excused(r, t) ==
  \E q \in Requests \ before[r] : pc[q] # "idle" /\ Removes(call[q], call[r], t)

Served(r) ==
  /\ pc[r] = "txn" =>
       \A t \in call[r].tgts \cap had[r] : Present(call[r], t) \/ Excused(r, t)
  /\ (pc[r] = "answer" \/ reply[r] = "ok") /\ call[r].op \in {"link", "replace"} =>
       \A t \in call[r].tgts : Present(call[r], t) \/ Excused(r, t)

\* What holds of each handler.
Sane(r) == Course(r) /\ Unseen(r) /\ Cleared(r) /\ Served(r)

LinksInv ==
  /\ Types /\ Born
  /\ DuplicatesOnlyByOverlap /\ RelationshipIdsCollideOnlyByOverlap
  /\ \A r \in Requests : Sane(r)


----------------------------------------------------------------------------
(***************************************************************************)
(* The form of a step of the handler of q.                                 *)
(***************************************************************************)

\* All that is not q's stays; an event loop is taken when it is idle, and
\* given back by who has it.
Others(q) ==
  /\ UNCHANGED <<keyed, call, host>>
  /\ \A p \in Requests \ {q} :
       /\ pc'[p] = pc[p] /\ reply'[p] = reply[p] /\ fresh'[p] = fresh[p]
       /\ had'[p] = had[p] /\ todo'[p] = todo[p] /\ gone'[p] = gone[p]
       /\ before'[p] = before[p]
  /\ \A w \in Workers : loop'[w] = loop[w] \/ (w = host[q] /\ loop[w] \in {NoRequest, q})

\* q goes on, and has taken note of who was over before.
Goes(q) ==
  /\ pc[q] # "done" /\ pc'[q] \in Steps \ {"idle"}
  /\ pc[q] = "answer" => pc'[q] = "done"
  /\ before'[q] = before[q] \/ (pc[q] = "idle" /\ before'[q] = Over)

\* The id of the rows that q makes.
MadeId(q) == IF pc[q] = "write" THEN fresh[q] ELSE 0

\* y is made by q.
NewBy(q, y) ==
  /\ pc[q] \in Making /\ pc'[q] = "answer"
  /\ y = NewRow(q, y.tgt, MadeId(q)) /\ y.tgt \in Wanted(q)
  /\ call[q].tab = "verb" => ~Present(call[q], y.tgt)
  /\ call[q].tab = "related" =>
       /\ pc[q] = "write"
       /\ keyed => \A x \in Related : x.id # fresh[q]

\* y is x, but for its type.
Twin(y, x) == /\ y.tab = x.tab /\ y.src = x.src /\ y.tgt = x.tgt
              /\ y.id = x.id /\ y.key = x.key

RetypedRow(y) == y.retyped /\ y.tab = "related" /\ \E x \in rows : Twin(y, x)

\* q may take x away.
Taken(q, x) == \A c \in Calls : Same(c, x) => Removes(call[q], c, x.tgt)

Acts(q) ==
  /\ Others(q) /\ Goes(q)
  /\ \A y \in rows' : y \in rows \/ NewBy(q, y) \/ RetypedRow(y)
  /\ \A x \in rows : x \in rows' \/ Taken(q, x)
  /\ \/ \A y \in rows' : y \in rows \/ NewBy(q, y)
     \/ \A x, y \in rows' : x # y =>
          \E a, b \in rows : a # b /\ Twin(x, a) /\ Twin(y, b)

\* What a call is.
LEMMA CallFacts ==
  ASSUME Types, NEW r \in Requests
  PROVE  /\ call[r] \in Calls /\ call[r] \in CallType
         /\ call[r].tgts \subseteq Nat /\ IsFiniteSet(call[r].tgts)
         /\ call[r].op \in {"link", "unlink"} => \E t \in Nat : call[r].tgts = {t}
         /\ call[r].op = "replace" => call[r].tab = "member"
         /\ call[r].op \in {"patch", "remove"} => call[r].tab = "related"
         /\ host[r] \in Workers
<1>1. call[r] \in Calls /\ host[r] \in Workers
  BY DEF Types
<1>2. call[r] \in CallType /\ call[r].tgts \subseteq Nat
  BY <1>1, LinkAssumption DEF CallType
<1> QED BY <1>1, <1>2, LinkAssumption

\* A step that leaves the rows as they are.
LEMMA RowsStay ==
  ASSUME NEW q \in Requests, Others(q), Goes(q), rows' = rows
  PROVE  Acts(q)
BY DEF Acts

\* A step that goes to s and answers a, and holds or releases nothing else.
LEMMA MoveFacts ==
  ASSUME Types, NEW r \in Requests,
         NEW s \in Steps \ {"idle"}, pc' = [pc EXCEPT ![r] = s],
         NEW a \in Replies, reply' = [reply EXCEPT ![r] = a]
  PROVE  /\ pc' \in [Requests -> Steps] /\ reply' \in [Requests -> Replies]
         /\ pc'[r] = s /\ reply'[r] = a
         /\ \A p \in Requests \ {r} : pc'[p] = pc[p] /\ reply'[p] = reply[p]
BY DEF Types

LEMMA NewRowType ==
  ASSUME Types, NEW r \in Requests, NEW t \in call[r].tgts, NEW n \in Nat
  PROVE  /\ NewRow(r, t, n) \in RowType
         /\ NewRow(r, t, n).tgt = t /\ NewRow(r, t, n).id = n
         /\ NewRow(r, t, n).key = <<r, t>> /\ NewRow(r, t, n).key[1] = r
         /\ NewRow(r, t, n).tab = call[r].tab /\ ~NewRow(r, t, n).retyped
         /\ Same(call[r], NewRow(r, t, n))
<1>1. t \in Nat /\ call[r].tab \in Tables /\ call[r].src \in Nat /\ call[r].type \in STRING
  BY CallFacts DEF CallType
<1>2. <<r, t>> \in (Requests \cup {NoRequest}) \X Nat
  BY <1>1
<1>3. NewRow(r, t, n) \in RowType
  BY <1>1, <1>2 DEF NewRow, RowType
<1> QED BY <1>3 DEF NewRow, Same

\* The rows made for some of the targets are finitely many.
LEMMA NewRowsFinite ==
  ASSUME Types, NEW r \in Requests, NEW T \in SUBSET call[r].tgts, NEW n
  PROVE  IsFiniteSet({NewRow(r, t, n) : t \in T})
<1> DEFINE S == {NewRow(r, t, n) : t \in T}
           f == [t \in T |-> NewRow(r, t, n)]
<1>1. IsFiniteSet(T)
  BY CallFacts, FS_Subset
<1>2. f \in Surjection(T, S)
  BY DEF Surjection
<1> HIDE DEF f, S
<1>3. IsFiniteSet(S)
  BY <1>1, <1>2, FS_Surjection
<1> QED BY <1>3 DEF S


\* Nobody who is over comes back.
LEMMA OverGrows ==
  ASSUME Types, NEW r \in Requests, Others(r), Goes(r)
  PROVE  Over \subseteq Over' /\ r \notin Over
BY DEF Others, Goes, Over, Types

\* A handler that waits for its body, or has answered other than "ok".
LEMMA Rests ==
  ASSUME NEW r \in Requests, Sane(r), UNCHANGED call,
         pc'[r] \in {"body", "done"}, reply'[r] # "ok",
         \/ gone'[r] = gone[r] /\ todo'[r] = todo[r]
         \/ gone'[r] = {} /\ todo'[r] = <<>>
  PROVE  Unseen(r)' /\ Cleared(r)' /\ Served(r)'
<1>1. /\ \A x \in gone'[r] : Unwanted(r, x)' /\ call'[r].op = "replace"
      /\ \A i \in 1..Len(todo'[r]) : todo'[r][i] \notin call'[r].tgts
  <2>1. CASE gone'[r] = gone[r] /\ todo'[r] = todo[r]
    BY <2>1 DEF Sane, Cleared, Unwanted
  <2>2. CASE gone'[r] = {} /\ todo'[r] = <<>>
    BY <2>2
  <2> QED BY <2>1, <2>2
<1>2. Unseen(r)' /\ Served(r)'
  BY DEF Unseen, Served, Making
<1>3. Cleared(r)'
  BY <1>1 DEF Cleared
<1> QED BY <1>2, <1>3

LEMMA LookKeeps ==
  ASSUME LinksInv, NEW r \in Requests, Look(r) \/ Refuse(r)
  PROVE  Types' /\ Acts(r) /\ Sane(r)'
<1>0. Types /\ Sane(r)
  BY DEF LinksInv
<1>1. PICK s \in {"body", "done"}, a \in {"none", "not_found", "refused"} :
        /\ pc[r] \in {"idle", "body"}
        /\ pc' = [pc EXCEPT ![r] = s] /\ reply' = [reply EXCEPT ![r] = a]
        /\ s = "body" => a = "none"
  <2>1. CASE Look(r)
    <3>1. reply[r] = "none" /\ reply = [reply EXCEPT ![r] = reply[r]]
      BY <1>0, <2>1 DEF Look, Sane, Course, Types
    <3> QED BY <2>1, <3>1 DEF Look, Goto, Answer
  <2>2. CASE Refuse(r)
    BY <2>2 DEF Refuse, Answer
  <2> QED BY <2>1, <2>2
<1>2. /\ UNCHANGED <<rows, keyed, loop, call, host, fresh, had, todo, gone>>
      /\ \/ UNCHANGED before
         \/ pc[r] = "idle" /\ before' = [before EXCEPT ![r] = Over]
  BY DEF Look, Refuse, Begin
<1>3. /\ pc' \in [Requests -> Steps] /\ reply' \in [Requests -> Replies]
      /\ pc'[r] = s /\ reply'[r] = a
      /\ \A p \in Requests \ {r} : pc'[p] = pc[p] /\ reply'[p] = reply[p]
  BY <1>0, <1>1, MoveFacts DEF Steps, Replies
<1>4. /\ before' \in [Requests -> SUBSET Requests]
      /\ before'[r] = before[r] \/ (pc[r] = "idle" /\ before'[r] = Over)
      /\ \A p \in Requests \ {r} : before'[p] = before[p]
  <2>1. Over \in SUBSET Requests
    BY DEF Over
  <2>2. before \in [Requests -> SUBSET Requests]
    BY <1>0 DEF Types
  <2> QED BY <1>2, <2>1, <2>2
<1>5. Types'
  BY <1>0, <1>2, <1>3, <1>4 DEF Types
<1>6. Others(r) /\ Goes(r)
  BY <1>1, <1>2, <1>3, <1>4 DEF Others, Goes, Steps
<1>7. Acts(r)
  BY <1>2, <1>6, RowsStay
<1>8. Course(r)'
  <2>1. before'[r] \subseteq Over'
    BY <1>0, <1>4, <1>6, OverGrows DEF Sane, Course
  <2> QED BY <1>1, <1>3, <2>1 DEF Course, Making
<1>9. Unseen(r)' /\ Cleared(r)' /\ Served(r)'
  BY <1>0, <1>1, <1>2, <1>3, Rests
<1> QED BY <1>5, <1>7, <1>8, <1>9 DEF Sane

LEMMA LinkCheckKeeps ==
  ASSUME LinksInv, NEW r \in Requests, LinkCheck(r)
  PROVE  Types' /\ Acts(r) /\ Sane(r)'
<1>0. Types /\ Sane(r)
  BY DEF LinksInv
<1>1. /\ pc[r] = "body" /\ call[r].op = "link" /\ loop[host[r]] = NoRequest
      /\ Valid(call[r])
      /\ UNCHANGED <<rows, keyed, call, host, fresh, had, todo, gone, before>>
  BY DEF LinkCheck, LoopIdle
<1>2. reply[r] = "none" /\ reply = [reply EXCEPT ![r] = reply[r]]
  BY <1>0, <1>1 DEF Sane, Course, Types
<1>3. CASE Answer(r, "conflict") /\ UNCHANGED loop
  <2>1. /\ pc' \in [Requests -> Steps] /\ reply' \in [Requests -> Replies]
        /\ pc'[r] = "done" /\ reply'[r] = "conflict"
        /\ \A p \in Requests \ {r} : pc'[p] = pc[p] /\ reply'[p] = reply[p]
    BY <1>0, <1>3, MoveFacts DEF Answer, Steps, Replies
  <2>2. Types'
    BY <1>0, <1>1, <1>3, <2>1 DEF Types
  <2>3. Others(r) /\ Goes(r)
    BY <1>1, <1>3, <2>1 DEF Others, Goes, Steps
  <2>4. Course(r)'
    <3>1. before'[r] \subseteq Over'
      BY <1>0, <1>1, <2>3, OverGrows DEF Sane, Course
    <3> QED BY <2>1, <3>1 DEF Course, Making
  <2>5. Unseen(r)' /\ Cleared(r)' /\ Served(r)'
    BY <1>0, <1>1, <2>1, Rests
  <2> QED BY <1>1, <2>2, <2>3, <2>4, <2>5, RowsStay DEF Sane
<1>4. CASE /\ \A t \in call[r].tgts : ~Present(call[r], t)
           /\ Take(r) /\ Goto(r, "insert")
  <2>1. /\ pc' \in [Requests -> Steps] /\ reply' \in [Requests -> Replies]
        /\ pc'[r] = "insert" /\ reply'[r] = "none"
        /\ \A p \in Requests \ {r} : pc'[p] = pc[p] /\ reply'[p] = reply[p]
    BY <1>0, <1>2, <1>4, MoveFacts DEF Goto, Steps, Replies
  <2>2. /\ loop' \in [Workers -> Requests \cup {NoRequest}] /\ loop'[host[r]] = r
        /\ \A w \in Workers : loop'[w] = loop[w] \/ (w = host[r] /\ loop[w] = NoRequest)
    BY <1>0, <1>1, <1>4 DEF Take, Types
  <2>3. Types'
    BY <1>0, <1>1, <2>1, <2>2 DEF Types
  <2>4. Others(r) /\ Goes(r)
    BY <1>1, <2>1, <2>2 DEF Others, Goes, Steps
  <2>5. Course(r)'
    <3>1. before'[r] \subseteq Over'
      BY <1>0, <1>1, <2>4, OverGrows DEF Sane, Course
    <3>2. Valid(call[r])'
      BY <1>1 DEF Valid
    <3> QED BY <1>1, <2>1, <2>2, <3>1, <3>2 DEF Course, Making
  <2>6. Unseen(r)'
    BY <1>1, <1>4, <2>1 DEF Unseen, Wanted, Present, Same, Making
  <2>7. Cleared(r)' /\ Served(r)'
    BY <1>0, <1>1, <2>1 DEF Sane, Cleared, Served, Unwanted
  <2> QED BY <1>1, <2>3, <2>4, <2>5, <2>6, <2>7, RowsStay DEF Sane
<1> QED BY <1>3, <1>4 DEF LinkCheck


\* A handler that has the event loop gives it back.
LEMMA GivesBack ==
  ASSUME Types, NEW r \in Requests, loop[host[r]] = r, Release(r)
  PROVE  /\ loop' \in [Workers -> Requests \cup {NoRequest}]
         /\ \A w \in Workers : loop'[w] = loop[w]
                                 \/ (w = host[r] /\ loop[w] \in {NoRequest, r})
BY DEF Release, Types

LEMMA InsertLinkKeeps ==
  ASSUME LinksInv, NEW r \in Requests, InsertLink(r)
  PROVE  Types' /\ Acts(r) /\ Sane(r)'
<1> DEFINE T == {u \in call[r].tgts : call[r].tab = "verb" => ~Present(call[r], u)}
           N == {NewRow(r, t, 0) : t \in T}
<1>0. Types /\ Sane(r)
  BY DEF LinksInv
<1>1. /\ pc[r] = "insert" /\ call[r].tab # "related"
      /\ rows' = rows \cup N
      /\ pc' = [pc EXCEPT ![r] = "answer"]
      /\ UNCHANGED <<keyed, loop, call, host, fresh, had, todo, gone, before, reply>>
  BY DEF InsertLink, Goto
<1>2. /\ call[r].op = "link" /\ reply[r] = "none" /\ loop[host[r]] = r
      /\ Wanted(r) = call[r].tgts
  BY <1>0, <1>1 DEF Sane, Course, Making, Wanted
<1>3. pc' \in [Requests -> Steps] /\ pc'[r] = "answer"
      /\ \A p \in Requests \ {r} : pc'[p] = pc[p]
  BY <1>0, <1>1 DEF Types, Steps
<1>4. IsFiniteSet(N) /\ N \subseteq RowType
  <2>1. T \in SUBSET call[r].tgts
    OBVIOUS
  <2>2. \A t \in T : NewRow(r, t, 0) \in RowType
    BY <1>0, <2>1, NewRowType
  <2> HIDE DEF T
  <2>3. IsFiniteSet(N)
    BY <1>0, <2>1, NewRowsFinite
  <2> QED BY <2>2, <2>3
<1>5. \A y \in N : y.tgt \in T /\ y = NewRow(r, y.tgt, 0)
  BY <1>0, NewRowType
<1>6. \A t \in T : NewRow(r, t, 0) \in rows' /\ Same(call[r], NewRow(r, t, 0))
                   /\ NewRow(r, t, 0).tgt = t
  BY <1>0, <1>1, NewRowType
<1>7. \A t \in call[r].tgts : t \in T \/ Present(call[r], t)
  OBVIOUS
<1>8. \A t \in T : t \in call[r].tgts /\ (call[r].tab = "verb" => ~Present(call[r], t))
  OBVIOUS
<1> HIDE DEF T
<1>9. IsFiniteSet(rows')
  BY <1>0, <1>1, <1>4, FS_Union DEF Types
<1> HIDE DEF N
<1>10. Types'
  BY <1>0, <1>1, <1>3, <1>4, <1>9 DEF Types
<1>11. Others(r) /\ Goes(r)
  BY <1>1, <1>3 DEF Others, Goes, Steps
<1>12. Acts(r)
  <2>1. \A y \in rows' : y \in rows \/ NewBy(r, y)
    BY <1>1, <1>2, <1>3, <1>5, <1>8 DEF NewBy, Making, MadeId
  <2> QED BY <1>1, <1>11, <2>1 DEF Acts
<1>13. Course(r)'
  BY <1>0, <1>1, <1>2, <1>3, <1>11, OverGrows DEF Sane, Course, Making
<1>14. Cleared(r)' /\ Unseen(r)'
  BY <1>0, <1>1, <1>2, <1>3 DEF Sane, Cleared, Unseen, Unwanted, Making
<1>15. Served(r)'
  <2>1. \A t \in call[r].tgts : \E x \in rows' : Same(call[r], x) /\ x.tgt = t
    BY <1>1, <1>6, <1>7 DEF Present
  <2>2. \A t \in call[r].tgts : Present(call[r], t)'
    BY <1>1, <2>1 DEF Present, Same
  <2> QED BY <1>1, <1>3, <2>2 DEF Served
<1> QED BY <1>10, <1>12, <1>13, <1>14, <1>15 DEF Sane

\* MAX + 1 is above every id.
LEMMA NextIdIsNew ==
  ASSUME Types
  PROVE  NextId \in Nat /\ \A x \in Related : x.id \in Nat /\ x.id < NextId
<1> DEFINE I == {x.id : x \in Related}
           f == [x \in Related |-> x.id]
<1>1. \A x \in Related : x.id \in Nat
  BY DEF Types, Related, RowType
<1>2. IsFiniteSet(I)
  <2>1. IsFiniteSet(Related)
    BY FS_Subset DEF Types, Related
  <2>2. f \in Surjection(Related, I)
    BY DEF Surjection
  <2> HIDE DEF f, I
  <2> QED BY <2>1, <2>2, FS_Surjection
<1>3. CASE I = {}
  BY <1>3 DEF NextId
<1>4. CASE I # {}
  <2> DEFINE m == CHOOSE k \in I : \A i \in I : i <= k
  <2>1. I \subseteq Int /\ I \subseteq Nat
    BY <1>1
  <2>2. m \in I /\ \A i \in I : i <= m
    <3>1. \E k \in I : \A i \in I : i <= k
      <4> HIDE DEF I
      <4> QED BY <1>2, <1>4, <2>1, FiniteSetHasMax
    <3> HIDE DEF I
    <3> QED BY <3>1, Zenon
  <2>3. NextId = m + 1
    BY <1>4 DEF NextId
  <2> HIDE DEF m
  <2>4. m + 1 \in Nat /\ \A i \in I : i \in Nat /\ i < m + 1
    <3> HIDE DEF I
    <3> QED BY <2>1, <2>2
  <2> QED BY <1>1, <2>3, <2>4
<1> QED BY <1>3, <1>4

LEMMA ReadMaxKeeps ==
  ASSUME LinksInv, NEW r \in Requests, ReadMax(r)
  PROVE  Types' /\ Acts(r) /\ Sane(r)'
<1>0. Types /\ Sane(r)
  BY DEF LinksInv
<1>1. /\ pc[r] = "insert" /\ call[r].tab = "related"
      /\ fresh' = [fresh EXCEPT ![r] = NextId]
      /\ pc' = [pc EXCEPT ![r] = "write"]
      /\ UNCHANGED <<rows, keyed, loop, call, host, had, todo, gone, before, reply>>
  BY DEF ReadMax, Goto
<1>2. /\ call[r].op = "link" /\ reply[r] = "none" /\ loop[host[r]] = r
  BY <1>0, <1>1 DEF Sane, Course, Making
<1>3. pc' \in [Requests -> Steps] /\ pc'[r] = "write"
      /\ \A p \in Requests \ {r} : pc'[p] = pc[p]
  BY <1>0, <1>1 DEF Types, Steps
<1>4. /\ fresh' \in [Requests -> Nat] /\ fresh'[r] = NextId
      /\ \A p \in Requests \ {r} : fresh'[p] = fresh[p]
  BY <1>0, <1>1, NextIdIsNew DEF Types
<1>5. Types'
  BY <1>0, <1>1, <1>3, <1>4 DEF Types
<1>6. Others(r) /\ Goes(r)
  BY <1>1, <1>3, <1>4 DEF Others, Goes, Steps
<1>7. Course(r)'
  BY <1>0, <1>1, <1>2, <1>3, <1>6, OverGrows DEF Sane, Course, Making
<1>8. Unseen(r)'
  <2>1. \A x \in rows : Same(call[r], x) /\ x.tgt \in call[r].tgts /\ ~x.retyped
                          => Overlapped(x.key[1], r)
    BY <1>0, <1>1 DEF Sane, Unseen, Wanted, Making
  <2>2. \A x \in rows' : Same(call[r], x)' /\ x.tgt \in Wanted(r)' /\ ~x.retyped
                          => Overlapped(x.key[1], r)'
    BY <1>1, <1>3, <2>1 DEF Wanted, Same, Overlapped
  <2>3. \A x \in Related : ~(x.id >= NextId)
    BY <1>0, NextIdIsNew
  <2>4. \A x \in Related' : ~(x.id >= fresh'[r])
    BY <1>1, <1>4, <2>3 DEF Related
  <2> QED BY <2>2, <2>4 DEF Unseen
<1>9. Cleared(r)' /\ Served(r)'
  BY <1>0, <1>1, <1>2, <1>3 DEF Sane, Cleared, Served, Unwanted
<1> QED BY <1>1, <1>5, <1>6, <1>7, <1>8, <1>9, RowsStay DEF Sane


LEMMA InsertRelatedKeeps ==
  ASSUME LinksInv, NEW r \in Requests, InsertRelated(r)
  PROVE  Types' /\ Acts(r) /\ Sane(r)'
<1>0. Types /\ Sane(r)
  BY DEF LinksInv
<1>1. /\ pc[r] = "write"
      /\ fresh' = [fresh EXCEPT ![r] = 0]
      /\ UNCHANGED <<keyed, call, host, had, todo, gone, before>>
  BY DEF InsertRelated
<1>2. /\ call[r].op = "link" /\ call[r].tab = "related" /\ reply[r] = "none"
      /\ loop[host[r]] = r /\ Wanted(r) = call[r].tgts
      /\ reply = [reply EXCEPT ![r] = "none"]
  BY <1>0, <1>1 DEF Sane, Course, Making, Wanted, Types
<1>3. /\ fresh' \in [Requests -> Nat]
      /\ \A p \in Requests \ {r} : fresh'[p] = fresh[p]
  BY <1>0, <1>1 DEF Types
<1>4. CASE /\ Answer(r, "conflict") /\ Release(r) /\ UNCHANGED rows
  <2>1. /\ pc' \in [Requests -> Steps] /\ reply' \in [Requests -> Replies]
        /\ pc'[r] = "done" /\ reply'[r] = "conflict"
        /\ \A p \in Requests \ {r} : pc'[p] = pc[p] /\ reply'[p] = reply[p]
    BY <1>0, <1>4, MoveFacts DEF Answer, Steps, Replies
  <2>2. /\ loop' \in [Workers -> Requests \cup {NoRequest}]
        /\ \A w \in Workers : loop'[w] = loop[w]
                                \/ (w = host[r] /\ loop[w] \in {NoRequest, r})
    BY <1>0, <1>2, <1>4, GivesBack
  <2>3. Types'
    BY <1>0, <1>1, <1>3, <1>4, <2>1, <2>2 DEF Types
  <2>4. Others(r) /\ Goes(r)
    BY <1>1, <1>3, <2>1, <2>2 DEF Others, Goes, Steps
  <2>5. Course(r)'
    BY <1>0, <1>1, <2>1, <2>4, OverGrows DEF Sane, Course, Making
  <2>6. Unseen(r)' /\ Cleared(r)' /\ Served(r)'
    BY <1>0, <1>1, <2>1, Rests
  <2> QED BY <1>4, <2>3, <2>4, <2>5, <2>6, RowsStay DEF Sane
<1>5. CASE /\ ~(keyed /\ \E x \in Related : x.id = fresh[r])
           /\ rows' = rows \cup {NewRow(r, t, fresh[r]) : t \in call[r].tgts}
           /\ Goto(r, "answer") /\ UNCHANGED loop
  <2> DEFINE N == {NewRow(r, t, fresh[r]) : t \in call[r].tgts}
  <2>1. /\ pc' \in [Requests -> Steps] /\ reply' = reply /\ pc'[r] = "answer"
        /\ \A p \in Requests \ {r} : pc'[p] = pc[p]
    BY <1>0, <1>5 DEF Goto, Types, Steps
  <2>2. fresh[r] \in Nat
    BY <1>0 DEF Types
  <2>3. IsFiniteSet(N) /\ N \subseteq RowType
    <3>1. call[r].tgts \in SUBSET call[r].tgts
      OBVIOUS
    <3>2. \A t \in call[r].tgts : NewRow(r, t, fresh[r]) \in RowType
      BY <1>0, <2>2, NewRowType
    <3>3. IsFiniteSet(N)
      BY <1>0, <3>1, NewRowsFinite
    <3> QED BY <3>2, <3>3
  <2>4. \A y \in N : y.tgt \in call[r].tgts /\ y = NewRow(r, y.tgt, fresh[r])
    BY <1>0, <2>2, NewRowType
  <2>5. \A t \in call[r].tgts : \E x \in N : Same(call[r], x) /\ x.tgt = t
    BY <1>0, <2>2, NewRowType
  <2>6. rows' = rows \cup N
    BY <1>5
  <2> HIDE DEF N
  <2>7. IsFiniteSet(rows')
    BY <1>0, <2>3, <2>6, FS_Union DEF Types
  <2>8. Types'
    BY <1>0, <1>1, <1>3, <1>5, <2>1, <2>3, <2>6, <2>7 DEF Types
  <2>9. Others(r) /\ Goes(r)
    BY <1>1, <1>3, <1>5, <2>1 DEF Others, Goes, Steps
  <2>10. Acts(r)
    <3>1. \A y \in rows' : y \in rows \/ NewBy(r, y)
      BY <1>1, <1>2, <1>5, <2>1, <2>4, <2>6 DEF NewBy, Making, MadeId
    <3> QED BY <2>6, <2>9, <3>1 DEF Acts
  <2>11. Course(r)'
    BY <1>0, <1>1, <1>2, <1>5, <2>1, <2>9, OverGrows DEF Sane, Course, Making
  <2>12. Cleared(r)' /\ Unseen(r)'
    BY <1>0, <1>1, <1>2, <2>1 DEF Sane, Cleared, Unseen, Unwanted, Making
  <2>13. Served(r)'
    <3>1. \A t \in call[r].tgts : Present(call[r], t)'
      BY <1>1, <2>5, <2>6 DEF Present, Same
    <3> QED BY <1>1, <2>1, <3>1 DEF Served
  <2> QED BY <2>8, <2>10, <2>11, <2>12, <2>13 DEF Sane
<1> QED BY <1>4, <1>5 DEF InsertRelated

LEMMA ReadCurrentKeeps ==
  ASSUME LinksInv, NEW r \in Requests, ReadCurrent(r)
  PROVE  Types' /\ Acts(r) /\ Sane(r)'
<1> DEFINE S == {y \in rows : Same(call[r], y)}
           cur == {x.tgt : x \in S}
           drop == cur \ call[r].tgts
<1>0. Types /\ Sane(r)
  BY DEF LinksInv
<1>1. /\ pc[r] = "body" /\ call[r].op = "replace" /\ loop[host[r]] = NoRequest
      /\ had' = [had EXCEPT ![r] = cur]
      /\ Take(r) /\ pc' = [pc EXCEPT ![r] = "txn"]
      /\ UNCHANGED <<rows, keyed, call, host, fresh, gone, before, reply>>
  BY DEF ReadCurrent, LoopIdle, Goto
<1>2. PICK s \in [1..Cardinality(drop) -> drop] :
        {s[i] : i \in DOMAIN s} = drop /\ todo' = [todo EXCEPT ![r] = s]
  BY DEF ReadCurrent
<1>3. reply[r] = "none"
  BY <1>0, <1>1 DEF Sane, Course
<1>4. cur \subseteq Nat /\ IsFiniteSet(drop)
  <2>1. \A x \in S : x.tgt \in Nat
    BY <1>0 DEF Types, RowType
  <2>2. IsFiniteSet(S)
    BY <1>0, FS_Subset DEF Types
  <2>3. [x \in S |-> x.tgt] \in Surjection(S, cur)
    BY DEF Surjection
  <2>4. IsFiniteSet(cur)
    <3> HIDE DEF S, cur
    <3> QED BY <2>2, <2>3, FS_Surjection
  <2>5. IsFiniteSet(drop)
    BY <2>4, FS_Subset
  <2> QED BY <2>1, <2>5
<1>5. \A x \in rows : Same(call[r], x) => x.tgt \in cur
  OBVIOUS
<1>6. \A t \in cur : Present(call[r], t)
  BY DEF Present
<1> HIDE DEF cur, S
<1>7. /\ Cardinality(drop) \in Nat /\ Len(s) = Cardinality(drop) /\ s \in Seq(Nat)
      /\ \A i \in 1..Len(s) : s[i] \in drop
      /\ \A t \in drop : \E i \in 1..Len(s) : s[i] = t
  <2>1. Cardinality(drop) \in Nat
    BY <1>4, FS_CardinalityType
  <2>2. drop \subseteq Nat
    BY <1>4
  <2> HIDE DEF drop
  <2>3. s \in [1..Cardinality(drop) -> Nat]
    BY <1>2, <2>2
  <2>4. s \in Seq(Nat) /\ Len(s) = Cardinality(drop)
    BY <2>1, <2>3, SeqDef
  <2>5. DOMAIN s = 1..Len(s)
    BY <2>3, <2>4
  <2> QED BY <1>2, <2>1, <2>4, <2>5
<1>8. pc' \in [Requests -> Steps] /\ pc'[r] = "txn"
      /\ \A p \in Requests \ {r} : pc'[p] = pc[p]
  BY <1>0, <1>1 DEF Types, Steps
<1>9. /\ loop' \in [Workers -> Requests \cup {NoRequest}] /\ loop'[host[r]] = r
      /\ \A w \in Workers : loop'[w] = loop[w] \/ (w = host[r] /\ loop[w] = NoRequest)
  BY <1>0, <1>1 DEF Take, Types
<1>10. /\ had' \in [Requests -> SUBSET Nat] /\ had'[r] = cur
       /\ \A p \in Requests \ {r} : had'[p] = had[p]
  BY <1>0, <1>1, <1>4 DEF Types
<1>11. /\ todo' \in [Requests -> Seq(Nat)] /\ todo'[r] = s
       /\ \A p \in Requests \ {r} : todo'[p] = todo[p]
  BY <1>0, <1>2, <1>7 DEF Types
<1>12. Types'
  BY <1>0, <1>1, <1>8, <1>9, <1>10, <1>11 DEF Types
<1>13. Others(r) /\ Goes(r)
  BY <1>1, <1>8, <1>9, <1>10, <1>11 DEF Others, Goes, Steps
<1>14. Course(r)'
  BY <1>0, <1>1, <1>3, <1>8, <1>9, <1>13, OverGrows DEF Sane, Course, Making
<1>15. Unseen(r)'
  BY <1>1, <1>5, <1>8, <1>10 DEF Unseen, Wanted, Same
<1>16. Cleared(r)'
  <2>1. \A x \in rows : Same(call[r], x) /\ x.tgt \notin call[r].tgts
                          => \E i \in 1..Len(s) : s[i] = x.tgt
    BY <1>5, <1>7
  <2>2. \A x \in rows' : Unwanted(r, x)' => Queued(r, x)'
    BY <1>1, <1>11, <2>1 DEF Unwanted, Queued, Same
  <2>3. \A i \in 1..Len(s) : s[i] \notin call[r].tgts
    BY <1>7
  <2>4. \A x \in gone'[r] : Unwanted(r, x)' /\ call'[r].op = "replace"
    BY <1>0, <1>1 DEF Sane, Cleared, Unwanted
  <2> QED BY <1>1, <1>3, <1>8, <1>11, <2>2, <2>3, <2>4 DEF Cleared
<1>17. Served(r)'
  BY <1>1, <1>3, <1>6, <1>8, <1>10 DEF Served, Present, Same
<1> QED BY <1>1, <1>12, <1>13, <1>14, <1>15, <1>16, <1>17, RowsStay DEF Sane


LEMMA DeleteNextKeeps ==
  ASSUME LinksInv, NEW r \in Requests, DeleteNext(r)
  PROVE  Types' /\ Acts(r) /\ Sane(r)'
<1> DEFINE D == Doomed(r)
           s == todo[r]
<1>0. Types /\ Sane(r)
  BY DEF LinksInv
<1>1. /\ pc[r] = "txn" /\ s # <<>>
      /\ gone' = [gone EXCEPT ![r] = @ \cup D]
      /\ todo' = [todo EXCEPT ![r] = Tail(@)]
      /\ UNCHANGED <<rows, keyed, loop, call, host, pc, reply, fresh, had, before>>
  BY DEF DeleteNext
<1>2. call[r].op = "replace" /\ reply[r] = "none"
  BY <1>0, <1>1 DEF Sane, Course
<1>3. /\ s \in Seq(Nat) /\ Len(s) \in Nat /\ Len(s) > 0
      /\ Head(s) = s[1] /\ Tail(s) \in Seq(Nat) /\ Len(Tail(s)) = Len(s) - 1
      /\ \A i \in 1..Len(Tail(s)) : i + 1 \in 1..Len(s) /\ Tail(s)[i] = s[i + 1]
  <2>1. s \in Seq(Nat)
    BY <1>0 DEF Types
  <2> HIDE DEF s
  <2>2. Len(s) \in Nat /\ Len(s) > 0 /\ Head(s) = s[1] /\ Tail(s) \in Seq(Nat)
        /\ Len(Tail(s)) = Len(s) - 1
    BY <1>1, <2>1, EmptySeq, HeadTailProperties, LenProperties
  <2>3. \A i \in 1..Len(Tail(s)) : i + 1 \in 1..Len(s) /\ Tail(s)[i] = s[i + 1]
    BY <1>1, <2>1, <2>2, HeadTailProperties
  <2> QED BY <2>1, <2>2, <2>3
<1>4. /\ D \subseteq rows
      /\ \A x \in rows : x \in D <=> Same(call[r], x) /\ x.tgt = s[1]
  BY <1>3 DEF Doomed
<1> HIDE DEF D, s
<1>5. /\ gone' \in [Requests -> SUBSET RowType] /\ gone'[r] = gone[r] \cup D
      /\ \A p \in Requests \ {r} : gone'[p] = gone[p]
  BY <1>0, <1>1, <1>4 DEF Types
<1>6. /\ todo' \in [Requests -> Seq(Nat)] /\ todo'[r] = Tail(s)
      /\ \A p \in Requests \ {r} : todo'[p] = todo[p]
  BY <1>0, <1>1, <1>3 DEF Types, s
<1>7. Types'
  BY <1>0, <1>1, <1>5, <1>6 DEF Types
<1>8. Others(r) /\ Goes(r)
  BY <1>0, <1>1, <1>5, <1>6 DEF Others, Goes, Steps, Types
<1>9. Course(r)'
  BY <1>0, <1>1, <1>8, OverGrows DEF Sane, Course, Making, Valid
<1>10. Unseen(r)' /\ Served(r)'
  BY <1>0, <1>1, <1>2 DEF Sane, Unseen, Wanted, Same, Overlapped, Related, Served, Present,
                          Excused, Making
<1>11. Cleared(r)'
  <2>1. \A i \in 1..Len(s) : s[i] \notin call[r].tgts
    BY <1>0 DEF Sane, Cleared, s
  <2>2. \A i \in 1..Len(Tail(s)) : Tail(s)[i] \notin call[r].tgts
    BY <1>3, <2>1
  <2>3. s[1] \notin call[r].tgts
    BY <1>3, <2>1
  <2>4. \A x \in gone[r] \cup D : Unwanted(r, x)
    BY <1>0, <1>2, <1>4, <2>3 DEF Sane, Cleared, Unwanted
  <2>5. \A x \in rows : Unwanted(r, x) => \/ x \in gone[r] \cup D
                                          \/ \E i \in 1..Len(Tail(s)) : Tail(s)[i] = x.tgt
                                          \/ Later(r, x)
    <3> SUFFICES ASSUME NEW x \in rows, Unwanted(r, x), x \notin gone[r], ~Later(r, x)
                 PROVE  x \in D \/ \E i \in 1..Len(Tail(s)) : Tail(s)[i] = x.tgt
      OBVIOUS
    <3>1. PICK i \in 1..Len(s) : s[i] = x.tgt
      BY <1>0, <1>1 DEF Sane, Cleared, Queued, s
    <3>2. CASE i = 1
      BY <1>2, <1>4, <3>1, <3>2 DEF Unwanted
    <3>3. CASE i # 1
      <4>1. i - 1 \in 1..Len(Tail(s)) /\ (i - 1) + 1 = i
        BY <1>3, <3>3
      <4>2. Tail(s)[i - 1] = s[i]
        BY <1>3, <4>1
      <4> QED BY <3>1, <4>1, <4>2
    <3> QED BY <3>2, <3>3
  <2>6. \A x : Unwanted(r, x)' <=> Unwanted(r, x)
    BY <1>1 DEF Unwanted
  <2>7. \A x \in rows : Unwanted(r, x)' => x \in gone'[r] \/ Queued(r, x)' \/ Later(r, x)'
    <3>1. \A x : Queued(r, x)' <=> \E i \in 1..Len(Tail(s)) : Tail(s)[i] = x.tgt
      BY <1>6 DEF Queued
    <3>2. \A x : Later(r, x)' <=> Later(r, x)
      BY <1>1 DEF Later
    <3> QED BY <1>5, <2>5, <2>6, <3>1, <3>2, Zenon
  <2> QED BY <1>1, <1>2, <1>5, <1>6, <2>2, <2>4, <2>6, <2>7 DEF Cleared
<1> QED BY <1>1, <1>7, <1>8, <1>9, <1>10, <1>11, RowsStay DEF Sane

\* The end of a transaction.
LEMMA EndTxnFacts ==
  ASSUME Types, NEW r \in Requests, EndTxn(r)
  PROVE  /\ gone' \in [Requests -> SUBSET RowType] /\ gone'[r] = {}
         /\ had' \in [Requests -> SUBSET Nat] /\ had'[r] = {}
         /\ todo' \in [Requests -> Seq(Nat)] /\ todo'[r] = <<>>
         /\ \A p \in Requests \ {r} :
              gone'[p] = gone[p] /\ had'[p] = had[p] /\ todo'[p] = todo[p]
<1>1. <<>> \in Seq(Nat)
  BY EmptySeq
<1> QED BY <1>1 DEF EndTxn, Types

LEMMA CommitReplaceKeeps ==
  ASSUME LinksInv, NEW r \in Requests, CommitReplace(r)
  PROVE  Types' /\ Acts(r) /\ Sane(r)'
<1> DEFINE N == Created(r)
           T == call[r].tgts \ had[r]
<1>0. Types /\ Sane(r)
  BY DEF LinksInv
<1>1. /\ pc[r] = "txn" /\ todo[r] = <<>>
      /\ rows' = (rows \ gone[r]) \cup N
      /\ EndTxn(r) /\ pc' = [pc EXCEPT ![r] = "answer"]
      /\ UNCHANGED <<keyed, loop, call, host, fresh, before, reply>>
  BY DEF CommitReplace, Goto
<1>2. /\ call[r].op = "replace" /\ call[r].tab = "member"
      /\ reply[r] = "none" /\ loop[host[r]] = r
  BY <1>0, <1>1, CallFacts DEF Sane, Course, Making
<1>3. pc' \in [Requests -> Steps] /\ pc'[r] = "answer"
      /\ \A p \in Requests \ {r} : pc'[p] = pc[p]
  BY <1>0, <1>1 DEF Types, Steps
<1>4. IsFiniteSet(N) /\ N \subseteq RowType
  <2>1. T \in SUBSET call[r].tgts
    OBVIOUS
  <2>2. \A t \in T : NewRow(r, t, 0) \in RowType
    BY <1>0, NewRowType
  <2>3. IsFiniteSet(N)
    BY <1>0, <2>1, NewRowsFinite DEF Created
  <2> QED BY <2>2, <2>3 DEF Created
<1>5. \A y \in N : y.tgt \in T /\ y = NewRow(r, y.tgt, 0) /\ Same(call[r], y)
  BY <1>0, NewRowType DEF Created
<1>6. \A t \in T : \E y \in N : Same(call[r], y) /\ y.tgt = t
  BY <1>0, NewRowType DEF Created
<1> HIDE DEF N
<1>7. IsFiniteSet(rows')
  <2>1. IsFiniteSet(rows \ gone[r])
    BY <1>0, FS_Subset DEF Types
  <2> QED BY <1>1, <1>4, <2>1, FS_Union
<1>8. Types'
  BY <1>0, <1>1, <1>3, <1>4, <1>7, EndTxnFacts DEF Types
<1>9. Others(r) /\ Goes(r)
  BY <1>0, <1>1, <1>3, EndTxnFacts DEF Others, Goes, Steps
<1>10. Acts(r)
  <2>1. \A y \in rows' : y \in rows \/ NewBy(r, y)
    BY <1>1, <1>2, <1>3, <1>5 DEF NewBy, Making, MadeId, Wanted
  <2>2. \A x \in gone[r] : Same(call[r], x) /\ x.tgt \notin call[r].tgts
    BY <1>0, <1>2 DEF Sane, Cleared, Unwanted
  <2>3. \A x \in gone[r] : Taken(r, x)
    BY <1>2, <2>2 DEF Taken, Removes, Same
  <2> QED BY <1>1, <1>9, <2>1, <2>3 DEF Acts
<1>11. Course(r)'
  BY <1>0, <1>1, <1>2, <1>3, <1>9, OverGrows DEF Sane, Course, Making
<1>12. Cleared(r)'
  <2>1. \A x \in rows : Unwanted(r, x) => x \in gone[r] \/ Later(r, x)
    BY <1>0, <1>1 DEF Sane, Cleared, Queued
  <2>2. \A x \in N : ~Unwanted(r, x)
    BY <1>2, <1>5 DEF Unwanted
  <2>3. \A x \in rows' : Unwanted(r, x) => Later(r, x)
    BY <1>1, <2>1, <2>2
  <2>4. \A x \in rows' : Unwanted(r, x)' => Later(r, x)'
    BY <1>1, <2>3 DEF Unwanted, Later
  <2>5. gone'[r] = {} /\ todo'[r] = <<>>
    BY <1>0, <1>1, EndTxnFacts
  <2> QED BY <1>3, <2>4, <2>5 DEF Cleared
<1>13. Served(r)'
  <2>1. \A t \in call[r].tgts : t \in T \/ Present(call[r], t) \/ Excused(r, t)
    BY <1>0, <1>1 DEF Sane, Served
  <2>2. \A t \in call[r].tgts : Present(call[r], t) => Present(call[r], t)'
    <3>1. \A x \in gone[r] : x.tgt \notin call[r].tgts
      BY <1>0, <1>2 DEF Sane, Cleared, Unwanted
    <3> QED BY <1>1, <3>1 DEF Present, Same
  <2>3. \A t \in T : Present(call[r], t)'
    BY <1>1, <1>6 DEF Present, Same
  <2>4. \A t \in call[r].tgts : Excused(r, t) => Excused(r, t)'
    BY <1>1, <1>3 DEF Excused
  <2>5. \A t \in call'[r].tgts : Present(call[r], t)' \/ Excused(r, t)'
    BY <1>1, <2>1, <2>2, <2>3, <2>4
  <2> QED BY <1>1, <1>3, <2>5 DEF Served
<1>14. Unseen(r)'
  BY <1>3 DEF Unseen, Making
<1> QED BY <1>8, <1>10, <1>11, <1>12, <1>13, <1>14 DEF Sane


LEMMA RollbackKeeps ==
  ASSUME LinksInv, NEW r \in Requests, FailReplace(r) \/ BreakDeadlock(r)
  PROVE  Types' /\ Acts(r) /\ Sane(r)'
<1>0. Types /\ Sane(r)
  BY DEF LinksInv
<1>1. PICK a \in {"refused", "conflict"} : pc[r] = "txn" /\ Rollback(r, a)
  <2>1. CASE FailReplace(r)
    BY <2>1 DEF FailReplace
  <2>2. CASE BreakDeadlock(r)
    <3>1. PICK C \in SUBSET Requests : r \in C /\ \A p \in C : \E q \in C : WaitsFor(p, q)
      BY <2>2 DEF BreakDeadlock, Deadlock
    <3>2. pc[r] = "txn"
      BY <3>1 DEF WaitsFor
    <3> QED BY <2>2, <3>2 DEF BreakDeadlock
  <2> QED BY <2>1, <2>2
<1>2. /\ EndTxn(r) /\ Release(r) /\ Answer(r, a)
      /\ UNCHANGED <<rows, keyed, call, host, fresh, before>>
  BY <1>1 DEF Rollback
<1>3. loop[host[r]] = r
  BY <1>0, <1>1 DEF Sane, Course, Making
<1>4. /\ pc' \in [Requests -> Steps] /\ reply' \in [Requests -> Replies]
      /\ pc'[r] = "done" /\ reply'[r] = a
      /\ \A p \in Requests \ {r} : pc'[p] = pc[p] /\ reply'[p] = reply[p]
  BY <1>0, <1>2, MoveFacts DEF Answer, Steps, Replies
<1>5. /\ loop' \in [Workers -> Requests \cup {NoRequest}]
      /\ \A w \in Workers : loop'[w] = loop[w]
                              \/ (w = host[r] /\ loop[w] \in {NoRequest, r})
  BY <1>0, <1>2, <1>3, GivesBack
<1>6. Types'
  BY <1>0, <1>2, <1>4, <1>5, EndTxnFacts DEF Types
<1>7. Others(r) /\ Goes(r)
  BY <1>0, <1>1, <1>2, <1>4, <1>5, EndTxnFacts DEF Others, Goes, Steps
<1>8. Course(r)'
  BY <1>0, <1>2, <1>4, <1>7, OverGrows DEF Sane, Course, Making
<1>9. Unseen(r)' /\ Cleared(r)' /\ Served(r)'
  BY <1>0, <1>2, <1>4, EndTxnFacts, Rests
<1> QED BY <1>2, <1>6, <1>7, <1>8, <1>9, RowsStay DEF Sane

LEMMA PatchKeeps ==
  ASSUME LinksInv, NEW r \in Requests, PatchRelationship(r)
  PROVE  Types' /\ Acts(r) /\ Sane(r)'
<1> DEFINE Hit(x) == x.tab = "related" /\ x.id = call[r].id /\ call[r].type # ""
           F(x) == IF Hit(x) THEN [x EXCEPT !.type = call[r].type, !.retyped = TRUE] ELSE x
           f == [x \in rows |-> F(x)]
<1>0. Types /\ Sane(r)
  BY DEF LinksInv
<1>1. /\ pc[r] = "body" /\ call[r].op = "patch" /\ loop[host[r]] = NoRequest
      /\ Take(r) /\ pc' = [pc EXCEPT ![r] = "answer"]
      /\ UNCHANGED <<keyed, call, host, fresh, had, todo, gone, before, reply>>
  BY DEF PatchRelationship, LoopIdle, Goto
<1>2. rows' = {F(x) : x \in rows}
  BY DEF PatchRelationship
<1>3. reply[r] = "none" /\ call[r].tab = "related" /\ call[r].type \in STRING
  BY <1>0, <1>1, CallFacts DEF Sane, Course, CallType
<1>4. \A x \in rows : /\ F(x) \in RowType /\ Twin(F(x), x)
                      /\ F(x) = x \/ (F(x).retyped /\ F(x).tab = "related" /\ Taken(r, x))
  <2> SUFFICES ASSUME NEW x \in rows
               PROVE  /\ F(x) \in RowType /\ Twin(F(x), x)
                      /\ F(x) = x \/ (F(x).retyped /\ F(x).tab = "related" /\ Taken(r, x))
    OBVIOUS
  <2>1. x \in RowType
    BY <1>0 DEF Types
  <2>2. CASE ~Hit(x)
    BY <2>1, <2>2 DEF Twin
  <2>3. CASE Hit(x)
    <3>1. F(x) = [x EXCEPT !.type = call[r].type, !.retyped = TRUE]
      BY <2>3
    <3>2. x.tab = "related"
      BY <2>3
    <3> HIDE DEF F, Hit
    <3>3. F(x) \in RowType /\ Twin(F(x), x) /\ F(x).retyped /\ F(x).tab = "related"
      BY <1>3, <2>1, <3>1, <3>2 DEF RowType, Twin
    <3>4. Taken(r, x)
      BY <1>1, <1>3, <3>2 DEF Taken, Removes, Same
    <3> QED BY <3>3, <3>4
  <2> QED BY <2>2, <2>3
<1>5. IsFiniteSet(rows') /\ \A y \in rows' : \E x \in rows : y = F(x)
  <2>1. f \in Surjection(rows, rows')
    BY <1>2 DEF Surjection
  <2>2. IsFiniteSet(rows)
    BY <1>0 DEF Types
  <2> HIDE DEF f, F
  <2> QED BY <1>2, <2>1, <2>2, FS_Surjection
<1>6. \A x \in rows : F(x) \in rows'
  BY <1>2
<1> HIDE DEF F
<1>7. /\ pc' \in [Requests -> Steps] /\ pc'[r] = "answer"
      /\ \A p \in Requests \ {r} : pc'[p] = pc[p]
  BY <1>0, <1>1 DEF Types, Steps
<1>8. /\ loop' \in [Workers -> Requests \cup {NoRequest}] /\ loop'[host[r]] = r
      /\ \A w \in Workers : loop'[w] = loop[w] \/ (w = host[r] /\ loop[w] = NoRequest)
  BY <1>0, <1>1 DEF Take, Types
<1>9. Types'
  <2>1. rows' \subseteq RowType
    BY <1>4, <1>5
  <2> QED BY <1>0, <1>1, <1>5, <1>7, <1>8, <2>1 DEF Types
<1>10. Others(r) /\ Goes(r)
  BY <1>1, <1>7, <1>8 DEF Others, Goes, Steps
<1>11. Acts(r)
  <2>1. \A y \in rows' : y \in rows \/ RetypedRow(y)
    BY <1>4, <1>5 DEF RetypedRow
  <2>2. \A x \in rows : x \in rows' \/ Taken(r, x)
    BY <1>4, <1>6
  <2>3. \A x, y \in rows' : x # y => \E a, b \in rows : a # b /\ Twin(x, a) /\ Twin(y, b)
    BY <1>4, <1>5
  <2> QED BY <1>10, <2>1, <2>2, <2>3 DEF Acts
<1>12. Course(r)'
  BY <1>0, <1>1, <1>3, <1>7, <1>8, <1>10, OverGrows DEF Sane, Course, Making
<1>13. Unseen(r)' /\ Cleared(r)' /\ Served(r)'
  BY <1>0, <1>1, <1>3, <1>7 DEF Sane, Unseen, Cleared, Served, Unwanted, Making
<1> QED BY <1>9, <1>11, <1>12, <1>13 DEF Sane

LEMMA RespondKeeps ==
  ASSUME LinksInv, NEW r \in Requests, Respond(r)
  PROVE  Types' /\ Acts(r) /\ Sane(r)'
<1>0. Types /\ Sane(r)
  BY DEF LinksInv
<1>1. PICK a \in {"gone", "ok", "server_error"} : Answer(r, a)
  BY DEF Respond
<1>2. /\ pc[r] = "answer" /\ Release(r)
      /\ UNCHANGED <<rows, keyed, call, host, fresh, had, todo, gone, before>>
  BY DEF Respond
<1>3. loop[host[r]] = r
  BY <1>0, <1>2 DEF Sane, Course, Making
<1>4. /\ pc' \in [Requests -> Steps] /\ reply' \in [Requests -> Replies]
      /\ pc'[r] = "done" /\ reply'[r] = a
      /\ \A p \in Requests \ {r} : pc'[p] = pc[p] /\ reply'[p] = reply[p]
  BY <1>0, <1>1, MoveFacts DEF Answer, Steps, Replies
<1>5. /\ loop' \in [Workers -> Requests \cup {NoRequest}]
      /\ \A w \in Workers : loop'[w] = loop[w]
                              \/ (w = host[r] /\ loop[w] \in {NoRequest, r})
  BY <1>0, <1>2, <1>3, GivesBack
<1>6. Types'
  BY <1>0, <1>2, <1>4, <1>5 DEF Types
<1>7. Others(r) /\ Goes(r)
  BY <1>2, <1>4, <1>5 DEF Others, Goes, Steps
<1>8. Course(r)'
  BY <1>0, <1>2, <1>4, <1>7, OverGrows DEF Sane, Course, Making
<1>9. Unseen(r)'
  BY <1>4 DEF Unseen, Making
<1>10. Cleared(r)'
  BY <1>0, <1>2, <1>4 DEF Sane, Cleared, Unwanted, Later
<1>11. Served(r)'
  <2>1. \A t : Excused(r, t) => Excused(r, t)'
    BY <1>2, <1>4 DEF Excused
  <2>2. \A t : Present(call[r], t)' <=> Present(call[r], t)
    BY <1>2 DEF Present, Same
  <2> QED BY <1>0, <1>2, <1>4, <2>1, <2>2 DEF Sane, Served
<1> QED BY <1>2, <1>6, <1>7, <1>8, <1>9, <1>10, <1>11, RowsStay DEF Sane

LEMMA DeletionKeeps ==
  ASSUME LinksInv, NEW r \in Requests, Unlink(r) \/ RemoveRelationship(r)
  PROVE  Types' /\ Acts(r) /\ Sane(r)'
<1>0. Types /\ Sane(r)
  BY DEF LinksInv
<1>1. PICK S \in SUBSET rows :
        /\ pc[r] = "idle" /\ DeleteRows(r, S)
        /\ call[r].op \in {"unlink", "remove"}
        /\ \A x \in S : Taken(r, x)
        /\ call[r].op = "unlink" => \A x \in rows \ S : ~Unlinked(call[r], x)
  <2>1. CASE Unlink(r)
    <3> DEFINE S == {x \in rows : Unlinked(call[r], x)}
    <3>1. call[r].op = "unlink"
      BY <2>1 DEF Unlink
    <3>2. \A x \in S : Taken(r, x)
      BY <3>1 DEF Taken, Removes, Same, Unlinked
    <3>3. S \in SUBSET rows /\ \A x \in rows \ S : ~Unlinked(call[r], x)
      OBVIOUS
    <3>4. pc[r] = "idle" /\ DeleteRows(r, S)
      BY <2>1 DEF Unlink
    <3> HIDE DEF S
    <3> QED BY <3>1, <3>2, <3>3, <3>4
  <2>2. CASE RemoveRelationship(r)
    <3> DEFINE S == {x \in Related : x.id = call[r].id}
    <3>1. call[r].op = "remove" /\ call[r].tab = "related"
      BY <1>0, <2>2, CallFacts DEF RemoveRelationship
    <3>2. \A x \in S : Taken(r, x)
      BY <3>1 DEF Taken, Removes, Same, Related
    <3>3. S \in SUBSET rows
      BY DEF Related
    <3>4. pc[r] = "idle" /\ DeleteRows(r, S)
      BY <2>2 DEF RemoveRelationship
    <3> HIDE DEF S
    <3> QED BY <3>1, <3>2, <3>3, <3>4
  <2> QED BY <2>1, <2>2
<1>2. /\ rows' = rows \ S
      /\ Answer(r, IF S = {} THEN "not_found" ELSE "ok")
      /\ before' = [before EXCEPT ![r] = Over]
      /\ UNCHANGED <<keyed, loop, call, host, fresh, had, todo, gone>>
  BY <1>1 DEF DeleteRows, Begin
<1>3. /\ pc' \in [Requests -> Steps] /\ reply' \in [Requests -> Replies]
      /\ pc'[r] = "done" /\ reply'[r] \in {"not_found", "ok"}
      /\ \A p \in Requests \ {r} : pc'[p] = pc[p] /\ reply'[p] = reply[p]
  <2>1. PICK a \in {"not_found", "ok"} : Answer(r, a)
    BY <1>2
  <2> QED BY <1>0, <2>1, MoveFacts DEF Answer, Steps, Replies
<1>4. /\ before' \in [Requests -> SUBSET Requests] /\ before'[r] = Over
      /\ \A p \in Requests \ {r} : before'[p] = before[p]
  <2>1. Over \in SUBSET Requests
    BY DEF Over
  <2>2. before \in [Requests -> SUBSET Requests]
    BY <1>0 DEF Types
  <2> QED BY <1>2, <2>1, <2>2
<1>5. Types'
  <2>1. IsFiniteSet(rows')
    BY <1>0, <1>2, FS_Subset DEF Types
  <2> QED BY <1>0, <1>2, <1>3, <1>4, <2>1 DEF Types
<1>6. Others(r) /\ Goes(r)
  BY <1>1, <1>2, <1>3, <1>4 DEF Others, Goes, Steps
<1>7. Acts(r)
  BY <1>1, <1>2, <1>6 DEF Acts
<1>8. Course(r)'
  BY <1>0, <1>2, <1>3, <1>4, <1>6, OverGrows DEF Sane, Course, Making
<1>9. Cleared(r)'
  <2>1. \A x \in rows' : ~Unwanted(r, x)'
    BY <1>1, <1>2 DEF Unwanted, Unlinked
  <2> QED BY <1>0, <1>1, <1>2, <1>3, <2>1 DEF Sane, Cleared, Unwanted
<1>10. Unseen(r)' /\ Served(r)'
  BY <1>1, <1>2, <1>3 DEF Unseen, Served, Making
<1> QED BY <1>5, <1>7, <1>8, <1>9, <1>10 DEF Sane


LEMMA HandlerKeeps ==
  ASSUME LinksInv, NEW r \in Requests, Handler(r)
  PROVE  Types' /\ Acts(r) /\ Sane(r)'
<1>1. CASE Look(r) \/ Refuse(r)
  BY <1>1, LookKeeps
<1>2. CASE LinkCheck(r)
  BY <1>2, LinkCheckKeeps
<1>3. CASE InsertLink(r)
  BY <1>3, InsertLinkKeeps
<1>4. CASE ReadMax(r)
  BY <1>4, ReadMaxKeeps
<1>5. CASE InsertRelated(r)
  BY <1>5, InsertRelatedKeeps
<1>6. CASE ReadCurrent(r)
  BY <1>6, ReadCurrentKeeps
<1>7. CASE DeleteNext(r)
  BY <1>7, DeleteNextKeeps
<1>8. CASE CommitReplace(r)
  BY <1>8, CommitReplaceKeeps
<1>9. CASE FailReplace(r) \/ BreakDeadlock(r)
  BY <1>9, RollbackKeeps
<1>10. CASE PatchRelationship(r)
  BY <1>10, PatchKeeps
<1>11. CASE Respond(r)
  BY <1>11, RespondKeeps
<1>12. CASE Unlink(r) \/ RemoveRelationship(r)
  BY <1>12, DeletionKeeps
<1> QED BY <1>1, <1>2, <1>3, <1>4, <1>5, <1>6, <1>7, <1>8, <1>9, <1>10, <1>11, <1>12
        DEF Handler

----------------------------------------------------------------------------
(***************************************************************************)
(* What a step of q leaves of the others, and of the links in pairs.       *)
(***************************************************************************)

\* A row that q makes.
LEMMA NewByFacts ==
  ASSUME NEW q \in Requests, NEW y, NewBy(q, y)
  PROVE  /\ y.key = <<q, y.tgt>> /\ y.key[1] = q /\ y.key[2] = y.tgt
         /\ y.tab = call[q].tab /\ y.src = call[q].src /\ y.type = call[q].type
         /\ y.id = MadeId(q) /\ ~y.retyped /\ Same(call[q], y)
         /\ pc[q] \in Making /\ pc'[q] = "answer" /\ y.tgt \in Wanted(q)
<1>1. /\ y = NewRow(q, y.tgt, MadeId(q))
      /\ pc[q] \in Making /\ pc'[q] = "answer" /\ y.tgt \in Wanted(q)
  BY DEF NewBy
<1>2. /\ y.key = <<q, y.tgt>> /\ y.tab = call[q].tab /\ y.src = call[q].src
      /\ y.type = call[q].type /\ y.id = MadeId(q) /\ ~y.retyped
  BY <1>1 DEF NewRow
<1> QED BY <1>1, <1>2 DEF Same

\* Who overlapped still does.
LEMMA OverlapStays ==
  ASSUME NEW q \in Requests, Acts(q), NEW a, NEW b, Overlapped(a, b),
         pc[a] # "idle", pc[b] # "idle"
  PROVE  Overlapped(a, b)'
<1>1. a \in Requests /\ b \in Requests
  BY DEF Overlapped
<1>2. before'[a] = before[a] /\ before'[b] = before[b] /\ host' = host
  BY <1>1 DEF Acts, Others, Goes
<1> QED BY <1>2 DEF Overlapped

\* Who makes a row overlaps with everybody who is about to make one.
LEMMA MakersOverlap ==
  ASSUME LinksInv, NEW q \in Requests, Acts(q), NEW p \in Requests \ {q},
         pc[p] \in Making, pc[q] \in Making
  PROVE  Overlapped(q, p)'
<1>1. /\ Course(p) /\ Course(q)
  BY DEF LinksInv, Sane
<1>2. loop[host[p]] = p /\ loop[host[q]] = q
  BY <1>1 DEF Course
<1>3. p \notin Over /\ q \notin Over
  BY DEF Over, Making
<1>4. before'[p] = before[p] /\ before'[q] = before[q] /\ host' = host
  BY DEF Acts, Others, Goes, Making
<1> QED BY <1>1, <1>2, <1>3, <1>4 DEF Course, Overlapped

LEMMA UnseenStays ==
  ASSUME LinksInv, NEW q \in Requests, Acts(q), NEW p \in Requests \ {q}
  PROVE  Unseen(p)'
<1>1. /\ UNCHANGED <<call, host>> /\ pc'[p] = pc[p] /\ fresh'[p] = fresh[p]
      /\ had'[p] = had[p]
  BY DEF Acts, Others
<1>2. \A x \in rows : x.key[1] \in Requests => pc[x.key[1]] # "idle"
  BY DEF LinksInv, Born
<1>3. Unseen(p)
  BY DEF LinksInv, Sane
<1>4. Wanted(p)' = Wanted(p)
  BY <1>1 DEF Wanted
<1>5. ASSUME NEW x \in rows, pc[p] \in Making, Overlapped(x.key[1], p)
      PROVE  Overlapped(x.key[1], p)'
  <2>1. x.key[1] \in Requests /\ pc[p] # "idle"
    BY <1>5 DEF Overlapped, Making
  <2> QED BY <1>2, <1>5, <2>1, OverlapStays
<1>6. ASSUME NEW y, NewBy(q, y), pc[p] \in Making
      PROVE  Overlapped(y.key[1], p)'
  BY <1>6, NewByFacts, MakersOverlap
<1>7. pc[p] \in Making =>
        \A y \in rows' : Same(call[p], y) /\ y.tgt \in Wanted(p) /\ ~y.retyped
          => Overlapped(y.key[1], p)'
  <2> SUFFICES ASSUME pc[p] \in Making, NEW y \in rows',
                      Same(call[p], y), y.tgt \in Wanted(p), ~y.retyped
               PROVE  Overlapped(y.key[1], p)'
    OBVIOUS
  <2>1. y \in rows \/ NewBy(q, y)
    BY DEF Acts, RetypedRow
  <2>2. CASE y \in rows
    BY <1>3, <1>5, <2>2 DEF Unseen
  <2> QED BY <1>6, <2>1, <2>2
<1>8. pc[p] = "write" =>
        \A y \in rows' : y.tab = "related" /\ y.id >= fresh[p] => Overlapped(y.key[1], p)'
  <2> SUFFICES ASSUME pc[p] = "write", NEW y \in rows', y.tab = "related", y.id >= fresh[p]
               PROVE  Overlapped(y.key[1], p)'
    OBVIOUS
  <2>0. pc[p] \in Making
    BY DEF Making
  <2>1. \A x \in rows : x.tab = "related" /\ x.id >= fresh[p] => Overlapped(x.key[1], p)'
    BY <1>3, <1>5, <2>0 DEF Unseen, Related
  <2>2. CASE y \in rows
    BY <2>1, <2>2
  <2>3. CASE NewBy(q, y)
    BY <1>6, <2>0, <2>3
  <2>4. CASE RetypedRow(y)
    <3>1. PICK x \in rows : Twin(y, x)
      BY <2>4 DEF RetypedRow
    <3>2. x.tab = "related" /\ x.id >= fresh[p] /\ x.key = y.key
      BY <3>1 DEF Twin
    <3>3. Overlapped(x.key[1], p)'
      BY <2>1, <3>2
    <3> QED BY <3>2, <3>3
  <2> QED BY <2>2, <2>3, <2>4 DEF Acts
<1>9. pc'[p] \in Making =>
        \A y \in rows' : Same(call[p], y)' /\ y.tgt \in Wanted(p)' /\ ~y.retyped
          => Overlapped(y.key[1], p)'
  BY <1>1, <1>4, <1>7 DEF Same
<1>10. pc'[p] = "write" =>
         \A y \in Related' : y.id >= fresh'[p] => Overlapped(y.key[1], p)'
  BY <1>1, <1>8 DEF Related
<1> QED BY <1>9, <1>10 DEF Unseen


LEMMA CourseStays ==
  ASSUME LinksInv, NEW q \in Requests, Acts(q), NEW p \in Requests \ {q}
  PROVE  Course(p)'
<1>1. Types /\ Course(p)
  BY DEF LinksInv, Sane
<1>2. /\ UNCHANGED <<call, host>> /\ pc'[p] = pc[p] /\ reply'[p] = reply[p]
      /\ before'[p] = before[p]
  BY DEF Acts, Others
<1>3. Over \subseteq Over'
  BY <1>1, OverGrows DEF Acts
<1>4. loop[host[p]] = p => loop'[host[p]] = p
  <2>1. host[p] \in Workers /\ p # NoRequest
    BY <1>1, LinkAssumption DEF Types
  <2> QED BY <2>1 DEF Acts, Others
<1> QED BY <1>1, <1>2, <1>3, <1>4 DEF Course, Valid

LEMMA ClearedStays ==
  ASSUME LinksInv, NEW q \in Requests, Acts(q), NEW p \in Requests \ {q}
  PROVE  Cleared(p)'
<1>1. /\ UNCHANGED call /\ pc'[p] = pc[p] /\ reply'[p] = reply[p]
      /\ gone'[p] = gone[p] /\ todo'[p] = todo[p] /\ before'[p] = before[p]
  BY DEF Acts, Others
<1>2. Types /\ Course(p) /\ Cleared(p)
  BY DEF LinksInv, Sane
<1>3. \A y : NewBy(q, y) => Later(p, y)
  <2>1. q \notin before[p]
    BY <1>2 DEF Course, Over, Acts, Goes
  <2> QED BY <2>1, NewByFacts DEF Later
<1>4. ASSUME NEW y, RetypedRow(y), Unwanted(p, y)
      PROVE  /\ call[p].op = "unlink"
             /\ \E x \in rows : Unwanted(p, x) /\ x.key = y.key
  <2>1. y.tab = "related"
    BY <1>4 DEF RetypedRow
  <2>2. call[p].op = "unlink" /\ Unlinked(call[p], y)
    BY <1>2, <1>4, <2>1, CallFacts DEF Unwanted, Same
  <2>3. PICK x \in rows : Twin(y, x)
    BY <1>4 DEF RetypedRow
  <2>4. Unlinked(call[p], x)
    BY <2>1, <2>2, <2>3 DEF Unlinked, Twin
  <2> QED BY <2>2, <2>3, <2>4 DEF Unwanted, Twin
<1>5. pc[p] = "txn" =>
        \A y \in rows' : Unwanted(p, y) => y \in gone[p] \/ Queued(p, y) \/ Later(p, y)
  <2> SUFFICES ASSUME pc[p] = "txn", NEW y \in rows', Unwanted(p, y)
               PROVE  y \in gone[p] \/ Queued(p, y) \/ Later(p, y)
    OBVIOUS
  <2>1. ~RetypedRow(y)
    BY <1>2, <1>4 DEF Course
  <2>2. y \in rows \/ NewBy(q, y)
    BY <2>1 DEF Acts
  <2> QED BY <1>2, <1>3, <2>2 DEF Cleared
<1>6. pc[p] = "answer" \/ reply[p] = "ok" =>
        \A y \in rows' : Unwanted(p, y) => Later(p, y)
  <2> SUFFICES ASSUME pc[p] = "answer" \/ reply[p] = "ok", NEW y \in rows', Unwanted(p, y)
               PROVE  Later(p, y)
    OBVIOUS
  <2>1. \A x \in rows : Unwanted(p, x) => Later(p, x)
    BY <1>2 DEF Cleared
  <2>2. CASE RetypedRow(y)
    BY <1>4, <2>1, <2>2 DEF Later
  <2> QED BY <1>3, <2>1, <2>2 DEF Acts
<1>7. \A y : /\ Unwanted(p, y)' <=> Unwanted(p, y)
             /\ Queued(p, y)' <=> Queued(p, y)
             /\ Later(p, y)' <=> Later(p, y)
  BY <1>1 DEF Unwanted, Queued, Later
<1>8. /\ \A x \in gone'[p] : Unwanted(p, x)' /\ call'[p].op = "replace"
      /\ \A i \in 1..Len(todo'[p]) : todo'[p][i] \notin call'[p].tgts
  BY <1>1, <1>2, <1>7 DEF Cleared
<1>9. pc'[p] = "txn" =>
        \A y \in rows' : Unwanted(p, y)' => y \in gone'[p] \/ Queued(p, y)' \/ Later(p, y)'
  BY <1>1, <1>5, <1>7
<1>10. pc'[p] = "answer" \/ reply'[p] = "ok" =>
         \A y \in rows' : Unwanted(p, y)' => Later(p, y)'
  BY <1>1, <1>6, <1>7
<1> QED BY <1>8, <1>9, <1>10 DEF Cleared

LEMMA ServedStays ==
  ASSUME LinksInv, NEW q \in Requests, Acts(q), NEW p \in Requests \ {q}
  PROVE  Served(p)'
<1>1. /\ UNCHANGED call /\ pc'[p] = pc[p] /\ reply'[p] = reply[p]
      /\ had'[p] = had[p] /\ before'[p] = before[p]
  BY DEF Acts, Others
<1>2. Types /\ Course(p) /\ Served(p)
  BY DEF LinksInv, Sane
<1>3. q \notin before[p] /\ pc'[q] # "idle"
  BY <1>2 DEF Course, Over, Acts, Goes
<1>4. \A z \in Requests : pc[z] # "idle" => pc'[z] # "idle"
  BY <1>3 DEF Acts, Others
<1>5. \A t : Excused(p, t) => Excused(p, t)'
  BY <1>1, <1>4 DEF Excused
<1>6. ASSUME NEW t, Present(call[p], t) PROVE Present(call[p], t)' \/ Excused(p, t)'
  <2>1. PICK x \in rows : Same(call[p], x) /\ x.tgt = t
    BY <1>6 DEF Present
  <2>2. CASE x \in rows'
    BY <1>1, <2>1, <2>2 DEF Present, Same
  <2>3. CASE Taken(q, x)
    <3>1. Removes(call[q], call[p], t)
      BY <1>2, <2>1, <2>3, CallFacts DEF Taken
    <3>2. Removes(call'[q], call'[p], t)
      BY <1>1, <3>1
    <3> QED BY <1>1, <1>3, <3>2 DEF Excused
  <2> QED BY <2>2, <2>3 DEF Acts
<1>7. pc'[p] = "txn" =>
        \A t \in call'[p].tgts \cap had'[p] : Present(call[p], t)' \/ Excused(p, t)'
  BY <1>1, <1>2, <1>5, <1>6 DEF Served
<1>8. (pc'[p] = "answer" \/ reply'[p] = "ok") /\ call'[p].op \in {"link", "replace"} =>
        \A t \in call'[p].tgts : Present(call[p], t)' \/ Excused(p, t)'
  BY <1>1, <1>2, <1>5, <1>6 DEF Served
<1> QED BY <1>7, <1>8 DEF Served

LEMMA BornStays ==
  ASSUME LinksInv, NEW q \in Requests, Acts(q)
  PROVE  Born'
<1>1. Born
  BY DEF LinksInv
<1>2. \A a \in Requests : pc[a] \in {"answer", "done"} => pc'[a] \in {"answer", "done"}
  BY DEF Acts, Others, Goes
<1>3. ASSUME NEW y \in rows', y.key[1] \in Requests
      PROVE  pc'[y.key[1]] \in {"answer", "done"} /\ y.key[2] = y.tgt
  <2>1. \A x \in rows : x.key[1] \in Requests =>
          pc'[x.key[1]] \in {"answer", "done"} /\ x.key[2] = x.tgt
    BY <1>1, <1>2 DEF Born
  <2>2. CASE y \in rows
    BY <1>3, <2>1, <2>2
  <2>3. CASE NewBy(q, y)
    BY <2>3, NewByFacts
  <2>4. CASE RetypedRow(y)
    BY <1>3, <2>1, <2>4 DEF RetypedRow, Twin
  <2> QED BY <2>2, <2>3, <2>4 DEF Acts
<1>4. ASSUME NEW x \in rows', NEW y \in rows', x.key[1] \in Requests, x.key = y.key, x # y
      PROVE  FALSE
  <2>1. ASSUME \A z \in rows' : z \in rows \/ NewBy(q, z)
        PROVE  FALSE
    <3>1. \A z, u : NewBy(q, z) /\ u \in rows => z.key # u.key
      <4> SUFFICES ASSUME NEW z, NEW u \in rows, NewBy(q, z), z.key = u.key PROVE FALSE
        OBVIOUS
      <4>1. u.key[1] = q /\ pc[q] \in Making
        BY NewByFacts
      <4> QED BY <1>1, <4>1 DEF Born, Making
    <3>2. CASE NewBy(q, x) /\ NewBy(q, y)
      <4>1. x.tgt = y.tgt
        BY <1>4, <3>2, NewByFacts
      <4> QED BY <1>4, <3>2, <4>1 DEF NewBy
    <3>3. CASE x \in rows /\ y \in rows
      BY <1>1, <1>4, <3>3 DEF Born
    <3> QED BY <1>4, <2>1, <3>1, <3>2, <3>3
  <2>2. ASSUME \A u, v \in rows' : u # v =>
                 \E a, b \in rows : a # b /\ Twin(u, a) /\ Twin(v, b)
        PROVE  FALSE
    <3>1. PICK a \in rows, b \in rows : a # b /\ Twin(x, a) /\ Twin(y, b)
      BY <1>4, <2>2
    <3> QED BY <1>1, <1>4, <3>1 DEF Twin, Born
  <2> QED BY <2>1, <2>2 DEF Acts
<1> QED BY <1>3, <1>4 DEF Born

LEMMA DuplicatesStayApart ==
  ASSUME LinksInv, NEW q \in Requests, Acts(q)
  PROVE  DuplicatesOnlyByOverlap'
<1>1. Types /\ Born /\ DuplicatesOnlyByOverlap /\ Course(q) /\ Unseen(q)
  BY DEF LinksInv, Sane
<1> DEFINE Bad(x, y) == x # y /\ ~x.retyped /\ ~y.retyped /\ Alike(x, y)
           Fine(x, y) == x.tab # "verb" /\ Overlapped(x.key[1], y.key[1])'
<1> SUFFICES ASSUME NEW x \in rows', NEW y \in rows', Bad(x, y) PROVE Fine(x, y)
  BY DEF DuplicatesOnlyByOverlap
<1>2. (x \in rows \/ NewBy(q, x)) /\ (y \in rows \/ NewBy(q, y))
  BY DEF Acts, RetypedRow
<1>3. CASE x \in rows /\ y \in rows
  <2>1. x.tab # "verb" /\ Overlapped(x.key[1], y.key[1])
    BY <1>1, <1>3 DEF DuplicatesOnlyByOverlap
  <2>2. pc[x.key[1]] # "idle" /\ pc[y.key[1]] # "idle"
    BY <1>1, <1>3, <2>1 DEF Born, Overlapped
  <2> QED BY <2>1, <2>2, OverlapStays
<1>4. CASE NewBy(q, x) /\ NewBy(q, y)
  <2>1. x.tgt = y.tgt
    BY DEF Alike
  <2> QED BY <1>4, <2>1 DEF NewBy
<1>5. ASSUME NEW u \in rows, NEW v, NewBy(q, v), ~u.retyped, Alike(u, v)
      PROVE  /\ u.tab # "verb"
             /\ Overlapped(u.key[1], v.key[1])' /\ Overlapped(v.key[1], u.key[1])'
  <2>1. /\ v.key[1] = q /\ pc[q] \in Making /\ Same(call[q], v) /\ v.tgt \in Wanted(q)
    BY <1>5, NewByFacts
  <2>2. Same(call[q], u) /\ u.tgt = v.tgt
    BY <1>5, <2>1 DEF Alike, Same
  <2>3. Overlapped(u.key[1], q)
    BY <1>1, <1>5, <2>1, <2>2 DEF Unseen
  <2>4. pc[u.key[1]] # "idle" /\ pc[q] # "idle"
    BY <1>1, <2>1, <2>3 DEF Born, Overlapped, Making
  <2>5. Overlapped(u.key[1], q)'
    BY <2>3, <2>4, OverlapStays
  <2>6. Overlapped(q, u.key[1])'
    BY <2>5 DEF Overlapped
  <2>7. u.tab # "verb"
    <3>1. u.tab = call[q].tab
      BY <2>2 DEF Same
    <3>2. call[q].tab = "verb" => ~Present(call[q], v.tgt)
      BY <1>5 DEF NewBy
    <3>3. Present(call[q], v.tgt)
      BY <2>2 DEF Present
    <3> QED BY <3>1, <3>2, <3>3
  <2> QED BY <2>1, <2>5, <2>6, <2>7
<1>6. CASE x \in rows /\ NewBy(q, y)
  BY <1>5, <1>6
<1>7. CASE NewBy(q, x) /\ y \in rows
  <2>1. Alike(y, x) /\ x.tab = y.tab
    BY DEF Alike
  <2> QED BY <1>5, <1>7, <2>1
<1> QED BY <1>2, <1>3, <1>4, <1>6, <1>7

LEMMA IdsStayApart ==
  ASSUME LinksInv, NEW q \in Requests, Acts(q)
  PROVE  RelationshipIdsCollideOnlyByOverlap'
<1>1. /\ Types /\ Born /\ RelationshipIdsCollideOnlyByOverlap /\ Course(q) /\ Unseen(q)
      /\ keyed' = keyed
  BY DEF LinksInv, Sane, Acts, Others
<1>2. ASSUME NEW a \in rows, NEW b \in rows, a.tab = "related", b.tab = "related",
             a # b, a.id = b.id
      PROVE  ~keyed /\ Overlapped(a.key[1], b.key[1])'
  <2>1. ~keyed /\ Overlapped(a.key[1], b.key[1])
    BY <1>1, <1>2 DEF RelationshipIdsCollideOnlyByOverlap, Related
  <2>2. pc[a.key[1]] # "idle" /\ pc[b.key[1]] # "idle"
    BY <1>1, <2>1 DEF Born, Overlapped
  <2> QED BY <2>1, <2>2, OverlapStays
<1>3. ASSUME NEW v, NewBy(q, v), v.tab = "related"
      PROVE  /\ pc[q] = "write" /\ v.key[1] = q /\ v.id = fresh[q] /\ fresh[q] \in Nat
             /\ keyed => \A u \in Related : u.id # fresh[q]
             /\ \E t \in Nat : call[q].tgts = {t}
  <2>1. call[q].tab = "related" /\ v.key[1] = q /\ v.id = MadeId(q)
    BY <1>3, NewByFacts
  <2>2. pc[q] = "write" /\ (keyed => \A u \in Related : u.id # fresh[q])
    BY <1>3, <2>1 DEF NewBy
  <2>3. call[q].op = "link"
    BY <1>1, <2>2 DEF Course
  <2> QED BY <1>1, <2>1, <2>2, <2>3, CallFacts DEF MadeId, Types
<1>4. ASSUME NEW u \in rows, u.tab = "related", NEW v, NewBy(q, v), v.tab = "related",
             u.id = v.id
      PROVE  /\ ~keyed
             /\ Overlapped(u.key[1], v.key[1])' /\ Overlapped(v.key[1], u.key[1])'
  <2>1. pc[q] = "write" /\ v.key[1] = q /\ u.id = fresh[q] /\ fresh[q] \in Nat /\ ~keyed
    BY <1>3, <1>4 DEF Related
  <2>2. Overlapped(u.key[1], q)
    BY <1>1, <1>4, <2>1 DEF Unseen, Related
  <2>3. pc[u.key[1]] # "idle" /\ pc[q] # "idle"
    BY <1>1, <2>1, <2>2 DEF Born, Overlapped
  <2>4. Overlapped(u.key[1], q)'
    BY <2>2, <2>3, OverlapStays
  <2>5. Overlapped(q, u.key[1])'
    BY <2>4 DEF Overlapped
  <2> QED BY <2>1, <2>4, <2>5
<1>5. ASSUME NEW x \in rows', NEW y \in rows', x.tab = "related", y.tab = "related",
             x # y, x.id = y.id
      PROVE  ~keyed /\ Overlapped(x.key[1], y.key[1])'
  <2>1. ASSUME \A z \in rows' : z \in rows \/ NewBy(q, z)
        PROVE  ~keyed /\ Overlapped(x.key[1], y.key[1])'
    <3>1. ~(NewBy(q, x) /\ NewBy(q, y))
      <4> SUFFICES ASSUME NewBy(q, x), NewBy(q, y) PROVE FALSE
        OBVIOUS
      <4>1. x.tgt \in call[q].tgts /\ y.tgt \in call[q].tgts
        BY NewByFacts DEF Wanted
      <4>2. x.tgt = y.tgt
        BY <1>3, <1>5, <4>1
      <4> QED BY <1>5, <4>2 DEF NewBy
    <3> QED BY <1>2, <1>4, <1>5, <2>1, <3>1
  <2>2. ASSUME \A u, v \in rows' : u # v =>
                 \E a, b \in rows : a # b /\ Twin(u, a) /\ Twin(v, b)
        PROVE  ~keyed /\ Overlapped(x.key[1], y.key[1])'
    <3>1. PICK a \in rows, b \in rows : a # b /\ Twin(x, a) /\ Twin(y, b)
      BY <1>5, <2>2
    <3>2. /\ a.tab = "related" /\ b.tab = "related" /\ a.id = b.id
          /\ a.key = x.key /\ b.key = y.key
      BY <1>5, <3>1 DEF Twin
    <3>3. ~keyed /\ Overlapped(a.key[1], b.key[1])'
      BY <1>2, <3>1, <3>2
    <3> QED BY <3>2, <3>3
  <2> QED BY <2>1, <2>2 DEF Acts
<1> QED BY <1>1, <1>5 DEF RelationshipIdsCollideOnlyByOverlap, Related


----------------------------------------------------------------------------
(***************************************************************************)
(* Crashes, and the theorems.                                              *)
(***************************************************************************)

LEMMA CrashKeeps ==
  ASSUME LinksInv, NEW w \in Workers, WorkerCrash(w)
  PROVE  LinksInv'
<1> DEFINE L == InFlight(w)
<1>0. Types /\ Born /\ \A p \in Requests : Sane(p)
  BY DEF LinksInv
<1>1. /\ pc' = [p \in Requests |-> IF p \in L THEN "done" ELSE pc[p]]
      /\ reply' = [p \in Requests |-> IF p \in L THEN "lost" ELSE reply[p]]
      /\ gone' = [p \in Requests |-> IF p \in L THEN {} ELSE gone[p]]
      /\ todo' = [p \in Requests |-> IF p \in L THEN <<>> ELSE todo[p]]
      /\ had' = [p \in Requests |-> IF p \in L THEN {} ELSE had[p]]
      /\ fresh' = [p \in Requests |-> IF p \in L THEN 0 ELSE fresh[p]]
      /\ loop' = [loop EXCEPT ![w] = NoRequest]
      /\ UNCHANGED <<rows, keyed, call, host, before>>
  BY DEF WorkerCrash
<1>2. \A p \in Requests : p \in L <=> host[p] = w /\ pc[p] \notin {"idle", "done"}
  BY DEF InFlight
<1> HIDE DEF L
<1>3. Types'
  <2>1. pc' \in [Requests -> Steps] /\ reply' \in [Requests -> Replies]
    BY <1>0, <1>1 DEF Types, Steps, Replies
  <2>2. /\ gone' \in [Requests -> SUBSET RowType] /\ had' \in [Requests -> SUBSET Nat]
        /\ fresh' \in [Requests -> Nat]
    BY <1>0, <1>1 DEF Types
  <2>3. todo' \in [Requests -> Seq(Nat)]
    <3>1. <<>> \in Seq(Nat)
      BY EmptySeq
    <3> QED BY <1>0, <1>1, <3>1 DEF Types
  <2>4. loop' \in [Workers -> Requests \cup {NoRequest}]
    BY <1>0, <1>1 DEF Types
  <2> QED BY <1>0, <1>1, <2>1, <2>2, <2>3, <2>4 DEF Types
<1>4. \A p \in Requests : pc[p] \in {"answer", "done"} => pc'[p] \in {"answer", "done"}
  BY <1>1
<1>5. Born'
  BY <1>0, <1>1, <1>4 DEF Born
<1>6. \A a, b : Overlapped(a, b)' <=> Overlapped(a, b)
  BY <1>1 DEF Overlapped
<1>7. DuplicatesOnlyByOverlap' /\ RelationshipIdsCollideOnlyByOverlap'
  BY <1>1, <1>6 DEF LinksInv, DuplicatesOnlyByOverlap, RelationshipIdsCollideOnlyByOverlap,
                    Related
<1>8. Over \subseteq Over'
  BY <1>1 DEF Over
<1>9. ASSUME NEW p \in Requests, p \in L PROVE Sane(p)'
  <2>1. /\ pc'[p] = "done" /\ reply'[p] = "lost" /\ gone'[p] = {} /\ todo'[p] = <<>>
        /\ before'[p] = before[p] /\ call' = call
    BY <1>1, <1>9
  <2>2. Course(p)'
    BY <1>0, <1>8, <2>1 DEF Sane, Course, Making
  <2>3. Unseen(p)' /\ Cleared(p)' /\ Served(p)'
    BY <1>0, <2>1, Rests
  <2> QED BY <2>2, <2>3 DEF Sane
<1>10. ASSUME NEW p \in Requests, p \notin L PROVE Sane(p)'
  <2>1. /\ pc'[p] = pc[p] /\ reply'[p] = reply[p] /\ gone'[p] = gone[p]
        /\ todo'[p] = todo[p] /\ had'[p] = had[p] /\ fresh'[p] = fresh[p]
        /\ UNCHANGED <<rows, keyed, call, host, before>>
    BY <1>1, <1>10
  <2>2. Course(p)'
    <3>1. loop[host[p]] = p /\ pc[p] \in Making \cup {"answer"} => loop'[host[p]] = p
      BY <1>0, <1>1, <1>2, <1>10 DEF Types, Making
    <3> QED BY <1>0, <1>8, <2>1, <3>1 DEF Sane, Course, Valid
  <2>3. Unseen(p)'
    <3>1. Wanted(p)' = Wanted(p) /\ \A x : Same(call[p], x)' <=> Same(call[p], x)
      BY <2>1 DEF Wanted, Same
    <3>2. Related' = Related
      BY <2>1 DEF Related
    <3> QED BY <1>0, <1>6, <2>1, <3>1, <3>2 DEF Sane, Unseen
  <2>4. Cleared(p)'
    <3>1. \A y : /\ Unwanted(p, y)' <=> Unwanted(p, y)
                 /\ Queued(p, y)' <=> Queued(p, y)
                 /\ Later(p, y)' <=> Later(p, y)
      BY <2>1 DEF Unwanted, Queued, Later
    <3> QED BY <1>0, <2>1, <3>1 DEF Sane, Cleared
  <2>5. Served(p)'
    <3>1. \A t : Present(call[p], t)' <=> Present(call[p], t)
      BY <2>1 DEF Present, Same
    <3>2. \A t : Excused(p, t) => Excused(p, t)'
      BY <1>1 DEF Excused
    <3> QED BY <1>0, <2>1, <3>1, <3>2 DEF Sane, Served
  <2> QED BY <2>2, <2>3, <2>4, <2>5 DEF Sane
<1> QED BY <1>3, <1>5, <1>7, <1>9, <1>10 DEF LinksInv

LEMMA InitLinksInv == Init => LinksInv
<1> SUFFICES ASSUME Init PROVE LinksInv
  OBVIOUS
<1>1. /\ rows = InitRows
      /\ \A r \in Requests : /\ pc[r] = "idle" /\ reply[r] = "none" /\ gone[r] = {}
                             /\ todo[r] = <<>> /\ before[r] = {}
  BY DEF Init
<1>2. Types
  <2>1. <<>> \in Seq(Nat)
    BY EmptySeq
  <2>2. /\ pc \in [Requests -> Steps] /\ reply \in [Requests -> Replies]
        /\ fresh \in [Requests -> Nat] /\ had \in [Requests -> SUBSET Nat]
        /\ gone \in [Requests -> SUBSET RowType] /\ before \in [Requests -> SUBSET Requests]
        /\ todo \in [Requests -> Seq(Nat)]
    BY <2>1 DEF Init, Steps, Replies
  <2> QED BY <2>2, InitRowsAssumption DEF Init, Types
<1>3. \A x \in rows : x.key[1] \notin Requests
  BY <1>1, LinkAssumption, InitRowsAssumption
<1>4. Born
  BY <1>3 DEF Born
<1>5. DuplicatesOnlyByOverlap /\ RelationshipIdsCollideOnlyByOverlap
  BY <1>1, InitRowsAssumption
     DEF DuplicatesOnlyByOverlap, RelationshipIdsCollideOnlyByOverlap, Related
<1>6. \A r \in Requests : Sane(r)
  BY <1>1 DEF Sane, Course, Unseen, Cleared, Served, Making
<1> QED BY <1>2, <1>4, <1>5, <1>6 DEF LinksInv

LEMMA NextLinksInv == LinksInv /\ [Next]_vars => LinksInv'
<1> SUFFICES ASSUME LinksInv, [Next]_vars PROVE LinksInv'
  OBVIOUS
<1>1. ASSUME NEW q \in Requests, Handler(q) PROVE LinksInv'
  <2>1. Types' /\ Acts(q) /\ Sane(q)'
    BY <1>1, HandlerKeeps
  <2>2. \A p \in Requests \ {q} : Sane(p)'
    BY <2>1, CourseStays, UnseenStays, ClearedStays, ServedStays DEF Sane
  <2>3. Born' /\ DuplicatesOnlyByOverlap' /\ RelationshipIdsCollideOnlyByOverlap'
    BY <2>1, BornStays, DuplicatesStayApart, IdsStayApart
  <2> QED BY <2>1, <2>2, <2>3 DEF LinksInv
<1>2. ASSUME NEW w \in Workers, WorkerCrash(w) PROVE LinksInv'
  BY <1>2, CrashKeeps
<1>3. CASE UNCHANGED vars
  <2>1. UNCHANGED <<rows, keyed, loop, call, host, pc, reply, fresh, had, todo, gone, before>>
    BY <1>3 DEF vars
  <2>2. Types' /\ Born'
    BY <2>1 DEF LinksInv, Types, Born
  <2>3. \A a, b : Overlapped(a, b)' <=> Overlapped(a, b)
    BY <2>1 DEF Overlapped
  <2>4. DuplicatesOnlyByOverlap' /\ RelationshipIdsCollideOnlyByOverlap'
    BY <2>1, <2>3 DEF LinksInv, DuplicatesOnlyByOverlap, RelationshipIdsCollideOnlyByOverlap,
                      Related
  <2>5. ASSUME NEW p \in Requests PROVE Sane(p)'
    <3>1. Sane(p)
      BY DEF LinksInv
    <3>2. Course(p)'
      BY <2>1, <3>1 DEF Sane, Course, Over, Valid
    <3>3. Unseen(p)'
      BY <2>1, <2>3, <3>1 DEF Sane, Unseen, Wanted, Same, Related
    <3>4. Cleared(p)'
      BY <2>1, <3>1 DEF Sane, Cleared, Unwanted, Queued, Later
    <3>5. Served(p)'
      BY <2>1, <3>1 DEF Sane, Served, Present, Excused, Same
    <3> QED BY <3>2, <3>3, <3>4, <3>5 DEF Sane
  <2> QED BY <2>2, <2>4, <2>5 DEF LinksInv
<1> QED BY <1>1, <1>2, <1>3 DEF Next, Quiet

\* The invariant: what a handler has read and what has become of it since.
THEOREM LinksInvariance == Spec => []LinksInv
<1>1. Init => LinksInv
  BY InitLinksInv
<1>2. LinksInv /\ [Next]_vars => LinksInv'
  BY NextLinksInv
<1> QED BY <1>1, <1>2, PTL DEF Spec

\* Two equal links are made by two workers at the same time only, and a subject
\* has no verb twice.
THEOREM DoublesTakeTwoWorkers == Spec => []DuplicatesOnlyByOverlap
<1>1. LinksInv => DuplicatesOnlyByOverlap
  BY DEF LinksInv
<1> QED BY <1>1, LinksInvariance, PTL

\* An id of a relationship is given twice by two workers at the same time only,
\* in a database without a unique index.
THEOREM IdsTakeTwoWorkers == Spec => []RelationshipIdsCollideOnlyByOverlap
<1>1. LinksInv => RelationshipIdsCollideOnlyByOverlap
  BY DEF LinksInv
<1> QED BY <1>1, LinksInvariance, PTL

\* What an unlink or a replacement took away is not left behind.
THEOREM NothingIsLeftBehind == Spec => []RemovedStaysRemoved
<1>1. LinksInv => RemovedStaysRemoved
  BY DEF LinksInv, Sane, Cleared, Unwanted, Later, RemovedStaysRemoved
<1> QED BY <1>1, LinksInvariance, PTL

\* What was linked is there, unless a call took it away.
THEOREM NothingIsForgotten == Spec => []LinkedUnlessRemoved
<1>1. LinksInv => LinkedUnlessRemoved
  BY DEF LinksInv, Sane, Served, Excused, LinkedUnlessRemoved
<1> QED BY <1>1, LinksInvariance, PTL
=============================================================================
