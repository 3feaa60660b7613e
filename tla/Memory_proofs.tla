---------------------------- MODULE Memory_proofs ----------------------------
(***************************************************************************)
(* Proofs about the memory of a tenant: what clients do to its documents   *)
(* (Documents) and the sweeps that keep tags and vectors up to date        *)
(* (Upkeep), for any requests, documents, calls, sources and cards.        *)
(*                                                                         *)
(* Documents.  A handler spreads its work over transactions, and a worker  *)
(* may die between any two.  What the properties rest on is a history: a   *)
(* document is made by one request, once (Settled), so that what a DELETE  *)
(* has removed never comes back; and two transactions of links that are    *)
(* open together run on different workers, since each keeps the event loop *)
(* of its own from its first statement to its answer (LinkersOverlap).     *)
(*                                                                         *)
(* Upkeep.  A sweep stores a vector long after it has claimed the text it  *)
(* makes it of.  What makes this safe is the generation: the text of a     *)
(* card and its generation change together, so that a claim whose          *)
(* generation is the card's has the card's present text (Honest).          *)
(***************************************************************************)
EXTENDS Documents, Upkeep, Lemmas, SequenceTheorems

(***************************************************************************)
(* Part 1: Documents.                                                      *)
(***************************************************************************)

DocReplies == {"none", "not_found", "refused", "ok", "gone", "conflict", "error", "lost"}
TxType == [newEdges: SUBSET RowType, oldEdges: SUBSET RowType,
           newTags: SUBSET RowType, oldTags: SUBSET RowType,
           kept: SUBSET RowType, found: SUBSET RowType, reg: SUBSET Link,
           prim: Names \cup {"", "keep"}, first: Names \cup {""}]

\* Before its document is made; with an open transaction of links; with the
\* event loop of its worker.
Early == {"idle", "body", "document"}
UnlinkSteps == {"unedge", "repoint", "findtag", "untag"}
LinkSteps == {"register", "edge", "tag", "newtag", "retag"}
Linking == {"txn", "commit"} \cup UnlinkSteps \cup LinkSteps
DocSteps == {"idle", "body", "document", "answer", "delete", "delete_document",
             "delete_package", "live", "done"} \cup Linking
Holding == Linking \cup {"document", "answer", "live"}

DocTypes ==
  /\ docs \subseteq Docs /\ IsFiniteSet(chunks) /\ tags \subseteq RowType /\ edges \subseteq RowType
  /\ primary \in [Docs -> Names \cup {""}]
  /\ type \in [Names -> {"none", "project", "concept"}]
  /\ forgets \in BOOLEAN
  /\ loop \in [Workers -> Requests \cup {NoRequest}]
  /\ call \in [Requests -> Calls] /\ host \in [Requests -> Workers]
  /\ pc \in [Requests -> DocSteps] /\ reply \in [Requests -> DocReplies]
  /\ todo \in [Requests -> Seq(Job)] /\ tx \in [Requests -> TxType]
  /\ DOMAIN hits = Requests /\ DOMAIN result = Requests
  /\ before \in [Requests -> SUBSET Requests]

Finished == {q \in Requests : pc[q] = "done"}

\* The document d has been made, or never will be.
Settled(d) == d \in Requests => pc[d] \notin Early

\* What is stored refers to subjects and documents there are, but for an edge that
\* a DELETE without maludb_forget_document has missed.
Referenced ==
  /\ \A d \in docs : Settled(d)
  /\ \A t \in tags \cup edges : type[t.name] # "none"
  /\ \A t \in tags : t.doc \in docs
  /\ \A e \in edges : Settled(e.doc) /\ (forgets => e.doc \in docs)
  /\ \A c \in chunks : Settled(c[1])
  /\ \A d \in Docs : Settled(d) \/ primary[d] = ""

\* Where r is, what its call is and what it holds.
DocCourse(r) ==
  /\ before[r] \subseteq Finished
  /\ pc[r] # "done" => reply[r] = "none" /\ result[r] = {}
  /\ pc[r] \in Holding => loop[host[r]] = r
  /\ pc[r] = "document" => call[r].op = "upload"
  /\ pc[r] \in Linking \cup {"answer"} => call[r].op \in {"patch", "upload"}
  /\ pc[r] = "live" => call[r].op = "search"
  /\ pc[r] \in {"delete", "delete_document", "delete_package"} =>
       call[r].op = "delete" /\ Settled(call[r].doc)
  /\ pc[r] \in {"delete_document", "delete_package"} => ~forgets
  /\ pc[r] = "delete_package" => call[r].doc \notin docs
  /\ call[r].op = "delete" /\ reply[r] = "ok" =>
       /\ Settled(call[r].doc) /\ call[r].doc \notin docs \cup packages
       /\ forgets => \A c \in chunks : c[1] # call[r].doc
  /\ pc[r] \in Linking \/ (pc[r] = "body" /\ call[r].op = "patch") => Settled(Doc(r))
  /\ pc[r] \notin Linking => tx[r] = NoTx
  /\ tx[r].newEdges \cup tx[r].newTags # {} \/ tx[r].prim # "keep" => Doc(r) \in docs

\* The link a row stands for; a transaction t that has begun to link.
LinkOf(t) == [kind |-> t.kind, name |-> t.name]
Linked(t) == t.newEdges # {} \/ t.newTags # {} \/ t.first # ""

\* The jobs s are left of a call; unlinks come first, before anything is linked.
Left(jobs, s, linked) ==
  \A i \in 1..Len(s) :
    /\ \E k \in DOMAIN jobs : jobs[k] = s[i]
    /\ s[i].act = "unlink" => ~linked /\ \A j \in 1..i : s[j].act = "unlink"

\* What a transaction of links has done and has still to do.
Jobs(r) ==
  /\ pc[r] \in UnlinkSteps => todo[r] # <<>> /\ Head(todo[r]).act = "unlink"
  /\ pc[r] \in LinkSteps => todo[r] # <<>> /\ Head(todo[r]).act = "link"
  /\ pc[r] \in LinkSteps \ {"register"} => Known(r, Current(r).name)
  /\ pc[r] \in Linking =>
       /\ Left(call[r].jobs, todo[r], Linked(tx[r]))
       /\ \A l \in tx[r].reg : Links(r, l.name)
       /\ \A t \in tx[r].newEdges \cup tx[r].newTags :
            t.doc = Doc(r) /\ Asks(r, "link", LinkOf(t)) /\ Known(r, t.name)
       /\ \A t \in tx[r].oldEdges \cup tx[r].oldTags :
            t.doc = Doc(r) /\ Asks(r, "unlink", LinkOf(t))
  /\ pc[r] \in {"unedge", "untag", "retag"} =>
       \A t \in tx[r].found : t.doc = Doc(r) /\ LinkOf(t) = Current(r)

\* Two workers work at the links of d, or at the subject n, at the same time.
Disputed(d) == \E q, r \in Linkers : /\ Doc(q) = d /\ Doc(r) = d
                                     /\ Overlap(q, r) /\ host[q] # host[r]
Contested(n) == \E q, r \in Linkers : /\ Links(q, n) /\ Links(r, n)
                                      /\ Overlap(q, r) /\ host[q] # host[r]

\* The primary project p of d is among the tags T.
Tagged(d, p, T) == p = "" \/ Of(T, d, [kind |-> "project", name |-> p]) # {}

\* A transaction points its document at a project that it sees, and will adopt one
\* that it sees.
Pointed(r) ==
  pc[r] \in Linking /\ Doc(r) \in docs =>
    \/ Disputed(Doc(r))
    \/ /\ Tagged(Doc(r), SeenPrimary(r), SeenTags(r))
       /\ Tagged(Doc(r), tx[r].first, SeenTags(r))
       /\ pc[r] = "retag" => Of(SeenTags(r), Doc(r), Current(r)) # {}
       /\ pc[r] \in {"findtag", "untag"} => SeenPrimary(r) # Current(r).name

(***************************************************************************)
(* The edge and the tag of a link l, as the transaction of r sees them.    *)
(* Between two jobs there is an edge when there is a tag; within a job, the *)
(* edge is found, deleted or made first, then the tag.  What was deleted   *)
(* stays deleted until it is linked anew.                                  *)
(***************************************************************************)
Edge(r, l) == Of(SeenEdges(r), Doc(r), l)
TagRow(r, l) == Of(SeenTags(r), Doc(r), l)

At(r, l) == pc[r] \in UnlinkSteps \cup {"tag", "newtag", "retag"} /\ l = Current(r)
Even(r, l) == Edge(r, l) # {} <=> TagRow(r, l) # {}
Midway(r, l) ==
  /\ pc[r] = "unedge" => Edge(r, l) \subseteq tx[r].found
  /\ pc[r] \in UnlinkSteps \ {"unedge"} => Edge(r, l) = {}
  /\ pc[r] = "untag" => TagRow(r, l) \subseteq tx[r].found
  /\ pc[r] \in {"tag", "newtag", "retag"} => Edge(r, l) # {}
  /\ pc[r] = "retag" => TagRow(r, l) # {}
Cleared(r, l) ==
  \/ Of(tx[r].oldEdges \cup tx[r].oldTags, Doc(r), l) = {}
  \/ Of(tx[r].newEdges \cup tx[r].newTags, Doc(r), l) # {}
  \/ Edge(r, l) = {}

\* How far r has come with the link l.
Staged(r, l) == /\ At(r, l) => Midway(r, l)
                /\ At(r, l) \/ Even(r, l)
                /\ (At(r, l) /\ pc[r] = "unedge") \/ Cleared(r, l)

\* A DELETE of d without maludb_forget_document has removed its edges only.
Under(d) == ~forgets /\ \E r \in Requests :
              Deletes(r, d) /\ (pc[r] = "delete_document" \/ reply[r] = "lost")

Balanced(r) ==
  pc[r] \in Linking /\ Doc(r) \in docs /\ ~Under(Doc(r)) =>
    \A l \in Link : Contended(Doc(r), l) \/ Staged(r, l)

\* A subject that is being registered was not there.
Registers(r, n) == \/ \E l \in tx[r].reg : l.name = n
                   \/ pc[r] = "register" /\ Current(r).name = n
Unregistered(r) ==
  \A n \in Names : Registers(r, n) => type[n] = "none" \/ Contested(n)

\* An edge that the DELETE of r has missed was made while it ran.
Missed(r) ==
  (/\ call[r].op = "delete"
   /\ pc[r] \in {"delete_document", "delete_package"} \/ reply[r] = "ok") =>
    \A e \in edges : e.doc = call[r].doc =>
      /\ ~forgets
      /\ \E q \in Linkers : Doc(q) = call[r].doc /\ Links(q, e.name) /\ Overlap(q, r)

\* The chunks that were there before r, whatever came since.
Older(r) == chunks \cap ((InitDocs \cup before[r] \cup {NoDoc}) \X Nat)

\* What a search has fetched and what it has found.
Searched(r) ==
  /\ \A c \in hits[r] : Settled(c[1])
  /\ IsFiniteSet(hits[r])
  /\ pc[r] = "live" => Cardinality(hits[r]) = Fetch \/ Older(r) \subseteq hits[r]
  /\ (call[r].op = "search" /\ reply[r] = "ok" /\ Cardinality(result[r]) < Limit) =>
       \/ Kept(Older(r)) \subseteq result[r]
       \/ Cardinality(hits[r] \ Kept(hits[r])) > (Overfetch - 1) * Limit
  /\ \A c \in result[r] : ~\E d \in before[r] : Deletes(d, c[1]) /\ reply[d] = "ok"

DocSane(r) == /\ DocCourse(r) /\ Jobs(r) /\ Pointed(r) /\ Balanced(r) /\ Unregistered(r)
              /\ Missed(r) /\ Searched(r)

DocumentsInv == /\ DocTypes /\ Referenced /\ TagsAreMirrored
                /\ \A r \in Requests : DocSane(r)

----------------------------------------------------------------------------
(***************************************************************************)
(* How a step of the handler of q may change what is not stored.           *)
(***************************************************************************)

\* The handler of p stands still.
Still(p) ==
  /\ pc'[p] = pc[p] /\ reply'[p] = reply[p] /\ todo'[p] = todo[p] /\ tx'[p] = tx[p]
  /\ hits'[p] = hits[p] /\ result'[p] = result[p] /\ before'[p] = before[p]

\* Nobody goes back.
Ahead ==
  /\ UNCHANGED <<forgets, call, host>>
  /\ \A p \in Requests :
       /\ pc[p] = "done" => pc'[p] = "done" /\ reply'[p] = reply[p]
       /\ pc[p] # "idle" => pc'[p] # "idle" /\ before'[p] = before[p]
       /\ pc[p] \notin Early => pc'[p] \notin Early
       /\ before'[p] = before[p] \/ before'[p] = Finished

\* Only the handler of q moves; a loop is taken when it is idle, and given back
\* by who has it.
Moves(q) ==
  /\ UNCHANGED <<forgets, call, host>>
  /\ \A p \in Requests \ {q} : Still(p)
  /\ \A w \in Workers : loop'[w] = loop[w] \/ loop[w] \in {NoRequest, q}
  /\ pc[q] # "done" /\ pc'[q] # "idle"
  /\ pc[q] \notin Early => pc'[q] \notin Early
  /\ before'[q] = before[q] \/ (pc[q] = "idle" /\ before'[q] = Finished)

\* A document and its package, or a part of them, are made.
Makes(q) ==
  /\ pc[q] \in {"body", "document"} /\ call[q].op \in {"upload", "ingest"}
  /\ docs' \in {docs, docs \cup {q}} /\ packages' \in {packages, packages \cup {q}}
  /\ \E k \in Nat : chunks' = chunks \cup ({q} \X (1..k))
  /\ docs' # docs \/ chunks' # chunks => pc'[q] \notin Early
  /\ UNCHANGED <<tags, edges, primary, type, forgets>>

\* A DELETE that has removed the edges goes on to the document, or is lost.
Proceeds(q) ==
  /\ \A r \in Requests : pc[r] = "delete_document" =>
       pc'[r] = "delete_document" \/ reply'[r] = "lost" \/ DeleteDocument(r)
  /\ DeleteEdges(q) => pc'[q] = "delete_document"

\* What a step of q stores.
Stores(q) ==
  \/ UNCHANGED store /\ pc[q] # "delete_document"
  \/ Makes(q) \/ CommitLinks(q)
  \/ Forget(q) \/ DeleteEdges(q) \/ DeleteDocument(q) \/ DeletePackage(q)

\* What the calls are.
LEMMA DocCallFacts ==
  ASSUME DocTypes, NEW r \in Requests
  PROVE  /\ call[r] \in Calls /\ call[r] \in CallType /\ call[r].doc \in Docs
         /\ call[r].jobs \in Seq(Job) /\ call[r].n \in Nat
         /\ Doc(r) \in Docs /\ host[r] \in Workers
         /\ \A i \in DOMAIN call[r].jobs : call[r].jobs[i].act = "unlink" =>
              \A j \in 1..i : call[r].jobs[j].act = "unlink"
<1>1. call[r] \in Calls /\ host[r] \in Workers
  BY DEF DocTypes
<1>2. call[r] \in CallType
  BY <1>1, DocumentsAssumption
<1>3. \A i \in DOMAIN call[r].jobs : call[r].jobs[i].act = "unlink" =>
              \A j \in 1..i : call[r].jobs[j].act = "unlink"
  BY <1>1, JobsAssumption
<1>4. call[r].doc \in Docs /\ call[r].jobs \in Seq(Job) /\ call[r].n \in Nat
  BY <1>2 DEF CallType
<1>5. Doc(r) \in Docs
  BY <1>4 DEF Doc, Docs
<1> QED BY <1>1, <1>2, <1>3, <1>4, <1>5

\* When one handler moves by its rules, nobody goes back.
LEMMA MovesAhead ==
  ASSUME DocTypes, NEW q \in Requests, Moves(q)
  PROVE  Ahead
BY DEF Moves, Ahead, Still, Finished, DocTypes

\* What stays true while nobody goes back.
LEMMA AheadFacts ==
  ASSUME DocTypes, Ahead, \A r \in Requests : before[r] \subseteq Finished
  PROVE  /\ Finished \subseteq Finished'
         /\ \A r \in Requests : before'[r] \subseteq Finished'
         /\ \A d : Settled(d) => Settled(d)'
         /\ \A q, r \in Requests : Overlap(q, r) => Overlap(q, r)'
         /\ \A r : Doc(r)' = Doc(r) /\ (\A n : Links(r, n)' <=> Links(r, n))
         /\ \A r, a, l : Asks(r, a, l)' <=> Asks(r, a, l)
         /\ Linkers' = Linkers
         /\ \A d : Disputed(d) => Disputed(d)'
         /\ \A d, l : Contended(d, l) => Contended(d, l)'
         /\ \A n : Contested(n) => Contested(n)'
<1>1. Finished \subseteq Finished'
  BY DEF Ahead, Finished
<1>2. \A r \in Requests : before'[r] \subseteq Finished'
  BY <1>1 DEF Ahead
<1>3. \A d : Settled(d) => Settled(d)'
  BY DEF Ahead, Settled
<1>4. \A q, r \in Requests : Overlap(q, r) => Overlap(q, r)'
  BY DEF Ahead, Overlap
<1>5. \A r : Doc(r)' = Doc(r)
  BY DEF Ahead, Doc
<1>6. \A r, n : Links(r, n)' <=> Links(r, n)
  BY DEF Ahead, Links
<1>7. Linkers' = Linkers
  BY DEF Ahead, Linkers
<1>8. \A r \in Linkers : r \in Requests
  BY DEF Linkers
<1>9. host' = host
  BY DEF Ahead
<1>10. \A d : Disputed(d) => Disputed(d)'
  BY <1>4, <1>5, <1>7, <1>8, <1>9 DEF Disputed
<1>11. \A n : Contested(n) => Contested(n)'
  BY <1>4, <1>6, <1>7, <1>8, <1>9 DEF Contested
<1>12. \A r, a, l : Asks(r, a, l)' <=> Asks(r, a, l)
  BY DEF Ahead, Asks
<1>13. \A d, l : Contended(d, l) => Contended(d, l)'
  BY <1>4, <1>5, <1>7, <1>8, <1>9, <1>12 DEF Contended
<1> QED BY <1>1, <1>2, <1>3, <1>4, <1>5, <1>6, <1>7, <1>10, <1>11, <1>12, <1>13

\* Two transactions of links run on different workers.
LEMMA LinkersOverlap ==
  ASSUME DocumentsInv, NEW q \in Requests, NEW r \in Requests, q # r,
         pc[q] \in Linking, pc[r] \in Linking
  PROVE  /\ q \in Linkers /\ r \in Linkers
         /\ Overlap(q, r) /\ Overlap(r, q) /\ host[q] # host[r]
<1>1. DocCourse(q) /\ DocCourse(r)
  BY DEF DocumentsInv, DocSane
<1>2. q \in Linkers /\ r \in Linkers
  BY <1>1 DEF DocCourse, Linkers
<1>3. host[q] # host[r]
  BY <1>1 DEF DocCourse, Holding
<1>4. q \notin before[r] /\ r \notin before[q]
  BY <1>1 DEF DocCourse, Finished, Linking, UnlinkSteps, LinkSteps
<1> QED BY <1>2, <1>3, <1>4 DEF Overlap, Linking, UnlinkSteps, LinkSteps

----------------------------------------------------------------------------
(***************************************************************************)
(* What stays true of the others while q moves.                            *)
(***************************************************************************)

\* A document that is there in the next state is there already, or is made by q.
LEMMA DocsMove ==
  ASSUME DocumentsInv, NEW q \in Requests, UNCHANGED store \/ Stores(q)
  PROVE  /\ \A d \in docs' : d \in docs \/ (d = q /\ ~Settled(q))
         /\ \A d \in packages' : d \in packages \/ (d = q /\ ~Settled(q))
         /\ \A c \in chunks' : c \in chunks \/ (c[1] = q /\ ~Settled(q) /\ c \in {q} \X Nat)
         /\ \A d \in docs \ docs' : Unblocked(d)
         /\ \A e \in edges' : e \in edges \/ (CommitLinks(q) /\ e \in tx[q].newEdges)
<1>1. CASE UNCHANGED store
  BY <1>1 DEF store
<1>2. CASE Makes(q)
  <2>1. ~Settled(q)
    BY <1>2 DEF Makes, Settled, Early
  <2>2. PICK k \in Nat : chunks' = chunks \cup ({q} \X (1..k))
    BY <1>2 DEF Makes
  <2>3. \A c \in {q} \X (1..k) : c[1] = q /\ c \in {q} \X Nat
    OBVIOUS
  <2> QED BY <1>2, <2>1, <2>2, <2>3 DEF Makes
<1>3. CASE CommitLinks(q)
  BY <1>3 DEF CommitLinks, SeenEdges
<1>4. CASE Forget(q) \/ DeleteEdges(q) \/ DeleteDocument(q) \/ DeletePackage(q)
  BY <1>4 DEF Forget, DeleteEdges, DeleteDocument, DeletePackage, OfOthers
<1> QED BY <1>1, <1>2, <1>3, <1>4 DEF Stores

\* What is settled is not made again.
LEMMA SettledGoneStaysGone ==
  ASSUME DocumentsInv, NEW q \in Requests, UNCHANGED store \/ Stores(q), NEW d, Settled(d)
  PROVE  /\ d \notin docs => d \notin docs'
         /\ d \notin packages => d \notin packages'
         /\ (\A c \in chunks : c[1] # d) => \A c \in chunks' : c[1] # d
BY DocsMove

\* A subject that is there stays, whatever becomes of its type.
LEMMA SubjectsStay ==
  ASSUME DocumentsInv, NEW q \in Requests, UNCHANGED store \/ Stores(q)
  PROVE  \A n \in Names : type[n] # "none" => type'[n] # "none"
<1>1. CASE CommitLinks(q)
  <2>1. \A l : SubjectType(l) # "none"
    BY DEF SubjectType
  <2> QED BY <1>1, <2>1 DEF CommitLinks
<1>2. CASE ~CommitLinks(q)
  <2>1. type' = type
    BY <1>2 DEF Stores, store, Makes, Forget, DeleteEdges, DeleteDocument, DeletePackage
  <2> QED BY <2>1
<1> QED BY <1>1, <1>2

\* Where a handler is and what it holds, while another moves.
LEMMA CourseStays ==
  ASSUME DocumentsInv, Ahead, NEW q \in Requests, UNCHANGED store \/ Stores(q),
         NEW p \in Requests, Still(p),
         pc[p] \in Holding => loop'[host[p]] = p
  PROVE  DocCourse(p)' /\ Jobs(p)'
<1>1. DocTypes /\ DocCourse(p) /\ Jobs(p) /\ \A r \in Requests : before[r] \subseteq Finished
  BY DEF DocumentsInv, DocSane, DocCourse
<1>2. /\ before'[p] \subseteq Finished' /\ \A d : Settled(d) => Settled(d)'
      /\ Doc(p)' = Doc(p) /\ \A n : Links(p, n)' <=> Links(p, n)
      /\ \A a, l : Asks(p, a, l)' <=> Asks(p, a, l)
  BY <1>1, AheadFacts
<1>3. UNCHANGED <<forgets, call, host>>
  BY DEF Ahead
<1>4. tx[p].newEdges \cup tx[p].newTags # {} \/ tx[p].prim # "keep" => Doc(p) \in docs'
  <2>1. SUFFICES ASSUME tx[p].newEdges \cup tx[p].newTags # {} \/ tx[p].prim # "keep",
                        Doc(p) \notin docs'
                 PROVE FALSE
    OBVIOUS
  <2>2. Doc(p) \in docs
    BY <1>1, <2>1 DEF DocCourse
  <2>3. Unblocked(Doc(p))
    BY <2>1, <2>2, DocsMove
  <2> QED BY <2>1, <2>3 DEF Unblocked, Busy, Rows
<1>5. pc[p] = "delete_package" => call[p].doc \notin docs'
  BY <1>1, SettledGoneStaysGone DEF DocCourse
<1>6. call[p].op = "delete" /\ reply[p] = "ok" =>
        /\ call[p].doc \notin docs' \cup packages'
        /\ forgets => \A c \in chunks' : c[1] # call[p].doc
  BY <1>1, SettledGoneStaysGone DEF DocCourse
<1>7. DocCourse(p)'
  BY <1>1, <1>2, <1>3, <1>4, <1>5, <1>6 DEF DocCourse, Still
<1>8. Jobs(p)'
  <2>1. tx'[p] = tx[p] /\ pc'[p] = pc[p] /\ todo'[p] = todo[p] /\ Current(p)' = Current(p)
    BY DEF Still, Current
  <2>2. \A n \in Names : Known(p, n) => Known(p, n)'
    BY <2>1, SubjectsStay DEF Known
  <2>3. /\ pc[p] \in LinkSteps => Current(p).name \in Names
        /\ \A t \in tx[p].newEdges \cup tx[p].newTags : t.name \in Names
    <3>1. pc[p] \in LinkSteps => todo[p] \in Seq(Job) /\ todo[p] # <<>>
      BY <1>1 DEF Jobs, DocTypes
    <3>2. tx[p].newEdges \subseteq RowType /\ tx[p].newTags \subseteq RowType
      BY <1>1 DEF DocTypes, TxType
    <3>3. ASSUME pc[p] \in LinkSteps PROVE Current(p).name \in Names
      <4>1. Head(todo[p]) = todo[p][1] /\ todo[p][1] \in Job
        BY <3>1, <3>3
      <4> QED BY <4>1 DEF Current, Job, Link
    <3> QED BY <3>2, <3>3 DEF RowType
  <2> QED BY <1>1, <1>2, <1>3, <2>1, <2>2, <2>3 DEF Jobs
<1> QED BY <1>7, <1>8

\* What q does to the tags and edges of a document that is there before and after.
LEMMA RowsMove ==
  ASSUME DocumentsInv, NEW q \in Requests, UNCHANGED store \/ Stores(q),
         NEW d \in docs \cap docs'
  PROVE  /\ (CommitLinks(q) /\ Doc(q) = d) \/ \A t : t.doc = d => (t \in tags' <=> t \in tags)
         /\ \/ CommitLinks(q) /\ Doc(q) = d
            \/ DeleteEdges(q) /\ call[q].doc = d
            \/ \A e : e.doc = d => (e \in edges' <=> e \in edges)
         /\ (CommitLinks(q) /\ Doc(q) = d) \/ primary'[d] = primary[d]
<1>1. DocTypes /\ Jobs(q) /\ d \in Docs
  BY DEF DocumentsInv, DocSane, DocTypes
<1>2. CASE UNCHANGED store \/ Makes(q)
  BY <1>2 DEF store, Makes
<1>3. CASE CommitLinks(q)
  <2>1. SUFFICES ASSUME Doc(q) # d
                 PROVE  /\ \A t : t.doc = d => (t \in tags' <=> t \in tags)
                        /\ \A e : e.doc = d => (e \in edges' <=> e \in edges)
                        /\ primary'[d] = primary[d]
    BY <1>3
  <2>2. /\ tags' = SeenTags(q) /\ edges' = SeenEdges(q)
        /\ primary' = [primary EXCEPT ![Doc(q)] = SeenPrimary(q)] /\ pc[q] = "commit"
    BY <1>3 DEF CommitLinks
  <2>3. \A t : t.doc = d => /\ t \notin tx[q].newEdges \cup tx[q].newTags
                            /\ t \notin tx[q].oldEdges \cup tx[q].oldTags
    BY <1>1, <2>1, <2>2 DEF Jobs, Linking, UnlinkSteps, LinkSteps
  <2> QED BY <1>1, <2>1, <2>2, <2>3 DEF SeenTags, SeenEdges, DocTypes
<1>4. CASE Forget(q) \/ DeleteDocument(q)
  <2>1. /\ docs' = docs \ {call[q].doc} /\ tags' = OfOthers(tags, call[q].doc)
        /\ primary' = [primary EXCEPT ![call[q].doc] = ""]
        /\ edges' \in {edges, OfOthers(edges, call[q].doc)}
    BY <1>4 DEF Forget, DeleteDocument
  <2>2. call[q].doc # d
    BY <2>1
  <2>3. primary'[d] = primary[d]
    BY <1>1, <2>1, <2>2 DEF DocTypes
  <2> QED BY <2>1, <2>2, <2>3 DEF OfOthers
<1>5. CASE DeleteEdges(q) \/ DeletePackage(q)
  BY <1>5 DEF DeleteEdges, DeletePackage, OfOthers
<1> QED BY <1>2, <1>3, <1>4, <1>5 DEF Stores

\* The links of a document, when the transaction of q has not entered any.
LEMMA PointedStays ==
  ASSUME DocumentsInv, Ahead, NEW q \in Requests, UNCHANGED store \/ Stores(q),
         NEW p \in Requests, Still(p), UNCHANGED store \/ p # q
  PROVE  Pointed(p)'
<1>1. /\ DocTypes /\ DocCourse(p) /\ Pointed(p) /\ Referenced
      /\ \A r \in Requests : before[r] \subseteq Finished
  BY DEF DocumentsInv, DocSane, DocCourse
<1>2. /\ Doc(p)' = Doc(p) /\ \A d : Disputed(d) => Disputed(d)'
      /\ tx'[p] = tx[p] /\ pc'[p] = pc[p] /\ Current(p)' = Current(p)
  BY <1>1, AheadFacts DEF Still, Current
<1> DEFINE d == Doc(p)
<1>3. SUFFICES ASSUME pc[p] \in Linking, d \in docs', ~Disputed(d)
               PROVE  /\ Tagged(d, SeenPrimary(p)', SeenTags(p)')
                      /\ Tagged(d, tx[p].first, SeenTags(p)')
                      /\ pc[p] = "retag" => Of(SeenTags(p)', d, Current(p)) # {}
                      /\ pc[p] \in {"findtag", "untag"} => SeenPrimary(p)' # Current(p).name
  BY <1>2 DEF Pointed, Tagged, Of
<1>4. d \in docs
  BY <1>1, <1>3, SettledGoneStaysGone DEF DocCourse
<1>5. /\ Tagged(d, SeenPrimary(p), SeenTags(p)) /\ Tagged(d, tx[p].first, SeenTags(p))
      /\ pc[p] = "retag" => Of(SeenTags(p), d, Current(p)) # {}
      /\ pc[p] \in {"findtag", "untag"} => SeenPrimary(p) # Current(p).name
  BY <1>1, <1>3, <1>4 DEF Pointed
<1>6. ~(CommitLinks(q) /\ Doc(q) = d) \/ UNCHANGED store
  <2>1. SUFFICES ASSUME CommitLinks(q), p # q, Doc(q) = d PROVE FALSE
    OBVIOUS
  <2>2. pc[q] \in Linking
    BY <2>1 DEF CommitLinks, Linking, UnlinkSteps, LinkSteps
  <2>3. q \in Linkers /\ p \in Linkers /\ Overlap(q, p) /\ host[q] # host[p]
    BY <1>3, <2>1, <2>2, LinkersOverlap
  <2> QED BY <1>3, <2>1, <2>3 DEF Disputed
<1>7. primary'[d] = primary[d] /\ \A t : t.doc = d => (t \in tags' <=> t \in tags)
  BY <1>3, <1>4, <1>6, RowsMove DEF store
<1>8. SeenPrimary(p)' = SeenPrimary(p)
  BY <1>2, <1>7 DEF SeenPrimary
<1>9. \A t : t.doc = d => (t \in SeenTags(p)' <=> t \in SeenTags(p))
  BY <1>2, <1>7 DEF SeenTags
<1>10. \A l : Of(SeenTags(p)', d, l) = Of(SeenTags(p), d, l)
  BY <1>9 DEF Of
<1> QED BY <1>5, <1>8, <1>10 DEF Tagged

\* A subject that one handler is about to register is not made by another.
LEMMA UnregisteredStays ==
  ASSUME DocumentsInv, Ahead, NEW q \in Requests, UNCHANGED store \/ Stores(q),
         NEW p \in Requests, Still(p), UNCHANGED store \/ p # q
  PROVE  Unregistered(p)'
<1>1. /\ DocTypes /\ DocCourse(p) /\ Unregistered(p) /\ Jobs(p) /\ DocCourse(q) /\ Jobs(q)
      /\ \A r \in Requests : before[r] \subseteq Finished
  BY DEF DocumentsInv, DocSane, DocCourse
<1>2. \A n : Contested(n) => Contested(n)'
  BY <1>1, AheadFacts
<1>3. SUFFICES ASSUME NEW n \in Names, Registers(p, n), ~Contested(n)
               PROVE  type'[n] = "none"
  BY <1>2 DEF Unregistered, Registers, Current, Still
<1>4. type[n] = "none"
  BY <1>1, <1>3 DEF Unregistered
<1>5. CASE ~(CommitLinks(q) /\ p # q)
  <2>1. type' = type
    BY <1>5 DEF Stores, store, Makes, Forget, DeleteEdges, DeleteDocument, DeletePackage
  <2> QED BY <1>4, <2>1
<1>6. CASE CommitLinks(q) /\ p # q
  <2>1. pc[p] \in Linking
    <3>1. pc[p] \notin Linking => tx[p] = NoTx
      BY <1>1 DEF DocCourse
    <3>2. NoTx.reg = {}
      BY DEF NoTx
    <3>3. (\E l \in tx[p].reg : l.name = n) => tx[p] # NoTx
      BY <3>2, Zenon
    <3> QED BY <1>3, <3>1, <3>3 DEF Registers, Linking, UnlinkSteps, LinkSteps
  <2>2. Links(p, n)
    <3>1. CASE \E l \in tx[p].reg : l.name = n
      BY <1>1, <2>1, <3>1 DEF Jobs
    <3>2. CASE pc[p] = "register" /\ Current(p).name = n
      <4>1. todo[p] \in Seq(Job) /\ todo[p] # <<>> /\ Head(todo[p]).act = "link"
        BY <1>1, <3>2 DEF Jobs, DocTypes, LinkSteps
      <4>2. 1 \in 1..Len(todo[p]) /\ Head(todo[p]) = todo[p][1]
        BY <4>1
      <4>3. \E k \in DOMAIN call[p].jobs : call[p].jobs[k] = todo[p][1]
        BY <1>1, <2>1, <4>2 DEF Jobs, Left
      <4> QED BY <3>2, <4>1, <4>2, <4>3 DEF Links, Current
    <3> QED BY <1>3, <3>1, <3>2 DEF Registers
  <2>3. q \in Linkers /\ p \in Linkers /\ Overlap(q, p) /\ host[q] # host[p]
    BY <1>6, <2>1, LinkersOverlap DEF CommitLinks, Linking, UnlinkSteps, LinkSteps
  <2>4. ~Links(q, n)
    BY <1>3, <2>2, <2>3 DEF Contested
  <2>5. ~\E l \in tx[q].reg : l.name = n
    BY <1>1, <1>6, <2>4 DEF Jobs, CommitLinks, Linking, UnlinkSteps, LinkSteps
  <2> QED BY <1>4, <1>6, <2>5 DEF CommitLinks
<1> QED BY <1>5, <1>6

\* What a DELETE has missed, while another handler moves.
LEMMA MissedStays ==
  ASSUME DocumentsInv, Ahead, NEW q \in Requests, UNCHANGED store \/ Stores(q),
         NEW p \in Requests, Still(p), UNCHANGED store \/ p # q
  PROVE  Missed(p)'
<1>1. /\ DocTypes /\ DocCourse(p) /\ Missed(p) /\ DocCourse(q) /\ Jobs(q)
      /\ \A r \in Requests : before[r] \subseteq Finished
  BY DEF DocumentsInv, DocSane, DocCourse
<1>2. /\ \A r, s \in Requests : Overlap(r, s) => Overlap(r, s)'
      /\ \A r : Doc(r)' = Doc(r) /\ (\A n : Links(r, n)' <=> Links(r, n))
      /\ Linkers' = Linkers
  BY <1>1, AheadFacts
<1>3. UNCHANGED <<forgets, call, host>>
  BY DEF Ahead
<1>4. SUFFICES ASSUME call[p].op = "delete",
                      pc[p] \in {"delete_document", "delete_package"} \/ reply[p] = "ok",
                      NEW e \in edges', e.doc = call[p].doc
               PROVE  /\ ~forgets
                      /\ \E r \in Linkers : /\ Doc(r) = call[p].doc /\ Links(r, e.name)
                                            /\ Overlap(r, p)
  <2>1. \A r \in Linkers : r \in Requests
    BY DEF Linkers
  <2> QED BY <1>2, <1>3, <1>4, <2>1 DEF Missed, Still
<1>5. CASE e \in edges
  BY <1>1, <1>4, <1>5 DEF Missed
<1>6. CASE CommitLinks(q) /\ e \in tx[q].newEdges /\ p # q
  <2>1. pc[q] = "commit" /\ pc[q] \in Linking
    BY <1>6 DEF CommitLinks, Linking, UnlinkSteps, LinkSteps
  <2>2. e.doc = Doc(q) /\ Asks(q, "link", LinkOf(e))
    BY <1>1, <1>6, <2>1 DEF Jobs
  <2>3. Doc(q) \in docs /\ q \in Linkers /\ Links(q, e.name)
    BY <1>1, <1>6, <2>1, <2>2 DEF DocCourse, Linkers, Asks, Links, LinkOf
  <2>4. pc[p] = "delete_document" /\ ~forgets
    BY <1>1, <1>4, <2>2, <2>3 DEF DocCourse
  <2>6. Overlap(q, p)
    BY <1>1, <1>6, <2>1, <2>4 DEF Overlap, DocCourse, Finished
  <2> QED BY <1>4, <2>2, <2>3, <2>4, <2>6
<1>7. edges = edges' \/ p # q
  BY DEF store
<1> QED BY <1>4, <1>5, <1>6, <1>7, DocsMove

\* What a search has fetched and found, while another handler moves.
LEMMA SearchedStays ==
  ASSUME DocumentsInv, Ahead, NEW q \in Requests, UNCHANGED store \/ Stores(q),
         NEW p \in Requests, Still(p), UNCHANGED store \/ p # q
  PROVE  Searched(p)'
<1>1. /\ DocTypes /\ DocCourse(p) /\ Searched(p) /\ Referenced
      /\ \A r \in Requests : before[r] \subseteq Finished
  BY DEF DocumentsInv, DocSane, DocCourse
<1>2. \A d : Settled(d) => Settled(d)'
  BY <1>1, AheadFacts
<1>3. UNCHANGED <<forgets, call, host>>
  BY DEF Ahead
<1>4. \A d \in InitDocs \cup before[p] \cup {NoDoc} : Settled(d)
  BY <1>1, InitAssumption, DocumentsAssumption DEF DocCourse, Settled, Finished, Docs, Early
<1>5. Older(p)' \subseteq Older(p)
  <2>1. ASSUME NEW c \in Older(p)' PROVE c \in Older(p)
    <3>1. c \in chunks' /\ c \in (InitDocs \cup before[p] \cup {NoDoc}) \X Nat
      BY <2>1 DEF Older, Still
    <3>2. c[1] \in InitDocs \cup before[p] \cup {NoDoc}
      BY <3>1
    <3>3. c \in chunks
      BY <1>4, <3>1, <3>2, DocsMove
    <3> QED BY <3>1, <3>3 DEF Older
  <2> QED BY <2>1
<1>6. \A S : (\A c \in S : Settled(c[1])) => Kept(S)' \subseteq Kept(S)
  BY DocsMove DEF Kept
<1>7. \A c \in Older(p) : Settled(c[1])
  BY <1>4 DEF Older
<1>8. Kept(Older(p))' \subseteq Kept(Older(p))
  BY <1>1, <1>5, <1>7, DocsMove DEF Kept
<1>9. IsFiniteSet(hits[p]) /\ Kept(hits[p])' \subseteq Kept(hits[p]) /\ hits'[p] = hits[p]
  BY <1>1, <1>6, DocsMove DEF Searched, Kept, Still
<1>10. Cardinality(hits'[p] \ Kept(hits[p])') >= Cardinality(hits[p] \ Kept(hits[p]))
       /\ Cardinality(hits[p] \ Kept(hits[p])) \in Nat
       /\ Cardinality(hits'[p] \ Kept(hits[p])') \in Nat
  <2> DEFINE A == hits'[p] \ Kept(hits[p])'
             B == hits[p] \ Kept(hits[p])
  <2>1. IsFiniteSet(A) /\ IsFiniteSet(B) /\ B \subseteq A
    <3>1. A \subseteq hits[p] /\ B \subseteq hits[p] /\ B \subseteq A
      BY <1>9
    <3> QED BY <1>9, <3>1, FS_Subset
  <2> HIDE DEF A, B
  <2>2. Cardinality(B) <= Cardinality(A) /\ Cardinality(A) \in Nat /\ Cardinality(B) \in Nat
    BY <2>1, FS_Subset, FS_CardinalityType
  <2> QED BY <2>2 DEF A, B
<1>11. (call[p].op = "search" /\ reply[p] = "ok" /\ Cardinality(result[p]) < Limit) =>
       \/ Kept(Older(p))' \subseteq result[p]
       \/ Cardinality(hits'[p] \ Kept(hits[p])') > (Overfetch - 1) * Limit
  <2>1. (Overfetch - 1) * Limit \in Int
    <3>1. Overfetch \in Nat /\ Limit \in Nat
      BY DocumentsAssumption, Zenon
    <3>2. Overfetch - 1 \in Int
      BY <3>1
    <3> QED BY <3>1, <3>2
  <2> DEFINE a == Cardinality(hits'[p] \ Kept(hits[p])')
             b == Cardinality(hits[p] \ Kept(hits[p]))
             m == (Overfetch - 1) * Limit
  <2>2. a >= b /\ a \in Nat /\ b \in Nat /\ m \in Int
    BY <1>10, <2>1
  <2> HIDE DEF a, b, m
  <2>3. b > m => a > m
    BY <2>2
  <2> USE DEF a, b, m
  <2> QED BY <1>1, <1>8, <2>3 DEF Searched
<1>12. \A c \in result[p] : ~\E d \in before[p] : Deletes(d, c[1]) /\ reply'[d] = "ok"
  <2>1. \A d \in before[p] : d \in Requests /\ reply'[d] = reply[d]
    BY <1>1 DEF DocCourse, Ahead, Finished
  <2> QED BY <1>1, <2>1 DEF Searched
<1>13. \A c \in hits[p] : Settled(c[1])'
  BY <1>1, <1>2 DEF Searched
<1>14. pc[p] = "live" => Cardinality(hits[p]) = Fetch \/ Older(p)' \subseteq hits[p]
  BY <1>1, <1>5 DEF Searched
<1> QED BY <1>3, <1>9, <1>11, <1>12, <1>13, <1>14 DEF Searched, Still, Deletes

\* A DELETE that has removed the edges only, stays one.
LEMMA UnderStays ==
  ASSUME DocumentsInv, Ahead, NEW q \in Requests, Proceeds(q), NEW d \in docs', Under(d)
  PROVE  Under(d)'
<1>1. \A r \in Requests : reply[r] = "lost" => pc[r] = "done"
  BY DEF DocumentsInv, DocSane, DocCourse
<1>2. PICK r \in Requests : Deletes(r, d) /\ (pc[r] = "delete_document" \/ reply[r] = "lost")
  BY DEF Under
<1>3. ~DeleteDocument(r)
  BY <1>2 DEF DeleteDocument, Deletes
<1>4. pc'[r] = "delete_document" \/ reply'[r] = "lost"
  BY <1>1, <1>2, <1>3 DEF Ahead, Proceeds
<1> QED BY <1>2, <1>4 DEF Under, Deletes, Ahead

\* A DELETE of the edges of d is one that has removed the edges only.
LEMMA UnderBegins ==
  ASSUME DocumentsInv, Ahead, NEW q \in Requests, Proceeds(q), DeleteEdges(q),
         NEW d, call[q].doc = d
  PROVE  Under(d)'
<1>1. call[q].op = "delete" /\ ~forgets /\ pc'[q] = "delete_document"
  BY DEF DocumentsInv, DocSane, DocCourse, DeleteEdges, Proceeds
<1> QED BY <1>1 DEF Under, Deletes, Ahead

\* The edges and the tags of the links of p, while another handler moves: what
\* commits between two statements of p is of the same kind as what p does.
LEMMA BalancedStays ==
  ASSUME DocumentsInv, Ahead, NEW q \in Requests, UNCHANGED store \/ Stores(q), Proceeds(q),
         NEW p \in Requests, Still(p), UNCHANGED store \/ p # q
  PROVE  Balanced(p)'
<1>1. /\ DocTypes /\ DocCourse(p) /\ Balanced(p) /\ Jobs(p) /\ Jobs(q) /\ Balanced(q)
      /\ \A r \in Requests : before[r] \subseteq Finished
  BY DEF DocumentsInv, DocSane, DocCourse
<1>2. /\ Doc(p)' = Doc(p) /\ \A d, l : Contended(d, l) => Contended(d, l)'
      /\ tx'[p] = tx[p] /\ pc'[p] = pc[p] /\ Current(p)' = Current(p)
  BY <1>1, AheadFacts DEF Still, Current
<1>0. PICK d : d = Doc(p)
  OBVIOUS
<1>3. SUFFICES ASSUME pc[p] \in Linking, d \in docs', ~Under(d)', NEW l \in Link,
                      ~Contended(d, l)
               PROVE  Staged(p, l)'
  BY <1>0, <1>2 DEF Balanced
<1>4. d \in docs
  BY <1>0, <1>1, <1>3, SettledGoneStaysGone DEF DocCourse
<1>5. ~Under(d) /\ ~(DeleteEdges(q) /\ call[q].doc = d)
  BY <1>3, UnderStays, UnderBegins
<1>6. Staged(p, l)
  BY <1>0, <1>1, <1>3, <1>4, <1>5 DEF Balanced
<1> DEFINE pe == Of(tx[p].newEdges, d, l)  px == Of(tx[p].oldEdges, d, l)
           pt == Of(tx[p].newTags, d, l)   py == Of(tx[p].oldTags, d, l)
           e == Of(edges, d, l)   t == Of(tags, d, l)
           ee == Of(edges', d, l) tt == Of(tags', d, l)
<1>7. /\ Edge(p, l) = (e \ px) \cup pe /\ Edge(p, l)' = (ee \ px) \cup pe
      /\ TagRow(p, l) = (t \ py) \cup pt /\ TagRow(p, l)' = (tt \ py) \cup pt
      /\ Of(tx[p].oldEdges \cup tx[p].oldTags, d, l) = px \cup py
      /\ Of(tx[p].newEdges \cup tx[p].newTags, d, l) = pe \cup pt
  <2>1. Edge(p, l) = (e \ px) \cup pe /\ TagRow(p, l) = (t \ py) \cup pt
    BY <1>0 DEF Of, Edge, TagRow, SeenEdges, SeenTags
  <2>2. /\ Edge(p, l)' = Of((edges' \ tx[p].oldEdges) \cup tx[p].newEdges, d, l)
        /\ TagRow(p, l)' = Of((tags' \ tx[p].oldTags) \cup tx[p].newTags, d, l)
    BY <1>0, <1>2 DEF Edge, TagRow, SeenEdges, SeenTags, Of
  <2> QED BY <2>1, <2>2 DEF Of
<1>8. /\ pc'[p] = pc[p] /\ tx'[p] = tx[p] /\ Doc(p)' = d
      /\ At(p, l)' <=> At(p, l)
      /\ Cleared(p, l)' <=> (px \cup py = {} \/ pe \cup pt # {} \/ Edge(p, l)' = {})
      /\ Cleared(p, l) <=> (px \cup py = {} \/ pe \cup pt # {} \/ Edge(p, l) = {})
  BY <1>0, <1>2, <1>7 DEF At, Cleared, Of
<1> HIDE DEF pe, px, pt, py, e, t, ee, tt
<1>9. CASE ee = e /\ tt = t
  <2>1. Edge(p, l)' = Edge(p, l) /\ TagRow(p, l)' = TagRow(p, l)
    BY <1>7, <1>9
  <2>2. /\ Cleared(p, l)' <=> Cleared(p, l)
        /\ Even(p, l)' <=> Even(p, l)
        /\ Midway(p, l)' <=> Midway(p, l)
    BY <1>8, <2>1 DEF Midway, Even
  <2> QED BY <1>6, <1>8, <2>2 DEF Staged
<1>10. CASE CommitLinks(q) /\ Doc(q) = d /\ p # q
  <2> DEFINE qe == Of(tx[q].newEdges, d, l)  qx == Of(tx[q].oldEdges, d, l)
             qt == Of(tx[q].newTags, d, l)   qy == Of(tx[q].oldTags, d, l)
  <2>1. /\ pc[q] = "commit" /\ pc[q] \in Linking
        /\ tags' = SeenTags(q) /\ edges' = SeenEdges(q)
    BY <1>10 DEF CommitLinks, Linking, UnlinkSteps, LinkSteps
  <2>2. ee = (e \ qx) \cup qe /\ tt = (t \ qy) \cup qt
    BY <2>1 DEF Of, SeenEdges, SeenTags, e, ee, t, tt
  <2>3. ee # {} <=> tt # {}
    <3>1. Staged(q, l)
      BY <1>1, <1>3, <1>4, <1>5, <1>10, <2>1 DEF Balanced
    <3>2. ~At(q, l)
      BY <2>1 DEF At, UnlinkSteps
    <3>3. Edge(q, l) = ee /\ TagRow(q, l) = tt
      BY <1>10, <2>1 DEF Edge, TagRow, ee, tt
    <3> QED BY <3>1, <3>2, <3>3 DEF Staged, Even
  <2>4. \A k : LinkOf(k) = l \/ ~(k.kind = l.kind /\ k.name = l.name)
    BY DEF LinkOf, Link
  <2>5. \A r \in {p, q} :
          /\ Of(tx[r].newEdges \cup tx[r].newTags, d, l) # {} => Asks(r, "link", l)
          /\ Of(tx[r].oldEdges \cup tx[r].oldTags, d, l) # {} => Asks(r, "unlink", l)
    BY <1>0, <1>1, <1>3, <1>10, <2>1, <2>4 DEF Jobs, Of
  <2>6. /\ qe \cup qt # {} => Asks(q, "link", l)
        /\ qx \cup qy # {} => Asks(q, "unlink", l)
        /\ pe \cup pt # {} => Asks(p, "link", l)
        /\ px \cup py # {} => Asks(p, "unlink", l)
    BY <2>5 DEF Of, pe, pt, px, py
  <2>7. /\ ~(Asks(q, "link", l) /\ Asks(p, "unlink", l))
        /\ ~(Asks(p, "link", l) /\ Asks(q, "unlink", l))
    <3>1. /\ q \in Linkers /\ p \in Linkers /\ Overlap(q, p) /\ Overlap(p, q)
          /\ host[q] # host[p]
      BY <1>3, <1>10, <2>1, LinkersOverlap
    <3> QED BY <1>0, <1>3, <1>10, <3>1 DEF Contended
  <2>8. /\ At(p, l) /\ pc[p] \in UnlinkSteps => Asks(p, "unlink", l)
        /\ At(p, l) /\ pc[p] \notin UnlinkSteps => Asks(p, "link", l)
    <3>1. SUFFICES ASSUME At(p, l)
                   PROVE  Asks(p, IF pc[p] \in UnlinkSteps THEN "unlink" ELSE "link", l)
      OBVIOUS
    <3>2. /\ todo[p] # <<>> /\ todo[p] \in Seq(Job)
          /\ Head(todo[p]).act = IF pc[p] \in UnlinkSteps THEN "unlink" ELSE "link"
          /\ l = Head(todo[p]).link
      BY <1>1, <3>1 DEF At, Jobs, UnlinkSteps, LinkSteps, DocTypes, Current
    <3>3. Head(todo[p]) = todo[p][1] /\ 1 \in 1..Len(todo[p]) /\ todo[p][1] \in Job
      BY <3>2
    <3>4. \E k \in DOMAIN call[p].jobs : call[p].jobs[k] = todo[p][1]
      BY <1>1, <1>3, <3>3 DEF Jobs, Left
    <3>5. todo[p][1] = [act |-> todo[p][1].act, link |-> todo[p][1].link]
      BY <3>3 DEF Job
    <3> QED BY <3>2, <3>3, <3>4, <3>5 DEF Asks
  <2> HIDE DEF qe, qx, qt, qy
  <2>9. CASE Asks(q, "link", l) /\ Asks(q, "unlink", l)
    <3>1. ~At(p, l) /\ pe = {} /\ pt = {} /\ px = {} /\ py = {}
      BY <2>6, <2>7, <2>8, <2>9
    <3> QED BY <1>7, <1>8, <2>3, <3>1 DEF Staged, Even
  <2>10. CASE Asks(q, "link", l) /\ ~Asks(q, "unlink", l)
    <3>1. px = {} /\ py = {} /\ e \subseteq ee /\ t \subseteq tt
      BY <2>2, <2>6, <2>7, <2>10
    <3>2. At(p, l) => pc[p] \notin UnlinkSteps
      BY <2>7, <2>8, <2>10
    <3>3. At(p, l) => Midway(p, l)'
      <4>1. Edge(p, l) \subseteq Edge(p, l)' /\ TagRow(p, l) \subseteq TagRow(p, l)'
        BY <1>7, <3>1
      <4>2. At(p, l) => Midway(p, l)
        BY <1>6 DEF Staged
      <4> QED BY <1>8, <3>2, <4>1, <4>2 DEF Midway, UnlinkSteps
    <3>4. At(p, l) \/ Even(p, l)'
      BY <1>6, <1>7, <2>3, <3>1 DEF Staged, Even
    <3>5. Cleared(p, l)' /\ (At(p, l)' <=> At(p, l))
      BY <1>8, <3>1
    <3>6. Even(p, l)' \/ At(p, l)'
      BY <3>4, <3>5
    <3> QED BY <3>3, <3>5, <3>6 DEF Staged
  <2>11. CASE ~Asks(q, "link", l) /\ Asks(q, "unlink", l)
    <3>1. pe = {} /\ pt = {} /\ ee \subseteq e /\ tt \subseteq t
      BY <2>2, <2>6, <2>7, <2>11
    <3>2. At(p, l) => pc[p] \in UnlinkSteps
      BY <2>7, <2>8, <2>11
    <3>3. Edge(p, l)' \subseteq Edge(p, l) /\ TagRow(p, l)' \subseteq TagRow(p, l)
      BY <1>7, <3>1
    <3>4. At(p, l) => Midway(p, l)'
      <4>1. At(p, l) => Midway(p, l)
        BY <1>6 DEF Staged
      <4>2. ASSUME At(p, l) PROVE Midway(p, l)'
        <5>1. Midway(p, l) /\ pc[p] \in UnlinkSteps
          BY <3>2, <4>1, <4>2
        <5> QED BY <1>8, <3>3, <5>1 DEF Midway, UnlinkSteps
      <4> QED BY <4>2
    <3>5. At(p, l) \/ Even(p, l)'
      <4>1. SUFFICES ASSUME ~At(p, l) PROVE Even(p, l)'
        OBVIOUS
      <4>2. Even(p, l) /\ Cleared(p, l)
        BY <1>6, <4>1 DEF Staged
      <4>3. CASE px \cup py = {}
        BY <1>7, <2>3, <3>1, <4>3 DEF Even
      <4>4. CASE px \cup py # {}
        BY <1>8, <3>1, <3>3, <4>2, <4>4 DEF Even
      <4> QED BY <4>3, <4>4
    <3>6. /\ At(p, l)' <=> At(p, l)
          /\ (At(p, l) /\ pc'[p] = "unedge") \/ Cleared(p, l)'
      <4>1. (At(p, l) /\ pc[p] = "unedge") \/ Cleared(p, l)
        BY <1>6 DEF Staged
      <4>2. Cleared(p, l) => Cleared(p, l)'
        BY <1>8, <3>1, <3>3
      <4> QED BY <1>8, <4>1, <4>2
    <3> QED BY <3>4, <3>5, <3>6 DEF Staged
  <2>12. CASE ~Asks(q, "link", l) /\ ~Asks(q, "unlink", l)
    <3>1. ee = e /\ tt = t
      BY <2>2, <2>6, <2>12
    <3> QED BY <1>9, <3>1
  <2> QED BY <2>9, <2>10, <2>11, <2>12
<1>11. CASE ~(CommitLinks(q) /\ Doc(q) = d /\ p # q)
  <2>1. ee = e
    BY <1>3, <1>4, <1>5, <1>11, RowsMove DEF Of, store, e, ee
  <2>2. tt = t
    BY <1>3, <1>4, <1>11, RowsMove DEF Of, store, t, tt
  <2> QED BY <1>9, <2>1, <2>2
<1> QED BY <1>10, <1>11

\* All of it, of a handler that stands still.
LEMMA DocSaneStays ==
  ASSUME DocumentsInv, Ahead, NEW q \in Requests, UNCHANGED store \/ Stores(q), Proceeds(q),
         NEW p \in Requests, Still(p), UNCHANGED store \/ p # q,
         pc[p] \in Holding => loop'[host[p]] = p
  PROVE  DocSane(p)'
BY CourseStays, PointedStays, BalancedStays, UnregisteredStays, MissedStays, SearchedStays
DEF DocSane

\* What is stored, when q has done its step.
LEMMA ReferencedStays ==
  ASSUME DocumentsInv, Ahead, NEW q \in Requests, UNCHANGED store \/ Stores(q)
  PROVE  Referenced'
<1>1. /\ DocTypes /\ Referenced /\ DocCourse(q) /\ Jobs(q)
      /\ \A r \in Requests : before[r] \subseteq Finished
  BY DEF DocumentsInv, DocSane, DocCourse
<1>2. (\A d : Settled(d) => Settled(d)') /\ forgets' = forgets
  BY <1>1, AheadFacts DEF Ahead
<1>3. CASE UNCHANGED store
  <2>1. UNCHANGED <<docs, tags, edges, chunks, primary, forgets, type>>
    BY <1>3 DEF store
  <2>2. /\ \A d \in docs : Settled(d)'
        /\ \A e \in edges : Settled(e.doc)' /\ (forgets => e.doc \in docs)
        /\ \A c \in chunks : Settled(c[1])'
        /\ \A d \in Docs : Settled(d)' \/ primary[d] = ""
    BY <1>1, <1>2 DEF Referenced, Settled
  <2>3. /\ \A t \in tags : t.doc \in docs
        /\ \A t \in tags \cup edges : type[t.name] # "none"
    BY <1>1 DEF Referenced
  <2> QED BY <2>1, <2>2, <2>3 DEF Referenced, Settled
<1>4. CASE Makes(q)
  <2>1. docs' # docs \/ chunks' # chunks => Settled(q)'
    BY <1>4 DEF Makes, Settled
  <2>2. (\A d \in docs' : Settled(d)') /\ \A c \in chunks' : Settled(c[1])'
    BY <1>1, <1>2, <2>1, DocsMove DEF Referenced, Stores, Settled
  <2>3. docs \subseteq docs' /\ UNCHANGED <<tags, edges, primary, forgets, type>>
    BY <1>4 DEF Makes
  <2>4. /\ \A t \in tags : t.doc \in docs'
        /\ \A t \in tags \cup edges : type[t.name] # "none"
    BY <1>1, <2>3 DEF Referenced
  <2>5. /\ \A e \in edges : Settled(e.doc)' /\ (forgets => e.doc \in docs')
        /\ \A d \in Docs : Settled(d)' \/ primary[d] = ""
    BY <1>1, <1>2, <2>3 DEF Referenced, Settled
  <2> QED BY <2>2, <2>3, <2>4, <2>5 DEF Referenced, Settled
<1>5. CASE CommitLinks(q)
  <2>1. tx[q].newEdges \cup tx[q].newTags # {} => Doc(q) \in docs
    BY <1>1 DEF DocCourse
  <2>2. \A t \in tx[q].newEdges \cup tx[q].newTags : t.doc = Doc(q) /\ Doc(q) \in docs
    BY <1>1, <1>5, <2>1 DEF Jobs, CommitLinks, Linking, UnlinkSteps, LinkSteps
  <2>3. \A d \in Docs : Settled(d) \/ primary'[d] = ""
    <3>1. Doc(q) \in docs \/ SeenPrimary(q) = primary[Doc(q)]
      BY <1>1 DEF DocCourse, SeenPrimary
    <3> QED BY <1>1, <1>5, <3>1 DEF Referenced, CommitLinks, DocTypes
  <2>4. /\ docs' = docs /\ chunks' = chunks
        /\ \A t \in tags' : t \in tags \/ t \in tx[q].newTags
        /\ \A e \in edges' : e \in edges \/ e \in tx[q].newEdges
    BY <1>5 DEF CommitLinks, SeenTags, SeenEdges
  <2>5. (\A d \in docs' : Settled(d)') /\ (\A c \in chunks' : Settled(c[1])')
    BY <1>1, <1>2, <2>4 DEF Referenced
  <2>6. \A t \in tags' : t.doc \in docs'
    BY <1>1, <2>2, <2>4 DEF Referenced
  <2>7. \A e \in edges' : Settled(e.doc)' /\ (forgets' => e.doc \in docs')
    BY <1>1, <1>2, <2>2, <2>4 DEF Referenced
  <2>8. \A t \in tags' \cup edges' : type'[t.name] # "none"
    <3>1. /\ \A t \in tags' \cup edges' : t \in RowType
          /\ \A t \in RowType : t.name \in Names
      <4>1. tx[q].newEdges \subseteq RowType /\ tx[q].newTags \subseteq RowType
        BY <1>1 DEF DocTypes, TxType
      <4> QED BY <1>1, <2>4, <4>1 DEF DocTypes, RowType
    <3>2. \A t \in tags \cup edges : t \in RowType => type'[t.name] # "none"
      BY <1>1, <3>1, SubjectsStay DEF Referenced
    <3>3. \A t \in tx[q].newTags \cup tx[q].newEdges : t \in RowType => type'[t.name] # "none"
      <4>1. SUFFICES ASSUME NEW t \in tx[q].newTags \cup tx[q].newEdges, t.name \in Names
                     PROVE  type'[t.name] # "none"
        BY <3>1
      <4>2. Known(q, t.name)
        BY <1>1, <1>5 DEF Jobs, CommitLinks, Linking, UnlinkSteps, LinkSteps
      <4>3. CASE type[t.name] # "none"
        BY <4>1, <4>3, SubjectsStay
      <4>4. CASE \E l \in tx[q].reg : l.name = t.name
        <5>1. type'[t.name] = SubjectType(CHOOSE l \in tx[q].reg : l.name = t.name)
          BY <1>5, <4>1, <4>4 DEF CommitLinks
        <5> QED BY <5>1 DEF SubjectType
      <4> QED BY <4>2, <4>3, <4>4 DEF Known
    <3> QED BY <2>4, <3>1, <3>2, <3>3
  <2> QED BY <1>2, <2>3, <2>5, <2>6, <2>7, <2>8 DEF Referenced
<1>6. CASE Forget(q) \/ DeleteEdges(q) \/ DeleteDocument(q) \/ DeletePackage(q)
  <2>1. /\ docs' \subseteq docs /\ chunks' \subseteq chunks
        /\ tags' \subseteq tags /\ edges' \subseteq edges /\ type' = type
        /\ \A t \in tags' : t.doc \in docs => t.doc \in docs'
        /\ forgets => \A e \in edges' : e.doc \in docs => e.doc \in docs'
        /\ \A d \in Docs : primary'[d] \in {primary[d], ""}
    <3>1. CASE Forget(q)
      BY <1>1, <3>1 DEF Forget, OfOthers, DocTypes
    <3>2. CASE DeleteEdges(q)
      BY <1>1, <3>2 DEF DeleteEdges, OfOthers
    <3>3. CASE DeleteDocument(q)
      BY <1>1, <3>3 DEF DeleteDocument, OfOthers, DocTypes, DocCourse
    <3>4. CASE DeletePackage(q)
      BY <3>4 DEF DeletePackage
    <3> QED BY <1>6, <3>1, <3>2, <3>3, <3>4
  <2> QED BY <1>1, <1>2, <2>1 DEF Referenced, Settled
<1> QED BY <1>3, <1>4, <1>5, <1>6 DEF Stores

\* The properties of the tags and edges of a document.
LEMMA MirroredMeans ==
  TagsAreMirrored <=>
    \A d \in docs :
      /\ Under(d) \/ \A l \in Link : Contended(d, l) \/
           (Of(edges, d, l) # {} <=> Of(tags, d, l) # {})
      /\ Tagged(d, primary[d], tags) \/ Disputed(d)
<1>1. \A d : Under(d) <=> (~forgets /\ \E r \in Requests :
              Deletes(r, d) /\ (pc[r] = "delete_document" \/ reply[r] = "lost"))
  BY DEF Under
<1>2. \A d : Disputed(d) <=> (\E q, r \in Linkers : /\ Doc(q) = d /\ Doc(r) = d
                                                  /\ Overlap(q, r) /\ host[q] # host[r])
  BY DEF Disputed
<1>3. \A d : Tagged(d, primary[d], tags) <=>
               (primary[d] = "" \/ Of(tags, d, [kind |-> "project", name |-> primary[d]]) # {})
  BY DEF Tagged
<1> QED BY <1>1, <1>2, <1>3, Zenon DEF TagsAreMirrored

\* A transaction of links leaves an edge for every tag, and a tag for every edge,
\* unless what it does is contended.
LEMMA MirroredStays ==
  ASSUME DocumentsInv, Ahead, NEW q \in Requests, UNCHANGED store \/ Stores(q), Proceeds(q)
  PROVE  TagsAreMirrored'
<1>1. /\ DocTypes /\ Referenced /\ DocCourse(q) /\ TagsAreMirrored /\ Pointed(q) /\ Balanced(q)
      /\ \A r \in Requests : before[r] \subseteq Finished
  BY DEF DocumentsInv, DocSane, DocCourse
<1>2. /\ \A d : Disputed(d) => Disputed(d)'
      /\ \A d, l : Contended(d, l) => Contended(d, l)'
  BY <1>1, AheadFacts
<1> DEFINE Same(d, l, E, T) == Of(E, d, l) # {} <=> Of(T, d, l) # {}
<1>3. SUFFICES ASSUME NEW d \in docs'
               PROVE  /\ Under(d)' \/ \A l \in Link : Contended(d, l)' \/ Same(d, l, edges', tags')
                      /\ Tagged(d, primary'[d], tags') \/ Disputed(d)'
  <2>1. TagsAreMirrored' <=>
          \A d \in docs' :
            /\ Under(d)' \/ \A l \in Link : Contended(d, l)' \/
                 (Of(edges', d, l) # {} <=> Of(tags', d, l) # {})
            /\ Tagged(d, primary'[d], tags') \/ Disputed(d)'
    <3>1. \A d : /\ Under(d)' <=> (~forgets' /\ \E r \in Requests :
                      Deletes(r, d)' /\ (pc'[r] = "delete_document" \/ reply'[r] = "lost"))
                 /\ Disputed(d)' <=>
                      (\E p, r \in Linkers' : /\ Doc(p)' = d /\ Doc(r)' = d
                                              /\ Overlap(p, r)' /\ host'[p] # host'[r])
                 /\ Tagged(d, primary'[d], tags') <=> (primary'[d] = "" \/
                       Of(tags', d, [kind |-> "project", name |-> primary'[d]]) # {})
      BY DEF Under, Disputed, Tagged
    <3>2. TagsAreMirrored' <=>
            \A d \in docs' :
              /\ \/ ~forgets' /\ \E r \in Requests :
                      Deletes(r, d)' /\ (pc'[r] = "delete_document" \/ reply'[r] = "lost")
                 \/ \A l \in Link : Contended(d, l)' \/
                      (Of(edges', d, l) # {} <=> Of(tags', d, l) # {})
              /\ \/ primary'[d] = ""
                 \/ Of(tags', d, [kind |-> "project", name |-> primary'[d]]) # {}
                 \/ \E p, r \in Linkers' : /\ Doc(p)' = d /\ Doc(r)' = d
                                           /\ Overlap(p, r)' /\ host'[p] # host'[r]
      BY DEF TagsAreMirrored, Of
    <3> QED BY <3>1, <3>2
  <2> QED BY <1>3, <2>1
<1>4. Under(d) => Under(d)'
  BY UnderStays
<1>5. CASE d \notin docs
  <2>1. d = q /\ ~Settled(q)
    BY <1>5, DocsMove
  <2>2. Makes(q)
    BY <1>1, <1>5, <2>1 DEF Stores, store, Forget, DeleteEdges, DeleteDocument, DeletePackage,
                            CommitLinks
  <2>3. tags' = tags /\ edges' = edges /\ primary' = primary
    BY <2>2 DEF Makes
  <2>4. d \in Docs
    BY <2>1 DEF Docs
  <2>5. /\ \A t \in tags : t.doc # d
        /\ \A e \in edges : e.doc # d
        /\ primary[d] = ""
    BY <1>1, <2>1, <2>4 DEF Referenced
  <2>6. \A l : Of(edges', d, l) = {} /\ Of(tags', d, l) = {}
    BY <2>3, <2>5 DEF Of
  <2> QED BY <2>3, <2>5, <2>6 DEF Tagged
<1>6. CASE d \in docs
  <2>1. /\ Under(d) \/ \A l \in Link : Contended(d, l) \/ Same(d, l, edges, tags)
        /\ Tagged(d, primary[d], tags) \/ Disputed(d)
    BY <1>1, <1>6, MirroredMeans
  <2>2. d \in docs \cap docs' /\ d \in Docs
    BY <1>1, <1>6 DEF DocTypes
  <2>3. CASE CommitLinks(q) /\ Doc(q) = d
    <3>1. /\ tags' = SeenTags(q) /\ edges' = SeenEdges(q) /\ primary'[d] = SeenPrimary(q)
          /\ pc[q] = "commit" /\ pc[q] \in Linking
      BY <1>1, <2>2, <2>3 DEF CommitLinks, Linking, UnlinkSteps, LinkSteps, DocTypes
    <3>2. Disputed(d) \/ Tagged(d, SeenPrimary(q), SeenTags(q))
      BY <1>1, <1>6, <2>3, <3>1 DEF Pointed
    <3>3. ASSUME ~Under(d), NEW l \in Link, ~Contended(d, l)
          PROVE  Same(d, l, edges', tags')
      <4>1. Staged(q, l)
        BY <1>1, <1>6, <2>3, <3>1, <3>3 DEF Balanced
      <4>2. ~At(q, l)
        BY <3>1 DEF At, UnlinkSteps
      <4> QED BY <2>3, <3>1, <4>1, <4>2 DEF Staged, Even, Edge, TagRow
    <3> QED BY <1>2, <1>4, <3>1, <3>2, <3>3
  <2>4. CASE ~(CommitLinks(q) /\ Doc(q) = d)
    <3>1. /\ primary'[d] = primary[d]
          /\ \A t : t.doc = d => (t \in tags' <=> t \in tags)
          /\ \/ DeleteEdges(q) /\ call[q].doc = d
             \/ \A e : e.doc = d => (e \in edges' <=> e \in edges)
      BY <2>2, <2>4, RowsMove
    <3>2. \A l : Of(tags', d, l) = Of(tags, d, l)
      BY <3>1 DEF Of
    <3>3. \/ Under(d)'
          \/ \A l : Of(edges', d, l) = Of(edges, d, l)
      <4>1. CASE DeleteEdges(q) /\ call[q].doc = d
        BY <4>1, UnderBegins
      <4>2. CASE \A e : e.doc = d => (e \in edges' <=> e \in edges)
        BY <4>2 DEF Of
      <4> QED BY <3>1, <4>1, <4>2
    <3> QED BY <1>2, <1>4, <2>1, <3>1, <3>2, <3>3 DEF Tagged
  <2> QED BY <2>3, <2>4
<1> QED BY <1>5, <1>6

----------------------------------------------------------------------------
(***************************************************************************)
(* The handler that moves.                                                 *)
(***************************************************************************)

\* The handler of r moves on, or answers.
LEMMA GoesTo ==
  ASSUME DocTypes, NEW r \in Requests, NEW s \in DocSteps \ {"idle"},
         pc' = [pc EXCEPT ![r] = s], NEW a \in DocReplies, reply' = [reply EXCEPT ![r] = a]
  PROVE  /\ pc' \in [Requests -> DocSteps] /\ reply' \in [Requests -> DocReplies]
         /\ pc'[r] = s /\ reply'[r] = a
         /\ \A p \in Requests \ {r} : pc'[p] = pc[p] /\ reply'[p] = reply[p]
BY DEF DocTypes

\* A transaction that has done nothing.
LEMMA NoTxFacts ==
  /\ NoTx \in TxType
  /\ NoTx.newEdges = {} /\ NoTx.oldEdges = {} /\ NoTx.newTags = {} /\ NoTx.oldTags = {}
  /\ NoTx.reg = {} /\ NoTx.prim = "keep" /\ NoTx.first = ""
<1>1. NoTx \in TxType
  BY DEF NoTx, TxType
<1>2. /\ NoTx.newEdges = {} /\ NoTx.oldEdges = {} /\ NoTx.newTags = {} /\ NoTx.oldTags = {}
      /\ NoTx.reg = {} /\ NoTx.prim = "keep" /\ NoTx.first = ""
  BY DEF NoTx
<1> QED BY <1>1, <1>2

\* An event loop is taken when it is idle and freed by who has it.
LEMMA LoopMoves ==
  ASSUME DocTypes, NEW r \in Requests,
         \/ loop' = loop
         \/ LoopIdle(r) /\ Take(r)
         \/ Free(r)
  PROVE  /\ loop' \in [Workers -> Requests \cup {NoRequest}]
         /\ \A w \in Workers : loop'[w] = loop[w] \/ loop[w] \in {NoRequest, r}
         /\ Take(r) => loop'[host[r]] = r
BY DocCallFacts DEF DocTypes, LoopIdle, Take, Free

\* A handler without a transaction of links, that deletes nothing and has not
\* answered what it was to find or to delete.
LEMMA OutsideTxn ==
  ASSUME DocumentsInv, Ahead, NEW r \in Requests, pc[r] # "done",
         pc'[r] \in {"body", "document", "answer", "delete", "done"}, tx'[r] = NoTx,
         hits'[r] = hits[r], result'[r] = result[r],
         reply'[r] = "ok" => call[r].op \notin {"search", "delete"}
  PROVE  /\ Jobs(r)' /\ Pointed(r)' /\ Balanced(r)' /\ Unregistered(r)' /\ Missed(r)'
         /\ Searched(r)'
<1>1. DocCourse(r) /\ Searched(r) /\ DocTypes /\ \A p \in Requests : before[p] \subseteq Finished
  BY DEF DocumentsInv, DocSane, DocCourse
<1>2. call' = call /\ \A d : Settled(d) => Settled(d)'
  BY <1>1, AheadFacts DEF Ahead
<1>3. Jobs(r)' /\ Pointed(r)' /\ Balanced(r)'
  BY DEF Jobs, Pointed, Balanced, Linking, UnlinkSteps, LinkSteps
<1>4. Unregistered(r)'
  <2>1. ~\E l \in tx'[r].reg : TRUE
    BY NoTxFacts
  <2> QED BY <2>1 DEF Unregistered, Registers
<1>5. Missed(r)'
  BY <1>2 DEF Missed
<1>6. result'[r] = {}
  BY <1>1 DEF DocCourse
<1>7. Searched(r)'
  BY <1>1, <1>2, <1>6 DEF Searched, Settled
<1> QED BY <1>3, <1>4, <1>5, <1>7

\* What a step of r is to keep.
Keeps(r) ==
  /\ DocTypes' /\ Moves(r) /\ Stores(r) /\ DocSane(r)'
  /\ pc[r] = "delete_document" => DeleteDocument(r)
  /\ DeleteEdges(r) => pc'[r] = "delete_document"

\* Steps from the idle state.
LEMMA StartKeeps ==
  ASSUME DocumentsInv, NEW r \in Requests, BeginPost(r) \/ Look(r) \/ CheckDelete(r)
  PROVE  Keeps(r)
<1>0. DocTypes /\ DocCourse(r) /\ Referenced /\ \A p \in Requests : before[p] \subseteq Finished
  BY DEF DocumentsInv, DocSane, DocCourse
<1>1. PICK s \in {"body", "delete", "done"}, a \in {"none", "not_found"} :
        /\ pc[r] = "idle" /\ pc' = [pc EXCEPT ![r] = s] /\ reply' = [reply EXCEPT ![r] = a]
        /\ s # "done" => a = "none"
        /\ s = "delete" => call[r].op = "delete" /\ call[r].doc \in docs
        /\ s = "body" /\ call[r].op = "patch" => call[r].doc \in docs
  <2>1. reply = [reply EXCEPT ![r] = reply[r]] /\ (pc[r] = "idle" => reply[r] = "none")
    BY <1>0 DEF DocTypes, DocCourse
  <2> QED BY <2>1 DEF BeginPost, Look, CheckDelete, Goto, Answer
<1>2. /\ UNCHANGED <<store, work, loop, call, host>>
      /\ before' = [before EXCEPT ![r] = Finished]
  BY DEF BeginPost, Look, CheckDelete, Begin, Finished
<1>3. UNCHANGED <<docs, tags, edges, chunks, primary, type, forgets, todo, tx, hits, result>>
  BY <1>2 DEF store, work
<1>4. /\ pc' \in [Requests -> DocSteps] /\ reply' \in [Requests -> DocReplies]
      /\ pc'[r] = s /\ reply'[r] = a
      /\ \A p \in Requests \ {r} : pc'[p] = pc[p] /\ reply'[p] = reply[p]
  BY <1>0, <1>1, GoesTo DEF DocSteps, DocReplies
<1>5. /\ before' \in [Requests -> SUBSET Requests] /\ before'[r] = Finished
      /\ \A p \in Requests \ {r} : before'[p] = before[p]
  <2>1. Finished \in SUBSET Requests
    BY DEF Finished
  <2> QED BY <1>0, <1>2, <2>1 DEF DocTypes
<1>6. DocTypes'
  BY <1>0, <1>2, <1>3, <1>4, <1>5 DEF DocTypes
<1>7. Moves(r)
  BY <1>1, <1>2, <1>3, <1>4, <1>5 DEF Moves, Still, Early
<1>8. Ahead
  BY <1>0, <1>7, MovesAhead
<1>9. Stores(r)
  BY <1>1, <1>2 DEF Stores
<1>10. tx[r] = NoTx
  BY <1>0, <1>1 DEF DocCourse, Linking, UnlinkSteps, LinkSteps
<1>11. DocCourse(r)'
  <2>1. before'[r] \subseteq Finished' /\ \A d : Settled(d) => Settled(d)'
    BY <1>0, <1>8, AheadFacts
  <2>2. /\ s = "delete" => Settled(call[r].doc)'
        /\ s = "body" /\ call[r].op = "patch" => Settled(call[r].doc)' /\ Doc(r)' = call[r].doc
    BY <1>0, <1>1, <1>2, <2>1 DEF Referenced, Settled, Doc
  <2>3. result'[r] = {} /\ tx'[r] = NoTx /\ call' = call
    BY <1>0, <1>1, <1>2, <1>3, <1>10 DEF DocCourse
  <2> QED BY <1>1, <1>4, <2>1, <2>2, <2>3, NoTxFacts DEF DocCourse, Holding, Linking, UnlinkSteps, LinkSteps
<1>12. Jobs(r)' /\ Pointed(r)' /\ Balanced(r)' /\ Unregistered(r)' /\ Missed(r)' /\ Searched(r)'
  BY <1>1, <1>3, <1>4, <1>8, <1>10, OutsideTxn
<1>13. ~DeleteEdges(r)
  BY <1>1 DEF DeleteEdges
<1> QED BY <1>1, <1>6, <1>7, <1>9, <1>11, <1>12, <1>13 DEF Keeps, DocSane

\* Steps that end a request that has stored nothing.
LEMMA EndKeeps ==
  ASSUME DocumentsInv, NEW r \in Requests,
         \/ Refuse(r) \/ RefuseDocument(r) \/ Respond(r) \/ FailLink(r) \/ BreakDeadlock(r)
  PROVE  Keeps(r)
<1>0. DocTypes /\ DocCourse(r) /\ \A p \in Requests : before[p] \subseteq Finished
  BY DEF DocumentsInv, DocSane, DocCourse
<1>1. PICK a \in {"refused", "conflict", "ok", "gone", "error"} :
        /\ pc[r] \in {"body", "document", "answer"} \cup Linking
        /\ pc' = [pc EXCEPT ![r] = "done"] /\ reply' = [reply EXCEPT ![r] = a]
        /\ a = "ok" => pc[r] = "answer"
        /\ pc[r] \in Linking =>
             tx' = [tx EXCEPT ![r] = NoTx] /\ todo' = [todo EXCEPT ![r] = <<>>]
        /\ pc[r] \notin Linking => UNCHANGED <<tx, todo>>
  <2>1. CASE Refuse(r) \/ RefuseDocument(r) \/ Respond(r)
    BY <2>1 DEF Refuse, RefuseDocument, Respond, Answer, work, Linking, UnlinkSteps, LinkSteps
  <2>2. CASE FailLink(r) \/ BreakDeadlock(r)
    <3>1. pc[r] \in Linking
      BY <2>2 DEF FailLink, BreakDeadlock, Deadlock, WaitsFor, ToAdopt, Linking, UnlinkSteps,
                  LinkSteps
    <3> QED BY <2>2, <3>1 DEF FailLink, BreakDeadlock, Rollback, Answer
  <2> QED BY <2>1, <2>2
<1>2. /\ UNCHANGED <<store, hits, result, call, host, before>>
      /\ loop' = loop \/ Free(r)
  BY DEF Refuse, RefuseDocument, Respond, FailLink, BreakDeadlock, Rollback, work
<1>3. UNCHANGED <<docs, tags, edges, chunks, primary, type, forgets>>
  BY <1>2 DEF store
<1>4. /\ pc' \in [Requests -> DocSteps] /\ reply' \in [Requests -> DocReplies]
      /\ pc'[r] = "done" /\ reply'[r] = a
      /\ \A p \in Requests \ {r} : pc'[p] = pc[p] /\ reply'[p] = reply[p]
  BY <1>0, <1>1, GoesTo DEF DocSteps, DocReplies
<1>5. /\ tx' \in [Requests -> TxType] /\ todo' \in [Requests -> Seq(Job)]
      /\ tx'[r] = NoTx
      /\ \A p \in Requests \ {r} : tx'[p] = tx[p] /\ todo'[p] = todo[p]
  <2>1. <<>> \in Seq(Job)
    OBVIOUS
  <2>2. CASE pc[r] \in Linking
    <3>1. tx' = [tx EXCEPT ![r] = NoTx] /\ todo' = [todo EXCEPT ![r] = <<>>]
      BY <1>1, <2>2
    <3>2. tx \in [Requests -> TxType] /\ todo \in [Requests -> Seq(Job)] /\ NoTx \in TxType
      BY <1>0, NoTxFacts DEF DocTypes
    <3>3. tx' \in [Requests -> TxType] /\ tx'[r] = NoTx /\ \A p \in Requests \ {r} : tx'[p] = tx[p]
      BY <3>1, <3>2
    <3>4. todo' \in [Requests -> Seq(Job)] /\ \A p \in Requests \ {r} : todo'[p] = todo[p]
      BY <2>1, <3>1, <3>2
    <3> QED BY <3>3, <3>4
  <2>3. CASE pc[r] \notin Linking
    BY <1>0, <1>1, <2>3 DEF DocTypes, DocCourse
  <2> QED BY <2>2, <2>3
<1>6. /\ loop' \in [Workers -> Requests \cup {NoRequest}]
      /\ \A w \in Workers : loop'[w] = loop[w] \/ loop[w] \in {NoRequest, r}
  BY <1>0, <1>2, LoopMoves
<1>7. DocTypes'
  BY <1>0, <1>2, <1>3, <1>4, <1>5, <1>6 DEF DocTypes
<1>8. Moves(r)
  BY <1>1, <1>2, <1>3, <1>4, <1>5, <1>6 DEF Moves, Still, Early, Linking, UnlinkSteps, LinkSteps
<1>9. Ahead
  BY <1>0, <1>8, MovesAhead
<1>10. Stores(r)
  BY <1>1, <1>2 DEF Stores, Linking, UnlinkSteps, LinkSteps
<1>11. a = "ok" => call[r].op \in {"patch", "upload"}
  BY <1>0, <1>1 DEF DocCourse
<1>12. DocCourse(r)'
  <2>1. before'[r] \subseteq Finished'
    BY <1>0, <1>9, AheadFacts
  <2>2. call' = call
    BY <1>2
  <2> QED BY <1>4, <1>5, <1>11, <2>1, <2>2, NoTxFacts DEF DocCourse, Holding, Linking, UnlinkSteps, LinkSteps
<1>13. Jobs(r)' /\ Pointed(r)' /\ Balanced(r)' /\ Unregistered(r)' /\ Missed(r)' /\ Searched(r)'
  BY <1>1, <1>2, <1>4, <1>5, <1>9, <1>11, OutsideTxn DEF Linking, UnlinkSteps, LinkSteps
<1>14. ~DeleteEdges(r) /\ pc[r] # "delete_document"
  BY <1>1 DEF DeleteEdges, Linking, UnlinkSteps, LinkSteps
<1> QED BY <1>7, <1>8, <1>10, <1>12, <1>13, <1>14 DEF Keeps, DocSane

LEMMA GotoFacts ==
  ASSUME DocTypes, NEW r \in Requests, NEW s \in DocSteps \ {"idle"}, Goto(r, s)
  PROVE  /\ pc' \in [Requests -> DocSteps] /\ reply' \in [Requests -> DocReplies]
         /\ pc'[r] = s /\ reply' = reply
         /\ \A p \in Requests \ {r} : pc'[p] = pc[p] /\ reply'[p] = reply[p]
BY DEF DocTypes, Goto

LEMMA AnswerFacts ==
  ASSUME DocTypes, NEW r \in Requests, NEW a \in DocReplies, Answer(r, a)
  PROVE  /\ pc' \in [Requests -> DocSteps] /\ reply' \in [Requests -> DocReplies]
         /\ pc'[r] = "done" /\ reply'[r] = a
         /\ \A p \in Requests \ {r} : pc'[p] = pc[p] /\ reply'[p] = reply[p]
BY DEF DocTypes, Answer, DocSteps


\* An ingest, and the package of an upload.
LEMMA MakeKeeps ==
  ASSUME DocumentsInv, NEW r \in Requests, Ingest(r) \/ InsertPackage(r)
  PROVE  Keeps(r)
<1>0. DocTypes /\ DocCourse(r) /\ \A p \in Requests : before[p] \subseteq Finished
  BY DEF DocumentsInv, DocSane, DocCourse
<1>1. /\ pc[r] = "body" /\ call[r].op \in {"upload", "ingest"}
      /\ reply[r] = "none" /\ result[r] = {} /\ tx[r] = NoTx
  BY <1>0 DEF Ingest, InsertPackage, DocCourse, Linking, UnlinkSteps, LinkSteps
<1>2. UNCHANGED <<todo, tx, hits, result, before, tags, edges, primary, type, forgets, call, host>>
  BY DEF Ingest, InsertPackage, work
<1>3. /\ pc' \in [Requests -> DocSteps] /\ reply' \in [Requests -> DocReplies]
      /\ \/ Ingest(r) /\ pc'[r] = "done" /\ reply'[r] = "ok"
         \/ InsertPackage(r) /\ pc'[r] = "document" /\ reply'[r] = "none"
      /\ \A p \in Requests \ {r} : pc'[p] = pc[p] /\ reply'[p] = reply[p]
  <2>1. CASE Ingest(r)
    <3>1. Answer(r, "ok") /\ "ok" \in DocReplies
      BY <2>1 DEF Ingest, DocReplies
    <3> QED BY <1>0, <2>1, <3>1, AnswerFacts
  <2>2. CASE InsertPackage(r)
    <3>1. Goto(r, "document") /\ "document" \in DocSteps \ {"idle"}
      BY <2>2 DEF InsertPackage, DocSteps
    <3> QED BY <1>0, <1>1, <2>2, <3>1, GotoFacts
  <2> QED BY <2>1, <2>2
<1>4. /\ loop' \in [Workers -> Requests \cup {NoRequest}]
      /\ \A w \in Workers : loop'[w] = loop[w] \/ loop[w] \in {NoRequest, r}
      /\ InsertPackage(r) => loop'[host[r]] = r
  BY <1>0, LoopMoves DEF Ingest, InsertPackage
<1>5. call[r].n \in Nat /\ r \in Docs
  BY <1>0, DocCallFacts DEF Docs
<1>6. Makes(r)
  <2>1. CASE Ingest(r)
    <3>1. \E k \in Nat : chunks' = chunks \cup ({r} \X (1..k))
      BY <1>5, <2>1 DEF Ingest
    <3>2. docs' = docs \cup {r} /\ packages' = packages \cup {r} /\ pc'[r] = "done"
      BY <1>1, <1>3, <2>1 DEF Ingest, InsertPackage, Answer
    <3> QED BY <1>1, <1>2, <3>1, <3>2 DEF Makes, Early
  <2>2. CASE InsertPackage(r)
    <3>1. chunks' = chunks \cup ({r} \X (1..0)) /\ docs' = docs
      BY <2>2 DEF InsertPackage
    <3>2. {r} \X (1..0) = {}
      OBVIOUS
    <3>3. chunks' = chunks
      BY <3>1, <3>2
    <3> QED BY <1>1, <1>2, <2>2, <3>1, <3>3 DEF InsertPackage, Makes
  <2> QED BY <2>1, <2>2
<1>7. docs' \subseteq Docs /\ IsFiniteSet(chunks')
  <2> DEFINE N == 1..call[r].n
             New == {r} \X N
  <2>1. \/ chunks' = chunks
        \/ chunks' = chunks \cup New
    BY DEF Ingest, InsertPackage
  <2>2. IsFiniteSet(N)
    BY <1>5, FS_Interval
  <2>3. IsFiniteSet({r}) /\ IsFiniteSet(chunks)
    BY <1>0, FS_Singleton DEF DocTypes
  <2> HIDE DEF N
  <2>4. IsFiniteSet(New)
    BY <2>2, <2>3, FS_Product
  <2> HIDE DEF New
  <2>5. IsFiniteSet(chunks')
    BY <2>1, <2>3, <2>4, FS_Union
  <2> QED BY <1>0, <1>5, <1>6, <2>5 DEF Makes, DocTypes
<1>8. DocTypes'
  BY <1>0, <1>2, <1>3, <1>4, <1>7 DEF DocTypes
<1>9. Moves(r)
  BY <1>1, <1>2, <1>3, <1>4 DEF Moves, Still, Early
<1>10. Ahead
  BY <1>0, <1>9, MovesAhead
<1>11. DocCourse(r)'
  <2>1. before'[r] \subseteq Finished'
    BY <1>0, <1>10, AheadFacts
  <2> QED BY <1>1, <1>2, <1>3, <1>4, <2>1, NoTxFacts DEF DocCourse, Holding, Linking, UnlinkSteps,
                                              LinkSteps, InsertPackage
<1>12. Jobs(r)' /\ Pointed(r)' /\ Balanced(r)' /\ Unregistered(r)' /\ Missed(r)' /\ Searched(r)'
  BY <1>1, <1>2, <1>3, <1>10, OutsideTxn
<1>13. ~DeleteEdges(r) /\ pc[r] # "delete_document"
  BY <1>1 DEF DeleteEdges
<1> QED BY <1>6, <1>8, <1>9, <1>11, <1>12, <1>13 DEF Keeps, DocSane, Stores

\* The links begin: an upload has made its document, a PATCH opens its transaction.
LEMMA LinksBegin ==
  ASSUME DocumentsInv, NEW r \in Requests, InsertDocument(r) \/ BeginPatch(r)
  PROVE  Keeps(r)
<1>0. /\ DocTypes /\ DocCourse(r) /\ Referenced /\ TagsAreMirrored /\ Searched(r)
      /\ \A p \in Requests : before[p] \subseteq Finished
      /\ \A p \in Requests : reply[p] = "lost" => pc[p] = "done"
  BY DEF DocumentsInv, DocSane, DocCourse
<1>1. PICK s \in {"answer", "txn"} :
        /\ pc[r] \in {"body", "document"} /\ Goto(r, s)
        /\ todo' = [todo EXCEPT ![r] = call[r].jobs]
  BY DEF InsertDocument, BeginPatch
<1>2. /\ UNCHANGED <<tx, hits, result, before, tags, edges, chunks, primary, type, forgets,
                     packages, call, host>>
      /\ docs' \in {docs, docs \cup {r}} /\ (BeginPatch(r) => UNCHANGED store)
      /\ call[r].op \in {"upload", "patch"} /\ (InsertDocument(r) => call[r].op = "upload")
  BY <1>0 DEF InsertDocument, BeginPatch, store, DocCourse
<1>3. /\ pc' \in [Requests -> DocSteps] /\ reply' \in [Requests -> DocReplies]
      /\ pc'[r] = s /\ reply' = reply
      /\ \A p \in Requests \ {r} : pc'[p] = pc[p] /\ reply'[p] = reply[p]
  BY <1>0, <1>1, GotoFacts DEF DocSteps, Linking, UnlinkSteps, LinkSteps
<1>4. /\ loop' \in [Workers -> Requests \cup {NoRequest}] /\ loop'[host[r]] = r
      /\ \A w \in Workers : loop'[w] = loop[w] \/ loop[w] \in {NoRequest, r}
  <2>1. CASE InsertDocument(r)
    BY <1>0, <2>1, LoopMoves DEF InsertDocument, DocCourse, Holding
  <2>2. CASE BeginPatch(r)
    BY <1>0, <2>2, LoopMoves DEF BeginPatch
  <2> QED BY <2>1, <2>2
<1>5. call[r].jobs \in Seq(Job) /\ r \in Docs
  BY <1>0, DocCallFacts DEF Docs
<1>6. /\ todo' \in [Requests -> Seq(Job)] /\ todo'[r] = call[r].jobs
      /\ \A p \in Requests \ {r} : todo'[p] = todo[p]
  BY <1>0, <1>1, <1>5 DEF DocTypes
<1>7. DocTypes'
  BY <1>0, <1>2, <1>3, <1>4, <1>5, <1>6 DEF DocTypes
<1>8. Moves(r)
  BY <1>1, <1>2, <1>3, <1>4, <1>6 DEF Moves, Still, Early
<1>9. Ahead
  BY <1>0, <1>8, MovesAhead
<1>10. reply'[r] = "none" /\ result'[r] = {} /\ tx[r] = NoTx /\ tx'[r] = NoTx
  BY <1>0, <1>1, <1>2, <1>3 DEF DocCourse, Linking, UnlinkSteps, LinkSteps
<1>11. Stores(r)
  <2>1. CASE InsertDocument(r)
    <3>1. chunks' = chunks \cup ({r} \X (1..0))
      <4>1. {r} \X (1..0) = {}
        OBVIOUS
      <4> QED BY <1>2, <4>1
    <3>2. Makes(r)
      BY <1>1, <1>2, <1>3, <2>1, <3>1 DEF InsertDocument, Makes, Early
    <3> QED BY <3>2 DEF Stores
  <2>2. CASE BeginPatch(r)
    BY <1>1, <1>2, <2>2 DEF Stores
  <2> QED BY <2>1, <2>2
<1>12. DocCourse(r)'
  <2>1. before'[r] \subseteq Finished'
    BY <1>0, <1>9, AheadFacts
  <2>2. call' = call
    BY <1>2
  <2>3. Settled(Doc(r))'
    <3>1. CASE InsertDocument(r)
      BY <1>2, <1>3, <3>1 DEF Settled, Doc, Early
    <3>2. CASE BeginPatch(r)
      <4>1. Settled(Doc(r))
        BY <1>0, <3>2 DEF DocCourse, BeginPatch
      <4> QED BY <1>0, <1>9, <4>1, AheadFacts
    <3> QED BY <3>1, <3>2
  <2> QED BY <1>2, <1>3, <1>4, <1>10, <2>1, <2>2, <2>3, NoTxFacts
      DEF DocCourse, Holding, Linking, UnlinkSteps, LinkSteps
<1>13. Jobs(r)'
  <2>1. DOMAIN call[r].jobs = 1..Len(call[r].jobs)
    BY <1>5
  <2>2. Left(call[r].jobs, call[r].jobs, FALSE)
    BY <1>0, <2>1, DocCallFacts DEF Left
  <2>3. call' = call /\ ~Linked(NoTx)
    BY <1>2, NoTxFacts DEF Linked
  <2>4. Left(call'[r].jobs, todo'[r], Linked(tx'[r]))
    <3>1. Left(call[r].jobs, call[r].jobs, Linked(NoTx))
      BY <2>2, <2>3 DEF Left
    <3> QED BY <1>6, <1>10, <2>3, <3>1
  <2>5. /\ pc'[r] \notin UnlinkSteps /\ pc'[r] \notin LinkSteps
        /\ pc'[r] \notin {"unedge", "untag", "retag"}
    BY <1>3 DEF UnlinkSteps, LinkSteps
  <2>6. /\ tx'[r].reg = {} /\ tx'[r].newEdges \cup tx'[r].newTags = {}
        /\ tx'[r].oldEdges \cup tx'[r].oldTags = {}
    BY <1>10, NoTxFacts
  <2> QED BY <2>4, <2>5, <2>6 DEF Jobs
<1>14. Pointed(r)'
  <2>1. Doc(r)' = Doc(r) /\ \A d : Disputed(d) => Disputed(d)'
    BY <1>0, <1>9, AheadFacts
  <2> DEFINE d == Doc(r)
  <2>2. SUFFICES ASSUME d \in docs' PROVE Disputed(d)' \/ Tagged(d, primary[d], tags)
    <3>1. SeenPrimary(r)' = primary[d] /\ SeenTags(r)' = tags /\ tx'[r].first = ""
      BY <1>2, <1>10, <2>1, NoTxFacts DEF SeenPrimary, SeenTags
    <3> QED BY <1>3, <2>1, <2>2, <3>1 DEF Pointed, Tagged
  <2>3. CASE d \in docs
    <3>1. Disputed(d) \/ Tagged(d, primary[d], tags)
      BY <1>0, <2>3 DEF TagsAreMirrored, Disputed, Tagged
    <3> QED BY <2>1, <3>1
  <2>4. CASE d \notin docs
    <3>1. d = r /\ ~Settled(r)
      BY <1>1, <1>2, <2>2, <2>4 DEF Settled, Early
    <3>2. primary[d] = ""
      BY <1>0, <1>5, <3>1 DEF Referenced
    <3> QED BY <3>2 DEF Tagged
  <2> QED BY <2>3, <2>4
<1>19. Balanced(r)'
  <2>1. Doc(r)' = Doc(r) /\ \A d, l : Contended(d, l) => Contended(d, l)'
    BY <1>0, <1>9, AheadFacts
  <2>0. PICK d : d = Doc(r)
    OBVIOUS
  <2>2. Under(d) => Under(d)'
    <3>1. SUFFICES ASSUME Under(d) PROVE Under(d)'
      OBVIOUS
    <3>2. PICK p \in Requests : Deletes(p, d) /\ (pc[p] = "delete_document" \/ reply[p] = "lost")
      BY <3>1 DEF Under
    <3>3. p # r
      BY <1>2, <3>2 DEF Deletes
    <3>4. Deletes(p, d)' /\ (pc'[p] = "delete_document" \/ reply'[p] = "lost")
      BY <1>2, <1>3, <3>2, <3>3 DEF Deletes
    <3> QED BY <1>2, <3>1, <3>4 DEF Under
  <2>3. SUFFICES ASSUME d \in docs', ~Under(d), NEW l \in Link, ~Contended(d, l)
                 PROVE  Staged(r, l)'
    BY <2>0, <2>1, <2>2 DEF Balanced
  <2>4. /\ Edge(r, l)' = Of(edges, d, l) /\ TagRow(r, l)' = Of(tags, d, l)
        /\ Of(tx'[r].oldEdges \cup tx'[r].oldTags, d, l) = {}
    <3>1. SeenEdges(r)' = edges /\ SeenTags(r)' = tags
      BY <1>2, <1>10, NoTxFacts DEF SeenEdges, SeenTags
    <3> QED BY <1>10, <2>0, <2>1, <3>1, NoTxFacts DEF Edge, TagRow, Of
  <2>5. Of(edges, d, l) # {} <=> Of(tags, d, l) # {}
    <3>1. CASE d \in docs
      BY <1>0, <2>3, <3>1, MirroredMeans
    <3>2. CASE d \notin docs
      <4>1. d = r /\ ~Settled(r)
        BY <1>1, <1>2, <2>3, <3>2 DEF Settled, Early
      <4>2. /\ \A t \in tags : t.doc # d
            /\ \A e \in edges : e.doc # d
        BY <1>0, <3>2, <4>1 DEF Referenced
      <4> QED BY <4>2 DEF Of
    <3> QED BY <3>1, <3>2
  <2>6. ~At(r, l)'
    BY <1>3 DEF At, UnlinkSteps
  <2> QED BY <2>0, <2>1, <2>4, <2>5, <2>6 DEF Staged, Even, Cleared, Of
<1>15. Unregistered(r)'
  <2>1. ~\E l \in tx'[r].reg : TRUE
    BY <1>10, NoTxFacts
  <2> QED BY <1>3, <2>1 DEF Unregistered, Registers
<1>16. Missed(r)'
  BY <1>2, <1>3 DEF Missed
<1>17. Searched(r)'
  BY <1>0, <1>2, <1>3, <1>9, <1>10, AheadFacts DEF Searched, Settled
<1>18. ~DeleteEdges(r) /\ pc[r] # "delete_document"
  BY <1>1 DEF DeleteEdges
<1> QED BY <1>7, <1>8, <1>11, <1>12, <1>13, <1>14, <1>15, <1>16, <1>17, <1>18, <1>19
    DEF Keeps, DocSane

----------------------------------------------------------------------------
(***************************************************************************)
(* A transaction of links: what it does is not stored before its commit.   *)
(***************************************************************************)
LEMMA TxnKeeps ==
  ASSUME DocumentsInv, NEW r \in Requests, pc[r] \in Linking,
         NEW s \in Linking, Goto(r, s),
         tx' \in [Requests -> TxType], \A p \in Requests \ {r} : tx'[p] = tx[p],
         todo' \in [Requests -> Seq(Job)], \A p \in Requests \ {r} : todo'[p] = todo[p],
         UNCHANGED <<store, hits, result, loop, call, host, before>>,
         tx'[r].newEdges \cup tx'[r].newTags # {} \/ tx'[r].prim # "keep" => Doc(r) \in docs,
         Jobs(r)',
         Doc(r) \in docs /\ ~Disputed(Doc(r)) =>
           /\ Tagged(Doc(r), SeenPrimary(r)', SeenTags(r)')
           /\ Tagged(Doc(r), tx'[r].first, SeenTags(r)')
           /\ s = "retag" => Of(SeenTags(r)', Doc(r), Current(r)') # {}
           /\ s \in {"findtag", "untag"} => SeenPrimary(r)' # Current(r)'.name,
         Doc(r) \in docs /\ ~Under(Doc(r)) =>
           \A l \in Link : Contended(Doc(r), l) \/ Staged(r, l)',
         \A n \in Names : Registers(r, n)' => Registers(r, n) \/ type[n] = "none"
  PROVE  Keeps(r)
<1>0. /\ DocTypes /\ DocCourse(r) /\ Unregistered(r) /\ Searched(r) /\ Missed(r)
      /\ \A p \in Requests : before[p] \subseteq Finished
  BY DEF DocumentsInv, DocSane, DocCourse
<1>1. UNCHANGED <<docs, packages, tags, edges, chunks, primary, type, forgets>>
  BY DEF store
<1>2. /\ pc' \in [Requests -> DocSteps] /\ reply' \in [Requests -> DocReplies]
      /\ pc'[r] = s /\ reply' = reply
      /\ \A p \in Requests \ {r} : pc'[p] = pc[p] /\ reply'[p] = reply[p]
  <2>1. s \in DocSteps \ {"idle"}
    BY DEF Linking, DocSteps, UnlinkSteps, LinkSteps
  <2> QED BY <1>0, <2>1, GotoFacts
<1>3. DocTypes'
  BY <1>0, <1>1, <1>2 DEF DocTypes
<1>15. /\ pc[r] \notin Early \cup {"idle", "done", "body", "delete", "delete_document", "live"}
       /\ s \notin Early \cup {"idle", "done", "document", "delete", "delete_document",
                               "delete_package", "live", "answer"}
  BY DEF Linking, UnlinkSteps, LinkSteps, Early
<1>4. Moves(r)
  BY <1>1, <1>2, <1>15 DEF Moves, Still, Early
<1>5. Ahead
  BY <1>0, <1>4, MovesAhead
<1>6. Stores(r)
  BY <1>15 DEF Stores
<1>7. /\ before'[r] \subseteq Finished' /\ \A d : Settled(d) => Settled(d)'
      /\ Doc(r)' = Doc(r) /\ \A d : Disputed(d) => Disputed(d)'
      /\ \A d, l : Contended(d, l) => Contended(d, l)'
      /\ \A n : Contested(n) => Contested(n)'
  BY <1>0, <1>5, AheadFacts
<1>8. call' = call /\ loop'[host'[r]] = r /\ result'[r] = {} /\ reply'[r] = "none"
  BY <1>0, <1>2, <1>15 DEF DocCourse, Holding
<1>9. DocCourse(r)'
  <2>1. call[r].op \in {"patch", "upload"} /\ Settled(Doc(r))
    BY <1>0 DEF DocCourse
  <2> QED BY <1>1, <1>2, <1>7, <1>8, <1>15, <2>1 DEF DocCourse, Holding
<1>10. Pointed(r)'
  BY <1>1, <1>2, <1>7 DEF Pointed, Tagged, Of
<1>16. Balanced(r)'
  <2>0. PICK d : d = Doc(r)
    OBVIOUS
  <2>1. Under(d) => Under(d)'
    <3>1. SUFFICES ASSUME Under(d) PROVE Under(d)'
      OBVIOUS
    <3>2. PICK p \in Requests : Deletes(p, d) /\ (pc[p] = "delete_document" \/ reply[p] = "lost")
      BY <3>1 DEF Under
    <3>3. pc[p] = "delete_document" => p # r
      BY <1>15
    <3>4. Deletes(p, d)' /\ (pc'[p] = "delete_document" \/ reply'[p] = "lost")
      BY <1>2, <1>8, <3>2, <3>3 DEF Deletes
    <3> QED BY <1>1, <3>1, <3>4 DEF Under
  <2>2. SUFFICES ASSUME d \in docs, ~Under(d), NEW l \in Link, ~Contended(d, l)
                 PROVE  Staged(r, l)'
    BY <1>1, <1>7, <2>0, <2>1 DEF Balanced
  <2> QED BY <2>0, <2>2
<1>11. Unregistered(r)'
  BY <1>0, <1>1, <1>7 DEF Unregistered
<1>12. Missed(r)'
  BY <1>2, <1>8, <1>15 DEF Missed
<1>13. Searched(r)'
  BY <1>0, <1>2, <1>7, <1>8, <1>15 DEF Searched, Settled
<1>14. ~DeleteEdges(r) /\ pc[r] # "delete_document"
  BY <1>15 DEF DeleteEdges
<1> QED BY <1>3, <1>4, <1>6, <1>9, <1>10, <1>11, <1>12, <1>13, <1>14, <1>16 DEF Keeps, DocSane

\* The first job that is left.
LEMMA JobFacts ==
  ASSUME DocumentsInv, NEW r \in Requests, pc[r] \in Linking, todo[r] # <<>>
  PROVE  /\ todo[r] \in Seq(Job) /\ Head(todo[r]) = todo[r][1] /\ 1 \in 1..Len(todo[r])
         /\ Head(todo[r]).act \in {"link", "unlink"}
         /\ Current(r) \in Link /\ Current(r).name \in Names
         /\ Asks(r, Head(todo[r]).act, Current(r))
         /\ Head(todo[r]).act = "link" => Links(r, Current(r).name)
         /\ Head(todo[r]).act = "unlink" => ~Linked(tx[r])
         /\ Tail(todo[r]) \in Seq(Job)
<1>1. todo[r] \in Seq(Job) /\ Jobs(r)
  BY DEF DocumentsInv, DocTypes, DocSane
<1>2. /\ Head(todo[r]) = todo[r][1] /\ 1 \in 1..Len(todo[r])
      /\ Tail(todo[r]) \in Seq(Job)
  BY <1>1
<1>3. todo[r][1] \in Job
  BY <1>1, <1>2
<1>4. /\ Head(todo[r]).act \in {"link", "unlink"} /\ Current(r) \in Link
      /\ todo[r][1] = [act |-> Head(todo[r]).act, link |-> Current(r)]
  BY <1>2, <1>3 DEF Job, Current
<1>5. Current(r).name \in Names
  BY <1>4 DEF Link
<1>6. /\ \E k \in DOMAIN call[r].jobs : call[r].jobs[k] = todo[r][1]
      /\ todo[r][1].act = "unlink" => ~Linked(tx[r])
  BY <1>1, <1>2 DEF Jobs, Left
<1>7. Asks(r, Head(todo[r]).act, Current(r))
  BY <1>4, <1>6 DEF Asks
<1>8. Head(todo[r]).act = "link" => Links(r, Current(r).name)
  BY <1>2, <1>6 DEF Links, Current
<1> QED BY <1>1, <1>2, <1>4, <1>5, <1>6, <1>7, <1>8

\* The jobs that are left, when the first one is done.
LEMMA FewerJobs ==
  ASSUME NEW s \in Seq(Job), s # <<>>, NEW jobs, NEW A, NEW B, (B => A) \/ Head(s).act = "link",
         Left(jobs, s, A)
  PROVE  Left(jobs, Tail(s), B)
<1> DEFINE t == Tail(s)
<1>1. /\ Len(s) \in Nat /\ Len(t) \in Nat /\ Head(s) = s[1]
      /\ \A i \in 1..Len(t) : i \in Nat /\ i + 1 \in 1..Len(s) /\ t[i] = s[i + 1]
  OBVIOUS
<1> SUFFICES ASSUME NEW i \in 1..Len(t)
             PROVE  /\ \E k \in DOMAIN jobs : jobs[k] = t[i]
                    /\ t[i].act = "unlink" => ~B /\ \A j \in 1..i : t[j].act = "unlink"
  BY DEF Left
<1> HIDE DEF t
<1>2. i \in Nat /\ i + 1 \in 1..Len(s) /\ t[i] = s[i + 1] /\ 1 \in 1..(i + 1)
  BY <1>1
<1>3. \A j \in 1..i : j \in 1..Len(t) /\ j + 1 \in 1..(i + 1)
  BY <1>1
<1>4. CASE s[i + 1].act = "unlink"
  <2>1. ~A /\ (\A j \in 1..(i + 1) : s[j].act = "unlink") /\ \E k \in DOMAIN jobs : jobs[k] = t[i]
    BY <1>2, <1>4 DEF Left
  <2>2. Head(s).act = "unlink"
    BY <1>1, <1>2, <2>1
  <2>3. ~B
    BY <2>1, <2>2
  <2>4. \A j \in 1..i : t[j].act = "unlink"
    BY <1>1, <1>3, <2>1
  <2> QED BY <1>2, <1>4, <2>1, <2>3, <2>4
<1>5. CASE s[i + 1].act # "unlink"
  BY <1>2, <1>5 DEF Left
<1> QED BY <1>4, <1>5

\* The transaction of r has done a statement, and its first job when that was the last.
LEMMA JobsGoOn ==
  ASSUME DocumentsInv, NEW r \in Requests, pc[r] \in Linking, pc'[r] \in Linking, call' = call,
         \/ /\ todo'[r] = todo[r]
            /\ pc'[r] \in UnlinkSteps => todo[r] # <<>> /\ Head(todo[r]).act = "unlink"
            /\ pc'[r] \in LinkSteps => todo[r] # <<>> /\ Head(todo[r]).act = "link"
         \/ todo[r] # <<>> /\ todo'[r] = Tail(todo[r]) /\ pc'[r] = "txn",
         type' = type, tx[r].reg \subseteq tx'[r].reg,
         pc'[r] \in LinkSteps \ {"register"} => Known(r, Current(r).name)',
         Linked(tx'[r]) => Linked(tx[r]) \/ (todo[r] # <<>> /\ Head(todo[r]).act = "link"),
         \A l \in tx'[r].reg : l \in tx[r].reg \/
           (todo[r] # <<>> /\ Head(todo[r]).act = "link" /\ l = Current(r)),
         \A t \in tx'[r].newEdges \cup tx'[r].newTags :
           \/ t \in tx[r].newEdges \cup tx[r].newTags
           \/ /\ todo[r] # <<>> /\ Head(todo[r]).act = "link" /\ t = Row(r, Current(r))
              /\ Known(r, Current(r).name),
         \A t \in tx'[r].oldEdges \cup tx'[r].oldTags :
           \/ t \in tx[r].oldEdges \cup tx[r].oldTags
           \/ /\ todo[r] # <<>> /\ Head(todo[r]).act = "unlink"
              /\ t.doc = Doc(r) /\ LinkOf(t) = Current(r),
         pc'[r] \in {"unedge", "untag", "retag"} =>
           \A t \in tx'[r].found : t.doc = Doc(r) /\ LinkOf(t) = Current(r)
  PROVE  Jobs(r)'
<1>1. Jobs(r)
  BY DEF DocumentsInv, DocSane
<1>2. /\ \A n : Links(r, n)' <=> Links(r, n)
      /\ \A a, l : Asks(r, a, l)' <=> Asks(r, a, l)
      /\ Doc(r)' = Doc(r)
      /\ \A n : Known(r, n) => Known(r, n)'
  BY DEF Links, Asks, Doc, Known
<1>3. \A l \in tx'[r].reg : Links(r, l.name)
  BY <1>1, JobFacts DEF Jobs
<1>4. Left(call[r].jobs, todo'[r], Linked(tx'[r]))
  <2>1. todo[r] \in Seq(Job) /\ Left(call[r].jobs, todo[r], Linked(tx[r]))
    BY <1>1 DEF Jobs, DocumentsInv, DocTypes
  <2>2. CASE todo'[r] = Tail(todo[r]) /\ todo[r] # <<>>
    <3> DEFINE A == Linked(tx[r])
               B == Linked(tx'[r])
               s == todo[r]
    <3>1. (B => A) \/ Head(s).act = "link"
      OBVIOUS
    <3> HIDE DEF A, B, s
    <3>2. Left(call[r].jobs, Tail(s), B)
      BY <2>1, <2>2, <3>1, FewerJobs DEF A, s
    <3> QED BY <2>2, <3>2 DEF B, s
  <2>3. CASE todo'[r] = todo[r]
    <3>1. CASE Linked(tx'[r]) => Linked(tx[r])
      BY <2>1, <2>3, <3>1 DEF Left
    <3>2. CASE todo[r] # <<>> /\ Head(todo[r]).act = "link"
      <4>1. Head(todo[r]) = todo[r][1] /\ \A i \in 1..Len(todo[r]) : 1 \in 1..i
        BY <2>1, <3>2
      <4> QED BY <2>1, <2>3, <3>2, <4>1 DEF Left
    <3> QED BY <3>1, <3>2
  <2> QED BY <2>2, <2>3
<1>5. \A t \in tx'[r].newEdges \cup tx'[r].newTags :
        t.doc = Doc(r) /\ Asks(r, "link", LinkOf(t)) /\ Known(r, t.name)
  <2>1. Current(r) \in Link => LinkOf(Row(r, Current(r))) = Current(r)
    BY DEF LinkOf, Row, Link
  <2>2. Row(r, Current(r)).doc = Doc(r) /\ Row(r, Current(r)).name = Current(r).name
    BY DEF Row
  <2> QED BY <1>1, <2>1, <2>2, JobFacts DEF Jobs
<1>6. \A t \in tx'[r].oldEdges \cup tx'[r].oldTags :
        t.doc = Doc(r) /\ Asks(r, "unlink", LinkOf(t))
  BY <1>1, JobFacts DEF Jobs
<1>7. /\ pc'[r] \in UnlinkSteps \cup LinkSteps => todo'[r] = todo[r]
      /\ pc'[r] \in {"unedge", "untag", "retag"} => pc'[r] \in UnlinkSteps \cup LinkSteps
  BY DEF UnlinkSteps, LinkSteps
<1>8. pc'[r] \in {"unedge", "untag", "retag"} =>
        \A t \in tx'[r].found : t.doc = Doc(r) /\ LinkOf(t) = Current(r)'
  BY <1>7 DEF Current
<1>9. /\ pc'[r] \in UnlinkSteps => todo'[r] # <<>> /\ Head(todo'[r]).act = "unlink"
      /\ pc'[r] \in LinkSteps => todo'[r] # <<>> /\ Head(todo'[r]).act = "link"
  <2>1. CASE todo'[r] = todo[r]
    <3>1. /\ pc'[r] \in UnlinkSteps => todo[r] # <<>> /\ Head(todo[r]).act = "unlink"
          /\ pc'[r] \in LinkSteps => todo[r] # <<>> /\ Head(todo[r]).act = "link"
      BY DEF UnlinkSteps, LinkSteps
    <3> QED BY <2>1, <3>1
  <2>2. CASE pc'[r] = "txn"
    BY <2>2 DEF UnlinkSteps, LinkSteps
  <2> QED BY <2>1, <2>2
<1> QED BY <1>2, <1>3, <1>4, <1>5, <1>6, <1>8, <1>9 DEF Jobs

\* What a transaction holds and sees.
LEMMA TxFacts ==
  ASSUME DocTypes, NEW r \in Requests
  PROVE  /\ tx[r] \in TxType
         /\ tx[r].newEdges \subseteq RowType /\ tx[r].newTags \subseteq RowType
         /\ SeenEdges(r) \subseteq RowType /\ SeenTags(r) \subseteq RowType
<1>1. tx[r] \in TxType
  BY DEF DocTypes
<1>2. tx[r].newEdges \subseteq RowType /\ tx[r].newTags \subseteq RowType
  BY <1>1 DEF TxType
<1> QED BY <1>1, <1>2 DEF SeenEdges, SeenTags, DocTypes

\* What a transaction sees after a statement of its own.
LEMMA SeesNext ==
  ASSUME NEW r \in Requests, UNCHANGED <<store, call>>
  PROVE  /\ Doc(r)' = Doc(r)
         /\ SeenTags(r)' = (tags \ tx'[r].oldTags) \cup tx'[r].newTags
         /\ SeenPrimary(r)' = IF tx'[r].prim = "keep" THEN primary[Doc(r)] ELSE tx'[r].prim
         /\ \A l : Edge(r, l)' =
              (Of(edges, Doc(r), l) \ Of(tx'[r].oldEdges, Doc(r), l))
                \cup Of(tx'[r].newEdges, Doc(r), l)
         /\ \A l : TagRow(r, l)' =
              (Of(tags, Doc(r), l) \ Of(tx'[r].oldTags, Doc(r), l))
                \cup Of(tx'[r].newTags, Doc(r), l)
         /\ \A l : Cleared(r, l)' <=>
              \/ Of(tx'[r].oldEdges, Doc(r), l) \cup Of(tx'[r].oldTags, Doc(r), l) = {}
              \/ Of(tx'[r].newEdges, Doc(r), l) \cup Of(tx'[r].newTags, Doc(r), l) # {}
              \/ Edge(r, l)' = {}
<1>1. /\ Doc(r)' = Doc(r) /\ tags' = tags /\ edges' = edges /\ primary' = primary
  BY DEF Doc, store
<1>2. /\ SeenTags(r)' = (tags \ tx'[r].oldTags) \cup tx'[r].newTags
      /\ SeenEdges(r)' = (edges \ tx'[r].oldEdges) \cup tx'[r].newEdges
      /\ SeenPrimary(r)' = IF tx'[r].prim = "keep" THEN primary[Doc(r)] ELSE tx'[r].prim
  BY <1>1 DEF SeenTags, SeenEdges, SeenPrimary
<1>3. \A l : /\ Edge(r, l)' = Of((edges \ tx'[r].oldEdges) \cup tx'[r].newEdges, Doc(r), l)
             /\ TagRow(r, l)' = Of((tags \ tx'[r].oldTags) \cup tx'[r].newTags, Doc(r), l)
  BY <1>1, <1>2 DEF Edge, TagRow, Of
<1>4. \A l : Cleared(r, l)' <=>
              \/ Of(tx'[r].oldEdges \cup tx'[r].oldTags, Doc(r), l) = {}
              \/ Of(tx'[r].newEdges \cup tx'[r].newTags, Doc(r), l) # {}
              \/ Edge(r, l)' = {}
  BY <1>1 DEF Cleared, Of
<1> QED BY <1>1, <1>2, <1>3, <1>4 DEF Of

\* What it sees now.
LEMMA SeesNow ==
  ASSUME NEW r \in Requests
  PROVE  /\ \A l : Edge(r, l) =
              (Of(edges, Doc(r), l) \ Of(tx[r].oldEdges, Doc(r), l))
                \cup Of(tx[r].newEdges, Doc(r), l)
         /\ \A l : TagRow(r, l) =
              (Of(tags, Doc(r), l) \ Of(tx[r].oldTags, Doc(r), l))
                \cup Of(tx[r].newTags, Doc(r), l)
         /\ \A l : Cleared(r, l) <=>
              \/ Of(tx[r].oldEdges, Doc(r), l) \cup Of(tx[r].oldTags, Doc(r), l) = {}
              \/ Of(tx[r].newEdges, Doc(r), l) \cup Of(tx[r].newTags, Doc(r), l) # {}
              \/ Edge(r, l) = {}
BY DEF Of, Edge, TagRow, Cleared, SeenEdges, SeenTags

\* The rows of one link are not of another.
LEMMA OtherRows ==
  ASSUME NEW d, NEW k \in Link, NEW l \in Link, l # k, NEW S,
         \A t \in S : LinkOf(t) = k
  PROVE  Of(S, d, l) = {}
BY DEF Of, LinkOf, Link

\* A statement that touches the rows of the link k leaves the other links as they were.
LEMMA OthersStaged ==
  ASSUME NEW r \in Requests, NEW l \in Link, Staged(r, l), ~At(r, l), ~At(r, l)',
         Edge(r, l)' = Edge(r, l), TagRow(r, l)' = TagRow(r, l), Cleared(r, l) => Cleared(r, l)'
  PROVE  Staged(r, l)'
BY DEF Staged, Even

\* A statement that touches no row.
LEMMA SameRows ==
  ASSUME NEW r \in Requests, UNCHANGED <<store, call>>,
         tx'[r].newEdges = tx[r].newEdges, tx'[r].oldEdges = tx[r].oldEdges,
         tx'[r].newTags = tx[r].newTags, tx'[r].oldTags = tx[r].oldTags
  PROVE  /\ SeenTags(r)' = SeenTags(r)
         /\ \A l : Edge(r, l)' = Edge(r, l) /\ TagRow(r, l)' = TagRow(r, l)
         /\ \A l : Cleared(r, l)' <=> Cleared(r, l)
<1>1. SeenTags(r)' = SeenTags(r)
  BY SeesNext DEF SeenTags
<1>2. ASSUME NEW l
      PROVE  Edge(r, l)' = Edge(r, l) /\ TagRow(r, l)' = TagRow(r, l)
  <2>1. /\ Edge(r, l)' =
              (Of(edges, Doc(r), l) \ Of(tx'[r].oldEdges, Doc(r), l))
                \cup Of(tx'[r].newEdges, Doc(r), l)
        /\ TagRow(r, l)' =
              (Of(tags, Doc(r), l) \ Of(tx'[r].oldTags, Doc(r), l))
                \cup Of(tx'[r].newTags, Doc(r), l)
    BY SeesNext
  <2>2. /\ Edge(r, l) =
              (Of(edges, Doc(r), l) \ Of(tx[r].oldEdges, Doc(r), l))
                \cup Of(tx[r].newEdges, Doc(r), l)
        /\ TagRow(r, l) =
              (Of(tags, Doc(r), l) \ Of(tx[r].oldTags, Doc(r), l))
                \cup Of(tx[r].newTags, Doc(r), l)
    BY SeesNow
  <2> QED BY <2>1, <2>2
<1>3. ASSUME NEW l PROVE Cleared(r, l)' <=> Cleared(r, l)
  <2>1. Cleared(r, l)' <=>
              \/ Of(tx'[r].oldEdges, Doc(r), l) \cup Of(tx'[r].oldTags, Doc(r), l) = {}
              \/ Of(tx'[r].newEdges, Doc(r), l) \cup Of(tx'[r].newTags, Doc(r), l) # {}
              \/ Edge(r, l)' = {}
    BY SeesNext
  <2>2. Cleared(r, l) <=>
              \/ Of(tx[r].oldEdges, Doc(r), l) \cup Of(tx[r].oldTags, Doc(r), l) = {}
              \/ Of(tx[r].newEdges, Doc(r), l) \cup Of(tx[r].newTags, Doc(r), l) # {}
              \/ Edge(r, l) = {}
    BY SeesNow
  <2> QED BY <1>2, <2>1, <2>2
<1> QED BY <1>1, <1>2, <1>3

\* A set grows by some; what is left when some are taken and others added.
Grows(T, S, X) == T = S \cup X
Net(S, X, N) == (S \ X) \cup N
Apart(X, N) == X = {} \/ N = {}

\* What a statement does to the rows of one link: it deletes X and Y, or inserts
\* N and M.
Moved(r, l, X, N, Y, M) ==
  /\ Edge(r, l)' = Net(Edge(r, l), Of(X, Doc(r), l), Of(N, Doc(r), l))
  /\ TagRow(r, l)' = Net(TagRow(r, l), Of(Y, Doc(r), l), Of(M, Doc(r), l))
  /\ Cleared(r, l) /\ Of(X, Doc(r), l) = {} /\ Of(Y, Doc(r), l) = {} => Cleared(r, l)'
  /\ Of(N, Doc(r), l) # {} \/ Of(M, Doc(r), l) # {} => Cleared(r, l)'
  /\ Edge(r, l)' = {} => Cleared(r, l)'

LEMMA RowsGo ==
  ASSUME NEW r \in Requests, NEW l, UNCHANGED <<store, call>>,
         NEW X, NEW N, NEW Y, NEW M,
         Grows(tx'[r].oldEdges, tx[r].oldEdges, X), Grows(tx'[r].newEdges, tx[r].newEdges, N),
         Grows(tx'[r].oldTags, tx[r].oldTags, Y), Grows(tx'[r].newTags, tx[r].newTags, M),
         Apart(X, tx[r].newEdges), Apart(Y, tx[r].newTags)
  PROVE  Moved(r, l, X, N, Y, M)
<1>1. /\ Edge(r, l)' =
            (Of(edges, Doc(r), l) \ Of(tx'[r].oldEdges, Doc(r), l))
              \cup Of(tx'[r].newEdges, Doc(r), l)
      /\ TagRow(r, l)' =
            (Of(tags, Doc(r), l) \ Of(tx'[r].oldTags, Doc(r), l))
              \cup Of(tx'[r].newTags, Doc(r), l)
      /\ Cleared(r, l)' <=>
            \/ Of(tx'[r].oldEdges, Doc(r), l) \cup Of(tx'[r].oldTags, Doc(r), l) = {}
            \/ Of(tx'[r].newEdges, Doc(r), l) \cup Of(tx'[r].newTags, Doc(r), l) # {}
            \/ Edge(r, l)' = {}
  BY SeesNext
<1>2. /\ Edge(r, l) =
            (Of(edges, Doc(r), l) \ Of(tx[r].oldEdges, Doc(r), l))
              \cup Of(tx[r].newEdges, Doc(r), l)
      /\ TagRow(r, l) =
            (Of(tags, Doc(r), l) \ Of(tx[r].oldTags, Doc(r), l))
              \cup Of(tx[r].newTags, Doc(r), l)
      /\ Cleared(r, l) <=>
            \/ Of(tx[r].oldEdges, Doc(r), l) \cup Of(tx[r].oldTags, Doc(r), l) = {}
            \/ Of(tx[r].newEdges, Doc(r), l) \cup Of(tx[r].newTags, Doc(r), l) # {}
            \/ Edge(r, l) = {}
  BY SeesNow
<1>3. /\ Of(tx'[r].oldEdges, Doc(r), l) = Of(tx[r].oldEdges, Doc(r), l) \cup Of(X, Doc(r), l)
      /\ Of(tx'[r].newEdges, Doc(r), l) = Of(tx[r].newEdges, Doc(r), l) \cup Of(N, Doc(r), l)
      /\ Of(tx'[r].oldTags, Doc(r), l) = Of(tx[r].oldTags, Doc(r), l) \cup Of(Y, Doc(r), l)
      /\ Of(tx'[r].newTags, Doc(r), l) = Of(tx[r].newTags, Doc(r), l) \cup Of(M, Doc(r), l)
  BY DEF Of, Grows
<1>4. /\ Of(X, Doc(r), l) = {} \/ Of(tx[r].newEdges, Doc(r), l) = {}
      /\ Of(Y, Doc(r), l) = {} \/ Of(tx[r].newTags, Doc(r), l) = {}
  BY DEF Of, Apart
<1>5. Edge(r, l)' = Net(Edge(r, l), Of(X, Doc(r), l), Of(N, Doc(r), l))
  BY <1>1, <1>2, <1>3, <1>4 DEF Net
<1>6. TagRow(r, l)' = Net(TagRow(r, l), Of(Y, Doc(r), l), Of(M, Doc(r), l))
  BY <1>1, <1>2, <1>3, <1>4 DEF Net
<1>7. Cleared(r, l) /\ Of(X, Doc(r), l) = {} /\ Of(Y, Doc(r), l) = {} => Cleared(r, l)'
  <2>1. ASSUME Of(X, Doc(r), l) = {}
        PROVE  Edge(r, l)' = Edge(r, l) \cup Of(N, Doc(r), l)
    BY <1>5, <2>1 DEF Net
  <2> QED BY <1>1, <1>2, <1>3, <2>1
<1>8. Of(N, Doc(r), l) # {} \/ Of(M, Doc(r), l) # {} => Cleared(r, l)'
  BY <1>1, <1>3
<1> QED BY <1>1, <1>5, <1>6, <1>7, <1>8 DEF Moved

\* What a statement makes of its transaction t, as a relation that a proof can cite.
Finds(u, t, E) == u = [t EXCEPT !.found = E]
Points(u, t, p) == u = [t EXCEPT !.prim = p]
DropsEdges(u, t, E) == u = [t EXCEPT !.oldEdges = @ \cup E]
DropsTags(u, t, T) == u = [t EXCEPT !.oldTags = @ \cup T]
AddsEdges(u, t, E) == u = [t EXCEPT !.newEdges = @ \cup E]
AddsTags(u, t, T, K, f) == u = [t EXCEPT !.newTags = @ \cup T, !.kept = @ \cup K, !.first = f]

\* A statement that only looks: what it has found.
LEMMA FoundTx ==
  ASSUME NEW t \in TxType, NEW E \in SUBSET RowType, NEW u, Finds(u, t, E)
  PROVE  /\ u \in TxType /\ u.found = E
         /\ u.newEdges = t.newEdges /\ u.oldEdges = t.oldEdges
         /\ u.newTags = t.newTags /\ u.oldTags = t.oldTags
         /\ u.reg = t.reg /\ u.prim = t.prim /\ u.first = t.first
<1>1. u \in TxType /\ u.found = E
  BY DEF TxType, Finds
<1>2. u.newEdges = t.newEdges /\ u.oldEdges = t.oldEdges
  BY DEF TxType, Finds
<1>3. u.newTags = t.newTags /\ u.oldTags = t.oldTags
  BY DEF TxType, Finds
<1>4. u.reg = t.reg /\ u.prim = t.prim /\ u.first = t.first
  BY DEF TxType, Finds
<1> QED BY <1>1, <1>2, <1>3, <1>4

\* One that deletes edges, or tags.
LEMMA DropEdgesTx ==
  ASSUME NEW t \in TxType, NEW E \in SUBSET RowType, NEW u, DropsEdges(u, t, E)
  PROVE  /\ u \in TxType /\ Grows(u.oldEdges, t.oldEdges, E) /\ u.oldTags = t.oldTags
         /\ u.newEdges = t.newEdges /\ u.newTags = t.newTags /\ u.found = t.found
         /\ u.reg = t.reg /\ u.prim = t.prim /\ u.first = t.first
<1>1. u \in TxType /\ Grows(u.oldEdges, t.oldEdges, E)
  BY DEF TxType, DropsEdges, Grows
<1>2. u.oldTags = t.oldTags /\ u.newEdges = t.newEdges /\ u.newTags = t.newTags
  BY DEF TxType, DropsEdges
<1>3. u.found = t.found /\ u.reg = t.reg /\ u.prim = t.prim /\ u.first = t.first
  BY DEF TxType, DropsEdges
<1> QED BY <1>1, <1>2, <1>3

LEMMA DropTagsTx ==
  ASSUME NEW t \in TxType, NEW T \in SUBSET RowType, NEW u, DropsTags(u, t, T)
  PROVE  /\ u \in TxType /\ Grows(u.oldTags, t.oldTags, T) /\ u.oldEdges = t.oldEdges
         /\ u.newEdges = t.newEdges /\ u.newTags = t.newTags /\ u.found = t.found
         /\ u.reg = t.reg /\ u.prim = t.prim /\ u.first = t.first
<1>1. u \in TxType /\ Grows(u.oldTags, t.oldTags, T)
  BY DEF TxType, DropsTags, Grows
<1>2. u.oldEdges = t.oldEdges /\ u.newEdges = t.newEdges /\ u.newTags = t.newTags
  BY DEF TxType, DropsTags
<1>3. u.found = t.found /\ u.reg = t.reg /\ u.prim = t.prim /\ u.first = t.first
  BY DEF TxType, DropsTags
<1> QED BY <1>1, <1>2, <1>3

\* It sets the primary project, or registers a subject.
Primaries == Names \cup {"", "keep"}
Firsts == Names \cup {""}

LEMMA PrimTx ==
  ASSUME NEW t \in TxType, NEW p \in Primaries, NEW u, Points(u, t, p)
  PROVE  /\ u \in TxType /\ u.prim = p
         /\ u.newEdges = t.newEdges /\ u.oldEdges = t.oldEdges
         /\ u.newTags = t.newTags /\ u.oldTags = t.oldTags
         /\ u.reg = t.reg /\ u.found = t.found /\ u.first = t.first
<1>1. u \in TxType /\ u.prim = p
  BY DEF TxType, Points, Primaries
<1>2. u.newEdges = t.newEdges /\ u.oldEdges = t.oldEdges
  BY DEF TxType, Points
<1>3. u.newTags = t.newTags /\ u.oldTags = t.oldTags
  BY DEF TxType, Points
<1>4. u.reg = t.reg /\ u.found = t.found /\ u.first = t.first
  BY DEF TxType, Points
<1> QED BY <1>1, <1>2, <1>3, <1>4

LEMMA RegisterTx ==
  ASSUME NEW t \in TxType, NEW l \in Link, NEW u, u = [t EXCEPT !.reg = @ \cup {l}]
  PROVE  /\ u \in TxType /\ u.reg = t.reg \cup {l}
         /\ u.newEdges = t.newEdges /\ u.oldEdges = t.oldEdges
         /\ u.newTags = t.newTags /\ u.oldTags = t.oldTags
         /\ u.prim = t.prim /\ u.found = t.found /\ u.first = t.first
<1>1. u \in TxType /\ u.reg = t.reg \cup {l}
  BY DEF TxType
<1>2. u.newEdges = t.newEdges /\ u.oldEdges = t.oldEdges
  BY DEF TxType
<1>3. u.newTags = t.newTags /\ u.oldTags = t.oldTags
  BY DEF TxType
<1>4. u.prim = t.prim /\ u.found = t.found /\ u.first = t.first
  BY DEF TxType
<1> QED BY <1>1, <1>2, <1>3, <1>4

\* It inserts an edge, or a tag.
LEMMA EdgeTx ==
  ASSUME NEW t \in TxType, NEW E \in SUBSET RowType, NEW u, AddsEdges(u, t, E)
  PROVE  /\ u \in TxType /\ Grows(u.newEdges, t.newEdges, E)
         /\ u.oldEdges = t.oldEdges /\ u.newTags = t.newTags /\ u.oldTags = t.oldTags
         /\ u.reg = t.reg /\ u.prim = t.prim /\ u.found = t.found /\ u.first = t.first
<1>1. u \in TxType /\ Grows(u.newEdges, t.newEdges, E)
  BY DEF TxType, Grows, AddsEdges
<1>2. u.oldEdges = t.oldEdges /\ u.newTags = t.newTags /\ u.oldTags = t.oldTags
  BY DEF TxType, Grows, AddsEdges
<1>3. u.reg = t.reg /\ u.prim = t.prim /\ u.found = t.found /\ u.first = t.first
  BY DEF TxType, Grows, AddsEdges
<1> QED BY <1>1, <1>2, <1>3

LEMMA TagTx ==
  ASSUME NEW t \in TxType, NEW T \in SUBSET RowType, NEW K \in SUBSET RowType,
         NEW f \in Firsts, NEW u, AddsTags(u, t, T, K, f)
  PROVE  /\ u \in TxType /\ Grows(u.newTags, t.newTags, T) /\ u.first = f
         /\ u.newEdges = t.newEdges /\ u.oldEdges = t.oldEdges /\ u.oldTags = t.oldTags
         /\ u.reg = t.reg /\ u.prim = t.prim /\ u.found = t.found
<1>1. u \in TxType
  BY DEF TxType, Grows, AddsTags, Firsts
<1>2. Grows(u.newTags, t.newTags, T) /\ u.first = f
  BY DEF TxType, Grows, AddsTags
<1>3. u.newEdges = t.newEdges /\ u.oldEdges = t.oldEdges /\ u.oldTags = t.oldTags
  BY DEF TxType, Grows, AddsTags
<1>4. u.reg = t.reg /\ u.prim = t.prim /\ u.found = t.found
  BY DEF TxType, Grows, AddsTags
<1> QED BY <1>1, <1>2, <1>3, <1>4

\* What is known of a transaction before a statement.
LEMMA TxnFacts ==
  ASSUME DocumentsInv, NEW r \in Requests, pc[r] \in Linking
  PROVE  /\ DocTypes /\ DocCourse(r) /\ Jobs(r) /\ Referenced /\ tx[r] \in TxType
         /\ SeenEdges(r) \subseteq RowType /\ SeenTags(r) \subseteq RowType
         /\ tags \subseteq RowType /\ edges \subseteq RowType
         /\ todo \in [Requests -> Seq(Job)] /\ tx \in [Requests -> TxType]
         /\ tx[r].newEdges \cup tx[r].newTags # {} \/ tx[r].prim # "keep" => Doc(r) \in docs
         /\ Doc(r) \in docs /\ ~Disputed(Doc(r)) =>
              /\ Tagged(Doc(r), SeenPrimary(r), SeenTags(r))
              /\ Tagged(Doc(r), tx[r].first, SeenTags(r))
              /\ pc[r] = "retag" => Of(SeenTags(r), Doc(r), Current(r)) # {}
              /\ pc[r] \in {"findtag", "untag"} => SeenPrimary(r) # Current(r).name
         /\ Doc(r) \in docs /\ ~Under(Doc(r)) =>
              \A l \in Link : Contended(Doc(r), l) \/ Staged(r, l)
<1>1. /\ DocTypes /\ DocCourse(r) /\ Jobs(r) /\ Referenced /\ Pointed(r) /\ Balanced(r)
  BY DEF DocumentsInv, DocSane
<1>2. /\ tags \subseteq RowType /\ edges \subseteq RowType
      /\ todo \in [Requests -> Seq(Job)] /\ tx \in [Requests -> TxType]
  BY <1>1 DEF DocTypes
<1>3. tx[r].newEdges \cup tx[r].newTags # {} \/ tx[r].prim # "keep" => Doc(r) \in docs
  BY <1>1 DEF DocCourse
<1> QED BY <1>1, <1>2, <1>3, TxFacts DEF Pointed, Balanced

\* The steps that are within the job of one link.
AtSteps == UnlinkSteps \cup {"tag", "newtag", "retag"}

\* A statement that touches no row of an edge or a tag.
LEMMA LookKeeps ==
  ASSUME DocumentsInv, NEW r \in Requests, pc[r] \in Linking \ {"unedge"},
         NEW s \in Linking, Goto(r, s), pc[r] \in AtSteps => s \in AtSteps,
         NEW u \in TxType, tx' = [tx EXCEPT ![r] = u],
         u.newEdges = tx[r].newEdges, u.oldEdges = tx[r].oldEdges,
         u.newTags = tx[r].newTags, u.oldTags = tx[r].oldTags, u.first = tx[r].first,
         UNCHANGED <<store, todo, hits, result, loop, call, host, before>>,
         u.prim # "keep" => Doc(r) \in docs,
         s \in UnlinkSteps => todo[r] # <<>> /\ Head(todo[r]).act = "unlink",
         s \in LinkSteps => todo[r] # <<>> /\ Head(todo[r]).act = "link",
         s \in LinkSteps \ {"register"} => Known(r, Current(r).name)',
         tx[r].reg \subseteq u.reg,
         \A l \in u.reg : l \in tx[r].reg \/
           (todo[r] # <<>> /\ Head(todo[r]).act = "link" /\ l = Current(r)),
         s \in {"unedge", "untag", "retag"} =>
           \A t \in u.found : t.doc = Doc(r) /\ LinkOf(t) = Current(r),
         Doc(r) \in docs /\ ~Disputed(Doc(r)) =>
           /\ Tagged(Doc(r), SeenPrimary(r)', SeenTags(r))
           /\ s = "retag" => Of(SeenTags(r), Doc(r), Current(r)) # {}
           /\ s \in {"findtag", "untag"} => SeenPrimary(r)' # Current(r).name,
         Doc(r) \in docs /\ ~Under(Doc(r)) /\ s \in AtSteps =>
           Contended(Doc(r), Current(r)) \/ Midway(r, Current(r))',
         \A n \in Names : Registers(r, n)' => Registers(r, n) \/ type[n] = "none"
  PROVE  Keeps(r)
<1>0. /\ DocTypes /\ DocCourse(r)
      /\ todo \in [Requests -> Seq(Job)] /\ tx \in [Requests -> TxType]
      /\ tx[r].newEdges \cup tx[r].newTags # {} => Doc(r) \in docs
      /\ Doc(r) \in docs /\ ~Disputed(Doc(r)) => Tagged(Doc(r), tx[r].first, SeenTags(r))
      /\ Doc(r) \in docs /\ ~Under(Doc(r)) =>
              \A l \in Link : Contended(Doc(r), l) \/ Staged(r, l)
  BY TxnFacts
<1>1. /\ tx' \in [Requests -> TxType] /\ tx'[r] = u
      /\ \A p \in Requests \ {r} : tx'[p] = tx[p]
  BY <1>0
<1>2. todo' = todo /\ call' = call /\ type' = type /\ Current(r)' = Current(r)
  BY DEF store, Current
<1>3. pc'[r] = s
  BY <1>0, GotoFacts DEF Linking, DocSteps, UnlinkSteps, LinkSteps
<1>4. /\ SeenTags(r)' = SeenTags(r) /\ Doc(r)' = Doc(r)
      /\ \A l : Edge(r, l)' = Edge(r, l) /\ TagRow(r, l)' = TagRow(r, l)
      /\ \A l : Cleared(r, l)' <=> Cleared(r, l)
  <2>1. UNCHANGED <<store, call>>
    OBVIOUS
  <2> QED BY <1>1, <2>1, SameRows, SeesNext
<1>5. Jobs(r)'
  <2>1. \A t \in u.newEdges \cup u.newTags : t \in tx[r].newEdges \cup tx[r].newTags
    OBVIOUS
  <2>2. \A t \in u.oldEdges \cup u.oldTags : t \in tx[r].oldEdges \cup tx[r].oldTags
    OBVIOUS
  <2>3. Linked(u) => Linked(tx[r])
    BY DEF Linked
  <2>4. pc'[r] \in Linking
    BY <1>3
  <2> QED BY <1>1, <1>2, <1>3, <2>1, <2>2, <2>3, <2>4, JobsGoOn
<1>6. Doc(r) \in docs /\ ~Disputed(Doc(r)) =>
           /\ Tagged(Doc(r), SeenPrimary(r)', SeenTags(r)')
           /\ Tagged(Doc(r), tx'[r].first, SeenTags(r)')
           /\ s = "retag" => Of(SeenTags(r)', Doc(r), Current(r)') # {}
           /\ s \in {"findtag", "untag"} => SeenPrimary(r)' # Current(r)'.name
  BY <1>0, <1>1, <1>2, <1>4
<1>7. Doc(r) \in docs /\ ~Under(Doc(r)) =>
           \A l \in Link : Contended(Doc(r), l) \/ Staged(r, l)'
  <2>1. SUFFICES ASSUME NEW l \in Link, Doc(r) \in docs, ~Under(Doc(r)),
                        ~Contended(Doc(r), l)
                 PROVE  Staged(r, l)'
    OBVIOUS
  <2>2. Staged(r, l)
    BY <1>0, <2>1
  <2>3. At(r, l)' <=> s \in AtSteps /\ l = Current(r)
    BY <1>2, <1>3 DEF At, AtSteps
  <2>4. At(r, l) => pc[r] \in AtSteps /\ l = Current(r)
    BY DEF At, AtSteps
  <2>5. Cleared(r, l)'
    BY <1>4, <2>2 DEF Staged
  <2>6. CASE At(r, l)'
    <3>1. s \in AtSteps /\ l = Current(r)
      BY <2>3, <2>6
    <3>2. Midway(r, l)'
      <4>1. Contended(Doc(r), Current(r)) \/ Midway(r, Current(r))'
        BY <2>1, <3>1
      <4>2. ~Contended(Doc(r), Current(r))
        BY <2>1, <3>1
      <4>3. Current(r)' = l
        BY <1>2, <3>1
      <4>4. Midway(r, Current(r))'
        BY <4>1, <4>2
      <4> QED BY <4>3, <4>4 DEF Midway
    <3> QED BY <2>5, <2>6, <3>2 DEF Staged
  <2>7. CASE ~At(r, l)'
    BY <1>4, <2>2, <2>3, <2>4, <2>5, <2>7 DEF Staged, Even
  <2> QED BY <2>6, <2>7
<1>8. tx'[r].newEdges \cup tx'[r].newTags # {} \/ tx'[r].prim # "keep" => Doc(r) \in docs
  BY <1>0, <1>1
<1>9. todo' \in [Requests -> Seq(Job)] /\ \A p \in Requests \ {r} : todo'[p] = todo[p]
  BY <1>0, <1>2
<1>10. UNCHANGED <<store, hits, result, loop, call, host, before>>
  OBVIOUS
<1> QED BY <1>1, <1>5, <1>6, <1>7, <1>8, <1>9, <1>10, TxnKeeps

\* A subject without a row has neither an edge nor a tag, nor is it a primary project.
LEMMA UnknownHasNone ==
  ASSUME DocumentsInv, NEW r \in Requests, pc[r] \in Linking, ToUnlink(r),
         ~Known(r, Current(r).name)
  PROVE  /\ Edge(r, Current(r)) = {} /\ TagRow(r, Current(r)) = {}
         /\ Doc(r) \in docs /\ ~Disputed(Doc(r)) => SeenPrimary(r) # Current(r).name
<1>1. /\ Referenced /\ Current(r).name \in Names /\ ~Linked(tx[r])
      /\ Doc(r) \in docs /\ ~Disputed(Doc(r)) =>
           Tagged(Doc(r), SeenPrimary(r), SeenTags(r))
  BY TxnFacts, JobFacts DEF ToUnlink
<1>2. type[Current(r).name] = "none"
  BY DEF Known
<1>3. \A t \in tags \cup edges : t.name # Current(r).name
  BY <1>1, <1>2 DEF Referenced
<1>4. tx[r].newEdges = {} /\ tx[r].newTags = {}
  BY <1>1 DEF Linked
<1>5. /\ \A t \in SeenTags(r) : t.name # Current(r).name
      /\ \A t \in SeenEdges(r) : t.name # Current(r).name
  BY <1>3, <1>4 DEF SeenTags, SeenEdges
<1>6. Edge(r, Current(r)) = {} /\ TagRow(r, Current(r)) = {}
  BY <1>5 DEF Edge, TagRow, Of
<1>7. Current(r).name # ""
  BY <1>1, DocumentsAssumption
<1>8. \A d, p : Tagged(d, p, SeenTags(r)) /\ p # "" => p # Current(r).name
  BY <1>5 DEF Tagged, Of
<1> QED BY <1>1, <1>6, <1>7, <1>8

LEMMA FindEdgeKeeps ==
  ASSUME DocumentsInv, NEW r \in Requests, FindEdge(r)
  PROVE  Keeps(r)
<1>1. /\ ToUnlink(r) /\ pc[r] = "txn" /\ todo[r] # <<>> /\ Head(todo[r]).act = "unlink"
      /\ UNCHANGED <<store, todo, hits, result, loop, call, host, before>>
  BY DEF FindEdge, ToUnlink
<1>2. pc[r] \in Linking \ {"unedge"} /\ pc[r] \notin AtSteps
  BY <1>1 DEF Linking, LinkSteps, AtSteps, UnlinkSteps
<1>0. /\ DocTypes /\ tx[r] \in TxType /\ SeenEdges(r) \subseteq RowType
      /\ tx \in [Requests -> TxType]
      /\ tx[r].prim # "keep" => Doc(r) \in docs
      /\ Doc(r) \in docs /\ ~Disputed(Doc(r)) => Tagged(Doc(r), SeenPrimary(r), SeenTags(r))
  BY <1>2, TxnFacts
<1> DEFINE n == Current(r).name
           E == IF Known(r, n) THEN Edge(r, Current(r)) ELSE {}
           s == IF ~Known(r, n) THEN "findtag" ELSE IF E = {} THEN "repoint" ELSE "unedge"
           u == [tx[r] EXCEPT !.found = E]
<1>3. tx' = [tx EXCEPT ![r] = u] /\ Goto(r, s)
  BY DEF FindEdge, Edge
<1>4. E \in SUBSET RowType /\ \A t \in E : t.doc = Doc(r) /\ LinkOf(t) = Current(r)
  <2>1. Current(r) \in Link
    BY <1>1, <1>2, JobFacts
  <2> QED BY <1>0, <2>1 DEF Edge, Of, LinkOf, Link
<1>50. Finds(u, tx[r], E)
  BY DEF Finds
<1>5. /\ u \in TxType /\ u.found = E
      /\ u.newEdges = tx[r].newEdges /\ u.oldEdges = tx[r].oldEdges
      /\ u.newTags = tx[r].newTags /\ u.oldTags = tx[r].oldTags
      /\ u.reg = tx[r].reg /\ u.prim = tx[r].prim /\ u.first = tx[r].first
  <2> HIDE DEF u, E
  <2> QED BY <1>0, <1>4, <1>50, FoundTx
<1>6. /\ s \in Linking /\ s \in {"findtag", "repoint", "unedge"}
      /\ s \in UnlinkSteps /\ s \notin LinkSteps
      /\ s = "findtag" => ~Known(r, n)
      /\ s = "repoint" => Edge(r, Current(r)) = {}
      /\ s = "unedge" => E = Edge(r, Current(r))
  BY DEF Linking, UnlinkSteps, LinkSteps
<1> HIDE DEF s, E, u
<1>7. tx'[r] = u /\ pc'[r] = s /\ Current(r)' = Current(r)
  <2>1. pc'[r] = s
    BY <1>0, <1>3, <1>6, GotoFacts DEF Linking, DocSteps, UnlinkSteps, LinkSteps
  <2> QED BY <1>0, <1>1, <1>3, <2>1 DEF Current
<1>8. /\ SeenTags(r)' = SeenTags(r) /\ SeenPrimary(r)' = SeenPrimary(r)
      /\ \A l : Edge(r, l)' = Edge(r, l) /\ TagRow(r, l)' = TagRow(r, l)
  <2>1. UNCHANGED <<store, call>>
    BY <1>1
  <2>2. /\ SeenTags(r)' = SeenTags(r)
        /\ \A l : Edge(r, l)' = Edge(r, l) /\ TagRow(r, l)' = TagRow(r, l)
    BY <1>5, <1>7, <2>1, SameRows
  <2> QED BY <1>5, <1>7, <2>1, <2>2, SeesNext DEF SeenPrimary
<1>9. Midway(r, Current(r))'
  BY <1>1, <1>2, <1>5, <1>6, <1>7, <1>8, UnknownHasNone DEF Midway, UnlinkSteps
<1>10. \A m \in Names : Registers(r, m)' => Registers(r, m)
  BY <1>5, <1>6, <1>7 DEF Registers, LinkSteps
<1>11. Doc(r) \in docs /\ ~Disputed(Doc(r)) /\ s \in {"findtag", "untag"} =>
         SeenPrimary(r)' # Current(r).name
  BY <1>1, <1>2, <1>6, <1>8, UnknownHasNone
<1> QED BY <1>0, <1>1, <1>2, <1>3, <1>4, <1>5, <1>6, <1>8, <1>9, <1>10, <1>11, LookKeeps
         DEF LinkSteps

LEMMA RepointKeeps ==
  ASSUME DocumentsInv, NEW r \in Requests, RepointPrimary(r)
  PROVE  Keeps(r)
<1>1. /\ pc[r] = "repoint" /\ Goto(r, "findtag")
      /\ UNCHANGED <<store, todo, hits, result, loop, call, host, before>>
  BY DEF RepointPrimary
<1>2. /\ pc[r] \in Linking \ {"unedge"} /\ pc[r] \in UnlinkSteps
      /\ "findtag" \in AtSteps /\ "findtag" \in Linking \cap UnlinkSteps
      /\ "findtag" \notin LinkSteps
  BY <1>1 DEF Linking, AtSteps, UnlinkSteps, LinkSteps
<1>0. /\ DocTypes /\ tx[r] \in TxType /\ SeenTags(r) \subseteq RowType /\ Jobs(r)
      /\ tx \in [Requests -> TxType]
      /\ tx[r].prim # "keep" => Doc(r) \in docs
      /\ Doc(r) \in docs /\ ~Disputed(Doc(r)) => Tagged(Doc(r), SeenPrimary(r), SeenTags(r))
      /\ Doc(r) \in docs /\ ~Under(Doc(r)) =>
              \A l \in Link : Contended(Doc(r), l) \/ Staged(r, l)
  BY <1>2, TxnFacts
<1>3. PICK p \in IF IsPrimary(r) THEN Repoint(r, Current(r)) ELSE {tx[r].prim} :
        tx' = [tx EXCEPT ![r].prim = p]
  BY DEF RepointPrimary
<1>4. todo[r] # <<>> /\ Head(todo[r]).act = "unlink"
  BY <1>0, <1>2 DEF Jobs
<1>5. Current(r) \in Link /\ Current(r).name \in Names
  BY <1>2, <1>4, JobFacts
<1>6. IsPrimary(r) =>
        /\ Doc(r) \in docs /\ p # Current(r).name /\ p \in Names \cup {""}
        /\ Tagged(Doc(r), p, SeenTags(r))
  <2>1. SUFFICES ASSUME IsPrimary(r), p \in Repoint(r, Current(r))
                 PROVE  /\ Doc(r) \in docs /\ p # Current(r).name /\ p \in Names \cup {""}
                        /\ Tagged(Doc(r), p, SeenTags(r))
    BY <1>3
  <2>2. CASE p = ""
    BY <1>5, <2>1, <2>2, DocumentsAssumption DEF IsPrimary, Tagged
  <2>3. CASE p \in Others(r, Current(r))
    <3>1. PICK t \in SeenTags(r) : /\ t.doc = Doc(r) /\ t.kind = "project"
                                   /\ t.name # Current(r).name /\ p = t.name
      BY <2>3 DEF Others
    <3>2. t \in Of(SeenTags(r), Doc(r), [kind |-> "project", name |-> p])
      BY <3>1 DEF Of
    <3>3. t \in RowType
      BY <1>0
    <3> QED BY <2>1, <3>1, <3>2, <3>3 DEF IsPrimary, Tagged, RowType
  <2> QED BY <2>1, <2>2, <2>3 DEF Repoint
<1>7. ~IsPrimary(r) => p = tx[r].prim
  BY <1>3
<1> DEFINE u == [tx[r] EXCEPT !.prim = p]
<1>8. /\ p \in Primaries /\ (p # "keep" => Doc(r) \in docs)
      /\ tx' = [tx EXCEPT ![r] = u]
  <2>1. tx[r].prim \in Names \cup {"", "keep"}
    BY <1>0 DEF TxType
  <2> QED BY <1>0, <1>3, <1>6, <1>7, <2>1 DEF Primaries
<1>50. Points(u, tx[r], p)
  BY DEF Points
<1> HIDE DEF u
<1>9. /\ u \in TxType /\ u.prim = p
      /\ u.newEdges = tx[r].newEdges /\ u.oldEdges = tx[r].oldEdges
      /\ u.newTags = tx[r].newTags /\ u.oldTags = tx[r].oldTags
      /\ u.reg = tx[r].reg /\ u.found = tx[r].found /\ u.first = tx[r].first
  BY <1>0, <1>8, <1>50, PrimTx
<1>10. tx'[r] = u /\ pc'[r] = "findtag" /\ Current(r)' = Current(r)
  <2>1. pc'[r] = "findtag"
    BY <1>0, <1>1, GotoFacts DEF Linking, LinkSteps, DocSteps, UnlinkSteps
  <2> QED BY <1>0, <1>1, <1>8, <2>1 DEF Current
<1>11. /\ SeenPrimary(r)' = IF p = "keep" THEN primary[Doc(r)] ELSE p
       /\ \A l : Edge(r, l)' = Edge(r, l) /\ TagRow(r, l)' = TagRow(r, l)
  <2>1. UNCHANGED <<store, call>>
    BY <1>1
  <2> QED BY <1>9, <1>10, <2>1, SameRows, SeesNext
<1>12. Doc(r) \in docs /\ ~Disputed(Doc(r)) =>
         /\ Tagged(Doc(r), SeenPrimary(r)', SeenTags(r))
         /\ SeenPrimary(r)' # Current(r).name
  <2>1. CASE IsPrimary(r)
    <3>1. p # "keep"
      BY <1>6, <2>1, DocumentsAssumption
    <3> QED BY <1>6, <1>11, <2>1, <3>1
  <2>2. CASE ~IsPrimary(r)
    <3>1. SeenPrimary(r)' = SeenPrimary(r)
      BY <1>7, <1>11, <2>2 DEF SeenPrimary
    <3> QED BY <1>0, <2>2, <3>1 DEF IsPrimary
  <2> QED BY <2>1, <2>2
<1>13. Doc(r) \in docs /\ ~Under(Doc(r)) =>
         Contended(Doc(r), Current(r)) \/ Midway(r, Current(r))'
  <2>1. Midway(r, Current(r)) => Edge(r, Current(r)) = {}
    BY <1>1, <1>2 DEF Midway, UnlinkSteps
  <2>2. At(r, Current(r))
    BY <1>2 DEF At
  <2>3. Edge(r, Current(r)) = {} => Midway(r, Current(r))'
    BY <1>10, <1>11 DEF Midway
  <2> QED BY <1>0, <1>5, <2>1, <2>2, <2>3 DEF Staged
<1>14. \A m \in Names : Registers(r, m)' => Registers(r, m)
  BY <1>9, <1>10 DEF Registers
<1> QED BY <1>0, <1>1, <1>2, <1>4, <1>8, <1>9, <1>12, <1>13, <1>14, LookKeeps

LEMMA FindTagsKeeps ==
  ASSUME DocumentsInv, NEW r \in Requests, FindTags(r)
  PROVE  Keeps(r)
<1>1. /\ pc[r] = "findtag" /\ Goto(r, "untag")
      /\ UNCHANGED <<store, todo, hits, result, loop, call, host, before>>
  BY DEF FindTags
<1>2. /\ pc[r] \in Linking \ {"unedge"} /\ pc[r] \in UnlinkSteps
      /\ "untag" \in AtSteps /\ "untag" \in Linking \cap UnlinkSteps
      /\ "untag" \notin LinkSteps
  BY <1>1 DEF Linking, AtSteps, UnlinkSteps, LinkSteps
<1>0. /\ DocTypes /\ tx[r] \in TxType /\ SeenTags(r) \subseteq RowType /\ Jobs(r)
      /\ tx \in [Requests -> TxType]
      /\ tx[r].prim # "keep" => Doc(r) \in docs
      /\ Doc(r) \in docs /\ ~Disputed(Doc(r)) =>
           /\ Tagged(Doc(r), SeenPrimary(r), SeenTags(r))
           /\ SeenPrimary(r) # Current(r).name
      /\ Doc(r) \in docs /\ ~Under(Doc(r)) =>
              \A l \in Link : Contended(Doc(r), l) \/ Staged(r, l)
  BY <1>1, <1>2, TxnFacts
<1>4. todo[r] # <<>> /\ Head(todo[r]).act = "unlink"
  BY <1>0, <1>2 DEF Jobs
<1>5. Current(r) \in Link /\ Current(r).name \in Names
  BY <1>2, <1>4, JobFacts
<1> DEFINE E == TagRow(r, Current(r))
           u == [tx[r] EXCEPT !.found = E]
<1>6. /\ E \in SUBSET RowType /\ tx' = [tx EXCEPT ![r] = u]
      /\ \A t \in E : t.doc = Doc(r) /\ LinkOf(t) = Current(r)
  BY <1>0, <1>5 DEF FindTags, TagRow, Of, LinkOf, Link
<1>50. Finds(u, tx[r], E)
  BY DEF Finds
<1> HIDE DEF u
<1>9. /\ u \in TxType /\ u.found = E
      /\ u.newEdges = tx[r].newEdges /\ u.oldEdges = tx[r].oldEdges
      /\ u.newTags = tx[r].newTags /\ u.oldTags = tx[r].oldTags
      /\ u.reg = tx[r].reg /\ u.prim = tx[r].prim /\ u.first = tx[r].first
  <2> HIDE DEF E
  <2> QED BY <1>0, <1>6, <1>50, FoundTx
<1>10. tx'[r] = u /\ pc'[r] = "untag" /\ Current(r)' = Current(r)
  <2>1. pc'[r] = "untag"
    BY <1>0, <1>1, GotoFacts DEF Linking, LinkSteps, DocSteps, UnlinkSteps
  <2> QED BY <1>0, <1>1, <1>6, <2>1 DEF Current
<1>11. /\ SeenPrimary(r)' = SeenPrimary(r)
       /\ \A l : Edge(r, l)' = Edge(r, l) /\ TagRow(r, l)' = TagRow(r, l)
  <2>1. UNCHANGED <<store, call>>
    BY <1>1
  <2> QED BY <1>9, <1>10, <2>1, SameRows, SeesNext DEF SeenPrimary
<1>13. Doc(r) \in docs /\ ~Under(Doc(r)) =>
         Contended(Doc(r), Current(r)) \/ Midway(r, Current(r))'
  <2>1. Midway(r, Current(r)) => Edge(r, Current(r)) = {}
    BY <1>1, <1>2 DEF Midway, UnlinkSteps
  <2>2. At(r, Current(r))
    BY <1>2 DEF At
  <2>3. Edge(r, Current(r)) = {} => Midway(r, Current(r))'
    BY <1>9, <1>10, <1>11 DEF Midway
  <2> QED BY <1>0, <1>5, <2>1, <2>2, <2>3 DEF Staged
<1>14. \A m \in Names : Registers(r, m)' => Registers(r, m)
  BY <1>9, <1>10 DEF Registers
<1> QED BY <1>0, <1>1, <1>2, <1>4, <1>6, <1>9, <1>11, <1>13, <1>14, LookKeeps

LEMMA ResolveKeeps ==
  ASSUME DocumentsInv, NEW r \in Requests, Resolve(r)
  PROVE  Keeps(r)
<1>1. /\ pc[r] = "txn" /\ todo[r] # <<>> /\ Head(todo[r]).act = "link"
      /\ UNCHANGED <<store, todo, tx, hits, result, loop, call, host, before>>
  BY DEF Resolve, ToLink, work
<1>2. pc[r] \in Linking \ {"unedge"} /\ pc[r] \notin AtSteps
  BY <1>1 DEF Linking, LinkSteps, AtSteps, UnlinkSteps
<1>3. PICK s \in {"edge", "register"} :
        Goto(r, s) /\ (s = "edge" <=> Known(r, Current(r).name))
  BY DEF Resolve
<1>4. s \in Linking /\ s \in LinkSteps /\ s \notin UnlinkSteps /\ s \notin AtSteps
  BY DEF Linking, AtSteps, UnlinkSteps, LinkSteps
<1>0. /\ DocTypes /\ tx[r] \in TxType /\ tx \in [Requests -> TxType]
      /\ tx[r].prim # "keep" => Doc(r) \in docs
      /\ Doc(r) \in docs /\ ~Disputed(Doc(r)) => Tagged(Doc(r), SeenPrimary(r), SeenTags(r))
  BY <1>2, TxnFacts
<1>5. tx' = [tx EXCEPT ![r] = tx[r]] /\ tx' = tx
  BY <1>0, <1>1
<1>6. /\ SeenPrimary(r)' = SeenPrimary(r) /\ Current(r)' = Current(r)
      /\ Known(r, Current(r).name)' <=> Known(r, Current(r).name)
  BY <1>1 DEF SeenPrimary, Current, Known, Doc, store
<1>7. pc'[r] = s
  BY <1>0, <1>3, <1>4, GotoFacts DEF Linking, DocSteps, UnlinkSteps, LinkSteps
<1>8. \A m \in Names : Registers(r, m)' => Registers(r, m) \/ type[m] = "none"
  BY <1>3, <1>5, <1>6, <1>7 DEF Registers, Known
<1> QED BY <1>0, <1>1, <1>2, <1>3, <1>4, <1>5, <1>6, <1>8, LookKeeps

LEMMA RegisterKeeps ==
  ASSUME DocumentsInv, NEW r \in Requests, Register(r)
  PROVE  Keeps(r)
<1>1. /\ pc[r] = "register" /\ Goto(r, "edge")
      /\ UNCHANGED <<store, todo, hits, result, loop, call, host, before>>
  BY DEF Register
<1>2. /\ pc[r] \in Linking \ {"unedge"} /\ pc[r] \in LinkSteps /\ pc[r] \notin AtSteps
      /\ "edge" \in Linking \cap LinkSteps /\ "edge" \notin UnlinkSteps \cup AtSteps
  BY <1>1 DEF Linking, AtSteps, UnlinkSteps, LinkSteps
<1>0. /\ DocTypes /\ tx[r] \in TxType /\ Jobs(r) /\ tx \in [Requests -> TxType]
      /\ tx[r].prim # "keep" => Doc(r) \in docs
      /\ Doc(r) \in docs /\ ~Disputed(Doc(r)) => Tagged(Doc(r), SeenPrimary(r), SeenTags(r))
  BY <1>2, TxnFacts
<1>4. todo[r] # <<>> /\ Head(todo[r]).act = "link"
  BY <1>0, <1>2 DEF Jobs
<1>5. Current(r) \in Link /\ Current(r).name \in Names
  BY <1>2, <1>4, JobFacts
<1> DEFINE u == [tx[r] EXCEPT !.reg = @ \cup {Current(r)}]
<1>6. tx' = [tx EXCEPT ![r] = u]
  BY DEF Register
<1>9. /\ u \in TxType /\ u.reg = tx[r].reg \cup {Current(r)}
      /\ u.newEdges = tx[r].newEdges /\ u.oldEdges = tx[r].oldEdges
      /\ u.newTags = tx[r].newTags /\ u.oldTags = tx[r].oldTags
      /\ u.prim = tx[r].prim /\ u.found = tx[r].found /\ u.first = tx[r].first
  BY <1>0, <1>5, RegisterTx
<1> HIDE DEF u
<1>10. tx'[r] = u /\ pc'[r] = "edge" /\ Current(r)' = Current(r)
  <2>1. pc'[r] = "edge"
    BY <1>0, <1>1, GotoFacts DEF Linking, UnlinkSteps, DocSteps, LinkSteps
  <2> QED BY <1>0, <1>1, <1>6, <2>1 DEF Current
<1>11. SeenPrimary(r)' = SeenPrimary(r)
  BY <1>1, <1>9, <1>10 DEF SeenPrimary, Doc, store
<1>12. Known(r, Current(r).name)'
  BY <1>9, <1>10 DEF Known
<1>14. \A m \in Names : Registers(r, m)' => Registers(r, m)
  BY <1>1, <1>9, <1>10 DEF Registers
<1>15. /\ tx[r].reg \subseteq u.reg
       /\ \A l \in u.reg : l \in tx[r].reg \/
            (todo[r] # <<>> /\ Head(todo[r]).act = "link" /\ l = Current(r))
  BY <1>4, <1>9
<1>16. /\ u.prim # "keep" => Doc(r) \in docs
       /\ Doc(r) \in docs /\ ~Disputed(Doc(r)) => Tagged(Doc(r), SeenPrimary(r)', SeenTags(r))
  BY <1>0, <1>9, <1>11
<1>17. /\ "edge" \in Linking /\ "edge" \notin UnlinkSteps /\ "edge" \notin AtSteps
       /\ "edge" \notin {"unedge", "untag", "retag"} /\ "edge" \notin {"findtag", "untag"}
  BY <1>2
<1> HIDE DEF u
<1> QED BY <1>1, <1>2, <1>4, <1>6, <1>9, <1>12, <1>14, <1>15, <1>16, <1>17, LookKeeps

LEMMA FindTagKeeps ==
  ASSUME DocumentsInv, NEW r \in Requests, FindTag(r)
  PROVE  Keeps(r)
<1> DEFINE T == TagRow(r, Current(r))
           u == [tx[r] EXCEPT !.found = T]
<1>1. /\ pc[r] = "tag" /\ tx' = [tx EXCEPT ![r] = u]
      /\ UNCHANGED <<store, todo, hits, result, loop, call, host, before>>
  BY DEF FindTag, TagRow
<1>3. PICK s \in {"newtag", "retag"} : Goto(r, s) /\ (s = "retag" => T # {})
  BY DEF FindTag, TagRow
<1>2. /\ pc[r] \in Linking \ {"unedge"} /\ pc[r] \in LinkSteps \ {"register"}
      /\ s \in Linking \cap LinkSteps /\ s \in AtSteps /\ s \notin UnlinkSteps
  BY <1>1 DEF Linking, AtSteps, UnlinkSteps, LinkSteps
<1>0. /\ DocTypes /\ tx[r] \in TxType /\ Jobs(r) /\ tx \in [Requests -> TxType]
      /\ SeenTags(r) \subseteq RowType
      /\ tx[r].prim # "keep" => Doc(r) \in docs
      /\ Doc(r) \in docs /\ ~Disputed(Doc(r)) => Tagged(Doc(r), SeenPrimary(r), SeenTags(r))
      /\ Doc(r) \in docs /\ ~Under(Doc(r)) =>
              \A l \in Link : Contended(Doc(r), l) \/ Staged(r, l)
  BY <1>2, TxnFacts
<1>4. todo[r] # <<>> /\ Head(todo[r]).act = "link" /\ Known(r, Current(r).name)
  BY <1>0, <1>2 DEF Jobs
<1>5. Current(r) \in Link /\ Current(r).name \in Names
  BY <1>2, <1>4, JobFacts
<1>6. T \in SUBSET RowType /\ \A t \in T : t.doc = Doc(r) /\ LinkOf(t) = Current(r)
  BY <1>0, <1>5 DEF TagRow, Of, LinkOf, Link
<1>50. Finds(u, tx[r], T)
  BY DEF Finds
<1>9. /\ u \in TxType /\ u.found = T
      /\ u.newEdges = tx[r].newEdges /\ u.oldEdges = tx[r].oldEdges
      /\ u.newTags = tx[r].newTags /\ u.oldTags = tx[r].oldTags
      /\ u.reg = tx[r].reg /\ u.prim = tx[r].prim /\ u.first = tx[r].first
  <2> HIDE DEF u, T
  <2> QED BY <1>0, <1>6, <1>50, FoundTx
<1> HIDE DEF u
<1>10. tx'[r] = u /\ pc'[r] = s /\ Current(r)' = Current(r)
  <2>1. pc'[r] = s
    BY <1>0, <1>3, GotoFacts DEF Linking, UnlinkSteps, DocSteps, LinkSteps
  <2> QED BY <1>0, <1>1, <2>1 DEF Current
<1>11. /\ SeenPrimary(r)' = SeenPrimary(r)
       /\ \A l : Edge(r, l)' = Edge(r, l) /\ TagRow(r, l)' = TagRow(r, l)
  <2>1. UNCHANGED <<store, call>>
    BY <1>1
  <2> QED BY <1>9, <1>10, <2>1, SameRows, SeesNext DEF SeenPrimary
<1>12. Known(r, Current(r).name)'
  BY <1>1, <1>4, <1>9, <1>10 DEF Known, store
<1>13. Doc(r) \in docs /\ ~Under(Doc(r)) =>
         Contended(Doc(r), Current(r)) \/ Midway(r, Current(r))'
  <2>1. Midway(r, Current(r)) => Edge(r, Current(r)) # {}
    BY <1>1 DEF Midway
  <2>2. At(r, Current(r))
    BY <1>1 DEF At
  <2>3. Edge(r, Current(r)) # {} => Midway(r, Current(r))'
    BY <1>2, <1>3, <1>10, <1>11 DEF Midway, UnlinkSteps
  <2> QED BY <1>0, <1>5, <2>1, <2>2, <2>3 DEF Staged
<1>14. \A m \in Names : Registers(r, m)' => Registers(r, m)
  BY <1>3, <1>9, <1>10 DEF Registers
<1>15. s = "retag" => Of(SeenTags(r), Doc(r), Current(r)) # {}
  BY <1>3 DEF TagRow
<1> QED BY <1>0, <1>1, <1>2, <1>3, <1>4, <1>6, <1>9, <1>11, <1>12, <1>13, <1>14, <1>15, LookKeeps

LEMMA AdoptKeeps ==
  ASSUME DocumentsInv, NEW r \in Requests, Adopt(r)
  PROVE  Keeps(r)
<1> DEFINE p == IF MayAdopt(r) THEN tx[r].first ELSE tx[r].prim
           u == [tx[r] EXCEPT !.prim = p]
<1>1. /\ pc[r] = "txn" /\ Goto(r, "commit") /\ tx' = [tx EXCEPT ![r] = u]
      /\ UNCHANGED <<store, todo, hits, result, loop, call, host, before>>
  BY DEF Adopt, ToAdopt
<1>2. /\ pc[r] \in Linking \ {"unedge"} /\ pc[r] \notin AtSteps
      /\ "commit" \in Linking /\ "commit" \notin AtSteps \cup UnlinkSteps \cup LinkSteps
  BY <1>1 DEF Linking, AtSteps, UnlinkSteps, LinkSteps
<1>0. /\ DocTypes /\ tx[r] \in TxType /\ tx \in [Requests -> TxType]
      /\ tx[r].prim # "keep" => Doc(r) \in docs
      /\ Doc(r) \in docs /\ ~Disputed(Doc(r)) =>
           /\ Tagged(Doc(r), SeenPrimary(r), SeenTags(r))
           /\ Tagged(Doc(r), tx[r].first, SeenTags(r))
  BY <1>2, TxnFacts
<1>3. /\ p \in Primaries /\ (p # "keep" => Doc(r) \in docs)
      /\ MayAdopt(r) => p = tx[r].first /\ p # "keep"
      /\ ~MayAdopt(r) => p = tx[r].prim
  <2>1. tx[r].prim \in Names \cup {"", "keep"} /\ tx[r].first \in Names \cup {""}
    BY <1>0 DEF TxType
  <2> QED BY <1>0, <2>1, DocumentsAssumption DEF MayAdopt, Primaries
<1> HIDE DEF p
<1>50. Points(u, tx[r], p)
  BY DEF Points
<1> HIDE DEF u
<1>9. /\ u \in TxType /\ u.prim = p
      /\ u.newEdges = tx[r].newEdges /\ u.oldEdges = tx[r].oldEdges
      /\ u.newTags = tx[r].newTags /\ u.oldTags = tx[r].oldTags
      /\ u.reg = tx[r].reg /\ u.found = tx[r].found /\ u.first = tx[r].first
  BY <1>0, <1>3, <1>50, PrimTx
<1>10. tx'[r] = u /\ pc'[r] = "commit" /\ Current(r)' = Current(r)
  <2>1. pc'[r] = "commit"
    BY <1>0, <1>1, GotoFacts DEF Linking, UnlinkSteps, LinkSteps, DocSteps
  <2> QED BY <1>0, <1>1, <2>1 DEF Current
<1>11. SeenPrimary(r)' = IF p = "keep" THEN primary[Doc(r)] ELSE p
  BY <1>1, <1>9, <1>10 DEF SeenPrimary, Doc, store
<1>12. Doc(r) \in docs /\ ~Disputed(Doc(r)) => Tagged(Doc(r), SeenPrimary(r)', SeenTags(r))
  <2>1. CASE MayAdopt(r)
    BY <1>0, <1>3, <1>11, <2>1
  <2>2. CASE ~MayAdopt(r)
    BY <1>0, <1>3, <1>11, <2>2 DEF SeenPrimary
  <2> QED BY <2>1, <2>2
<1>14. \A m \in Names : Registers(r, m)' => Registers(r, m)
  BY <1>9, <1>10 DEF Registers
<1> QED BY <1>0, <1>1, <1>2, <1>3, <1>9, <1>12, <1>14, LookKeeps

LEMMA DeleteEdgeKeeps ==
  ASSUME DocumentsInv, NEW r \in Requests, DeleteEdge(r)
  PROVE  Keeps(r)
<1> DEFINE E == tx[r].found \cap edges
           c == Current(r)
           u == [tx[r] EXCEPT !.oldEdges = @ \cup E]
<1>1. /\ pc[r] = "unedge" /\ Goto(r, "repoint") /\ tx' = [tx EXCEPT ![r] = u]
      /\ UNCHANGED <<store, todo, hits, result, loop, call, host, before>>
  BY DEF DeleteEdge
<1>2. /\ pc[r] \in Linking /\ pc[r] \in UnlinkSteps
      /\ "repoint" \in Linking \cap UnlinkSteps /\ "repoint" \notin LinkSteps
  BY <1>1 DEF Linking, UnlinkSteps, LinkSteps
<1>0. /\ DocTypes /\ tx[r] \in TxType /\ Jobs(r) /\ tx \in [Requests -> TxType]
      /\ todo \in [Requests -> Seq(Job)] /\ edges \subseteq RowType
      /\ tx[r].newEdges \cup tx[r].newTags # {} \/ tx[r].prim # "keep" => Doc(r) \in docs
      /\ Doc(r) \in docs /\ ~Disputed(Doc(r)) =>
           /\ Tagged(Doc(r), SeenPrimary(r), SeenTags(r))
           /\ Tagged(Doc(r), tx[r].first, SeenTags(r))
      /\ Doc(r) \in docs /\ ~Under(Doc(r)) =>
              \A l \in Link : Contended(Doc(r), l) \/ Staged(r, l)
  BY <1>2, TxnFacts
<1>4. /\ todo[r] # <<>> /\ Head(todo[r]).act = "unlink"
      /\ \A t \in E : t.doc = Doc(r) /\ LinkOf(t) = c
  BY <1>0, <1>1, <1>2 DEF Jobs
<1>5. c \in Link /\ ~Linked(tx[r])
  BY <1>2, <1>4, JobFacts
<1>6. E \in SUBSET RowType
  BY <1>0
<1>50. DropsEdges(u, tx[r], E)
  BY DEF DropsEdges
<1> HIDE DEF u
<1>9. /\ u \in TxType /\ Grows(u.oldEdges, tx[r].oldEdges, E)
      /\ u.newEdges = tx[r].newEdges
      /\ u.newTags = tx[r].newTags /\ u.oldTags = tx[r].oldTags
      /\ u.reg = tx[r].reg /\ u.found = tx[r].found
      /\ u.prim = tx[r].prim /\ u.first = tx[r].first
  <2> HIDE DEF E
  <2> QED BY <1>0, <1>6, <1>50, DropEdgesTx
<1>10. /\ tx'[r] = u /\ pc'[r] = "repoint" /\ c' = c /\ tx' \in [Requests -> TxType]
       /\ \A p \in Requests \ {r} : tx'[p] = tx[p]
  <2>1. pc'[r] = "repoint"
    BY <1>0, <1>1, GotoFacts DEF Linking, LinkSteps, DocSteps, UnlinkSteps
  <2> QED BY <1>0, <1>1, <1>9, <2>1 DEF Current
<1>11. /\ UNCHANGED <<store, call>> /\ type' = type /\ call' = call /\ todo' = todo
       /\ SeenPrimary(r)' = SeenPrimary(r) /\ SeenTags(r)' = SeenTags(r)
       /\ \A l : TagRow(r, l)' = TagRow(r, l)
       /\ \A l : Edge(r, l)' = Edge(r, l) \ Of(E, Doc(r), l)
       /\ \A l : Cleared(r, l) /\ Of(E, Doc(r), l) = {} => Cleared(r, l)'
       /\ \A l : Edge(r, l)' = {} => Cleared(r, l)'
  <2>1. UNCHANGED <<store, call>>
    BY <1>1
  <2>2. type' = type /\ call' = call /\ todo' = todo
    BY <1>1 DEF store
  <2>3. SeenPrimary(r)' = SeenPrimary(r) /\ SeenTags(r)' = SeenTags(r)
    BY <1>9, <1>10, <2>1, SeesNext DEF SeenPrimary, SeenTags, Grows
  <2>4. ASSUME NEW l
        PROVE  /\ TagRow(r, l)' = TagRow(r, l)
               /\ Edge(r, l)' = Edge(r, l) \ Of(E, Doc(r), l)
               /\ Cleared(r, l) /\ Of(E, Doc(r), l) = {} => Cleared(r, l)'
               /\ Edge(r, l)' = {} => Cleared(r, l)'
    <3> DEFINE no == {}
    <3>1. /\ Grows(tx'[r].oldEdges, tx[r].oldEdges, E) /\ Grows(tx'[r].newEdges, tx[r].newEdges, no)
          /\ Grows(tx'[r].oldTags, tx[r].oldTags, no) /\ Grows(tx'[r].newTags, tx[r].newTags, no)
          /\ Apart(E, tx[r].newEdges) /\ Apart(no, tx[r].newTags)
      BY <1>5, <1>9, <1>10 DEF Linked, Grows, Apart
    <3>2. Of(no, Doc(r), l) = {} /\ no = {}
      BY DEF Of
    <3> HIDE DEF no, E
    <3>3. Moved(r, l, E, no, no, no)
      BY <2>1, <3>1, RowsGo
    <3> QED BY <3>2, <3>3 DEF Net, Moved
  <2> QED BY <2>1, <2>2, <2>3, <2>4
<1>12. Doc(r) \in docs /\ ~Under(Doc(r)) =>
         \A l \in Link : Contended(Doc(r), l) \/ Staged(r, l)'
  <2>1. SUFFICES ASSUME NEW l \in Link, Doc(r) \in docs, ~Under(Doc(r)),
                        ~Contended(Doc(r), l)
                 PROVE  Staged(r, l)'
    OBVIOUS
  <2>2. Staged(r, l)
    BY <1>0, <2>1
  <2>3. CASE l # c
    <3>1. Of(E, Doc(r), l) = {}
      BY <1>4, <1>5, <2>3, OtherRows
    <3>2. ~At(r, l) /\ ~At(r, l)'
      BY <1>10, <2>3 DEF At
    <3> QED BY <1>11, <2>2, <3>1, <3>2, OthersStaged
  <2>4. CASE l = c
    <3>1. At(r, l) /\ At(r, l)'
      BY <1>1, <1>10, <2>4 DEF At, UnlinkSteps
    <3>2. Edge(r, l) \subseteq tx[r].found
      BY <1>1, <2>2, <3>1 DEF Staged, Midway
    <3>3. Edge(r, l) \subseteq edges
      BY <1>5 DEF Edge, Of, SeenEdges, Linked
    <3>4. Edge(r, l) \subseteq Of(E, Doc(r), l)
      BY <3>2, <3>3 DEF Of, Edge
    <3>5. Edge(r, l)' = {}
      BY <1>11, <3>4
    <3>6. Midway(r, l)'
      BY <1>10, <3>5 DEF Midway, UnlinkSteps
    <3> QED BY <1>11, <3>1, <3>5, <3>6 DEF Staged
  <2> QED BY <2>3, <2>4
<1>13. Jobs(r)'
  <2>1. pc'[r] \in Linking /\ pc'[r] \in UnlinkSteps /\ pc'[r] \notin LinkSteps
    BY <1>2, <1>10
  <2>2. Linked(u) => Linked(tx[r])
    BY <1>9 DEF Linked
  <2>3. \A t \in u.oldEdges \cup u.oldTags :
          t \in tx[r].oldEdges \cup tx[r].oldTags \/ (t.doc = Doc(r) /\ LinkOf(t) = c)
    BY <1>4, <1>9 DEF Grows
  <2>4. pc'[r] \notin {"unedge", "untag", "retag"}
    BY <1>10
  <2> HIDE DEF E
  <2> QED BY <1>2, <1>4, <1>9, <1>10, <1>11, <2>1, <2>2, <2>3, <2>4, JobsGoOn
<1>14. \A m \in Names : Registers(r, m)' => Registers(r, m)
  BY <1>9, <1>10 DEF Registers
<1>15. todo' \in [Requests -> Seq(Job)] /\ \A p \in Requests \ {r} : todo'[p] = todo[p]
  BY <1>0, <1>11
<1>16. /\ tx'[r].newEdges \cup tx'[r].newTags # {} \/ tx'[r].prim # "keep" => Doc(r) \in docs
       /\ Doc(r) \in docs /\ ~Disputed(Doc(r)) =>
            /\ Tagged(Doc(r), SeenPrimary(r)', SeenTags(r)')
            /\ Tagged(Doc(r), tx'[r].first, SeenTags(r)')
            /\ ~("repoint" = "retag") /\ "repoint" \notin {"findtag", "untag"}
  BY <1>0, <1>9, <1>10, <1>11
<1> HIDE DEF E, c
<1> QED BY <1>1, <1>2, <1>10, <1>12, <1>13, <1>14, <1>15, <1>16, TxnKeeps

LEMMA DeleteTagsKeeps ==
  ASSUME DocumentsInv, NEW r \in Requests, DeleteTags(r)
  PROVE  Keeps(r)
<1> DEFINE T == tx[r].found \cap tags
           c == Current(r)
           u == [tx[r] EXCEPT !.oldTags = @ \cup T]
<1>1. /\ pc[r] = "untag" /\ Goto(r, "txn") /\ tx' = [tx EXCEPT ![r] = u]
      /\ todo' = [todo EXCEPT ![r] = Tail(@)]
      /\ UNCHANGED <<store, hits, result, loop, call, host, before>>
  BY DEF DeleteTags
<1>2. /\ pc[r] \in Linking /\ pc[r] \in UnlinkSteps
      /\ "txn" \in Linking /\ "txn" \notin LinkSteps \cup UnlinkSteps
  BY <1>1 DEF Linking, UnlinkSteps, LinkSteps
<1>0. /\ DocTypes /\ tx[r] \in TxType /\ Jobs(r) /\ tx \in [Requests -> TxType]
      /\ todo \in [Requests -> Seq(Job)] /\ tags \subseteq RowType
      /\ tx[r].newEdges \cup tx[r].newTags # {} \/ tx[r].prim # "keep" => Doc(r) \in docs
      /\ Doc(r) \in docs /\ ~Disputed(Doc(r)) =>
           /\ Tagged(Doc(r), SeenPrimary(r), SeenTags(r))
           /\ SeenPrimary(r) # Current(r).name
      /\ Doc(r) \in docs /\ ~Under(Doc(r)) =>
              \A l \in Link : Contended(Doc(r), l) \/ Staged(r, l)
  BY <1>1, <1>2, TxnFacts
<1>4. /\ todo[r] # <<>> /\ Head(todo[r]).act = "unlink"
      /\ \A t \in T : t.doc = Doc(r) /\ LinkOf(t) = c
  BY <1>0, <1>1, <1>2 DEF Jobs
<1>5. c \in Link /\ ~Linked(tx[r]) /\ Tail(todo[r]) \in Seq(Job)
  BY <1>2, <1>4, JobFacts
<1>6. T \in SUBSET RowType
  BY <1>0
<1>50. DropsTags(u, tx[r], T)
  BY DEF DropsTags
<1> HIDE DEF u
<1>9. /\ u \in TxType /\ Grows(u.oldTags, tx[r].oldTags, T)
      /\ u.newEdges = tx[r].newEdges
      /\ u.newTags = tx[r].newTags /\ u.oldEdges = tx[r].oldEdges
      /\ u.reg = tx[r].reg /\ u.found = tx[r].found
      /\ u.prim = tx[r].prim /\ u.first = tx[r].first
  <2> HIDE DEF T
  <2> QED BY <1>0, <1>6, <1>50, DropTagsTx
<1>10. /\ tx'[r] = u /\ pc'[r] = "txn" /\ tx' \in [Requests -> TxType]
       /\ \A p \in Requests \ {r} : tx'[p] = tx[p]
       /\ todo'[r] = Tail(todo[r]) /\ todo' \in [Requests -> Seq(Job)]
       /\ \A p \in Requests \ {r} : todo'[p] = todo[p]
  <2>1. pc'[r] = "txn"
    BY <1>0, <1>1, GotoFacts DEF Linking, UnlinkSteps, LinkSteps, DocSteps
  <2> QED BY <1>0, <1>1, <1>5, <1>9, <2>1
<1>7. tx[r].newEdges = {} /\ tx[r].newTags = {} /\ tx[r].first = ""
  BY <1>5 DEF Linked
<1>11. /\ UNCHANGED <<store, call>> /\ type' = type /\ call' = call
       /\ SeenPrimary(r)' = SeenPrimary(r) /\ SeenTags(r)' = SeenTags(r) \ T
       /\ \A l : Edge(r, l)' = Edge(r, l)
       /\ \A l : TagRow(r, l)' = TagRow(r, l) \ Of(T, Doc(r), l)
       /\ \A l : Cleared(r, l) /\ Of(T, Doc(r), l) = {} => Cleared(r, l)'
       /\ \A l : Edge(r, l)' = {} => Cleared(r, l)'
  <2>1. UNCHANGED <<store, call>>
    BY <1>1
  <2>2. type' = type /\ call' = call
    BY <1>1 DEF store
  <2>3. SeenPrimary(r)' = SeenPrimary(r) /\ SeenTags(r)' = SeenTags(r) \ T
    BY <1>7, <1>9, <1>10, <2>1, SeesNext DEF SeenPrimary, SeenTags, Grows
  <2>4. ASSUME NEW l
        PROVE  /\ Edge(r, l)' = Edge(r, l)
               /\ TagRow(r, l)' = TagRow(r, l) \ Of(T, Doc(r), l)
               /\ Cleared(r, l) /\ Of(T, Doc(r), l) = {} => Cleared(r, l)'
               /\ Edge(r, l)' = {} => Cleared(r, l)'
    <3> DEFINE no == {}
    <3>1. /\ Grows(tx'[r].oldEdges, tx[r].oldEdges, no) /\ Grows(tx'[r].newEdges, tx[r].newEdges, no)
          /\ Grows(tx'[r].oldTags, tx[r].oldTags, T) /\ Grows(tx'[r].newTags, tx[r].newTags, no)
          /\ Apart(no, tx[r].newEdges) /\ Apart(T, tx[r].newTags)
      BY <1>7, <1>9, <1>10 DEF Grows, Apart
    <3>2. Of(no, Doc(r), l) = {} /\ no = {}
      BY DEF Of
    <3> HIDE DEF no, T
    <3>3. Moved(r, l, no, no, T, no)
      BY <2>1, <3>1, RowsGo
    <3> QED BY <3>2, <3>3 DEF Net, Moved
  <2> QED BY <2>1, <2>2, <2>3, <2>4
<1>12. Doc(r) \in docs /\ ~Under(Doc(r)) =>
         \A l \in Link : Contended(Doc(r), l) \/ Staged(r, l)'
  <2>1. SUFFICES ASSUME NEW l \in Link, Doc(r) \in docs, ~Under(Doc(r)),
                        ~Contended(Doc(r), l)
                 PROVE  Staged(r, l)'
    OBVIOUS
  <2>2. Staged(r, l) /\ ~At(r, l)'
    BY <1>0, <1>10, <2>1 DEF At, UnlinkSteps
  <2>3. CASE l # c
    <3>1. Of(T, Doc(r), l) = {}
      BY <1>4, <1>5, <2>3, OtherRows
    <3>2. ~At(r, l)
      BY <2>3 DEF At
    <3> QED BY <1>11, <2>2, <3>1, <3>2, OthersStaged
  <2>4. CASE l = c
    <3>1. At(r, l)
      BY <1>1, <2>4 DEF At, UnlinkSteps
    <3>2. TagRow(r, l) \subseteq tx[r].found /\ Edge(r, l) = {}
      BY <1>1, <2>2, <3>1 DEF Staged, Midway, UnlinkSteps
    <3>3. TagRow(r, l) \subseteq tags
      BY <1>7 DEF TagRow, Of, SeenTags
    <3>4. TagRow(r, l) \subseteq Of(T, Doc(r), l)
      BY <3>2, <3>3 DEF Of, TagRow
    <3>5. Edge(r, l)' = {} /\ TagRow(r, l)' = {}
      BY <1>11, <3>2, <3>4
    <3> QED BY <1>11, <2>2, <3>5 DEF Staged, Even
  <2> QED BY <2>3, <2>4
<1>13. Jobs(r)'
  <2>1. pc'[r] \in Linking /\ pc'[r] \notin UnlinkSteps /\ pc'[r] \notin LinkSteps
    BY <1>2, <1>10
  <2>2. Linked(u) => Linked(tx[r])
    BY <1>9 DEF Linked
  <2>3. \A t \in u.oldEdges \cup u.oldTags :
          t \in tx[r].oldEdges \cup tx[r].oldTags \/ (t.doc = Doc(r) /\ LinkOf(t) = c)
    BY <1>4, <1>9 DEF Grows
  <2>4. pc'[r] \notin {"unedge", "untag", "retag"}
    BY <1>10
  <2> HIDE DEF T
  <2> QED BY <1>2, <1>4, <1>9, <1>10, <1>11, <2>1, <2>2, <2>3, <2>4, JobsGoOn
<1>14. \A m \in Names : Registers(r, m)' => Registers(r, m)
  BY <1>9, <1>10 DEF Registers
<1>15. Doc(r) \in docs /\ ~Disputed(Doc(r)) => Tagged(Doc(r), SeenPrimary(r)', SeenTags(r)')
  <2>1. SUFFICES ASSUME Doc(r) \in docs, ~Disputed(Doc(r)), SeenPrimary(r) # ""
                 PROVE  Tagged(Doc(r), SeenPrimary(r), SeenTags(r) \ T)
    BY <1>11 DEF Tagged
  <2>2. Tagged(Doc(r), SeenPrimary(r), SeenTags(r)) /\ SeenPrimary(r) # c.name
    BY <1>0, <2>1
  <2>3. PICK t \in SeenTags(r) : /\ t.doc = Doc(r) /\ t.kind = "project"
                                 /\ t.name = SeenPrimary(r)
    BY <2>1, <2>2 DEF Tagged, Of
  <2>4. t \notin T
    BY <1>4, <2>2, <2>3 DEF LinkOf
  <2> QED BY <2>3, <2>4 DEF Tagged, Of
<1>16. /\ tx'[r].newEdges \cup tx'[r].newTags # {} \/ tx'[r].prim # "keep" => Doc(r) \in docs
       /\ Doc(r) \in docs /\ ~Disputed(Doc(r)) =>
            /\ Tagged(Doc(r), SeenPrimary(r)', SeenTags(r)')
            /\ Tagged(Doc(r), tx'[r].first, SeenTags(r)')
            /\ ~("txn" = "retag") /\ "txn" \notin {"findtag", "untag"}
  BY <1>0, <1>7, <1>9, <1>10, <1>15 DEF Tagged
<1> HIDE DEF T, c
<1> QED BY <1>1, <1>2, <1>10, <1>12, <1>13, <1>14, <1>16, TxnKeeps

LEMMA AddEdgeKeeps ==
  ASSUME DocumentsInv, NEW r \in Requests, AddEdge(r)
  PROVE  Keeps(r)
<1> DEFINE c == Current(r)
           E == IF Edge(r, c) = {} THEN {Row(r, c)} ELSE {}
           u == [tx[r] EXCEPT !.newEdges = @ \cup E]
<1>1. /\ pc[r] = "edge" /\ Doc(r) \in docs /\ Goto(r, "tag") /\ tx' = [tx EXCEPT ![r] = u]
      /\ UNCHANGED <<store, todo, hits, result, loop, call, host, before>>
  BY DEF AddEdge, Edge
<1>2. /\ pc[r] \in Linking /\ pc[r] \in LinkSteps \ {"register"}
      /\ "tag" \in Linking \cap LinkSteps /\ "tag" \notin UnlinkSteps
  BY <1>1 DEF Linking, UnlinkSteps, LinkSteps
<1>0. /\ DocTypes /\ tx[r] \in TxType /\ Jobs(r) /\ tx \in [Requests -> TxType]
      /\ todo \in [Requests -> Seq(Job)]
      /\ Doc(r) \in docs /\ ~Disputed(Doc(r)) =>
           /\ Tagged(Doc(r), SeenPrimary(r), SeenTags(r))
           /\ Tagged(Doc(r), tx[r].first, SeenTags(r))
      /\ Doc(r) \in docs /\ ~Under(Doc(r)) =>
              \A l \in Link : Contended(Doc(r), l) \/ Staged(r, l)
  BY <1>2, TxnFacts
<1>4. todo[r] # <<>> /\ Head(todo[r]).act = "link" /\ Known(r, c.name)
  BY <1>0, <1>2 DEF Jobs
<1>5. c \in Link
  BY <1>2, <1>4, JobFacts
<1>6. /\ E \in SUBSET RowType /\ \A t \in E : t = Row(r, c)
      /\ \A l : Of(E, Doc(r), l) # {} => l = c \/ l \notin Link
      /\ Edge(r, c) = {} => Of(E, Doc(r), c) # {}
  <2>1. Row(r, c) \in RowType
    BY <1>0, <1>1, <1>5 DEF Row, RowType, Link, DocTypes
  <2>2. /\ Row(r, c).doc = Doc(r) /\ Row(r, c).kind = c.kind /\ Row(r, c).name = c.name
        /\ LinkOf(Row(r, c)) = c
    BY <1>5 DEF Row, Link, LinkOf
  <2>3. \A l : Of(E, Doc(r), l) # {} => l = c \/ l \notin Link
    BY <1>5, <2>2, OtherRows
  <2>4. Row(r, c) \in Of({Row(r, c)}, Doc(r), c)
    BY <2>2 DEF Of
  <2> QED BY <2>1, <2>3, <2>4
<1> HIDE DEF E
<1>50. AddsEdges(u, tx[r], E)
  BY DEF AddsEdges
<1> HIDE DEF u
<1>9. /\ u \in TxType /\ Grows(u.newEdges, tx[r].newEdges, E)
      /\ u.oldEdges = tx[r].oldEdges
      /\ u.newTags = tx[r].newTags /\ u.oldTags = tx[r].oldTags
      /\ u.reg = tx[r].reg /\ u.found = tx[r].found
      /\ u.prim = tx[r].prim /\ u.first = tx[r].first
  BY <1>0, <1>6, <1>50, EdgeTx
<1>10. /\ tx'[r] = u /\ pc'[r] = "tag" /\ c' = c /\ tx' \in [Requests -> TxType]
       /\ \A p \in Requests \ {r} : tx'[p] = tx[p]
  <2>1. pc'[r] = "tag"
    BY <1>0, <1>1, GotoFacts DEF Linking, UnlinkSteps, DocSteps, LinkSteps
  <2> QED BY <1>0, <1>1, <1>9, <2>1 DEF Current
<1>11. /\ UNCHANGED <<store, call>> /\ type' = type /\ call' = call /\ todo' = todo
       /\ SeenPrimary(r)' = SeenPrimary(r) /\ SeenTags(r)' = SeenTags(r)
       /\ \A l : TagRow(r, l)' = TagRow(r, l)
       /\ \A l : Edge(r, l)' = Edge(r, l) \cup Of(E, Doc(r), l)
       /\ \A l : Cleared(r, l) /\ Of(E, Doc(r), l) = {} => Cleared(r, l)'
       /\ \A l : Of(E, Doc(r), l) # {} => Cleared(r, l)'
  <2>1. UNCHANGED <<store, call>>
    BY <1>1
  <2>2. type' = type /\ call' = call /\ todo' = todo
    BY <1>1 DEF store
  <2>3. SeenPrimary(r)' = SeenPrimary(r) /\ SeenTags(r)' = SeenTags(r)
    BY <1>9, <1>10, <2>1, SeesNext DEF SeenPrimary, SeenTags, Grows
  <2>4. ASSUME NEW l
        PROVE  /\ TagRow(r, l)' = TagRow(r, l)
               /\ Edge(r, l)' = Edge(r, l) \cup Of(E, Doc(r), l)
               /\ Cleared(r, l) /\ Of(E, Doc(r), l) = {} => Cleared(r, l)'
               /\ Of(E, Doc(r), l) # {} => Cleared(r, l)'
    <3> DEFINE no == {}
    <3>1. /\ Grows(tx'[r].oldEdges, tx[r].oldEdges, no) /\ Grows(tx'[r].newEdges, tx[r].newEdges, E)
          /\ Grows(tx'[r].oldTags, tx[r].oldTags, no) /\ Grows(tx'[r].newTags, tx[r].newTags, no)
          /\ Apart(no, tx[r].newEdges) /\ Apart(no, tx[r].newTags)
      BY <1>9, <1>10 DEF Grows, Apart
    <3>2. Of(no, Doc(r), l) = {} /\ no = {}
      BY DEF Of
    <3> HIDE DEF no, E
    <3>3. Moved(r, l, no, E, no, no)
      BY <2>1, <3>1, RowsGo
    <3> QED BY <3>2, <3>3 DEF Net, Moved
  <2> QED BY <2>1, <2>2, <2>3, <2>4
<1>12. Doc(r) \in docs /\ ~Under(Doc(r)) =>
         \A l \in Link : Contended(Doc(r), l) \/ Staged(r, l)'
  <2>1. SUFFICES ASSUME NEW l \in Link, Doc(r) \in docs, ~Under(Doc(r)),
                        ~Contended(Doc(r), l)
                 PROVE  Staged(r, l)'
    OBVIOUS
  <2>2. Staged(r, l) /\ ~At(r, l)
    BY <1>0, <1>1, <2>1 DEF At, UnlinkSteps
  <2>3. CASE l # c
    <3>1. Of(E, Doc(r), l) = {}
      BY <1>6, <2>3
    <3>2. ~At(r, l)'
      BY <1>10, <2>3 DEF At
    <3>3. Edge(r, l)' = Edge(r, l)
      BY <1>11, <3>1
    <3> QED BY <1>11, <2>2, <3>1, <3>2, <3>3, OthersStaged
  <2>4. CASE l = c
    <3>1. At(r, l)'
      BY <1>10, <2>4 DEF At
    <3>2. Edge(r, l)' # {}
      BY <1>6, <1>11, <2>4
    <3>3. Midway(r, l)'
      BY <1>10, <3>2 DEF Midway, UnlinkSteps
    <3>4. Cleared(r, l)'
      BY <1>11, <2>2 DEF Staged
    <3> QED BY <3>1, <3>3, <3>4 DEF Staged
  <2> QED BY <2>3, <2>4
<1>13. Jobs(r)'
  <2>1. pc'[r] \in Linking /\ pc'[r] \notin UnlinkSteps /\ pc'[r] \in LinkSteps
    BY <1>2, <1>10
  <2>2. \A t \in u.newEdges \cup u.newTags :
          t \in tx[r].newEdges \cup tx[r].newTags \/ t = Row(r, c)
    BY <1>6, <1>9 DEF Grows
  <2>3. Known(r, Current(r).name)'
    BY <1>4, <1>9, <1>10, <1>11 DEF Known
  <2>4. pc'[r] \notin {"unedge", "untag", "retag"}
    BY <1>10
  <2> QED BY <1>2, <1>4, <1>9, <1>10, <1>11, <2>1, <2>2, <2>3, <2>4, JobsGoOn
<1>14. \A m \in Names : Registers(r, m)' => Registers(r, m)
  BY <1>9, <1>10 DEF Registers
<1>15. todo' \in [Requests -> Seq(Job)] /\ \A p \in Requests \ {r} : todo'[p] = todo[p]
  BY <1>0, <1>11
<1>16. /\ tx'[r].newEdges \cup tx'[r].newTags # {} \/ tx'[r].prim # "keep" => Doc(r) \in docs
       /\ Doc(r) \in docs /\ ~Disputed(Doc(r)) =>
            /\ Tagged(Doc(r), SeenPrimary(r)', SeenTags(r)')
            /\ Tagged(Doc(r), tx'[r].first, SeenTags(r)')
            /\ ~("tag" = "retag") /\ "tag" \notin {"findtag", "untag"}
  BY <1>0, <1>1, <1>9, <1>10, <1>11 DEF Grows
<1> HIDE DEF c
<1> QED BY <1>1, <1>2, <1>10, <1>12, <1>13, <1>14, <1>15, <1>16, TxnKeeps

LEMMA AddTagKeeps ==
  ASSUME DocumentsInv, NEW r \in Requests, AddTag(r)
  PROVE  Keeps(r)
<1> DEFINE c == Current(r)
           T == IF pc[r] = "newtag" THEN {Row(r, c)} ELSE {}
           K == tx[r].found \cap tags
           u == [tx[r] EXCEPT !.newTags = @ \cup T, !.kept = @ \cup K, !.first = First(r)]
<1>1. /\ pc[r] \in {"newtag", "retag"} /\ (pc[r] = "newtag" => Doc(r) \in docs)
      /\ Goto(r, "txn") /\ tx' = [tx EXCEPT ![r] = u]
      /\ todo' = [todo EXCEPT ![r] = Tail(@)]
      /\ UNCHANGED <<store, hits, result, loop, call, host, before>>
  BY DEF AddTag
<1>2. /\ pc[r] \in Linking /\ pc[r] \in LinkSteps \ {"register"}
      /\ "txn" \in Linking /\ "txn" \notin UnlinkSteps \cup LinkSteps
  BY <1>1 DEF Linking, UnlinkSteps, LinkSteps
<1>0. /\ DocTypes /\ tx[r] \in TxType /\ Jobs(r) /\ tx \in [Requests -> TxType]
      /\ todo \in [Requests -> Seq(Job)] /\ tags \subseteq RowType
      /\ tx[r].newEdges \cup tx[r].newTags # {} \/ tx[r].prim # "keep" => Doc(r) \in docs
      /\ Doc(r) \in docs /\ ~Disputed(Doc(r)) =>
           /\ Tagged(Doc(r), SeenPrimary(r), SeenTags(r))
           /\ Tagged(Doc(r), tx[r].first, SeenTags(r))
           /\ pc[r] = "retag" => TagRow(r, c) # {}
      /\ Doc(r) \in docs /\ ~Under(Doc(r)) =>
              \A l \in Link : Contended(Doc(r), l) \/ Staged(r, l)
  BY <1>2, TxnFacts DEF TagRow
<1>4. todo[r] # <<>> /\ Head(todo[r]).act = "link" /\ Known(r, c.name)
  BY <1>0, <1>2 DEF Jobs
<1>5. c \in Link /\ c.name \in Names /\ Tail(todo[r]) \in Seq(Job)
  BY <1>2, <1>4, JobFacts
<1>6. /\ T \in SUBSET RowType /\ \A t \in T : t = Row(r, c)
      /\ \A l : Of(T, Doc(r), l) # {} => l = c \/ l \notin Link
      /\ pc[r] = "newtag" => Of(T, Doc(r), c) # {}
  <2>1. pc[r] = "newtag" => Row(r, c) \in RowType
    BY <1>0, <1>1, <1>5 DEF Row, RowType, Link, DocTypes
  <2>2. /\ Row(r, c).doc = Doc(r) /\ Row(r, c).kind = c.kind /\ Row(r, c).name = c.name
        /\ LinkOf(Row(r, c)) = c
    BY <1>5 DEF Row, Link, LinkOf
  <2>3. \A l : Of(T, Doc(r), l) # {} => l = c \/ l \notin Link
    BY <1>5, <2>2, OtherRows
  <2>4. Row(r, c) \in Of({Row(r, c)}, Doc(r), c)
    BY <2>2 DEF Of
  <2> QED BY <2>1, <2>3, <2>4
<1>7. /\ K \in SUBSET RowType /\ First(r) \in Firsts
      /\ First(r) \in {tx[r].first, c.name} /\ (First(r) # tx[r].first => c.kind = "project")
  <2>1. tx[r].first \in Names \cup {""}
    BY <1>0 DEF TxType
  <2> QED BY <1>0, <1>5, <2>1 DEF First, Firsts
<1>8. T # {} => Doc(r) \in docs
  BY <1>1
<1> HIDE DEF T, K
<1>50. AddsTags(u, tx[r], T, K, First(r))
  BY DEF AddsTags
<1> HIDE DEF u
<1>9. /\ u \in TxType /\ Grows(u.newTags, tx[r].newTags, T)
      /\ u.oldEdges = tx[r].oldEdges
      /\ u.newEdges = tx[r].newEdges /\ u.oldTags = tx[r].oldTags
      /\ u.reg = tx[r].reg /\ u.found = tx[r].found
      /\ u.prim = tx[r].prim /\ u.first = First(r)
  BY <1>0, <1>6, <1>7, <1>50, TagTx
<1>10. /\ tx'[r] = u /\ pc'[r] = "txn" /\ tx' \in [Requests -> TxType]
       /\ \A p \in Requests \ {r} : tx'[p] = tx[p]
       /\ todo'[r] = Tail(todo[r]) /\ todo' \in [Requests -> Seq(Job)]
       /\ \A p \in Requests \ {r} : todo'[p] = todo[p]
  <2>1. pc'[r] = "txn"
    BY <1>0, <1>1, GotoFacts DEF Linking, UnlinkSteps, LinkSteps, DocSteps
  <2> QED BY <1>0, <1>1, <1>5, <1>9, <2>1
<1>11. /\ UNCHANGED <<store, call>> /\ type' = type /\ call' = call
       /\ SeenPrimary(r)' = SeenPrimary(r) /\ SeenTags(r)' = SeenTags(r) \cup T
       /\ \A l : Edge(r, l)' = Edge(r, l)
       /\ \A l : TagRow(r, l)' = TagRow(r, l) \cup Of(T, Doc(r), l)
       /\ \A l : Cleared(r, l) => Cleared(r, l)'
  <2>1. UNCHANGED <<store, call>>
    BY <1>1
  <2>2. type' = type /\ call' = call
    BY <1>1 DEF store
  <2>3. SeenPrimary(r)' = SeenPrimary(r) /\ SeenTags(r)' = SeenTags(r) \cup T
    BY <1>9, <1>10, <2>1, SeesNext DEF SeenPrimary, SeenTags, Grows
  <2>4. ASSUME NEW l
        PROVE  /\ Edge(r, l)' = Edge(r, l)
               /\ TagRow(r, l)' = TagRow(r, l) \cup Of(T, Doc(r), l)
               /\ Cleared(r, l) => Cleared(r, l)'
    <3> DEFINE no == {}
    <3>1. /\ Grows(tx'[r].oldEdges, tx[r].oldEdges, no) /\ Grows(tx'[r].newEdges, tx[r].newEdges, no)
          /\ Grows(tx'[r].oldTags, tx[r].oldTags, no) /\ Grows(tx'[r].newTags, tx[r].newTags, T)
          /\ Apart(no, tx[r].newEdges) /\ Apart(no, tx[r].newTags)
      BY <1>9, <1>10 DEF Grows, Apart
    <3>2. Of(no, Doc(r), l) = {} /\ no = {}
      BY DEF Of
    <3> HIDE DEF no, T
    <3>3. Moved(r, l, no, no, no, T)
      BY <2>1, <3>1, RowsGo
    <3> QED BY <3>2, <3>3 DEF Net, Moved
  <2> QED BY <2>1, <2>2, <2>3, <2>4
<1>12. Doc(r) \in docs /\ ~Under(Doc(r)) =>
         \A l \in Link : Contended(Doc(r), l) \/ Staged(r, l)'
  <2>1. SUFFICES ASSUME NEW l \in Link, Doc(r) \in docs, ~Under(Doc(r)),
                        ~Contended(Doc(r), l)
                 PROVE  Staged(r, l)'
    OBVIOUS
  <2>2. Staged(r, l) /\ ~At(r, l)'
    BY <1>0, <1>10, <2>1 DEF At, UnlinkSteps
  <2>3. CASE l # c
    <3>1. Of(T, Doc(r), l) = {}
      BY <1>6, <2>3
    <3>2. ~At(r, l)
      BY <2>3 DEF At
    <3>3. TagRow(r, l)' = TagRow(r, l)
      BY <1>11, <3>1
    <3> QED BY <1>11, <2>2, <3>2, <3>3, OthersStaged
  <2>4. CASE l = c
    <3>1. At(r, l)
      BY <1>1, <2>4 DEF At
    <3>2. Edge(r, l) # {} /\ (pc[r] = "retag" => TagRow(r, l) # {})
      BY <1>1, <2>2, <3>1 DEF Staged, Midway
    <3>3. Edge(r, l)' # {} /\ TagRow(r, l)' # {}
      BY <1>1, <1>6, <1>11, <2>4, <3>2
    <3>4. Cleared(r, l)'
      BY <1>1, <1>11, <2>2 DEF Staged
    <3> QED BY <2>2, <3>3, <3>4 DEF Staged, Even
  <2> QED BY <2>3, <2>4
<1>13. Jobs(r)'
  <2>1. pc'[r] \in Linking /\ pc'[r] \notin UnlinkSteps /\ pc'[r] \notin LinkSteps
    BY <1>2, <1>10
  <2>2. \A t \in u.newEdges \cup u.newTags :
          t \in tx[r].newEdges \cup tx[r].newTags \/ t = Row(r, c)
    BY <1>6, <1>9 DEF Grows
  <2>4. pc'[r] \notin {"unedge", "untag", "retag"}
    BY <1>10
  <2> QED BY <1>2, <1>4, <1>9, <1>10, <1>11, <2>1, <2>2, <2>4, JobsGoOn
<1>14. \A m \in Names : Registers(r, m)' => Registers(r, m)
  BY <1>9, <1>10 DEF Registers
<1>15. Doc(r) \in docs /\ ~Disputed(Doc(r)) =>
         /\ Tagged(Doc(r), SeenPrimary(r)', SeenTags(r)')
         /\ Tagged(Doc(r), First(r), SeenTags(r)')
  <2>1. SUFFICES ASSUME Doc(r) \in docs, ~Disputed(Doc(r))
                 PROVE  /\ Tagged(Doc(r), SeenPrimary(r), SeenTags(r) \cup T)
                        /\ Tagged(Doc(r), First(r), SeenTags(r) \cup T)
    BY <1>11
  <2>2. \A p : Tagged(Doc(r), p, SeenTags(r)) => Tagged(Doc(r), p, SeenTags(r) \cup T)
    BY DEF Tagged, Of
  <2>3. CASE First(r) = tx[r].first
    BY <1>0, <2>1, <2>2, <2>3
  <2>4. CASE First(r) # tx[r].first
    <3>1. c = [kind |-> "project", name |-> First(r)]
      BY <1>5, <1>7, <2>4 DEF Link
    <3>2. TagRow(r, c) \cup Of(T, Doc(r), c) # {}
      BY <1>0, <1>1, <1>6, <2>1
    <3>3. Of(SeenTags(r) \cup T, Doc(r), c) # {}
      BY <3>2 DEF TagRow, Of
    <3> QED BY <1>0, <2>1, <2>2, <3>1, <3>3 DEF Tagged
  <2> QED BY <2>3, <2>4
<1>16. /\ tx'[r].newEdges \cup tx'[r].newTags # {} \/ tx'[r].prim # "keep" => Doc(r) \in docs
       /\ Doc(r) \in docs /\ ~Disputed(Doc(r)) =>
            /\ Tagged(Doc(r), SeenPrimary(r)', SeenTags(r)')
            /\ Tagged(Doc(r), tx'[r].first, SeenTags(r)')
            /\ ~("txn" = "retag") /\ "txn" \notin {"findtag", "untag"}
  BY <1>0, <1>8, <1>9, <1>10, <1>15 DEF Grows
<1> HIDE DEF c
<1> QED BY <1>1, <1>2, <1>10, <1>12, <1>13, <1>14, <1>16, TxnKeeps

----------------------------------------------------------------------------
(***************************************************************************)
(* The commit of the links, the deletion and the search.                   *)
(***************************************************************************)
\* The links of a PATCH or an upload are committed.
LEMMA CommitLinksKeeps ==
  ASSUME DocumentsInv, NEW r \in Requests, CommitLinks(r)
  PROVE  Keeps(r)
<1>0. DocTypes /\ DocCourse(r) /\ \A p \in Requests : before[p] \subseteq Finished
  BY DEF DocumentsInv, DocSane, DocCourse
<1> DEFINE d == Doc(r)
<1>1. /\ pc[r] = "commit" /\ Goto(r, "answer")
      /\ UNCHANGED <<docs, packages, chunks, forgets, todo, hits, result, loop, call, host, before>>
      /\ tags' = SeenTags(r) /\ edges' = SeenEdges(r)
      /\ primary' = [primary EXCEPT ![d] = SeenPrimary(r)]
      /\ type' = [n \in Names |->
                    IF \E l \in tx[r].reg : l.name = n
                    THEN SubjectType(CHOOSE l \in tx[r].reg : l.name = n)
                    ELSE type[n]]
      /\ tx' = [tx EXCEPT ![r] = NoTx]
  BY DEF CommitLinks
<1>2. tags' \subseteq RowType /\ edges' \subseteq RowType
  BY <1>0, <1>1, TxFacts
<1>3. primary' \in [Docs -> Names \cup {""}]
  <2>1. d \in Docs /\ tx[r] \in TxType
    BY <1>0, DocCallFacts, TxFacts
  <2>2. tx[r].prim \in Names \cup {"", "keep"}
    BY <2>1 DEF TxType
  <2>3. SeenPrimary(r) \in Names \cup {""}
    BY <1>0, <2>1, <2>2 DEF SeenPrimary, DocTypes
  <2> QED BY <1>0, <1>1, <2>3 DEF DocTypes
<1>4. type' \in [Names -> {"none", "project", "concept"}]
  <2>1. \A l : SubjectType(l) \in {"none", "project", "concept"}
    BY DEF SubjectType
  <2> QED BY <1>0, <1>1, <2>1 DEF DocTypes
<1>5. /\ pc' \in [Requests -> DocSteps] /\ reply' \in [Requests -> DocReplies]
      /\ pc'[r] = "answer" /\ reply' = reply
      /\ \A p \in Requests \ {r} : pc'[p] = pc[p] /\ reply'[p] = reply[p]
  BY <1>0, <1>1, GotoFacts DEF DocSteps
<1>6. tx' \in [Requests -> TxType] /\ tx'[r] = NoTx /\ \A p \in Requests \ {r} : tx'[p] = tx[p]
  BY <1>0, <1>1, NoTxFacts DEF DocTypes
<1>7. DocTypes'
  BY <1>0, <1>1, <1>2, <1>3, <1>4, <1>5, <1>6 DEF DocTypes
<1>8. Moves(r)
  BY <1>1, <1>5, <1>6 DEF Moves, Still, Early
<1>9. Ahead
  BY <1>0, <1>8, MovesAhead
<1>10. DocCourse(r)'
  <2>1. before'[r] \subseteq Finished'
    BY <1>0, <1>9, AheadFacts
  <2>2. /\ call[r].op \in {"patch", "upload"} /\ loop[host[r]] = r
        /\ reply[r] = "none" /\ result[r] = {}
    BY <1>0, <1>1 DEF DocCourse, Linking, UnlinkSteps, LinkSteps, Holding
  <2> QED BY <1>1, <1>5, <1>6, <2>1, <2>2, NoTxFacts DEF DocCourse, Holding, Linking, UnlinkSteps, LinkSteps
<1>11. reply'[r] = "none"
  BY <1>0, <1>1, <1>5 DEF DocCourse
<1>12. Jobs(r)' /\ Pointed(r)' /\ Balanced(r)' /\ Unregistered(r)' /\ Missed(r)' /\ Searched(r)'
  BY <1>1, <1>5, <1>6, <1>9, <1>11, OutsideTxn
<1>13. ~DeleteEdges(r) /\ pc[r] # "delete_document"
  BY <1>1 DEF DeleteEdges
<1> QED BY <1>7, <1>8, <1>10, <1>12, <1>13 DEF Keeps, DocSane, Stores

\* The steps of a DELETE.
LEMMA DeleteKeeps ==
  ASSUME DocumentsInv, NEW r \in Requests,
         Forget(r) \/ DeleteEdges(r) \/ DeleteDocument(r) \/ DeletePackage(r)
  PROVE  Keeps(r)
<1>0. /\ DocTypes /\ DocCourse(r) /\ Missed(r) /\ Searched(r)
      /\ \A p \in Requests : before[p] \subseteq Finished
  BY DEF DocumentsInv, DocSane, DocCourse
<1> DEFINE d == call[r].doc
<1>1. /\ pc[r] \in {"delete", "delete_document", "delete_package"} /\ call[r].op = "delete"
      /\ reply[r] = "none" /\ result[r] = {} /\ tx[r] = NoTx /\ Settled(d) /\ d \in Docs
  <2>1. pc[r] \in {"delete", "delete_document", "delete_package"}
    BY DEF Forget, DeleteEdges, DeleteDocument, DeletePackage
  <2> QED BY <1>0, <2>1, DocCallFacts DEF DocCourse, Linking, UnlinkSteps, LinkSteps
<1>2. /\ UNCHANGED <<type, forgets, todo, tx, hits, result, loop, call, host, before>>
      /\ docs' \subseteq docs /\ tags' \subseteq tags /\ edges' \subseteq edges
      /\ chunks' \subseteq chunks /\ packages' \subseteq packages
      /\ primary' = primary \/ primary' = [primary EXCEPT ![d] = ""]
  BY DEF Forget, DeleteEdges, DeleteDocument, DeletePackage, OfOthers, work
<1>3. /\ pc' \in [Requests -> DocSteps] /\ reply' \in [Requests -> DocReplies]
      /\ \A p \in Requests \ {r} : pc'[p] = pc[p] /\ reply'[p] = reply[p]
      /\ \/ Forget(r) /\ pc'[r] = "done" /\ reply'[r] \in {"ok", "refused"}
         \/ DeleteEdges(r) /\ pc'[r] = "delete_document" /\ reply'[r] = "none"
         \/ DeleteDocument(r) /\ pc'[r] = "delete_package" /\ reply'[r] = "none"
         \/ DeletePackage(r) /\ pc'[r] = "done" /\ reply'[r] = "ok"
  <2>1. CASE Forget(r)
    <3>1. PICK a \in {"ok", "refused"} : Answer(r, a)
      BY <2>1 DEF Forget
    <3> QED BY <1>0, <2>1, <3>1, AnswerFacts DEF DocReplies
  <2>2. CASE DeleteEdges(r)
    <3>1. Goto(r, "delete_document") /\ "delete_document" \in DocSteps \ {"idle"}
      BY <2>2 DEF DeleteEdges, DocSteps
    <3> QED BY <1>0, <1>1, <2>2, <3>1, GotoFacts
  <2>3. CASE DeleteDocument(r)
    <3>1. Goto(r, "delete_package") /\ "delete_package" \in DocSteps \ {"idle"}
      BY <2>3 DEF DeleteDocument, DocSteps
    <3> QED BY <1>0, <1>1, <2>3, <3>1, GotoFacts
  <2>4. CASE DeletePackage(r)
    <3>1. Answer(r, "ok") /\ "ok" \in DocReplies
      BY <2>4 DEF DeletePackage, DocReplies
    <3> QED BY <1>0, <2>4, <3>1, AnswerFacts
  <2> QED BY <2>1, <2>2, <2>3, <2>4
<1>4. DocTypes'
  <2>1. IsFiniteSet(chunks')
    BY <1>0, <1>2, FS_Subset DEF DocTypes
  <2>2. primary' \in [Docs -> Names \cup {""}]
    BY <1>0, <1>2 DEF DocTypes
  <2> QED BY <1>0, <1>2, <1>3, <2>1, <2>2 DEF DocTypes
<1>5. Moves(r)
  BY <1>1, <1>2, <1>3 DEF Moves, Still, Early
<1>6. Ahead
  BY <1>0, <1>5, MovesAhead
<1>7. /\ before'[r] \subseteq Finished' /\ \A c : Settled(c) => Settled(c)'
      /\ \A p, q \in Requests : Overlap(p, q) => Overlap(p, q)'
      /\ \A p : Doc(p)' = Doc(p) /\ \A n : Links(p, n)' <=> Links(p, n)
      /\ Linkers' = Linkers
  BY <1>0, <1>6, AheadFacts
<1>8. /\ pc'[r] = "delete_package" => d \notin docs'
      /\ pc'[r] \in {"delete_document", "delete_package"} => ~forgets
      /\ reply'[r] = "ok" => /\ d \notin docs' \cup packages'
                             /\ forgets => \A c \in chunks' : c[1] # d
  <2>1. CASE Forget(r)
    <3>1. d \notin docs' /\ d \notin packages' /\ \A c \in chunks' : c[1] # d
      BY <2>1 DEF Forget
    <3>2. pc'[r] = "done"
      BY <1>3, <2>1 DEF Forget, DeleteEdges, DeleteDocument, DeletePackage
    <3> QED BY <3>1, <3>2
  <2>2. CASE DeleteEdges(r)
    BY <1>3, <2>2 DEF Forget, DeleteEdges, DeleteDocument, DeletePackage
  <2>3. CASE DeleteDocument(r)
    BY <1>0, <1>3, <2>3 DEF Forget, DeleteEdges, DeleteDocument, DeletePackage, DocCourse
  <2>4. CASE DeletePackage(r)
    BY <1>0, <1>3, <2>4 DEF Forget, DeleteEdges, DeleteDocument, DeletePackage, DocCourse
  <2> QED BY <2>1, <2>2, <2>3, <2>4
<1>9. Settled(call[r].doc)' /\ call' = call /\ forgets' = forgets
  BY <1>1, <1>2, <1>7 DEF Settled
<1>10. DocCourse(r)'
  <2>1. /\ pc'[r] \in {"delete_document", "delete_package", "done"}
        /\ pc'[r] # "done" => reply'[r] = "none"
    BY <1>3
  <2>2. tx'[r] = NoTx /\ result'[r] = {}
    BY <1>1, <1>2
  <2> QED BY <1>1, <1>7, <1>8, <1>9, <2>1, <2>2, NoTxFacts
      DEF DocCourse, Holding, Linking, UnlinkSteps, LinkSteps
<1>11. Jobs(r)' /\ Pointed(r)' /\ Balanced(r)'
  BY <1>3 DEF Jobs, Pointed, Balanced, Linking, UnlinkSteps, LinkSteps
<1>12. Unregistered(r)'
  <2>1. ~\E l \in tx'[r].reg : TRUE
    BY <1>1, <1>2, NoTxFacts
  <2> QED BY <1>3, <2>1 DEF Unregistered, Registers
<1>13. Missed(r)'
  <2>1. CASE Forget(r) \/ DeleteEdges(r)
    <3>1. \A e \in edges' : e.doc # d
      BY <2>1 DEF Forget, DeleteEdges, OfOthers
    <3> QED BY <1>9, <3>1 DEF Missed
  <2>2. CASE DeleteDocument(r) \/ DeletePackage(r)
    <3>1. pc[r] \in {"delete_document", "delete_package"}
      BY <2>2 DEF DeleteDocument, DeletePackage
    <3>2. \A e \in edges : e.doc = d =>
            /\ ~forgets
            /\ \E q \in Linkers : Doc(q) = d /\ Links(q, e.name) /\ Overlap(q, r)
      BY <1>0, <1>1, <3>1 DEF Missed
    <3>3. \A q \in Linkers : q \in Requests
      BY DEF Linkers
    <3>4. \A e \in edges' : e.doc = d =>
            /\ ~forgets
            /\ \E q \in Linkers' : Doc(q)' = d /\ Links(q, e.name)' /\ Overlap(q, r)'
      BY <1>2, <1>7, <3>2, <3>3
    <3> QED BY <1>9, <3>4 DEF Missed
  <2> QED BY <2>1, <2>2
<1>14. Searched(r)'
  BY <1>0, <1>1, <1>2, <1>3, <1>7 DEF Searched, Settled
<1>15. /\ pc[r] = "delete_document" => DeleteDocument(r)
       /\ DeleteEdges(r) => pc'[r] = "delete_document"
  BY <1>3 DEF Forget, DeleteEdges, DeleteDocument, DeletePackage
<1> QED BY <1>4, <1>5, <1>10, <1>11, <1>12, <1>13, <1>14, <1>15 DEF Keeps, DocSane, Stores

\* The nearest n of a finite set S.
LEMMA CutFacts ==
  ASSUME NEW S, IsFiniteSet(S), NEW n \in Nat, NEW T \in Cut(S, n)
  PROVE  /\ T \subseteq S /\ IsFiniteSet(T)
         /\ Cardinality(T) = n \/ (T = S /\ Cardinality(S) < n)
<1>1. T \subseteq S /\ Cardinality(T) = IF Cardinality(S) < n THEN Cardinality(S) ELSE n
  BY DEF Cut
<1>2. IsFiniteSet(T) /\ (Cardinality(T) = Cardinality(S) => T = S)
  BY <1>1, FS_Subset
<1> QED BY <1>1, <1>2

\* The numbers of a search that over-fetches.
LEMMA FetchFacts ==
  /\ Limit \in Nat /\ Fetch \in Nat
  /\ (Overfetch - 1) * Limit = Fetch - Limit
<1>1. Limit \in Nat /\ Overfetch \in Nat
  BY DocumentsAssumption, Zenon
<1>2. Overfetch - 1 \in Int /\ (Overfetch - 1) * Limit = Limit * Overfetch - Limit
  BY <1>1
<1>3. Limit * Overfetch \in Nat
  BY <1>1
<1> QED BY <1>1, <1>2, <1>3 DEF Fetch

\* The nearest chunks, more than were asked for.
LEMMA FindChunksKeeps ==
  ASSUME DocumentsInv, NEW r \in Requests, FindChunks(r)
  PROVE  Keeps(r)
<1>0. /\ DocTypes /\ DocCourse(r) /\ Referenced /\ Searched(r)
      /\ \A p \in Requests : before[p] \subseteq Finished
  BY DEF DocumentsInv, DocSane, DocCourse
<1>1. PICK S \in Cut(chunks, Fetch) : hits' = [hits EXCEPT ![r] = S]
  BY DEF FindChunks
<1>2. /\ pc[r] = "body" /\ call[r].op = "search" /\ LoopIdle(r) /\ Take(r) /\ Goto(r, "live")
      /\ UNCHANGED <<store, todo, tx, result, call, host, before>>
  BY DEF FindChunks
<1>3. UNCHANGED <<docs, packages, tags, edges, chunks, primary, type, forgets>>
  BY <1>2 DEF store
<1>4. /\ pc' \in [Requests -> DocSteps] /\ reply' \in [Requests -> DocReplies]
      /\ pc'[r] = "live" /\ reply' = reply
      /\ \A p \in Requests \ {r} : pc'[p] = pc[p] /\ reply'[p] = reply[p]
  BY <1>0, <1>2, GotoFacts DEF DocSteps
<1>5. /\ loop' \in [Workers -> Requests \cup {NoRequest}] /\ loop'[host[r]] = r
      /\ \A w \in Workers : loop'[w] = loop[w] \/ loop[w] \in {NoRequest, r}
  BY <1>0, <1>2, LoopMoves
<1>6. DOMAIN hits' = Requests /\ hits'[r] = S /\ \A p \in Requests \ {r} : hits'[p] = hits[p]
  BY <1>0, <1>1 DEF DocTypes
<1>7. DocTypes'
  BY <1>0, <1>2, <1>3, <1>4, <1>5, <1>6 DEF DocTypes
<1>8. Moves(r)
  BY <1>2, <1>3, <1>4, <1>5, <1>6 DEF Moves, Still, Early
<1>9. Ahead
  BY <1>0, <1>8, MovesAhead
<1>10. Stores(r)
  BY <1>2 DEF Stores
<1>11. reply[r] = "none" /\ result[r] = {} /\ tx[r] = NoTx
  BY <1>0, <1>2 DEF DocCourse, Linking, UnlinkSteps, LinkSteps
<1>12. before'[r] \subseteq Finished' /\ \A d : Settled(d) => Settled(d)'
  BY <1>0, <1>9, AheadFacts
<1>13. DocCourse(r)'
  BY <1>2, <1>4, <1>5, <1>11, <1>12, NoTxFacts DEF DocCourse, Holding, Linking, UnlinkSteps, LinkSteps
<1>14. Jobs(r)' /\ Pointed(r)' /\ Balanced(r)'
  BY <1>4 DEF Jobs, Pointed, Balanced, Linking, UnlinkSteps, LinkSteps
<1>15. Unregistered(r)'
  <2>1. ~\E l \in tx'[r].reg : TRUE
    BY <1>2, <1>11, NoTxFacts
  <2> QED BY <1>4, <2>1 DEF Unregistered, Registers
<1>16. Missed(r)'
  BY <1>2, <1>4, <1>11 DEF Missed
<1>17. Searched(r)'
  <2>1. S \subseteq chunks /\ IsFiniteSet(S) /\ (Cardinality(S) = Fetch \/ S = chunks)
    BY <1>0, CutFacts, FetchFacts DEF DocTypes
  <2>2. \A c \in S : Settled(c[1])'
    BY <1>0, <1>12, <2>1 DEF Referenced
  <2>3. Older(r)' \subseteq chunks
    BY <1>3 DEF Older
  <2>4. Cardinality(S) = Fetch \/ Older(r)' \subseteq S
    BY <2>1, <2>3
  <2> QED BY <1>2, <1>4, <1>6, <1>11, <2>1, <2>2, <2>4 DEF Searched, Settled
<1>18. ~DeleteEdges(r) /\ pc[r] # "delete_document"
  BY <1>2 DEF DeleteEdges
<1> QED BY <1>7, <1>8, <1>10, <1>13, <1>14, <1>15, <1>16, <1>17, <1>18 DEF Keeps, DocSane

\* The documents of the chunks are read, and the search answers.
LEMMA FindLiveKeeps ==
  ASSUME DocumentsInv, NEW r \in Requests, FindLive(r)
  PROVE  Keeps(r)
<1>0. /\ DocTypes /\ DocCourse(r) /\ Searched(r)
      /\ \A p \in Requests : before[p] \subseteq Finished /\ DocCourse(p)
  BY DEF DocumentsInv, DocSane, DocCourse
<1>1. PICK S \in Cut(Kept(hits[r]), Limit) : result' = [result EXCEPT ![r] = S]
  BY DEF FindLive
<1>2. /\ pc[r] = "live" /\ Answer(r, "ok") /\ Free(r)
      /\ UNCHANGED <<store, todo, tx, hits, call, host, before>>
  BY DEF FindLive
<1>3. UNCHANGED <<docs, packages, tags, edges, chunks, primary, type, forgets>>
  BY <1>2 DEF store
<1>4. /\ pc' \in [Requests -> DocSteps] /\ reply' \in [Requests -> DocReplies]
      /\ pc'[r] = "done" /\ reply'[r] = "ok"
      /\ \A p \in Requests \ {r} : pc'[p] = pc[p] /\ reply'[p] = reply[p]
  BY <1>0, <1>2, AnswerFacts DEF DocReplies
<1>5. /\ loop' \in [Workers -> Requests \cup {NoRequest}]
      /\ \A w \in Workers : loop'[w] = loop[w] \/ loop[w] \in {NoRequest, r}
  BY <1>0, <1>2, LoopMoves
<1>6. DOMAIN result' = Requests /\ result'[r] = S /\ \A p \in Requests \ {r} : result'[p] = result[p]
  BY <1>0, <1>1 DEF DocTypes
<1>7. DocTypes'
  BY <1>0, <1>2, <1>3, <1>4, <1>5, <1>6 DEF DocTypes
<1>8. Moves(r)
  BY <1>2, <1>3, <1>4, <1>5, <1>6 DEF Moves, Still, Early
<1>9. Ahead
  BY <1>0, <1>8, MovesAhead
<1>10. Stores(r)
  BY <1>2 DEF Stores
<1>11. call[r].op = "search" /\ tx[r] = NoTx
  BY <1>0, <1>2 DEF DocCourse, Linking, UnlinkSteps, LinkSteps
<1>12. before'[r] \subseteq Finished' /\ \A d : Settled(d) => Settled(d)'
  BY <1>0, <1>9, AheadFacts
<1>13. DocCourse(r)'
  BY <1>2, <1>4, <1>11, <1>12, NoTxFacts DEF DocCourse, Holding, Linking, UnlinkSteps, LinkSteps
<1>14. Jobs(r)' /\ Pointed(r)' /\ Balanced(r)'
  BY <1>4 DEF Jobs, Pointed, Balanced, Linking, UnlinkSteps, LinkSteps
<1>15. Unregistered(r)'
  <2>1. ~\E l \in tx'[r].reg : TRUE
    BY <1>2, <1>11, NoTxFacts
  <2> QED BY <1>4, <2>1 DEF Unregistered, Registers
<1>16. Missed(r)'
  BY <1>2, <1>11 DEF Missed
<1>17. IsFiniteSet(hits[r]) /\ Kept(hits[r]) \subseteq hits[r] /\ IsFiniteSet(Kept(hits[r]))
  <2>1. IsFiniteSet(hits[r]) /\ Kept(hits[r]) \subseteq hits[r]
    BY <1>0 DEF Searched, Kept
  <2> QED BY <2>1, FS_Subset
<1>18. /\ S \subseteq Kept(hits[r])
       /\ Cardinality(S) = Limit \/ (S = Kept(hits[r]) /\ Cardinality(Kept(hits[r])) < Limit)
  BY <1>17, CutFacts, FetchFacts
<1>19. Cardinality(S) < Limit =>
         \/ Kept(Older(r)) \subseteq S
         \/ Cardinality(hits[r] \ Kept(hits[r])) > (Overfetch - 1) * Limit
  <2>1. SUFFICES ASSUME Cardinality(S) < Limit, Cardinality(hits[r]) = Fetch
                 PROVE  Cardinality(hits[r] \ Kept(hits[r])) > (Overfetch - 1) * Limit
    <3>1. CASE Older(r) \subseteq hits[r]
      <4>1. Kept(Older(r)) \subseteq Kept(hits[r])
        BY <3>1 DEF Kept
      <4> QED BY <1>18, <4>1, FetchFacts
    <3> QED BY <1>0, <1>2, <2>1, <3>1 DEF Searched
  <2>2. Cardinality(Kept(hits[r])) < Limit
    BY <1>18, <2>1, FetchFacts
  <2> DEFINE k == Cardinality(Kept(hits[r]))
             g == Cardinality(hits[r] \ Kept(hits[r]))
  <2>3. g = Fetch - k
    <3>1. hits[r] \cap Kept(hits[r]) = Kept(hits[r])
      BY <1>17
    <3>2. g = Cardinality(hits[r]) - Cardinality(hits[r] \cap Kept(hits[r]))
      BY <1>17, FS_Difference
    <3> QED BY <2>1, <3>1, <3>2
  <2>4. k \in Nat
    BY <1>17, FS_CardinalityType
  <2> HIDE DEF k, g
  <2>5. g > Fetch - Limit
    BY <2>2, <2>3, <2>4, FetchFacts DEF k
  <2> QED BY <2>5, FetchFacts DEF g
<1>20. \A c \in S : ~\E d \in before[r] : Deletes(d, c[1]) /\ reply'[d] = "ok"
  <2>1. SUFFICES ASSUME NEW c \in S, NEW d \in before[r], Deletes(d, c[1]), reply'[d] = "ok"
                 PROVE  FALSE
    OBVIOUS
  <2>2. d \in Requests \ {r}
    BY <1>0, <1>2 DEF Finished
  <2>3. reply[d] = "ok" /\ call[d].op = "delete" /\ call[d].doc = c[1] /\ call[d].doc \in Docs
    BY <1>0, <1>4, <2>1, <2>2, DocCallFacts DEF Deletes
  <2>4. call[d].doc \notin docs
    BY <1>0, <2>2, <2>3 DEF DocCourse
  <2>5. c[1] \in docs \cup {NoDoc}
    BY <1>18 DEF Kept
  <2> QED BY <2>3, <2>4, <2>5, DocumentsAssumption
<1>21. Older(r)' = Older(r) /\ \A X : Kept(X)' = Kept(X)
  BY <1>2, <1>3 DEF Older, Kept
<1>22. Searched(r)'
  <2>1. \A c \in hits[r] : Settled(c[1])'
    BY <1>0, <1>12 DEF Searched
  <2>2. /\ hits'[r] = hits[r] /\ result'[r] = S /\ before'[r] = before[r] /\ call' = call
        /\ pc'[r] = "done"
    BY <1>2, <1>4, <1>6
  <2>3. Kept(Older(r))' = Kept(Older(r)) /\ Kept(hits[r])' = Kept(hits[r])
    BY <1>2, <1>3, <1>21 DEF Kept
  <2> QED BY <1>17, <1>19, <1>20, <2>1, <2>2, <2>3 DEF Searched, Settled, Deletes
<1>23. ~DeleteEdges(r) /\ pc[r] # "delete_document"
  BY <1>2 DEF DeleteEdges
<1> QED BY <1>7, <1>8, <1>10, <1>13, <1>14, <1>15, <1>16, <1>22, <1>23 DEF Keeps, DocSane

----------------------------------------------------------------------------
(***************************************************************************)
(* The invariant, and the properties that follow from it.                  *)
(***************************************************************************)
\* A step that keeps its own part keeps the invariant.
LEMMA KeepsKeeps ==
  ASSUME DocumentsInv, NEW r \in Requests, Keeps(r)
  PROVE  DocumentsInv'
<1>1. /\ DocTypes /\ DocTypes' /\ Moves(r) /\ Stores(r) /\ DocSane(r)'
      /\ \A p \in Requests : DocCourse(p)
  BY DEF DocumentsInv, DocSane, Keeps
<1>2. Ahead
  BY <1>1, MovesAhead
<1>3. Referenced'
  BY <1>1, <1>2, ReferencedStays
<1>4. Proceeds(r)
  BY <1>1 DEF Keeps, Moves, Still, Proceeds
<1>5. TagsAreMirrored'
  BY <1>1, <1>2, <1>4, MirroredStays
<1>6. ASSUME NEW p \in Requests, p # r PROVE DocSane(p)'
  <2>1. Still(p)
    BY <1>1, <1>6 DEF Moves
  <2>2. pc[p] \in Holding => loop'[host[p]] = p
    <3>1. SUFFICES ASSUME pc[p] \in Holding PROVE loop'[host[p]] = p
      OBVIOUS
    <3>2. loop[host[p]] = p /\ host[p] \in Workers
      BY <1>1, <3>1, DocCallFacts DEF DocCourse
    <3>3. p \notin {NoRequest, r}
      BY <1>6, DocumentsAssumption
    <3> QED BY <1>1, <3>2, <3>3 DEF Moves
  <2> QED BY <1>1, <1>2, <1>4, <1>6, <2>1, <2>2, DocSaneStays
<1>7. \A p \in Requests : DocSane(p)'
  BY <1>1, <1>6
<1> QED BY <1>1, <1>3, <1>5, <1>7 DEF DocumentsInv

\* A worker dies: what it served is lost, what is stored stays.
LEMMA CrashKeeps ==
  ASSUME DocumentsInv, NEW w \in Workers, WorkerCrash(w)
  PROVE  DocumentsInv'
<1> DEFINE L == {r \in Requests : host[r] = w /\ pc[r] \notin {"idle", "done"}}
<1>0. DocTypes /\ \A p \in Requests : DocCourse(p) /\ before[p] \subseteq Finished
  BY DEF DocumentsInv, DocSane, DocCourse
<1>1. /\ L # {}
      /\ pc' = [r \in Requests |-> IF r \in L THEN "done" ELSE pc[r]]
      /\ reply' = [r \in Requests |-> IF r \in L THEN "lost" ELSE reply[r]]
      /\ tx' = [r \in Requests |-> IF r \in L THEN NoTx ELSE tx[r]]
      /\ todo' = [r \in Requests |-> IF r \in L THEN <<>> ELSE todo[r]]
      /\ loop' = [loop EXCEPT ![w] = NoRequest]
      /\ UNCHANGED <<store, hits, result, call, host, before>>
  BY DEF WorkerCrash
<1>2. UNCHANGED <<docs, packages, tags, edges, chunks, primary, type, forgets>>
  BY <1>1 DEF store
<1>3. /\ \A p \in L : p \in Requests /\ pc[p] \notin {"idle", "done"}
      /\ \A p \in Requests : p \notin L /\ pc[p] \in Holding => host[p] # w
  BY DEF Holding, Linking, UnlinkSteps, LinkSteps
<1>4. PICK q \in Requests : q \in L
  BY <1>1, <1>3
<1> HIDE DEF L
<1>5. DocTypes'
  <2>1. pc' \in [Requests -> DocSteps] /\ reply' \in [Requests -> DocReplies]
    BY <1>0, <1>1 DEF DocTypes, DocSteps, DocReplies
  <2>2. tx' \in [Requests -> TxType]
    BY <1>0, <1>1, NoTxFacts DEF DocTypes
  <2>3. <<>> \in Seq(Job)
    OBVIOUS
  <2>4. todo' \in [Requests -> Seq(Job)]
    BY <1>0, <1>1, <2>3 DEF DocTypes
  <2>5. loop' \in [Workers -> Requests \cup {NoRequest}]
    BY <1>0, <1>1 DEF DocTypes
  <2> QED BY <1>0, <1>1, <1>2, <2>1, <2>2, <2>4, <2>5 DEF DocTypes
<1>6. Ahead
  BY <1>0, <1>1, <1>2, <1>3 DEF Ahead, DocTypes, Early
<1>7. Referenced'
  BY <1>1, <1>4, <1>6, ReferencedStays
<1>8. Proceeds(q)
  <2>1. DeleteEdges(q) => pc'[q] = "delete_document"
    BY <1>0, GotoFacts DEF DeleteEdges, DocSteps
  <2> QED BY <1>1, <2>1 DEF Proceeds
<1>10. TagsAreMirrored'
  BY <1>1, <1>4, <1>6, <1>8, MirroredStays
<1>11. ASSUME NEW p \in Requests PROVE DocSane(p)'
  <2>1. CASE p \in L
    <3>1. /\ pc[p] # "done" /\ pc'[p] = "done" /\ reply'[p] = "lost" /\ tx'[p] = NoTx
          /\ hits'[p] = hits[p] /\ result'[p] = result[p]
      BY <1>1, <1>3, <2>1
    <3>2. before'[p] \subseteq Finished'
      BY <1>0, <1>6, AheadFacts
    <3>3. DocCourse(p)'
      BY <3>1, <3>2, NoTxFacts DEF DocCourse, Holding, Linking, UnlinkSteps, LinkSteps
    <3>4. Jobs(p)' /\ Pointed(p)' /\ Balanced(p)' /\ Unregistered(p)' /\ Missed(p)' /\ Searched(p)'
      BY <1>6, <3>1, OutsideTxn
    <3> QED BY <3>3, <3>4 DEF DocSane
  <2>2. CASE p \notin L
    <3>1. Still(p)
      BY <1>1, <2>2 DEF Still
    <3>2. pc[p] \in Holding => loop'[host[p]] = p
      BY <1>0, <1>1, <1>3, <2>2, DocCallFacts DEF DocCourse, DocTypes
    <3> QED BY <1>1, <1>4, <1>6, <1>8, <3>1, <3>2, DocSaneStays
  <2> QED BY <2>1, <2>2
<1> QED BY <1>5, <1>7, <1>10, <1>11 DEF DocumentsInv

\* Nothing moves.
LEMMA StandStill ==
  ASSUME DocumentsInv, UNCHANGED vars
  PROVE  DocumentsInv'
<1>1. /\ UNCHANGED <<docs, packages, tags, edges, chunks, primary, type, forgets>>
      /\ UNCHANGED <<todo, tx, hits, result, loop, call, host, pc, reply, before>>
  BY DEF vars, store, work
<1>2. DocTypes'
  BY <1>1 DEF DocumentsInv, DocTypes
<1>3. Referenced'
  BY <1>1 DEF DocumentsInv, Referenced, Settled
<1>4. Ahead /\ UNCHANGED store
  BY <1>1 DEF Ahead, store
<1>6. ASSUME NEW q \in Requests PROVE Proceeds(q)
  <2>1. DeleteEdges(q) => pc'[q] = "delete_document"
    BY GotoFacts DEF DeleteEdges, DocSteps, DocumentsInv
  <2> QED BY <1>1, <2>1 DEF Proceeds
<1>7. TagsAreMirrored'
  <2>1. CASE Requests = {}
    <3>1. \A d, l : ~Contended(d, l) /\ ~Contended(d, l)'
      BY <2>1 DEF Contended, Linkers
    <3>2. Linkers = {} /\ Linkers' = {}
      BY <2>1 DEF Linkers
    <3> QED BY <1>1, <2>1, <3>1, <3>2 DEF DocumentsInv, TagsAreMirrored, Of
  <2>2. CASE Requests # {}
    BY <1>4, <1>6, <2>2, MirroredStays
  <2> QED BY <2>1, <2>2
<1>5. ASSUME NEW p \in Requests PROVE DocSane(p)'
  <2>1. Still(p)
    BY <1>1 DEF Still
  <2>2. pc[p] \in Holding => loop'[host[p]] = p
    BY <1>1 DEF DocumentsInv, DocSane, DocCourse
  <2> QED BY <1>4, <1>6, <2>1, <2>2, DocSaneStays
<1> QED BY <1>2, <1>3, <1>5, <1>7 DEF DocumentsInv

\* Every handler, every crash of a worker and every stutter keep the invariant.
LEMMA NextKeeps ==
  ASSUME DocumentsInv, [Next]_vars
  PROVE  DocumentsInv'
<1>1. ASSUME NEW r \in Requests, Handler(r) PROVE DocumentsInv'
  <2>1. Keeps(r)
    BY <1>1, StartKeeps, EndKeeps, MakeKeeps, LinksBegin, FindEdgeKeeps, DeleteEdgeKeeps,
       RepointKeeps, FindTagsKeeps, DeleteTagsKeeps, ResolveKeeps, RegisterKeeps, AddEdgeKeeps,
       FindTagKeeps, AddTagKeeps, AdoptKeeps, CommitLinksKeeps, DeleteKeeps, FindChunksKeeps, FindLiveKeeps
    DEF Handler
  <2> QED BY <2>1, KeepsKeeps
<1>2. ASSUME NEW w \in Workers, WorkerCrash(w) PROVE DocumentsInv'
  BY <1>2, CrashKeeps
<1>3. CASE UNCHANGED vars
  BY <1>3, StandStill
<1> QED BY <1>1, <1>2, <1>3 DEF Next, Quiet

\* At the start nobody has begun.
LEMMA InitKeeps == Init => DocumentsInv
<1> SUFFICES ASSUME Init PROVE DocumentsInv
  OBVIOUS
<1>1. /\ docs = InitDocs /\ tags = InitTags /\ edges = InitTags /\ chunks = InitChunks
      /\ primary = [d \in Docs |-> IF d \in InitDocs THEN InitPrimary[d] ELSE ""]
      /\ pc = [r \in Requests |-> "idle"] /\ reply = [r \in Requests |-> "none"]
      /\ todo = [r \in Requests |-> <<>>] /\ tx = [r \in Requests |-> NoTx]
      /\ hits = [r \in Requests |-> {}] /\ result = [r \in Requests |-> {}]
      /\ before = [r \in Requests |-> {}]
  BY DEF Init
<1>2. DocTypes
  <2>1. InitDocs \subseteq Docs /\ IsFiniteSet(InitChunks) /\ InitTags \subseteq RowType
    BY InitAssumption DEF Docs
  <2>2. primary \in [Docs -> Names \cup {""}]
    BY <1>1, InitAssumption
  <2>3. type \in [Names -> {"none", "project", "concept"}] /\ forgets \in BOOLEAN
    BY DEF Init
  <2>4. loop \in [Workers -> Requests \cup {NoRequest}]
    BY DEF Init
  <2>5. call \in [Requests -> Calls] /\ host \in [Requests -> Workers]
    BY DEF Init
  <2>6. pc \in [Requests -> DocSteps] /\ reply \in [Requests -> DocReplies]
    BY <1>1 DEF DocSteps, DocReplies
  <2>7. todo \in [Requests -> Seq(Job)] /\ tx \in [Requests -> TxType]
    <3>1. <<>> \in Seq(Job)
      OBVIOUS
    <3> QED BY <1>1, <3>1, NoTxFacts
  <2>8. before \in [Requests -> SUBSET Requests]
    BY <1>1
  <2> QED BY <1>1, <2>1, <2>2, <2>3, <2>4, <2>5, <2>6, <2>7, <2>8 DEF DocTypes
<1>3. Referenced
  <2>1. \A d \in InitDocs : Settled(d)
    BY InitAssumption DEF Settled
  <2>2. \A c \in InitChunks : Settled(c[1])
    BY InitAssumption DEF Settled
  <2>3. \A d \in Docs : Settled(d) \/ primary[d] = ""
    BY <1>1, <2>1
  <2>4. \A t \in InitTags : type[t.name] # "none"
    <3>1. \A t \in InitTags : t.name \in Names
      BY InitAssumption DEF RowType
    <3>2. type = [n \in Names |-> IF \E t \in InitTags : t.name = n THEN "project" ELSE "none"]
      BY DEF Init
    <3> QED BY <3>1, <3>2
  <2> QED BY <1>1, <2>1, <2>2, <2>3, <2>4, InitAssumption DEF Referenced
<1>4. TagsAreMirrored
  <2>1. ASSUME NEW d \in docs PROVE Tagged(d, primary[d], tags)
    BY <1>1, <2>1, InitAssumption DEF Tagged, Of, Docs
  <2> QED BY <1>1, <2>1, MirroredMeans
<1>5. ASSUME NEW r \in Requests PROVE DocSane(r)
  <2>1. /\ pc[r] = "idle" /\ reply[r] = "none" /\ tx[r] = NoTx /\ hits[r] = {} /\ result[r] = {}
        /\ before[r] = {}
    BY <1>1
  <2>2. DocCourse(r)
    BY <2>1, NoTxFacts DEF DocCourse, Holding, Linking, UnlinkSteps, LinkSteps
  <2>3. Jobs(r) /\ Pointed(r) /\ Balanced(r) /\ Missed(r)
    BY <2>1 DEF Jobs, Pointed, Balanced, Missed, Linking, UnlinkSteps, LinkSteps
  <2>4. Unregistered(r)
    <3>1. ~\E l \in tx[r].reg : TRUE
      BY <2>1, NoTxFacts
    <3> QED BY <2>1, <3>1 DEF Unregistered, Registers
  <2>5. Searched(r)
    BY <2>1, FS_EmptySet DEF Searched
  <2> QED BY <2>2, <2>3, <2>4, <2>5 DEF DocSane
<1> QED BY <1>2, <1>3, <1>4, <1>5 DEF DocumentsInv

\* The inductive invariant of routers/documents.py and of ingest and search in
\* routers/memory.py: types, what is stored refers to documents there are, and
\* where each handler is, what it holds and what it has seen.
THEOREM DocumentsInvariance == Spec => []DocumentsInv
<1>1. Init => DocumentsInv
  BY InitKeeps
<1>2. DocumentsInv /\ [Next]_vars => DocumentsInv'
  BY NextKeeps
<1> QED BY <1>1, <1>2, PTL DEF Spec

\* "A deleted document is never recalled": drop_deleted_documents keeps every
\* chunk of a document whose DELETE was answered before the search began out of
\* its answer, whichever chunks are nearest and however many workers there are.
THEOREM NeverRecalled == Spec => []DeletedNeverRecalled
<1>1. DocumentsInv => DeletedNeverRecalled
  BY DEF DocumentsInv, DocSane, Searched, DeletedNeverRecalled
<1> QED BY <1>1, DocumentsInvariance, PTL

\* A search of routers/memory.py falls short of its limit only when it found all
\* there was, or when more than (SEARCH_OVERFETCH - 1) * limit of the chunks it
\* fetched were of deleted documents.
THEOREM LimitFilled == Spec => []SearchFillsItsLimit
<1>1. DocumentsInv => SearchFillsItsLimit
  BY DEF DocumentsInv, DocSane, Searched, Older, SearchFillsItsLimit
<1> QED BY <1>1, DocumentsInvariance, PTL

\* What DELETE /v1/documents/{id} leaves once it is answered: nothing, but for an
\* edge made while its three transactions ran without maludb_forget_document.
THEOREM NothingLeft == Spec => []DeletedLeavesNothing
<1>1. ASSUME DocumentsInv PROVE DeletedLeavesNothing
  <2>1. SUFFICES ASSUME NEW r \in Requests, call[r].op = "delete", reply[r] = "ok"
                 PROVE  /\ call[r].doc \notin docs \cup packages
                        /\ \A t \in tags : t.doc # call[r].doc
                        /\ forgets => \A c \in chunks : c[1] # call[r].doc
                        /\ \A e \in edges : e.doc = call[r].doc =>
                             /\ ~forgets
                             /\ \E q \in Linkers : /\ Doc(q) = call[r].doc
                                                   /\ Links(q, e.name) /\ Overlap(q, r)
    BY DEF DeletedLeavesNothing
  <2>2. DocCourse(r) /\ Missed(r) /\ Referenced
    BY <1>1 DEF DocumentsInv, DocSane
  <2>3. /\ call[r].doc \notin docs \cup packages
        /\ forgets => \A c \in chunks : c[1] # call[r].doc
    BY <2>1, <2>2 DEF DocCourse
  <2>4. \A t \in tags : t.doc # call[r].doc
    BY <2>2, <2>3 DEF Referenced
  <2>5. \A e \in edges : e.doc = call[r].doc =>
          /\ ~forgets
          /\ \E q \in Linkers : Doc(q) = call[r].doc /\ Links(q, e.name) /\ Overlap(q, r)
    BY <2>1, <2>2 DEF Missed
  <2> QED BY <2>3, <2>4, <2>5
<1> QED BY <1>1, DocumentsInvariance, PTL

\* document_link_subject and document_unlink_subject, whose statements each see what
\* others have committed meanwhile, leave an edge for every tag and a tag for every
\* edge, unless a link and an unlink of the same on two workers overlap, or a DELETE
\* of the document is between its transactions.  The primary project is one of the
\* tags, unless two workers change the tags at the same time.
THEOREM Mirrored == Spec => []TagsAreMirrored
<1>1. DocumentsInv => TagsAreMirrored
  BY DEF DocumentsInv
<1> QED BY <1>1, DocumentsInvariance, PTL

\* document_link_subject does not overwrite the type of a subject that is there,
\* unless two workers register it at the same time.
THEOREM TypeKept == Spec => TypeIsKept
<1> DEFINE Keeping == \A n \in Names :
       \/ type[n] \in {"none", type'[n]}
       \/ \E q, r \in Linkers : /\ Links(q, n) /\ Links(r, n)
                                /\ Overlap(q, r) /\ host[q] # host[r]
<1>1. ASSUME DocumentsInv, [Next]_vars PROVE [Keeping]_vars
  <2>1. CASE type' = type
    BY <2>1
  <2>2. ASSUME NEW r \in Requests, CommitLinks(r), NEW n \in Names
        PROVE  type[n] \in {"none", type'[n]} \/ Contested(n)
    <3>1. CASE \E l \in tx[r].reg : l.name = n
      BY <1>1, <3>1 DEF DocumentsInv, DocSane, Unregistered, Registers
    <3>2. CASE ~\E l \in tx[r].reg : l.name = n
      BY <2>2, <3>2 DEF CommitLinks
    <3> QED BY <3>1, <3>2
  <2>3. type' = type \/ \E r \in Requests : CommitLinks(r)
    <3>1. UNCHANGED vars => type' = type
      BY DEF vars, store
    <3>2. \A w \in Workers : WorkerCrash(w) => type' = type
      BY DEF WorkerCrash, store
    <3>3. ASSUME NEW r \in Requests, Handler(r) PROVE type' = type \/ CommitLinks(r)
      <4>1. Keeps(r)
        BY <1>1, <3>3, StartKeeps, EndKeeps, MakeKeeps, LinksBegin, FindEdgeKeeps,
           DeleteEdgeKeeps, RepointKeeps, FindTagsKeeps, DeleteTagsKeeps, ResolveKeeps,
           RegisterKeeps, AddEdgeKeeps, FindTagKeeps, AddTagKeeps, AdoptKeeps,
           CommitLinksKeeps, DeleteKeeps, FindChunksKeeps, FindLiveKeeps
        DEF Handler
      <4> QED BY <4>1 DEF Keeps, Stores, store, Makes, Forget, DeleteEdges, DeleteDocument,
                          DeletePackage
    <3> QED BY <1>1, <3>1, <3>2, <3>3 DEF Next, Quiet
  <2> QED BY <2>1, <2>2, <2>3 DEF Contested
<1>2. Spec => [][Keeping]_vars
  <2>1. DocumentsInv /\ [Next]_vars => [Keeping]_vars
    BY <1>1
  <2> HIDE DEF Keeping
  <2> QED BY <2>1, DocumentsInvariance, PTL DEF Spec
<1> QED BY <1>2 DEF TypeIsKept

----------------------------------------------------------------------------
(***************************************************************************)
(* Part 2: Upkeep.                                                         *)
(***************************************************************************)

Texts == 0..MaxVersion
ClaimType == [item: Items, text: Texts \cup {Fallback}, gen: Nat]

UpkeepTypes ==
  /\ version \in [Items -> Texts]
  /\ index \in [Items -> Texts \cup {None, Fallback}]
  /\ due \in Seq(Sources) /\ dirty \in Seq(Cards)
  /\ gen \in [Cards -> Nat]
  /\ batch \in [Sweeps -> Seq(ClaimType)]
  /\ made \in [Sweeps -> ClaimType \cup {NoClaim}]

\* A claim of a card has a vector of a model, of the text of its generation.
Honest(claim) ==
  claim.item \in Cards =>
    /\ Embeds /\ claim.text \in Texts
    /\ claim.gen <= gen[claim.item]
    /\ claim.gen = gen[claim.item] => claim.text = version[claim.item]

Claims ==
  \A s \in Sweeps : /\ \A k \in 1..Len(batch[s]) : Honest(batch[s][k])
                    /\ made[s] # NoClaim => Honest(made[s])

UpkeepInv == UpkeepTypes /\ Claims /\ CleanCardIsCurrent

----------------------------------------------------------------------------
(***************************************************************************)
(* The work lists.                                                         *)
(***************************************************************************)

\* Taking an item off a list leaves every other item on it.
LEMMA WithoutFacts ==
  ASSUME NEW S, NEW list \in Seq(S), NEW i
  PROVE  /\ Without(list, i) \in Seq(S)
         /\ \A j : j # i /\ Listed(list, j) => Listed(Without(list, i), j)
<1>1. CASE ~Listed(list, i)
  BY <1>1 DEF Without
<1>2. CASE Listed(list, i)
  <2> DEFINE k == CHOOSE k \in DOMAIN list : list[k] = i
             a == SubSeq(list, 1, k - 1)
             b == SubSeq(list, k + 1, Len(list))
  <2>1. k \in 1..Len(list) /\ list[k] = i /\ Len(list) \in Nat /\ DOMAIN list = 1..Len(list)
    BY <1>2 DEF Listed
  <2>2. Without(list, i) = a \o b
    BY <1>2 DEF Without
  <2> HIDE DEF k
  <2>3. /\ a \in Seq(S) /\ Len(a) = k - 1
        /\ \A n \in 1..(k - 1) : a[n] = list[n]
    <3>1. \A n \in 1..(k - 1) : list[n] \in S
      BY <2>1
    <3>2. 1 \in Int /\ k - 1 \in Int
      BY <2>1
    <3>3. /\ a \in Seq(S) /\ Len(a) = IF 1 <= k - 1 THEN k - 1 - 1 + 1 ELSE 0
          /\ \A n \in 1..(k - 1 - 1 + 1) : a[n] = list[1 + n - 1]
      BY <3>1, <3>2, SubSeqProperties
    <3> HIDE DEF a
    <3> QED BY <2>1, <3>3
  <2>4. /\ b \in Seq(S) /\ Len(b) = Len(list) - k
        /\ \A n \in 1..(Len(list) - k) : b[n] = list[k + n]
    <3>1. \A n \in (k + 1)..Len(list) : list[n] \in S
      BY <2>1
    <3>2. k + 1 \in Int /\ Len(list) \in Int
      BY <2>1
    <3>3. /\ b \in Seq(S) /\ Len(b) = IF k + 1 <= Len(list) THEN Len(list) - (k + 1) + 1 ELSE 0
          /\ \A n \in 1..(Len(list) - (k + 1) + 1) : b[n] = list[k + 1 + n - 1]
      BY <3>1, <3>2, SubSeqProperties
    <3> HIDE DEF b
    <3>4. Len(b) = Len(list) - k
      <4>1. Len(b) = IF k + 1 <= Len(list) THEN Len(list) - (k + 1) + 1 ELSE 0
        BY <3>3, Zenon
      <4>2. k \in Nat /\ Len(list) \in Nat /\ k <= Len(list)
        BY <2>1
      <4> QED BY <4>1, <4>2
    <3>5. ASSUME NEW n \in 1..(Len(list) - k) PROVE b[n] = list[k + n]
      <4>1. n \in 1..(Len(list) - (k + 1) + 1) /\ k + 1 + n - 1 = k + n
        BY <2>1
      <4>2. b[n] = list[k + 1 + n - 1]
        BY <3>3, <4>1, Zenon
      <4> QED BY <4>1, <4>2, Zenon
    <3> QED BY <3>3, <3>4, <3>5
  <2> HIDE DEF a, b
  <2>5. /\ a \o b \in Seq(S) /\ DOMAIN (a \o b) = 1..(Len(list) - 1)
        /\ \A n \in 1..(Len(list) - 1) : (a \o b)[n] = IF n < k THEN list[n] ELSE list[n + 1]
    <3>1. /\ a \o b \in Seq(S) /\ Len(a \o b) = Len(a) + Len(b)
          /\ \A n \in 1..(Len(a) + Len(b)) :
               (a \o b)[n] = IF n <= Len(a) THEN a[n] ELSE b[n - Len(a)]
      BY <2>3, <2>4, ConcatProperties, Zenon
    <3> DEFINE l == a \o b
    <3> SUFFICES /\ l \in Seq(S) /\ DOMAIN l = 1..(Len(list) - 1)
                 /\ \A n \in 1..(Len(list) - 1) :
                      l[n] = IF n < k THEN list[n] ELSE list[n + 1]
      OBVIOUS
    <3>2. /\ l \in Seq(S) /\ Len(l) = Len(a) + Len(b)
          /\ \A n \in 1..(Len(a) + Len(b)) :
               l[n] = IF n <= Len(a) THEN a[n] ELSE b[n - Len(a)]
      BY <3>1
    <3> HIDE DEF l
    <3>3. DOMAIN l = 1..(Len(list) - 1)
      BY <2>1, <2>3, <2>4, <3>2
    <3>4. ASSUME NEW n \in 1..(Len(list) - 1)
          PROVE  l[n] = IF n < k THEN list[n] ELSE list[n + 1]
      <4>0. /\ n \in 1..(Len(a) + Len(b)) /\ Len(a) = k - 1
            /\ n <= Len(a) <=> n < k
        <5>1. k \in Nat /\ Len(list) \in Nat /\ n \in Nat
          BY <2>1
        <5> QED BY <2>3, <2>4, <5>1
      <4>1. l[n] = IF n < k THEN a[n] ELSE b[n - (k - 1)]
        BY <3>2, <4>0, Zenon
      <4>2. CASE n < k
        <5>1. n \in 1..(k - 1)
          BY <2>1, <4>2
        <5> QED BY <2>3, <4>1, <4>2, <5>1, Zenon
      <4>3. CASE ~(n < k)
        <5>1. n - (k - 1) \in 1..(Len(list) - k) /\ k + (n - (k - 1)) = n + 1
          BY <2>1, <4>3
        <5>2. b[n - (k - 1)] = list[k + (n - (k - 1))]
          BY <2>4, <5>1, Zenon
        <5> QED BY <4>1, <4>3, <5>1, <5>2, Zenon
      <4> QED BY <4>2, <4>3
    <3> QED BY <3>2, <3>3, <3>4
  <2>6. ASSUME NEW j, j # i, NEW n \in DOMAIN list, list[n] = j
        PROVE  \E m \in DOMAIN (a \o b) : (a \o b)[m] = j
    <3> DEFINE l == a \o b
    <3>0. /\ DOMAIN l = 1..(Len(list) - 1)
          /\ \A m \in 1..(Len(list) - 1) : l[m] = IF m < k THEN list[m] ELSE list[m + 1]
      BY <2>5
    <3> HIDE DEF l
    <3>1. CASE n < k
      <4>1. n \in 1..(Len(list) - 1) /\ l[n] = j
        BY <2>1, <2>6, <3>0, <3>1
      <4> QED BY <3>0, <4>1 DEF l
    <3>2. CASE n > k
      <4>1. n - 1 \in 1..(Len(list) - 1) /\ l[n - 1] = j
        BY <2>1, <2>6, <3>0, <3>2
      <4> QED BY <3>0, <4>1 DEF l
    <3>3. n # k
      BY <2>1, <2>6
    <3> QED BY <2>1, <3>1, <3>2, <3>3
  <2> QED BY <2>2, <2>5, <2>6 DEF Listed
<1> QED BY <1>1, <1>2

\* Putting an item on a list leaves the others on it.
LEMMA WithFacts ==
  ASSUME NEW S, NEW list \in Seq(S), NEW i \in S
  PROVE  /\ With(list, i) \in Seq(S) /\ Listed(With(list, i), i)
         /\ \A j : Listed(list, j) => Listed(With(list, i), j)
<1>1. CASE Listed(list, i)
  BY <1>1 DEF With
<1>2. CASE ~Listed(list, i)
  <2> DEFINE l == Append(list, i)
  <2>1. /\ l \in Seq(S) /\ DOMAIN l = 1..(Len(list) + 1) /\ l[Len(list) + 1] = i
        /\ \A n \in 1..Len(list) : l[n] = list[n]
        /\ DOMAIN list = 1..Len(list) /\ Len(list) \in Nat
    OBVIOUS
  <2>2. With(list, i) = l
    BY <1>2 DEF With
  <2> HIDE DEF l
  <2>3. Listed(l, i)
    <3>1. Len(list) + 1 \in DOMAIN l
      BY <2>1
    <3> QED BY <2>1, <3>1 DEF Listed
  <2>4. \A j : Listed(list, j) => Listed(l, j)
    BY <2>1 DEF Listed
  <2> QED BY <2>1, <2>2, <2>3, <2>4
<1> QED BY <1>1, <1>2

\* A list of all cards, each once, has every card.
LEMMA AllListed ==
  ASSUME NEW list \in SetToSeqs(Cards)
  PROVE  list \in Seq(Cards) /\ \A c \in Cards : Listed(list, c)
<1> DEFINE n == Cardinality(Cards)
<1>1. IsFiniteSet(Cards) /\ n \in Nat
  BY UpkeepAssumption, FS_CardinalityType
<1>2. list \in [1..n -> Cards] /\ \A i, j \in 1..n : i # j => list[i] # list[j]
  BY DEF SetToSeqs
<1>3. Cardinality(1..n) = n
  <2>1. n \in Int /\ 1 \in Int
    BY <1>1
  <2>2. Cardinality(1..n) = IF 1 > n THEN 0 ELSE n - 1 + 1
    BY <2>1, FS_Interval
  <2> QED BY <1>1, <2>2
<1> HIDE DEF n
<1>4. list \in Injection(1..n, Cards)
  BY <1>2 DEF Injection, IsInjective
<1>5. list \in Surjection(1..n, Cards)
  BY <1>1, <1>3, <1>4, FS_Injection DEF n
<1>6. \A c \in Cards : \E i \in 1..n : list[i] = c
  BY <1>5 DEF Surjection
<1>7. list \in Seq(Cards) /\ DOMAIN list = 1..n
  BY <1>1, <1>2, SeqDef
<1> QED BY <1>6, <1>7 DEF Listed

----------------------------------------------------------------------------
(***************************************************************************)
(* Claims.                                                                 *)
(***************************************************************************)

\* The numbers that stand for no text are none of the texts.
LEMMA TextFacts ==
  /\ MaxVersion \in Nat /\ None \notin Texts /\ Fallback \notin Texts /\ None # Fallback
  /\ Fallback \in Nat
BY UpkeepAssumption DEF Texts, None, Fallback

\* A claim reads each item's text and its generation in one statement.
LEMMA ClaimedIsHonest ==
  ASSUME UpkeepTypes, NEW list, list \in Seq(Sources) \/ (list \in Seq(Cards) /\ Embeds)
  PROVE  /\ Claimed(list) \in Seq(ClaimType)
         /\ \A k \in 1..Len(Claimed(list)) : Honest(Claimed(list)[k])
<1> DEFINE n == IF Len(list) < SweepLimit THEN Len(list) ELSE SweepLimit
           claim(k) == [item |-> list[k], text |-> version[list[k]],
                        gen |-> IF list[k] \in Cards THEN gen[list[k]] ELSE 0]
           l == [k \in 1..n |-> claim(k)]
<1>1. Claimed(list) = l
  BY DEF Claimed
<1>2. n \in Nat /\ \A k \in 1..n : k \in 1..Len(list)
  BY UpkeepAssumption
<1>3. \A k \in 1..n : /\ list[k] \in Items
                      /\ list[k] \in Cards => Embeds
  BY <1>2, UpkeepAssumption DEF Items
<1> HIDE DEF n
<1>4. ASSUME NEW k \in 1..n PROVE claim(k) \in ClaimType /\ Honest(claim(k))
  <2>1. /\ list[k] \in Items /\ version[list[k]] \in Texts
        /\ list[k] \in Cards => gen[list[k]] \in Nat
    BY <1>3 DEF UpkeepTypes
  <2>2. claim(k) \in ClaimType
    BY <2>1 DEF ClaimType
  <2>3. Honest(claim(k))
    BY <1>3, <2>1 DEF Honest
  <2> QED BY <2>2, <2>3
<1> HIDE DEF claim
<1>5. l \in [1..n -> ClaimType] /\ \A k \in 1..n : Honest(l[k])
  BY <1>4
<1> HIDE DEF l
<1>6. l \in Seq(ClaimType) /\ Len(l) = n
  BY <1>2, <1>5, SeqDef
<1> QED BY <1>1, <1>5, <1>6

\* A claim stays honest: when a card's text changes, so does its generation.
LEMMA HonestStays ==
  ASSUME UpkeepTypes, setup' = setup, NEW claim \in ClaimType, Honest(claim),
         \A c \in Cards : \/ gen'[c] = gen[c] /\ version'[c] = version[c]
                          \/ gen'[c] = gen[c] + 1
  PROVE  Honest(claim)'
BY DEF Honest, UpkeepTypes, ClaimType, Embeds

\* A claim the sweep has at hand is worked off, or left where it is.
LEMMA TailOfBatch ==
  ASSUME UpkeepTypes, NEW s \in Sweeps, batch[s] # <<>>
  PROVE  /\ Head(batch[s]) \in ClaimType /\ Tail(batch[s]) \in Seq(ClaimType)
         /\ Head(batch[s]) = batch[s][1] /\ 1 \in 1..Len(batch[s])
         /\ \A k \in 1..Len(Tail(batch[s])) :
              k + 1 \in 1..Len(batch[s]) /\ Tail(batch[s])[k] = batch[s][k + 1]
<1>1. batch[s] \in Seq(ClaimType)
  BY DEF UpkeepTypes
<1> DEFINE b == batch[s]
<1> HIDE DEF b
<1>2. b \in Seq(ClaimType) /\ b # <<>>
  BY <1>1 DEF b
<1>3. /\ Head(b) \in ClaimType /\ Tail(b) \in Seq(ClaimType)
      /\ Len(Tail(b)) = Len(b) - 1 /\ Len(b) \in Nat /\ Len(b) # 0
      /\ \A k \in 1..Len(Tail(b)) : Tail(b)[k] = b[k + 1]
      /\ Head(b) = b[1]
  BY <1>2, HeadTailProperties
<1>4. 1 \in 1..Len(b) /\ \A k \in 1..Len(Tail(b)) : k + 1 \in 1..Len(b)
  BY <1>3
<1> QED BY <1>3, <1>4 DEF b

\* The claims of all sweeps, when batch and made change in one of them.
LEMMA ClaimsStay ==
  ASSUME UpkeepInv, setup' = setup, NEW s \in Sweeps, NEW b \in Seq(ClaimType),
         NEW m \in ClaimType \cup {NoClaim},
         batch' = [batch EXCEPT ![s] = b], made' = [made EXCEPT ![s] = m],
         \A k \in 1..Len(b) : Honest(b[k]), m # NoClaim => Honest(m),
         \A c \in Cards : \/ gen'[c] = gen[c] /\ version'[c] = version[c]
                          \/ gen'[c] = gen[c] + 1
  PROVE  /\ batch' \in [Sweeps -> Seq(ClaimType)]
         /\ made' \in [Sweeps -> ClaimType \cup {NoClaim}]
         /\ Claims'
<1>1. UpkeepTypes /\ Claims
  BY DEF UpkeepInv
<1>2. /\ batch' \in [Sweeps -> Seq(ClaimType)]
      /\ made' \in [Sweeps -> ClaimType \cup {NoClaim}]
  BY <1>1 DEF UpkeepTypes
<1>3. ASSUME NEW q \in Sweeps, NEW k \in 1..Len(batch'[q]), NEW x, x = batch'[q][k]
      PROVE  Honest(x)'
  <2>1. batch'[q] \in Seq(ClaimType) /\ x \in ClaimType
    BY <1>2, <1>3
  <2>2. Honest(x)
    BY <1>1, <1>3 DEF UpkeepTypes, Claims
  <2> QED BY <1>1, <2>1, <2>2, HonestStays
<1>4. ASSUME NEW q \in Sweeps, NEW x, x = made'[q], x # NoClaim PROVE Honest(x)'
  <2>1. x \in ClaimType
    BY <1>2, <1>4
  <2>2. Honest(x)
    BY <1>1, <1>4 DEF UpkeepTypes, Claims
  <2> QED BY <1>1, <2>1, <2>2, HonestStays
<1> QED BY <1>2, <1>3, <1>4 DEF Claims, Honest

\* The texts, the lists and the vectors are as they were.
ListsStay == UNCHANGED <<setup, version, index, due, dirty, gen>>

\* A step that only moves claims.
LEMMA SweepMoves ==
  ASSUME UpkeepInv, ListsStay, NEW s \in Sweeps, NEW b \in Seq(ClaimType), NEW m \in ClaimType \cup {NoClaim},
         batch' = [batch EXCEPT ![s] = b], made' = [made EXCEPT ![s] = m],
         \A k \in 1..Len(b) : Honest(b[k]), m # NoClaim => Honest(m)
  PROVE  UpkeepInv'
<1>1. /\ batch' \in [Sweeps -> Seq(ClaimType)] /\ made' \in [Sweeps -> ClaimType \cup {NoClaim}]
      /\ Claims'
  BY ClaimsStay DEF ListsStay
<1>2. UpkeepTypes'
  BY <1>1 DEF UpkeepInv, UpkeepTypes, ListsStay
<1>3. CleanCardIsCurrent'
  BY DEF UpkeepInv, CleanCardIsCurrent, ListsStay
<1> QED BY <1>1, <1>2, <1>3 DEF UpkeepInv

----------------------------------------------------------------------------
(***************************************************************************)
(* The actions.                                                            *)
(***************************************************************************)

\* Both claims; a sweep that is idle has nothing at hand.
LEMMA ClaimKeeps ==
  ASSUME UpkeepInv, NEW s \in Sweeps, ClaimSources(s) \/ ClaimCards(s)
  PROVE  UpkeepInv'
<1>1. /\ ListsStay /\ made[s] = NoClaim /\ made' = made /\ UpkeepTypes
      /\ \E list : /\ list \in Seq(Sources) \/ (list \in Seq(Cards) /\ Embeds)
                   /\ batch' = [batch EXCEPT ![s] = Claimed(list)]
  BY DEF ClaimSources, ClaimCards, ListsStay, Idle, UpkeepInv, UpkeepTypes, HasRealEmbedder, HasEmbedConfig, Embeds
<1>2. PICK list : /\ list \in Seq(Sources) \/ (list \in Seq(Cards) /\ Embeds)
                  /\ batch' = [batch EXCEPT ![s] = Claimed(list)]
  BY <1>1
<1>3. made' = [made EXCEPT ![s] = NoClaim]
  BY <1>1 DEF UpkeepTypes
<1> QED BY <1>1, <1>2, <1>3, ClaimedIsHonest, SweepMoves

\* What the model makes of an honest claim is an honest claim.
LEMMA MadeIsHonest ==
  ASSUME NEW claim \in ClaimType, Honest(claim)
  PROVE  Made(claim) \in ClaimType /\ Honest(Made(claim))
<1>1. CASE claim.item \in Cards /\ ~Embeds
  BY <1>1 DEF Honest
<1>2. CASE ~(claim.item \in Cards /\ ~Embeds)
  BY <1>2 DEF Made
<1> QED BY <1>1, <1>2

LEMMA WorkKeeps ==
  ASSUME UpkeepInv, NEW s \in Sweeps, Skip(s) \/ Make(s) \/ Fail(s)
  PROVE  UpkeepInv'
<1> DEFINE b == Tail(batch[s])
<1>1. /\ ListsStay /\ UpkeepTypes /\ Claims /\ made[s] = NoClaim /\ batch[s] # <<>>
      /\ batch' = [batch EXCEPT ![s] = b]
      /\ made' \in {made, [made EXCEPT ![s] = Made(Head(batch[s]))]}
  BY DEF Skip, Make, Fail, Working, ListsStay, UpkeepInv
<1>2. b \in Seq(ClaimType) /\ \A k \in 1..Len(b) : Honest(b[k])
  BY <1>1, TailOfBatch DEF Claims
<1>3. PICK m \in ClaimType \cup {NoClaim} : /\ made' = [made EXCEPT ![s] = m]
                                            /\ m # NoClaim => Honest(m)
  <2>1. CASE made' = made
    <3>1. made' = [made EXCEPT ![s] = NoClaim]
      BY <1>1, <2>1 DEF UpkeepTypes
    <3> QED BY <3>1
  <2>2. CASE made' = [made EXCEPT ![s] = Made(Head(batch[s]))]
    <3>1. Head(batch[s]) \in ClaimType /\ Honest(Head(batch[s]))
      BY <1>1, TailOfBatch DEF Claims
    <3> QED BY <2>2, <3>1, MadeIsHonest
  <2> QED BY <1>1, <2>1, <2>2
<1> HIDE DEF b
<1> QED BY <1>1, <1>2, <1>3, SweepMoves

\* The transaction is rolled back, or the worker dies: claims are forgotten.
LEMMA ForgetKeeps ==
  ASSUME UpkeepInv, NEW s \in Sweeps, StoreFails(s) \/ Crash(s)
  PROVE  UpkeepInv'
<1>1. /\ ListsStay /\ UpkeepTypes /\ Claims /\ made' = [made EXCEPT ![s] = NoClaim]
      /\ batch' \in {batch, [batch EXCEPT ![s] = <<>>]}
  BY DEF StoreFails, Crash, ListsStay, UpkeepInv
<1>2. PICK b \in Seq(ClaimType) : /\ batch' = [batch EXCEPT ![s] = b]
                                  /\ \A k \in 1..Len(b) : Honest(b[k])
  <2>1. CASE batch' = batch
    <3>1. batch' = [batch EXCEPT ![s] = batch[s]] /\ batch[s] \in Seq(ClaimType)
      BY <1>1, <2>1 DEF UpkeepTypes
    <3> QED BY <1>1, <3>1 DEF Claims
  <2>2. CASE batch' = [batch EXCEPT ![s] = <<>>]
    <3>1. <<>> \in Seq(ClaimType) /\ \A k \in 1..Len(<<>>) : Honest(<<>>[k])
      OBVIOUS
    <3> QED BY <2>2, <3>1
  <2> QED BY <1>1, <2>1, <2>2
<1> QED BY <1>1, <1>2, SweepMoves

\* A transaction ends the work on an item: the other claims stay.
LEMMA StoredClaims ==
  ASSUME UpkeepInv, setup' = setup, NEW s \in Sweeps, batch' = batch,
         made' = [made EXCEPT ![s] = NoClaim],
         \A c \in Cards : \/ gen'[c] = gen[c] /\ version'[c] = version[c]
                          \/ gen'[c] = gen[c] + 1
  PROVE  /\ batch' \in [Sweeps -> Seq(ClaimType)]
         /\ made' \in [Sweeps -> ClaimType \cup {NoClaim}]
         /\ Claims'
<1>1. /\ batch[s] \in Seq(ClaimType) /\ \A k \in 1..Len(batch[s]) : Honest(batch[s][k])
      /\ batch' = [batch EXCEPT ![s] = batch[s]]
  BY DEF UpkeepInv, UpkeepTypes, Claims
<1> QED BY <1>1, ClaimsStay

\* New tags put the card on its list with a new generation.
LEMMA ApplySourceKeeps ==
  ASSUME UpkeepInv, NEW s \in Sweeps, ApplySource(s) PROVE UpkeepInv'
<1> DEFINE i == made[s].item
           c == CardOf[i]
<1>1. /\ UpkeepTypes /\ CleanCardIsCurrent /\ made[s] \in ClaimType /\ i \in Sources /\ c \in Cards
      /\ i \notin Cards /\ c \in Items /\ i \in Items
      /\ setup' = setup /\ batch' = batch /\ made' = [made EXCEPT ![s] = NoClaim]
      /\ index' = [index EXCEPT ![i] = made[s].text] /\ due' = Without(due, i)
      /\ made[s].text \in Texts \cup {Fallback} /\ MaxVersion \in Nat
  BY UpkeepAssumption DEF ApplySource, UpkeepInv, UpkeepTypes, Items, ClaimType
<1> HIDE DEF c
<1>2. /\ index' \in [Items -> Texts \cup {None, Fallback}]
      /\ due' \in Seq(Sources)
      /\ \A d \in Cards : index'[d] = index[d]
  <2> HIDE DEF i
  <2> QED BY <1>1, WithoutFacts DEF UpkeepTypes, Items
<1>3. CASE UNCHANGED <<version, gen, dirty>>
  <2>1. /\ batch' \in [Sweeps -> Seq(ClaimType)]
        /\ made' \in [Sweeps -> ClaimType \cup {NoClaim}] /\ Claims'
    BY <1>1, <1>3, StoredClaims
  <2>2. UpkeepTypes'
    BY <1>1, <1>2, <1>3, <2>1 DEF UpkeepTypes
  <2>3. CleanCardIsCurrent'
    BY <1>1, <1>2, <1>3 DEF CleanCardIsCurrent
  <2> QED BY <2>1, <2>2, <2>3 DEF UpkeepInv
<1>4. CASE /\ version[c] < MaxVersion
           /\ version' = [version EXCEPT ![c] = @ + 1]
           /\ gen' = [gen EXCEPT ![c] = @ + 1]
           /\ dirty' = With(dirty, c)
  <2>1. /\ version' \in [Items -> Texts] /\ gen' \in [Cards -> Nat]
        /\ \A d \in Cards : IF d = c THEN gen'[d] = gen[d] + 1
                            ELSE gen'[d] = gen[d] /\ version'[d] = version[d]
    BY <1>1, <1>4 DEF UpkeepTypes, Texts, Items
  <2>2. /\ dirty' \in Seq(Cards) /\ Listed(dirty', c)
        /\ \A d : Listed(dirty, d) => Listed(dirty', d)
    BY <1>1, <1>4, WithFacts DEF UpkeepTypes
  <2>3. /\ batch' \in [Sweeps -> Seq(ClaimType)]
        /\ made' \in [Sweeps -> ClaimType \cup {NoClaim}] /\ Claims'
    BY <1>1, <2>1, StoredClaims
  <2>4. UpkeepTypes'
    BY <1>1, <1>2, <2>1, <2>2, <2>3 DEF UpkeepTypes
  <2>5. CleanCardIsCurrent'
    BY <1>1, <1>2, <2>1, <2>2 DEF CleanCardIsCurrent
  <2> QED BY <2>3, <2>4, <2>5 DEF UpkeepInv
<1> QED BY <1>3, <1>4 DEF ApplySource, c

\* A vector is stored only when the text it was made of is the card's.
LEMMA CompleteCardKeeps ==
  ASSUME UpkeepInv, NEW s \in Sweeps, CompleteCard(s) PROVE UpkeepInv'
<1> DEFINE c == made[s].item
<1>1. /\ UpkeepTypes /\ CleanCardIsCurrent /\ made[s] \in ClaimType /\ c \in Cards /\ c \in Items
      /\ Honest(made[s])
      /\ UNCHANGED <<setup, version, due, gen, batch>> /\ made' = [made EXCEPT ![s] = NoClaim]
  BY DEF CompleteCard, UpkeepInv, UpkeepTypes, Items, Claims
<1>2. /\ batch' \in [Sweeps -> Seq(ClaimType)]
      /\ made' \in [Sweeps -> ClaimType \cup {NoClaim}] /\ Claims'
  BY <1>1, StoredClaims
<1>3. CASE UNCHANGED <<index, dirty>>
  <2>1. UpkeepTypes' /\ CleanCardIsCurrent'
    BY <1>1, <1>2, <1>3 DEF UpkeepTypes, CleanCardIsCurrent
  <2> QED BY <1>2, <2>1 DEF UpkeepInv
<1>4. CASE /\ made[s].gen = gen[c] /\ index' = [index EXCEPT ![c] = made[s].text]
           /\ dirty' = Without(dirty, c)
  <2>1. made[s].text = version[c] /\ made[s].text \in Texts
    BY <1>1, <1>4 DEF Honest
  <2> HIDE DEF c
  <2>2. /\ index' \in [Items -> Texts \cup {None, Fallback}]
        /\ \A d \in Cards : index'[d] = IF d = c THEN version[c] ELSE index[d]
    BY <1>1, <1>4, <2>1 DEF UpkeepTypes, Items
  <2>3. /\ dirty' \in Seq(Cards)
        /\ \A d : d # c /\ Listed(dirty, d) => Listed(dirty', d)
    BY <1>1, <1>4, WithoutFacts DEF UpkeepTypes
  <2>4. UpkeepTypes'
    BY <1>1, <1>2, <2>2, <2>3 DEF UpkeepTypes
  <2>5. CleanCardIsCurrent'
    BY <1>1, <2>1, <2>2, <2>3, TextFacts DEF CleanCardIsCurrent
  <2> QED BY <1>2, <2>4, <2>5 DEF UpkeepInv
<1> QED BY <1>3, <1>4 DEF CompleteCard, Generation

\* A client's edit and the passing of time are about sources.
LEMMA OutsideKeeps ==
  ASSUME UpkeepInv, NEW i \in Sources, Edit(i) \/ Age(i) PROVE UpkeepInv'
<1>1. /\ UpkeepTypes /\ CleanCardIsCurrent /\ UNCHANGED <<setup, index, dirty, gen, batch, made>>
      /\ i \notin Cards /\ i \in Items /\ MaxVersion \in Nat
  BY UpkeepAssumption DEF UpkeepInv, Edit, Age, Items
<1>2. /\ version' \in [Items -> Texts] /\ \A c \in Cards : version'[c] = version[c]
  <2>0. Cards \subseteq Items
    BY DEF Items
  <2>1. CASE Edit(i)
    BY <1>1, <2>0, <2>1 DEF Edit, UpkeepTypes, Texts
  <2>2. CASE Age(i)
    BY <1>1, <2>0, <2>2 DEF Age, UpkeepTypes
  <2> QED BY <2>1, <2>2
<1>3. due' \in Seq(Sources)
  <2>1. CASE due' = due
    BY <1>1, <2>1 DEF UpkeepTypes
  <2>2. CASE due' = Append(due, i)
    BY <1>1, <2>2 DEF UpkeepTypes
  <2> QED BY <2>1, <2>2 DEF Edit, Age
<1>4. UpkeepTypes' /\ CleanCardIsCurrent'
  BY <1>1, <1>2, <1>3 DEF UpkeepTypes, CleanCardIsCurrent
<1>5. Claims'
  BY <1>1, <1>2 DEF UpkeepInv, Claims, Honest, Embeds
<1> QED BY <1>4, <1>5 DEF UpkeepInv

----------------------------------------------------------------------------
(***************************************************************************)
(* The theorems.                                                           *)
(***************************************************************************)

LEMMA UpkeepInitHolds == UpkeepInit => UpkeepInv
<1> SUFFICES ASSUME UpkeepInit PROVE UpkeepInv
  OBVIOUS
<1>1. /\ version = [i \in Items |-> 0] /\ index = [i \in Items |-> None]
      /\ due \in SetToSeqs(Sources) /\ dirty \in SetToSeqs(Cards)
      /\ gen = [c \in Cards |-> 0] /\ batch = [s \in Sweeps |-> <<>>]
      /\ made = [s \in Sweeps |-> NoClaim]
  BY DEF UpkeepInit
<1>2. due \in Seq(Sources)
  <2>1. Cardinality(Sources) \in Nat
    BY UpkeepAssumption, FS_CardinalityType
  <2>2. due \in [1..Cardinality(Sources) -> Sources]
    BY <1>1 DEF SetToSeqs
  <2> QED BY <2>1, <2>2, SeqDef
<1>3. dirty \in Seq(Cards) /\ \A c \in Cards : Listed(dirty, c)
  BY <1>1, AllListed
<1>4. UpkeepTypes
  <2>1. 0 \in Texts
    BY TextFacts DEF Texts
  <2>2. <<>> \in Seq(ClaimType)
    OBVIOUS
  <2> QED BY <1>1, <1>2, <1>3, <2>1, <2>2 DEF UpkeepTypes
<1>5. Claims
  BY <1>1 DEF Claims
<1>6. CleanCardIsCurrent
  BY <1>1, <1>3, TextFacts DEF CleanCardIsCurrent, Items
<1> QED BY <1>4, <1>5, <1>6 DEF UpkeepInv

\* The invariant, for any sources, cards, limit and configurations.
THEOREM UpkeepInvariance == UpkeepSpec => []UpkeepInv
<1>1. UpkeepInv /\ [UpkeepNext]_upkeepVars => UpkeepInv'
  <2>1. UpkeepInv /\ UNCHANGED upkeepVars => UpkeepInv'
    BY DEF upkeepVars, UpkeepInv, UpkeepTypes, Claims, Honest, Embeds, CleanCardIsCurrent
  <2> QED BY <2>1, ClaimKeeps, WorkKeeps, ForgetKeeps, ApplySourceKeeps, CompleteCardKeeps,
             OutsideKeeps DEF UpkeepNext
<1> QED BY UpkeepInitHolds, <1>1, PTL DEF UpkeepSpec

\* No sweep stores the vector of a text the card no longer has, however late
\* it comes, and however many sweeps work on one card.
THEOREM VectorsAreCurrent == UpkeepSpec => []CleanCardIsCurrent
<1>1. UpkeepInv => CleanCardIsCurrent
  BY DEF UpkeepInv
<1> QED BY UpkeepInvariance, <1>1, PTL
=============================================================================
