---------------------------- MODULE Requests_proofs ----------------------------
(***************************************************************************)
(* Proofs about Requests, for any number of requests, any calls, any       *)
(* memory, any outputs of the model and any limits.                        *)
(*                                                                         *)
(* A handler reads and writes what its request holds only at its own       *)
(* steps.  So each argument is about one handler, along its steps, and     *)
(* every other step is of one of a few forms (Moves).                      *)
(***************************************************************************)
EXTENDS Requests, Lemmas, SequenceTheorems

TablePcs == {"check", "count", "select", "scan", "write", "settle", "render"}
AnswerPcs == {"embed", "search", "rank", "resolve", "compose", "judge", "extract", "probe",
              "store", "report"}
GraphPcs == {"core", "types", "ingest", "groups", "commit", "seeds", "walk", "edges"}
RecordPcs == {"update", "reload", "put", "amend", "scope", "show", "append", "finalize"}
Pcs == TablePcs \cup AnswerPcs \cup GraphPcs \cup RecordPcs
         \cup {"new", "bind", "body", "close", "done"}

\* r goes to one of the steps of a handler, or is answered.
Moves(r, steps, replies) ==
  /\ pc[r] \in steps \cup {"body"}
  /\ UNCHANGED <<call, conn>>
  /\ \/ \E x \in steps : pc' = [pc EXCEPT ![r] = x] /\ reply' = reply
     \/ \E a \in replies : pc' = [pc EXCEPT ![r] = "close"] /\ reply' = [reply EXCEPT ![r] = a]

TableReplies == {"ok", "mismatch", "refused", "bad request", "internal error"}
AnswerReplies == {"bad request", "not found", "recalled", "no evidence", "upstream error",
                  "model not configured", "key missing", "preview", "unverified", "answered",
                  "refused", "stored"}
Retrieved == {"recalled", "no evidence", "unverified", "answered"}
FromMemory == Retrieved \cup {"stored"}
GraphReplies == {"bad request", "refused", "imported", "nothing", "shown"}
RecordReplies == {"ok", "bad request", "not found", "conflict", "refused", "deadlock", "null",
                  "internal error", "engine too old"}

LEMMA TableMoves ==
  ASSUME NEW r \in Requests, TableStep(r)
  PROVE  Moves(r, TablePcs, TableReplies)
<1> USE DEF Moves, TablePcs, TableReplies, Go, Answer
<1>1. CASE TableBody(r)
  BY <1>1 DEF TableBody
<1>2. CASE Check(r)
  BY <1>2 DEF Check
<1>3. CASE CountRows(r)
  BY <1>3 DEF CountRows
<1>4. CASE SelectRows(r)
  BY <1>4 DEF SelectRows, Rendered
<1>5. CASE Scan(r)
  BY <1>5 DEF Scan
<1>6. CASE Write(r)
  BY <1>6 DEF Write
<1>7. CASE Settle(r)
  BY <1>7 DEF Settle
<1>8. CASE Render(r)
  BY <1>8 DEF Render, Rendered
<1> QED BY <1>1, <1>2, <1>3, <1>4, <1>5, <1>6, <1>7, <1>8 DEF TableStep

LEMMA AnswerMoves ==
  ASSUME NEW r \in Requests, AnswerStep(r)
  PROVE  Moves(r, AnswerPcs, AnswerReplies)
<1> USE DEF Moves, AnswerPcs, AnswerReplies, Go, Answer
<1>1. CASE AskBody(r)
  BY <1>1 DEF AskBody
<1>2. CASE EmbedQuery(r)
  BY <1>2 DEF EmbedQuery
<1>3. CASE Search(r)
  BY <1>3 DEF Search
<1>4. CASE Rank(r)
  BY <1>4 DEF Rank
<1>5. CASE ResolveModel(r)
  BY <1>5 DEF ResolveModel
<1>6. CASE Compose(r)
  BY <1>6, ZenonT(40) DEF Compose
<1>7. CASE Judge(r)
  BY <1>7 DEF Judge
<1>8. CASE Extract(r)
  BY <1>8 DEF Extract
<1>9. CASE Probe(r)
  BY <1>9 DEF Probe
<1>10. CASE StoreExtraction(r)
  BY <1>10 DEF StoreExtraction
<1>11. CASE Report(r)
  BY <1>11 DEF Report
<1> QED BY <1>1, <1>2, <1>3, <1>4, <1>5, <1>6, <1>7, <1>8, <1>9, <1>10, <1>11 DEF AnswerStep

LEMMA GraphMoves ==
  ASSUME NEW r \in Requests, GraphStep(r)
  PROVE  Moves(r, GraphPcs, GraphReplies)
<1> USE DEF Moves, GraphPcs, GraphReplies, Go, Answer, Rollback
<1>1. CASE GraphBody(r)
  BY <1>1 DEF GraphBody
<1>2. CASE CoreImport(r)
  BY <1>2 DEF CoreImport, Committed
<1>3. CASE RegisterTypes(r)
  BY <1>3, ZenonT(40) DEF RegisterTypes
<1>4. CASE IngestChunk(r)
  BY <1>4 DEF IngestChunk
<1>5. CASE StoreGroups(r)
  BY <1>5 DEF StoreGroups
<1>6. CASE Commit(r)
  BY <1>6 DEF Commit, Committed
<1>7. CASE ChooseSeeds(r)
  BY <1>7 DEF ChooseSeeds
<1>8. CASE WalkFrom(r)
  BY <1>8 DEF WalkFrom
<1>9. CASE ShowGraph(r)
  BY <1>9 DEF ShowGraph
<1> QED BY <1>1, <1>2, <1>3, <1>4, <1>5, <1>6, <1>7, <1>8, <1>9 DEF GraphStep

LEMMA RecordMoves ==
  ASSUME NEW r \in Requests, RecordStep(r)
  PROVE  Moves(r, RecordPcs, RecordReplies)
<1> DEFINE Here == pc[r] \in RecordPcs \cup {"body"}
           Goes == \E x \in RecordPcs : Go(r, x)
           Tells == \E a \in RecordReplies : Answer(r, a)
<1>1. ASSUME Here, Goes \/ Tells PROVE Moves(r, RecordPcs, RecordReplies)
  BY <1>1 DEF Moves, Go, Answer
<1>2. ASSUME NEW a \in RecordReplies, Ends(r, a) \/ Refuses(r, a) PROVE Tells
  BY <1>2 DEF Ends, Refuses
<1>3. ASSUME NEW a, Ends(r, a) \/ Refuses(r, a) PROVE Answer(r, a)
  BY <1>3 DEF Ends, Refuses
<1> HIDE DEF Tells
<1> USE DEF RecordPcs, RecordReplies
<1>4. ASSUME NEW op, NEW route, AtBody(r, op, route) PROVE Here
  BY <1>4 DEF AtBody
<1>5. CASE RowStep(r)
  <2>1. ASSUME NEW route, CreateRow(r, route) PROVE Here /\ Tells
    BY <1>2, <1>4, <2>1 DEF CreateRow, Success
  <2>2. ASSUME NEW op, NEW route, NEW fits, Looks(r, op, route, fits) PROVE Here /\ (Goes \/ Tells)
    BY <1>2, <1>4, <2>2 DEF Looks
  <2>3. CASE UpdateRow(r)
    BY <1>1, <1>2, <2>3 DEF UpdateRow
  <2>4. CASE ReloadRow(r)
    BY <1>1, <1>2, <2>4 DEF ReloadRow, Success
  <2>5. CASE PatchEpisode(r)
    BY <1>1, <1>2, <1>4, <2>5 DEF PatchEpisode
  <2>6. ASSUME NEW route, DeleteRow(r, route) PROVE Here /\ Tells
    BY <1>2, <1>4, <2>6 DEF DeleteRow
  <2>7. ASSUME \E route : CreateRow(r, route) \/ DeleteRow(r, route)
        PROVE  Moves(r, RecordPcs, RecordReplies)
    BY <1>1, <2>1, <2>6, <2>7
  <2>8. ASSUME \E op, route, fits : Looks(r, op, route, fits)
        PROVE  Moves(r, RecordPcs, RecordReplies)
    BY <1>1, <2>2, <2>8
  <2> QED BY <1>5, <2>3, <2>4, <2>5, <2>7, <2>8
          DEF RowStep, CreateNote, CreatePool, CreateDocumentType, CreateEpisodeType, CreateEpisode,
              PatchNote, PatchPool, PatchDocumentType, PatchEpisodeType, CloseIssue, ReopenIssue,
              ArchivePool, DeleteNote, DeleteDocumentType, DeleteEpisodeType, DeleteEpisode
<1>6. CASE FactStep(r)
  <2>1. ASSUME NEW route, Batch(r, route) PROVE Here /\ (Goes \/ Tells)
    BY <1>2, <1>4, <2>1 DEF Batch
  <2>2. CASE PutFact(r)
    BY <1>1, <1>2, <2>2 DEF PutFact
  <2>3. CASE CommitFacts(r)
    BY <1>1, <1>2, <2>3 DEF CommitFacts, Success
  <2>4. ASSUME NEW op, NEW route, LooksForFact(r, op, route) PROVE Here /\ (Goes \/ Tells)
    BY <1>2, <1>4, <2>4 DEF LooksForFact
  <2>5. CASE AmendFact(r)
    BY <1>1, <1>2, <2>5 DEF AmendFact
  <2>6. ASSUME (\E route : Batch(r, route)) \/ \E op, route : LooksForFact(r, op, route)
        PROVE  Moves(r, RecordPcs, RecordReplies)
    BY <1>1, <2>1, <2>4, <2>6
  <2> QED BY <1>6, <2>2, <2>3, <2>5, <2>6
          DEF FactStep, CreateAttributes, CreateStatements, CreateEpisodeStatement, CreateObject,
              PatchAttribute, PatchStatement, DeleteAttribute, DeleteStatement
<1>7. CASE ChatStep(r)
  <2>1. CASE StartChat(r)
    BY <1>1, <1>2, <1>4, <2>1 DEF StartChat
  <2>2. CASE ScopeChat(r)
    BY <1>1, <1>2, <2>2 DEF ScopeChat
  <2>3. CASE ShowChat(r)
    BY <1>1, <1>2, <2>3 DEF ShowChat
  <2>4. ASSUME NEW op, NEW next \in RecordPcs, LooksForChat(r, op, next) PROVE Here /\ (Goes \/ Tells)
    BY <1>2, <1>4, <2>4 DEF LooksForChat
  <2>5. CASE AppendMessages(r) \/ FinalizeChat(r)
    BY <1>1, <2>4, <2>5 DEF AppendMessages, FinalizeChat
  <2>6. CASE PutMessage(r)
    BY <1>1, <1>2, <2>6, ZenonT(40) DEF PutMessage
  <2>7. CASE CommitMessages(r)
    BY <1>1, <1>2, <2>7 DEF CommitMessages
  <2>8. CASE CloseChat(r)
    BY <1>1, <1>2, <2>8 DEF CloseChat
  <2>9. CASE MoveChat(r)
    BY <1>1, <1>2, <1>4, <2>9 DEF MoveChat
  <2> QED BY <1>7, <2>1, <2>2, <2>3, <2>5, <2>6, <2>7, <2>8, <2>9 DEF ChatStep
<1> QED BY <1>5, <1>6, <1>7 DEF RecordStep

----------------------------------------------------------------------------
(***************************************************************************)
(* The session a handler works in.                                         *)
(***************************************************************************)

\* What the headers of a call ask a session to be.
SessionOf(h) ==
  IF h.ref = "none" THEN Unrestricted
  ELSE [ref |-> h.ref, scopes |-> ParseScopes(h.scopes), readonly |-> h.readonly]

Types ==
  /\ pc \in [Requests -> Pcs]
  /\ DOMAIN reply = Requests
  /\ conn \in [Requests -> [open : BOOLEAN, as : Session]]
  /\ \A r \in Requests : call[r].head \in Headers

\* A request that has reached its handler works in the session it asked for.
Bound ==
  \A r \in Requests :
    /\ pc[r] \in {"new", "bind"} => conn[r].as = Unrestricted
    /\ pc[r] \notin {"new", "bind", "close", "done"} =>
         ~BadHead(call[r].head) /\ conn[r].as = SessionOf(call[r].head)

\* An answer is the last thing but one a request gets.
Told == \A r \in Requests : reply[r] # "none" => pc[r] \in {"close", "done"}

LifeInv == Types /\ Bound /\ Told

LEMMA SessionOfType ==
  ASSUME NEW h \in Headers, ~BadHead(h)
  PROVE  SessionOf(h) \in Session
BY DEF Headers, BadHead, SessionOf, ParseScopes, Session, Unrestricted, Namespaces

\* The engine lets a session see no more than its headers allow.
LEMMA SeesAllowed ==
  ASSUME NEW h \in Headers, NEW n, Sees(SessionOf(h), n)
  PROVE  Allowed(h, n)
BY DEF Headers, SessionOf, ParseScopes, Sees, Allowed, Namespaces, Unrestricted

LEMMA InitLifeInv == Init => LifeInv
<1> SUFFICES ASSUME Init PROVE LifeInv
  OBVIOUS
<1>1. Unrestricted \in Session
  BY DEF Unrestricted, Session
<1> QED BY <1>1, StartsAssumption DEF Init, LifeInit, LifeInv, Types, Bound, Told, Pcs, Closed

\* A step of a handler.
LEMMA MovesLifeInv ==
  ASSUME LifeInv, NEW r \in Requests,
         NEW S \in {TablePcs, AnswerPcs, GraphPcs, RecordPcs}, NEW R, "none" \notin R, Moves(r, S, R)
  PROVE  LifeInv'
<1>1. pc[r] \notin {"new", "bind", "close", "done"} /\ S \subseteq Pcs
  BY DEF Moves, TablePcs, AnswerPcs, GraphPcs, RecordPcs, Pcs
<1>2. \A x \in S : x \notin {"new", "bind", "close", "done"}
  BY DEF TablePcs, AnswerPcs, GraphPcs, RecordPcs
<1>3. Types'
  BY <1>1 DEF Moves, LifeInv, Types, Pcs
<1>4. Bound'
  BY <1>1, <1>2 DEF Moves, LifeInv, Types, Bound
<1>5. Told'
  BY <1>1, <1>2 DEF Moves, LifeInv, Types, Told
<1> QED BY <1>3, <1>4, <1>5 DEF LifeInv

LEMMA NextLifeInv ==
  ASSUME LifeInv, [Next]_vars
  PROVE  LifeInv'
<1> USE DEF LifeInv, Types, Bound, Told
<1>1. ASSUME NEW r \in Requests, Authenticate(r) PROVE LifeInv'
  <2>1. CASE \E a \in {"unauthenticated", "unreachable"} : Answer(r, a)
    BY <1>1, <2>1 DEF Authenticate, Answer, Pcs
  <2>2. CASE /\ conn' = [conn EXCEPT ![r] = [open |-> TRUE, as |-> Unrestricted]]
             /\ pc' = [pc EXCEPT ![r] = "bind"] /\ UNCHANGED <<engine, call, reply>>
    <3>1. [open |-> TRUE, as |-> Unrestricted] \in [open : BOOLEAN, as : Session]
      BY DEF Unrestricted, Session
    <3>2. reply[r] = "none"
      BY <1>1, SMTT(30) DEF Authenticate
    <3> QED BY <2>2, <3>1, <3>2 DEF Pcs
  <2> QED BY <1>1, <2>1, <2>2 DEF Authenticate
<1>2. ASSUME NEW r \in Requests, Bind(r) PROVE LifeInv'
  <2>1. CASE BadHead(call[r].head) /\ Answer(r, "bad principal")
    BY <1>2, <2>1 DEF Bind, Answer, Pcs
  <2>2. CASE ~BadHead(call[r].head) /\ call[r].head.ref = "none" /\ Go(r, "body")
    BY <1>2, <2>2 DEF Bind, Go, Pcs, SessionOf
  <2>3. CASE Answer(r, "principal unsupported")
    BY <1>2, <2>3 DEF Bind, Answer, Pcs
  <2>4. CASE /\ ~BadHead(call[r].head) /\ call[r].head.ref # "none"
             /\ conn' = [conn EXCEPT ![r] = [open |-> TRUE, as |-> SessionOf(call[r].head)]]
             /\ pc' = [pc EXCEPT ![r] = "body"] /\ UNCHANGED <<engine, call, reply>>
    <3> DEFINE as == SessionOf(call[r].head)
    <3>1. conn' = [conn EXCEPT ![r] = [open |-> TRUE, as |-> as]]
      BY <2>4
    <3>2. [open |-> TRUE, as |-> as] \in [open : BOOLEAN, as : Session]
      BY <2>4, SessionOfType
    <3>3. pc[r] = "bind" /\ reply[r] = "none"
      BY <1>2 DEF Bind
    <3> HIDE DEF as
    <3>4. Types'
      <4>1. conn' \in [Requests -> [open : BOOLEAN, as : Session]]
        BY <3>1, <3>2
      <4>2. pc' \in [Requests -> Pcs]
        BY <2>4 DEF Pcs
      <4> QED BY <2>4, <4>1, <4>2
    <3>5. Bound'
      BY <2>4, <3>1 DEF Pcs, as
    <3>6. Told'
      BY <2>4, <3>3
    <3> QED BY <3>4, <3>5, <3>6
  <2> QED BY <1>2, <2>1, <2>2, <2>3, <2>4 DEF Bind, SessionOf
<1>3. ASSUME NEW r \in Requests, Close(r) PROVE LifeInv'
  BY <1>3 DEF Close, Closed, Pcs, Unrestricted, Session
<1>4. ASSUME NEW r \in Requests, Crash(r) PROVE LifeInv'
  BY <1>4 DEF Crash, Die, Closed, Pcs, Unrestricted, Session
<1>5. ASSUME NEW r \in Requests, TableStep(r) PROVE LifeInv'
  BY <1>5, TableMoves, MovesLifeInv DEF TableReplies
<1>6. ASSUME NEW r \in Requests, AnswerStep(r) PROVE LifeInv'
  BY <1>6, AnswerMoves, MovesLifeInv DEF AnswerReplies
<1>7. ASSUME NEW r \in Requests, GraphStep(r) PROVE LifeInv'
  BY <1>7, GraphMoves, MovesLifeInv DEF GraphReplies
<1>8. ASSUME NEW r \in Requests, RecordStep(r) PROVE LifeInv'
  BY <1>8, RecordMoves, MovesLifeInv DEF RecordReplies
<1>9. CASE Outside
  BY <1>9 DEF Outside, Upgrade, lifeVars
<1>10. CASE UNCHANGED vars
  BY <1>10 DEF vars, lifeVars
<1> QED BY <1>1, <1>2, <1>3, <1>4, <1>5, <1>6, <1>7, <1>8, <1>9, <1>10 DEF Next, Step, Done

LEMMA LifeInvariant == Spec => []LifeInv
BY InitLifeInv, NextLifeInv, PTL DEF Spec

----------------------------------------------------------------------------
(***************************************************************************)
(* Principals.                                                             *)
(***************************************************************************)

\* What is found may be seen, and what is stored may be written.
Granted ==
  /\ DOMAIN work = Requests /\ DOMAIN home = Requests
  /\ \A r \in Requests :
       /\ work[r].found \subseteq Chunks
       /\ \A c \in work[r].found : Allowed(call[r].head, Memory[c].place)
       /\ home[r] # "none" => Allowed(call[r].head, home[r]) /\ ~call[r].head.readonly

\* A search finds what the session may see.
LEMMA HitsAllowed ==
  ASSUME NEW r, NEW s, NEW h \in Headers, conn[r].as = SessionOf(h), NEW c \in HitsOf(r, s)
  PROVE  c \in Chunks /\ Allowed(h, Memory[c].place)
<1>1. c \in Chunks /\ Memory[c].place = s.place /\ Sees(conn[r].as, s.place)
  BY DEF HitsOf, Best
<1> QED BY <1>1, SeesAllowed

LEMMA InitGranted == Init => Granted
BY DEF Init, AnswersInit, Granted, Blank

LEMMA AnswerStepGranted ==
  ASSUME LifeInv, Granted, NEW r \in Requests, AnswerStep(r)
  PROVE  Granted'
<1> USE DEF Granted, Keep, Go, Answer
<1>0. call' = call
  BY AnswerMoves DEF Moves
<1>1. CASE AskBody(r)
  BY <1>0, <1>1, ZenonT(40) DEF AskBody, Blank
<1>2. CASE EmbedQuery(r) \/ ResolveModel(r) \/ Judge(r) \/ Extract(r)
  BY <1>0, <1>2, ZenonT(40) DEF EmbedQuery, ResolveModel, Judge, Extract, answerVars
<1>3. CASE Search(r)
  <2>1. conn[r].as = SessionOf(call[r].head) /\ call[r].head \in Headers
    BY <1>3 DEF Search, LifeInv, Types, Bound
  <2>2. PICK new : /\ new \subseteq HitsOf(r, Head(work[r].todo))
                   /\ work' = [work EXCEPT ![r] = [work[r] EXCEPT !.todo = Tail(@),
                                                                !.found = @ \cup new]]
                   /\ home' = home
    BY <1>3 DEF Search
  <2>3. work[r].found \cup new = work'[r].found
    BY <2>2
  <2> QED BY <1>0, <2>1, <2>2, <2>3, HitsAllowed
<1>4. CASE Rank(r) \/ Compose(r) \/ Probe(r) \/ Report(r)
  <2>1. CASE Rank(r)
    <3>1. PICK best : /\ work' = [work EXCEPT ![r] = [work[r] EXCEPT !.evidence = best]]
                      /\ home' = home
      BY <2>1 DEF Rank
    <3> QED BY <1>0, <3>1
  <2>2. CASE Compose(r)
    <3>1. CASE UNCHANGED answerVars
      BY <1>0, <3>1 DEF answerVars
    <3>2. ASSUME NEW out,
                 work' = [work EXCEPT ![r] = [work[r] EXCEPT !.calls = @ + 1, !.out = <<out>>]],
                 home' = home
          PROVE  Granted'
      BY <1>0, <3>2
    <3> QED BY <2>2, <3>1, <3>2 DEF Compose
  <2>3. CASE Probe(r)
    BY <1>0, <2>3 DEF Probe
  <2>4. CASE Report(r)
    BY <1>0, <2>4 DEF Report
  <2> QED BY <1>4, <2>1, <2>2, <2>3, <2>4
<1>5. CASE StoreExtraction(r)
  <2>1. PICK place : /\ MayWrite(conn[r].as, place) /\ home' = [home EXCEPT ![r] = place]
                     \/ UNCHANGED home
    BY <1>5 DEF StoreExtraction
  <2>2. /\ UNCHANGED <<call, work>> /\ call[r].head \in Headers
        /\ ~BadHead(call[r].head) /\ conn[r].as = SessionOf(call[r].head)
    BY <1>0, <1>5 DEF StoreExtraction, LifeInv, Types, Bound
  <2>3. MayWrite(conn[r].as, place) => Allowed(call[r].head, place) /\ ~call[r].head.readonly
    BY <2>2, SeesAllowed DEF MayWrite, SessionOf, Unrestricted, BadHead
  <2> QED BY <2>1, <2>2, <2>3
<1> QED BY <1>1, <1>2, <1>3, <1>4, <1>5 DEF AnswerStep

LEMMA NextGranted ==
  ASSUME LifeInv, Granted, [Next]_vars
  PROVE  Granted'
<1>1. ASSUME NEW r \in Requests, AnswerStep(r) PROVE Granted'
  BY <1>1, AnswerStepGranted
<1>2. CASE UNCHANGED <<call, home, work>>
  BY <1>2 DEF Granted
<1>3. ASSUME NEW r \in Requests, Step(r), ~AnswerStep(r) PROVE UNCHANGED <<call, home, work>>
  BY <1>3, TableMoves, GraphMoves, RecordMoves
     DEF Step, Moves, answerVars, Authenticate, Bind, Close, Go, Answer, Crash, Die
<1>4. CASE Outside
  BY <1>4 DEF Outside, Upgrade, Forget, lifeVars, answerVars, Granted
<1> QED BY <1>1, <1>2, <1>3, <1>4 DEF Next, Done, vars, lifeVars, answerVars

\* A call that names a principal is served as that principal or not at all.
THEOREM PrincipalsAreNeverWidened == Spec => []NeverServedUnrestricted
<1>1. Granted => NeverServedUnrestricted
  BY DEF Granted, NeverServedUnrestricted
<1> QED BY <1>1, InitGranted, NextGranted, LifeInvariant, PTL DEF Spec

----------------------------------------------------------------------------
(***************************************************************************)
(* What the handlers of memory do with what they hold.                     *)
(***************************************************************************)

WorkTyped ==
  /\ work = [r \in Requests |-> work[r]] /\ DOMAIN home = Requests
  /\ \A r \in Requests : DOMAIN work[r] = DOMAIN Blank

\* r changes nothing but what it holds itself.
Works(r) == \E w : DOMAIN w = DOMAIN Blank /\ work' = [work EXCEPT ![r] = w]

LEMMA AnswerWorks ==
  ASSUME WorkTyped, NEW r \in Requests, AnswerStep(r)
  PROVE  Works(r)
<1> USE DEF Keep
<1>1. CASE UNCHANGED work
  <2>1. work' = [work EXCEPT ![r] = work[r]]
    BY <1>1 DEF WorkTyped
  <2> QED BY <2>1 DEF WorkTyped, Works
<1>2. CASE AskBody(r)
  <2>1. PICK w : work' = [work EXCEPT ![r] = w] /\
          (w = [Blank EXCEPT !.gone = dead] \/
           w = [[Blank EXCEPT !.gone = dead] EXCEPT !.todo = SearchesOf(Asked(r))])
    BY <1>2 DEF AskBody
  <2> QED BY <2>1 DEF Works
<1>3. CASE Search(r)
  <2>1. PICK new : work' = [work EXCEPT ![r] = [work[r] EXCEPT !.todo = Tail(@),
                                                              !.found = @ \cup new]]
    BY <1>3 DEF Search
  <2> QED BY <2>1 DEF Works, WorkTyped
<1>4. CASE Rank(r)
  <2>1. PICK best : work' = [work EXCEPT ![r] = [work[r] EXCEPT !.evidence = best]]
    BY <1>4 DEF Rank
  <2> QED BY <2>1 DEF Works, WorkTyped
<1>5. CASE Compose(r)
  <2>1. CASE UNCHANGED answerVars
    BY <1>1, <2>1 DEF answerVars
  <2>2. ASSUME NEW out,
               work' = [work EXCEPT ![r] = [work[r] EXCEPT !.calls = @ + 1, !.out = <<out>>]]
        PROVE  Works(r)
    BY <2>2 DEF Works, WorkTyped
  <2> QED BY <1>5, <2>1, <2>2 DEF Compose
<1>6. CASE Probe(r)
  <2> DEFINE w == [work[r] EXCEPT !.takes = (engine >= 106)]
  <2>1. work' = [work EXCEPT ![r] = w]
    BY <1>6, Zenon DEF Probe
  <2>2. DOMAIN w = DOMAIN Blank
    BY DEF WorkTyped
  <2> HIDE DEF w
  <2> QED BY <2>1, <2>2 DEF Works
<1>7. CASE Report(r)
  <2>1. PICK report : work' = [work EXCEPT ![r] = [work[r] EXCEPT !.report = report]]
    BY <1>7 DEF Report
  <2> QED BY <2>1 DEF Works, WorkTyped
<1>8. CASE EmbedQuery(r) \/ ResolveModel(r) \/ Judge(r) \/ Extract(r) \/ StoreExtraction(r)
  BY <1>1, <1>8 DEF EmbedQuery, ResolveModel, Judge, Extract, StoreExtraction, answerVars
<1> QED BY <1>2, <1>3, <1>4, <1>5, <1>6, <1>7, <1>8 DEF AnswerStep

\* Steps that are of no handler of memory.
LEMMA OtherSteps ==
  ASSUME NEW r \in Requests, Step(r), ~AnswerStep(r)
  PROVE  /\ UNCHANGED <<call, home, work>>
         /\ \E x \in Pcs \ AnswerPcs : pc' = [pc EXCEPT ![r] = x]
         /\ \/ reply' = reply
            \/ \E a : reply' = [reply EXCEPT ![r] = a] /\ a \notin FromMemory
<1> DEFINE Silent == UNCHANGED <<call, home, work>>
           Goes == \E x \in Pcs \ AnswerPcs : pc' = [pc EXCEPT ![r] = x]
           Says == \/ reply' = reply
                   \/ \E a : reply' = [reply EXCEPT ![r] = a] /\ a \notin FromMemory
<1>1. CASE TableStep(r) /\ UNCHANGED answerVars
  BY <1>1, TableMoves DEF Moves, TablePcs, AnswerPcs, Pcs, TableReplies, FromMemory, Retrieved,
                        answerVars
<1>2. CASE GraphStep(r) /\ UNCHANGED answerVars
  BY <1>2, GraphMoves DEF Moves, GraphPcs, AnswerPcs, Pcs, GraphReplies, FromMemory, Retrieved,
                        answerVars
<1>3. CASE Authenticate(r) /\ UNCHANGED answerVars
  BY <1>3 DEF answerVars, Authenticate, Answer, AnswerPcs, Pcs, FromMemory, Retrieved
<1>4. CASE Bind(r) /\ UNCHANGED answerVars
  BY <1>4, ZenonT(40) DEF answerVars, Bind, Answer, Go, AnswerPcs, Pcs, FromMemory, Retrieved
<1>5. CASE Close(r) /\ UNCHANGED answerVars
  BY <1>5 DEF answerVars, Close, AnswerPcs, Pcs
<1>6. CASE Crash(r)
  <2>1. Silent
    BY <1>6 DEF answerVars, Crash, Die
  <2>2. "done" \in Pcs \ AnswerPcs /\ "lost" \notin FromMemory
    BY DEF AnswerPcs, Pcs, FromMemory, Retrieved
  <2>3. pc' = [pc EXCEPT ![r] = "done"] /\ reply' = [reply EXCEPT ![r] = "lost"]
    BY <1>6 DEF Crash, Die
  <2>4. Goes /\ Says
    BY <2>2, <2>3
  <2> QED BY <2>1, <2>4
<1>7. CASE RecordStep(r) /\ UNCHANGED answerVars
  BY <1>7, RecordMoves DEF Moves, RecordPcs, AnswerPcs, Pcs, RecordReplies, FromMemory, Retrieved,
                         answerVars
<1> QED BY <1>1, <1>2, <1>3, <1>4, <1>5, <1>6, <1>7 DEF Step

----------------------------------------------------------------------------
(***************************************************************************)
(* The namespace that is reported.                                         *)
(***************************************************************************)

Passed(r) == IF work[r].takes THEN Asked(r).namespaces[1] ELSE "default"

\* What was stored is where the probe said it would be.
TruthOf(r) ==
  /\ pc[r] = "report" => home[r] = Passed(r)
  /\ reply[r] = "stored" => work[r].report = home[r]
Truthful == WorkTyped /\ \A r \in Requests : TruthOf(r)

LEMMA InitTruthful == Init => Truthful
BY DEF Init, LifeInit, AnswersInit, Truthful, WorkTyped, TruthOf

LEMMA AnswerStepTruthful ==
  ASSUME LifeInv, Truthful, NEW r \in Requests, AnswerStep(r)
  PROVE  Truthful'
<1> USE DEF Keep, Go, Answer
<1>1. Works(r) /\ Moves(r, AnswerPcs, AnswerReplies)
  BY AnswerWorks, AnswerMoves, SMTT(30) DEF Truthful
<1>2. DOMAIN home' = Requests /\ \A q \in Requests \ {r} : home'[q] = home[q]
  BY DEF AnswerStep, AskBody, EmbedQuery, Search, Rank, ResolveModel, Compose, Judge, Extract,
         Probe, StoreExtraction, Report, answerVars, Truthful, WorkTyped
<1>3. WorkTyped'
  BY <1>1, <1>2 DEF Works, Truthful, WorkTyped
<1>4. \A q \in Requests \ {r} : TruthOf(q)'
  BY <1>1, <1>2 DEF Works, Moves, Truthful, TruthOf, WorkTyped, Passed, Asked, LifeInv, Types
<1>5. reply[r] # "stored" /\ reply[r] = "none"
  BY <1>1 DEF Moves, LifeInv, Told, AnswerPcs
<1>6. CASE pc'[r] # "report" /\ reply'[r] # "stored"
  BY <1>3, <1>4, <1>6 DEF Truthful, TruthOf
<1>7. CASE StoreExtraction(r)
  <2>1. pc'[r] = "report" => home'[r] = Passed(r)' /\ reply'[r] = "none"
    BY <1>5, <1>7 DEF StoreExtraction, Passed, Asked, LifeInv, Types, Truthful, WorkTyped
  <2>2. pc'[r] # "report" => reply'[r] # "stored"
    BY <1>5, <1>7 DEF StoreExtraction, LifeInv, Types
  <2>3. TruthOf(r)'
    BY <2>1, <2>2 DEF TruthOf
  <2> QED BY <1>3, <1>4, <2>3 DEF Truthful
<1>8. CASE Report(r)
  <2>1. work' = [work EXCEPT ![r] = [work[r] EXCEPT !.report = Passed(r)]] /\ home' = home
    BY <1>8 DEF Report, Passed, Applied
  <2>2. work'[r].report = Passed(r)
    BY <2>1 DEF Truthful, WorkTyped, Blank
  <2>3. pc'[r] = "close" /\ home[r] = Passed(r)
    BY <1>8 DEF Report, Truthful, TruthOf, LifeInv, Types
  <2>4. TruthOf(r)'
    BY <2>1, <2>2, <2>3, SMTT(30) DEF TruthOf
  <2> QED BY <1>3, <1>4, <2>4 DEF Truthful
<1>9. ASSUME ~StoreExtraction(r), ~Report(r)
      PROVE  pc'[r] # "report" /\ reply'[r] # "stored"
  BY <1>5, <1>9, ZenonT(40)
     DEF AnswerStep, AskBody, EmbedQuery, Search, Rank, ResolveModel, Compose, Judge, Extract,
         Probe, LifeInv, Types
<1> QED BY <1>6, <1>7, <1>8, <1>9

LEMMA OtherStepTruthful ==
  ASSUME LifeInv, Truthful, NEW r \in Requests, Step(r), ~AnswerStep(r)
  PROVE  Truthful'
<1>1. UNCHANGED <<call, home, work>>
  BY OtherSteps
<1>2. PICK x \in Pcs \ AnswerPcs : pc' = [pc EXCEPT ![r] = x]
  BY OtherSteps
<1>3. reply' = reply \/ \E a : reply' = [reply EXCEPT ![r] = a] /\ a \notin FromMemory
  BY OtherSteps
<1>4. \A q \in Requests : /\ pc'[q] = "report" => pc[q] = "report"
                          /\ reply'[q] = "stored" => reply[q] = "stored"
  BY <1>2, <1>3 DEF LifeInv, Types, AnswerPcs, FromMemory
<1> QED BY <1>1, <1>4 DEF Truthful, WorkTyped, TruthOf, Passed, Asked

LEMMA NextTruthful ==
  ASSUME LifeInv, Truthful, [Next]_vars
  PROVE  Truthful'
<1>1. CASE UNCHANGED <<call, pc, reply, home, work>>
  BY <1>1 DEF Truthful, WorkTyped, TruthOf, Passed, Asked
<1>2. CASE Outside
  BY <1>1, <1>2 DEF Outside, Upgrade, Forget, lifeVars, answerVars
<1> QED BY <1>1, <1>2, AnswerStepTruthful, OtherStepTruthful
        DEF Next, Done, vars, lifeVars, answerVars

\* An ingest reports the namespace its document is in.
THEOREM ReportedIsStored == Spec => []NamespaceIsTruthful
<1>1. Truthful => NamespaceIsTruthful
  BY DEF Truthful, TruthOf, NamespaceIsTruthful
<1> QED BY <1>1, InitTruthful, NextTruthful, LifeInvariant, PTL DEF Spec

----------------------------------------------------------------------------
(***************************************************************************)
(* Evidence and citations.                                                 *)
(***************************************************************************)

\* A finite set of memories can be listed by likeness: one that cannot and is
\* minimal for inclusion loses its best, and the rest can be listed.
LEMMA RankingExists ==
  ASSUME NEW C \in SUBSET Chunks
  PROVE  Rankings(C) # {}
<1> DEFINE Bad == {T \in FiniteSubsetsOf(Chunks) : Rankings(T) = {}}
<1>0. IsFiniteSet(C)
  BY AnswersAssumption, FS_Subset
<1>1. SUFFICES ASSUME C \in Bad PROVE FALSE
  BY <1>0 DEF FiniteSubsetsOf
<1>2. PICK T \in Bad : \A U \in Bad : <<U, T>> \notin StrictSubsetOrdering(Chunks)
  <2>1. IsWellFoundedOn(StrictSubsetOrdering(Chunks), FiniteSubsetsOf(Chunks))
    BY FS_StrictSubsetOrderingWellFounded, Zenon
  <2>2. Bad \subseteq FiniteSubsetsOf(Chunks) /\ Bad # {}
    BY <1>1
  <2> HIDE DEF Bad
  <2> QED BY <2>1, <2>2, WFMin, Zenon
<1>3. T \subseteq Chunks /\ IsFiniteSet(T) /\ Rankings(T) = {}
  BY DEF FiniteSubsetsOf
<1>4. T # {}
  <2>1. SUFFICES ASSUME T = {} PROVE [i \in 1..0 |-> 0] \in Rankings(T)
    BY <1>3
  <2> QED BY <2>1, FS_EmptySet DEF Rankings
<1>5. PICK m \in T : \A c \in T : Memory[c].sim <= Memory[m].sim
  <2> DEFINE S == {Memory[c].sim : c \in T}
             f == [c \in T |-> Memory[c].sim]
  <2>1. IsFiniteSet(S)
    <3>1. f \in Surjection(T, S)
      BY DEF Surjection
    <3> HIDE DEF S, f
    <3> QED BY <1>3, <3>1, FS_Surjection, ZenonT(30)
  <2>2. S \subseteq Int /\ S # {}
    BY <1>3, <1>4, AnswersAssumption
  <2> QED BY <2>1, <2>2, FiniteSetHasMax, ZenonT(40)
<1> DEFINE U == T \ {m}
<1>6. IsFiniteSet(U) /\ U \subseteq Chunks /\ Cardinality(T) = Cardinality(U) + 1
      /\ Cardinality(U) \in Nat
  <2>1. IsFiniteSet(U) /\ Cardinality(U) = Cardinality(T) - 1
    BY <1>3, <1>5, FS_RemoveElement
  <2>2. Cardinality(U) \in Nat /\ Cardinality(T) \in Nat
    BY <1>3, <2>1, FS_CardinalityType
  <2> QED BY <1>3, <2>1, <2>2
<1>7. PICK s : s \in Rankings(U)
  <2>1. <<U, T>> \in StrictSubsetOrdering(Chunks)
    BY <1>3 DEF StrictSubsetOrdering
  <2>2. U \notin Bad
    BY <1>2, <2>1
  <2> QED BY <1>6, <2>2 DEF FiniteSubsetsOf
<1> DEFINE t == [i \in 1..Cardinality(T) |-> IF i = 1 THEN m ELSE s[i - 1]]
<1>8. \A c \in U : Memory[c].sim < Memory[m].sim
  BY <1>3, <1>5, AnswersAssumption
<1>9. t \in Rankings(T)
  <2> DEFINE n == Cardinality(U)
  <2>1. /\ s \in [1..n -> U] /\ n \in Nat
        /\ \A i, j \in 1..n : i < j => Memory[s[i]].sim > Memory[s[j]].sim
    BY <1>6, <1>7 DEF Rankings
  <2>2. t = [i \in 1..(n + 1) |-> IF i = 1 THEN m ELSE s[i - 1]]
    BY <1>6
  <2>3. \A c \in U : Memory[c].sim \in Int /\ Memory[m].sim \in Int
    BY <1>3, AnswersAssumption
  <2> HIDE DEF n, U, t
  <2>4. \A i \in 2..(n + 1) : i - 1 \in 1..n /\ t[i] = s[i - 1] /\ t[i] \in U
    BY <2>1, <2>2
  <2>5. t[1] = m /\ DOMAIN t = 1..(n + 1)
    BY <2>1, <2>2
  <2>6. \A i, j \in DOMAIN t : i < j => Memory[t[i]].sim > Memory[t[j]].sim
    <3> SUFFICES ASSUME NEW i \in 1..(n + 1), NEW j \in 1..(n + 1), i < j
                 PROVE  Memory[t[i]].sim > Memory[t[j]].sim
      BY <2>5
    <3>1. j \in 2..(n + 1)
      BY <2>1
    <3>2. CASE i = 1
      <4>1. Memory[t[j]].sim < Memory[m].sim
        BY <1>8, <2>4, <3>1
      <4> QED BY <2>3, <2>4, <2>5, <3>1, <3>2, <4>1
    <3>3. CASE i # 1
      <4>1. i \in 2..(n + 1) /\ i - 1 < j - 1
        BY <2>1, <3>1, <3>3
      <4> QED BY <2>1, <2>4, <3>1, <4>1
    <3> QED BY <3>2, <3>3
  <2>7. t \in [1..(n + 1) -> T]
    <3>1. \A i \in 1..(n + 1) : t[i] \in T
      <4>1. \A i \in 2..(n + 1) : t[i] \in T
        BY <2>4 DEF U
      <4>2. \A i \in 1..(n + 1) : i = 1 \/ i \in 2..(n + 1)
        BY <2>1
      <4> QED BY <2>5, <4>1, <4>2
    <3> QED BY <2>2, <2>5, <3>1
  <2>8. Cardinality(T) = n + 1
    BY <1>6 DEF n
  <2> QED BY <2>5, <2>6, <2>7, <2>8 DEF Rankings
<1> QED BY <1>3, <1>9

LEMMA ByLikenessType ==
  ASSUME NEW C \in SUBSET Chunks
  PROVE  ByLikeness(C) \in Seq(Chunks)
<1>1. ByLikeness(C) \in [1..Cardinality(C) -> C]
  BY RankingExists DEF ByLikeness, Rankings
<1>2. Cardinality(C) \in Nat
  BY AnswersAssumption, FS_Subset, FS_CardinalityType
<1> QED BY <1>1, <1>2

\* What the model is shown of a memory is in its text.
LEMMA ShownIsThere ==
  ASSUME NEW c \in Chunks
  PROVE  Shown(c) \subseteq ToSet(Memory[c].text)
<1>1. Memory[c].text \in Seq(Phrases) /\ EvidenceSize \in Nat
  BY AnswersAssumption
<1> QED BY <1>1 DEF Shown, Cut, ToSet

\* The evidence is there before a model is asked, and stays; what is answered
\* has been verified against it.
CitedOf(r) ==
  LET w == work[r] IN
  /\ w.evidence \in Seq(Chunks) /\ w.calls \in Nat
  /\ pc[r] \in {"embed", "search", "rank"} => w.calls = 0
  /\ w.calls > 0 \/ pc[r] = "compose" => w.evidence # <<>>
  /\ pc[r] = "resolve" /\ Asked(r).op # "ingest" => w.evidence # <<>>
  /\ reply[r] = "answered" => w.out[1].cites # {} /\ Sound(w.evidence, w.out[1], w.calls)
Cited == WorkTyped /\ \A r \in Requests : CitedOf(r)

LEMMA InitCited == Init => Cited
<1> SUFFICES ASSUME Init, NEW r \in Requests PROVE WorkTyped /\ CitedOf(r)
  BY DEF Cited, Init, AnswersInit, WorkTyped
<1>1. work[r].evidence = <<>> /\ work[r].calls = 0 /\ reply[r] = "none"
      /\ pc[r] \in {"new", "done"}
  BY DEF Init, LifeInit, AnswersInit, Blank
<1>2. <<>> \in Seq(Chunks) /\ ~(0 > 0) /\ 0 \in Nat
  OBVIOUS
<1>3. WorkTyped
  BY DEF Init, AnswersInit, WorkTyped
<1> QED BY <1>1, <1>2, <1>3 DEF CitedOf

LEMMA AnswerStepCited ==
  ASSUME LifeInv, Granted, Cited, NEW r \in Requests, AnswerStep(r)
  PROVE  Cited'
<1> DEFINE w == work[r]
<1>1. Works(r) /\ Moves(r, AnswerPcs, AnswerReplies)
  BY AnswerWorks, AnswerMoves DEF Cited
<1>2. WorkTyped' /\ call' = call /\ pc \in [Requests -> Pcs] /\ DOMAIN reply = Requests
  <2>1. DOMAIN home' = Requests
    BY DEF AnswerStep, AskBody, EmbedQuery, Search, Rank, ResolveModel, Compose, Judge, Extract,
           Probe, StoreExtraction, Report, Keep, answerVars, Cited, WorkTyped
  <2> QED BY <1>1, <2>1, SMTT(30) DEF Works, Moves, Cited, WorkTyped, LifeInv, Types
<1>3. \A q \in Requests \ {r} : CitedOf(q)'
  BY <1>1, <1>2, ZenonT(40) DEF Works, Moves, Cited, WorkTyped, CitedOf, Asked, Sound, BadCites, BadSpans
<1>4. reply[r] = "none"
  BY <1>1 DEF Moves, LifeInv, Told, AnswerPcs
<1>5. CitedOf(r) /\ DOMAIN w = DOMAIN Blank /\ work = [q \in Requests |-> work[q]]
  BY DEF Cited, WorkTyped
<1> SUFFICES CitedOf(r)'
  BY <1>2, <1>3 DEF Cited
<1> USE DEF Go, Answer
<1>6. CASE AskBody(r)
  <2>1. PICK v : work' = [work EXCEPT ![r] = v] /\
          (v = [Blank EXCEPT !.gone = dead] \/
           v = [[Blank EXCEPT !.gone = dead] EXCEPT !.todo = SearchesOf(Asked(r))])
    BY <1>6 DEF AskBody, Keep
  <2>2. v.evidence = <<>> /\ v.calls = 0 /\ work'[r] = v
    BY <1>5, <2>1 DEF Blank
  <2>3. /\ pc'[r] \in {"close", "embed"} \/ (pc'[r] = "resolve" /\ Asked(r).op = "ingest")
        /\ reply'[r] # "answered"
    BY <1>2, <1>4, <1>6 DEF AskBody
  <2>4. <<>> \in Seq(Chunks) /\ ~(0 > 0) /\ 0 \in Nat
    OBVIOUS
  <2> QED BY <1>2, <2>2, <2>3, <2>4 DEF CitedOf, Asked
<1>7. CASE Search(r)
  <2>1. PICK new : work' = [work EXCEPT ![r] = [w EXCEPT !.todo = Tail(@), !.found = @ \cup new]]
    BY <1>7 DEF Search, Keep
  <2>2. work'[r].evidence = w.evidence /\ work'[r].calls = w.calls
    BY <1>5, <2>1 DEF Blank
  <2>3. pc[r] = "search" /\ pc'[r] \in {"rank", "embed", "search"} /\ reply'[r] = "none"
    BY <1>2, <1>4, <1>7 DEF Search
  <2> QED BY <1>5, <2>2, <2>3 DEF CitedOf
<1>8. CASE Rank(r)
  <2> DEFINE best == ByLikeness(Best(w.found, Asked(r).max))
  <2>1. work' = [work EXCEPT ![r] = [w EXCEPT !.evidence = best]]
    BY <1>8 DEF Rank, Keep
  <2>2. best \in Seq(Chunks)
    BY ByLikenessType DEF Best, Granted
  <2>3. pc[r] = "rank" /\ (pc'[r] = "close" \/ (pc'[r] = "resolve" /\ best # <<>>))
        /\ reply'[r] # "answered"
    BY <1>2, <1>4, <1>8 DEF Rank
  <2> HIDE DEF best
  <2>4. work'[r].evidence = best /\ work'[r].calls = w.calls
    BY <1>5, <2>1 DEF Blank
  <2>5. w.calls = 0
    BY <1>5, <2>3 DEF CitedOf
  <2> QED BY <2>2, <2>3, <2>4, <2>5 DEF CitedOf
<1>9. CASE Compose(r)
  <2>1. w.evidence # <<>> /\ pc[r] = "compose"
    BY <1>5, <1>9 DEF Compose, CitedOf
  <2>2. pc'[r] \in {"close", "judge", "compose"} /\ reply'[r] # "answered"
    BY <1>2, <1>4, <1>9, ZenonT(40) DEF Compose
  <2>3. work'[r].evidence = w.evidence /\ work'[r].calls \in Nat
    <3>1. CASE UNCHANGED answerVars
      BY <1>5, <3>1 DEF answerVars, CitedOf
    <3>2. CASE \E out : work' = [work EXCEPT ![r] = [w EXCEPT !.calls = @ + 1, !.out = <<out>>]]
      <4>1. PICK out : work' = [work EXCEPT ![r] = [w EXCEPT !.calls = @ + 1, !.out = <<out>>]]
        BY <3>2
      <4>2. work'[r].evidence = w.evidence /\ work'[r].calls = w.calls + 1
        BY <1>5, <4>1 DEF Blank
      <4>3. w.calls \in Nat
        BY <1>5 DEF CitedOf
      <4> HIDE DEF w
      <4> QED BY <4>2, <4>3
    <3> QED BY <1>9, <3>1, <3>2 DEF Compose, Keep
  <2> QED BY <1>5, <2>1, <2>2, <2>3, SMTT(30) DEF CitedOf
<1>10. CASE Judge(r)
  <2>1. work' = work /\ pc'[r] = "close"
    BY <1>2, <1>10 DEF Judge, answerVars
  <2>2. reply'[r] = "answered" => w.out[1].cites # {} /\ Sound(w.evidence, w.out[1], w.calls)
    BY <1>2, <1>10 DEF Judge
  <2> QED BY <1>5, <2>1, <2>2 DEF CitedOf, Sound, BadCites, BadSpans
<1>11. CASE EmbedQuery(r) \/ ResolveModel(r) \/ Extract(r) \/ StoreExtraction(r)
  <2>1. work' = work
    BY <1>11 DEF EmbedQuery, ResolveModel, Extract, StoreExtraction, answerVars
  <2>2. /\ pc'[r] = "compose" => pc[r] = "resolve" /\ Asked(r).op # "ingest"
        /\ pc'[r] # "resolve" /\ reply'[r] # "answered"
        /\ pc'[r] \in {"embed", "search", "rank"} => pc[r] = "embed"
    BY <1>2, <1>4, <1>11 DEF EmbedQuery, ResolveModel, Extract, StoreExtraction
  <2> QED BY <1>5, <2>1, <2>2 DEF CitedOf
<1>12. CASE Probe(r)
  <2> DEFINE v == [w EXCEPT !.takes = (engine >= 106)]
  <2>1. work' = [work EXCEPT ![r] = v]
    BY <1>12, Zenon DEF Probe, Keep
  <2>2. v.evidence = w.evidence /\ v.calls = w.calls
    BY <1>5
  <2> HIDE DEF v
  <2>3. work'[r].evidence = w.evidence /\ work'[r].calls = w.calls
    BY <1>5, <2>1, <2>2
  <2>4. pc'[r] = "store" /\ reply'[r] = "none"
    BY <1>2, <1>4, <1>12 DEF Probe
  <2> QED BY <1>5, <2>3, <2>4 DEF CitedOf
<1>13. CASE Report(r)
  <2>1. PICK report : work' = [work EXCEPT ![r] = [w EXCEPT !.report = report]]
    BY <1>13 DEF Report, Keep
  <2>2. work'[r].evidence = w.evidence /\ work'[r].calls = w.calls
    BY <1>5, <2>1 DEF Blank
  <2>3. pc'[r] = "close" /\ reply'[r] = "stored"
    BY <1>2, <1>13 DEF Report
  <2> QED BY <1>5, <2>2, <2>3 DEF CitedOf
<1> QED BY <1>6, <1>7, <1>8, <1>9, <1>10, <1>11, <1>12, <1>13 DEF AnswerStep

LEMMA OtherStepCited ==
  ASSUME LifeInv, Cited, NEW r \in Requests, Step(r), ~AnswerStep(r)
  PROVE  Cited'
<1>1. UNCHANGED <<call, home, work>>
  BY OtherSteps
<1>2. PICK x \in Pcs \ AnswerPcs : pc' = [pc EXCEPT ![r] = x]
  BY OtherSteps
<1>3. reply' = reply \/ \E a : reply' = [reply EXCEPT ![r] = a] /\ a \notin FromMemory
  BY OtherSteps
<1>4. \A q \in Requests : /\ pc'[q] \in AnswerPcs => pc'[q] = pc[q]
                          /\ reply'[q] = "answered" => reply[q] = "answered"
  BY <1>2, <1>3 DEF LifeInv, Types, FromMemory, Retrieved
<1> QED BY <1>1, <1>4 DEF Cited, WorkTyped, CitedOf, Asked, AnswerPcs, Sound, BadCites, BadSpans

LEMMA NextCited ==
  ASSUME LifeInv, Granted, Cited, [Next]_vars
  PROVE  Cited'
<1>1. CASE UNCHANGED <<call, pc, reply, home, work>>
  BY <1>1 DEF Cited, WorkTyped, CitedOf, Asked, Sound, BadCites, BadSpans
<1>2. CASE Outside
  BY <1>1, <1>2 DEF Outside, Upgrade, Forget, lifeVars, answerVars
<1> QED BY <1>1, <1>2, AnswerStepCited, OtherStepCited
        DEF Next, Done, vars, lifeVars, answerVars

\* What is verified against the evidence is in the memories themselves.
LEMMA SoundIsCited ==
  ASSUME NEW e \in Seq(Chunks), NEW out, NEW n, Sound(e, out, n)
  PROVE  /\ \A c \in out.cites : c.n \in DOMAIN e /\ c.quote \in ToSet(Memory[e[c.n]].text) \ Short
         /\ \A s \in out.spans \ Brief : \E c \in ToSet(e) : s \in ToSet(Memory[c].text)
<1>1. \A i \in DOMAIN e : e[i] \in Chunks /\ e[i] \in ToSet(e)
  BY DEF ToSet
<1>2. \A i \in DOMAIN e : Shown(e[i]) \subseteq ToSet(Memory[e[i]].text)
  BY <1>1, ShownIsThere
<1>3. \A c \in out.cites : c.n \in DOMAIN e /\ c.quote \notin Short /\ c.quote \in Shown(e[c.n])
  BY DEF Sound, BadCites, Verified
<1>4. \A s \in out.spans \ Brief : \E i \in DOMAIN e : s \in Shown(e[i])
  BY DEF Sound, BadSpans
<1> QED BY <1>1, <1>2, <1>3, <1>4

\* An answer is given only with citations that are in the evidence.
THEOREM AnswersAreCited == Spec => []AnsweredIsCited
<1>1. Cited => AnsweredIsCited
  BY SoundIsCited DEF Cited, CitedOf, AnsweredIsCited
<1>2. Spec => []Granted
  BY InitGranted, NextGranted, LifeInvariant, PTL DEF Spec
<1> QED BY <1>1, <1>2, InitCited, NextCited, LifeInvariant, PTL DEF Spec

----------------------------------------------------------------------------
(***************************************************************************)
(* The best of what is there.                                              *)
(***************************************************************************)

\* The memories of T that are more like the question than c.
Above(T, c) == {d \in T : Memory[d].sim > Memory[c].sim}

\* c is among T, or n better ones are.
Covered(T, n, c) == c \in T \/ Cardinality(Above(T, c)) >= n

LEMMA ChunkSets ==
  ASSUME NEW T \in SUBSET Chunks
  PROVE  /\ IsFiniteSet(T) /\ Cardinality(T) \in Nat
         /\ \A U \in SUBSET T : Cardinality(U) \in Nat /\ Cardinality(U) <= Cardinality(T)
<1>1. \A U \in SUBSET Chunks : IsFiniteSet(U) /\ Cardinality(U) \in Nat
  BY AnswersAssumption, FS_Subset, FS_CardinalityType
<1> QED BY <1>1, FS_Subset

\* The k-th of a ranking has k - 1 above it: those that come before it.
LEMMA RankingFacts ==
  ASSUME NEW T \in SUBSET Chunks, NEW s \in Rankings(T), NEW k \in 1..Cardinality(T)
  PROVE  LET First == {s[i] : i \in 1..k} IN
         /\ First \subseteq T /\ Cardinality(First) = k
         /\ \A i \in 1..k : Cardinality(Above(T, s[i])) < k
<1> DEFINE m == Cardinality(T)
<1>1. /\ m \in Nat /\ IsFiniteSet(T) /\ s \in [1..m -> T]
      /\ \A i, j \in 1..m : i < j => Memory[s[i]].sim > Memory[s[j]].sim
  BY ChunkSets DEF Rankings
<1>2. \A c \in T : Memory[c].sim \in Int
  BY AnswersAssumption
<1> HIDE DEF m
<1>3. \A i, j \in 1..m : s[i] = s[j] => i = j
  <2> SUFFICES ASSUME NEW i \in 1..m, NEW j \in 1..m, i < j PROVE s[i] # s[j]
    BY <1>1
  <2> QED BY <1>1, <1>2
<1>4. \A n \in 1..m : Cardinality({s[i] : i \in 1..n}) = n
  <2> TAKE n \in 1..m
  <2> DEFINE S == {s[i] : i \in 1..n}
             f == [i \in 1..n |-> s[i]]
  <2>1. IsFiniteSet(1..n) /\ Cardinality(1..n) = n
    BY <1>1, FS_Interval
  <2>2. f \in Surjection(1..n, S)
    BY DEF Surjection
  <2>3. f \in Injection(1..n, S)
    BY <1>1, <1>3 DEF Injection, IsInjective
  <2> HIDE DEF f, S
  <2>4. Cardinality(S) = Cardinality(1..n)
    BY <2>1, <2>2, <2>3, FS_Surjection
  <2> QED BY <2>1, <2>4 DEF S
<1>5. \A c \in T : \E i \in 1..m : s[i] = c
  <2> DEFINE S == {s[i] : i \in 1..m}
  <2>1. S = T
    <3>1. CASE m = 0
      BY <1>1, <3>1, FS_EmptySet DEF m
    <3>2. CASE m # 0
      <4>1. S \in SUBSET T /\ Cardinality(S) = m
        BY <1>1, <1>4, <3>2
      <4> HIDE DEF S
      <4> QED BY <1>1, <4>1, FS_Subset DEF m
    <3> QED BY <3>1, <3>2
  <2> QED BY <2>1
<1>6. k \in 1..m
  BY DEF m
<1>7. \A i \in 1..k : Cardinality(Above(T, s[i])) < k
  <2> TAKE i \in 1..k
  <2> DEFINE S == {s[j] : j \in 1..(i - 1)}
  <2>1. Above(T, s[i]) \subseteq S
    <3> SUFFICES ASSUME NEW c \in Above(T, s[i]) PROVE c \in S
      OBVIOUS
    <3>1. c \in T /\ Memory[c].sim > Memory[s[i]].sim
      BY DEF Above
    <3>2. PICK j \in 1..m : s[j] = c
      BY <1>5, <3>1
    <3>3. j < i
      BY <1>1, <1>2, <1>6, <3>1, <3>2
    <3> QED BY <1>1, <3>2, <3>3
  <2>2. Cardinality(S) = i - 1
    <3>1. CASE i = 1
      BY <3>1, FS_EmptySet
    <3>2. CASE i # 1
      <4>1. i - 1 \in 1..m
        BY <1>1, <1>6, <3>2
      <4> QED BY <1>4, <4>1
    <3> QED BY <3>1, <3>2
  <2>3. S \in SUBSET Chunks
    BY <1>1, <1>6
  <2> HIDE DEF S
  <2> QED BY <1>1, <1>6, <2>1, <2>2, <2>3, ChunkSets
<1> QED BY <1>1, <1>4, <1>6, <1>7

LEMMA ByLikenessLists ==
  ASSUME NEW C \in SUBSET Chunks
  PROVE  ToSet(ByLikeness(C)) = C
<1> DEFINE s == ByLikeness(C)
           m == Cardinality(C)
           First == {s[i] : i \in 1..m}
<1>1. s \in Rankings(C) /\ s \in [1..m -> C]
  BY RankingExists DEF ByLikeness, Rankings
<1>2. m \in Nat /\ IsFiniteSet(C)
  BY ChunkSets
<1>3. ToSet(s) = First
  BY <1>1 DEF ToSet
<1>4. CASE m = 0
  BY <1>1, <1>2, <1>3, <1>4, FS_EmptySet
<1>5. CASE m # 0
  <2>1. First \subseteq C /\ Cardinality(First) = m
    <3>1. m \in 1..m
      BY <1>2, <1>5
    <3> HIDE DEF s
    <3> QED BY <1>1, <3>1, RankingFacts
  <2> HIDE DEF First
  <2> QED BY <1>2, <1>3, <2>1, FS_Subset
<1> QED BY <1>4, <1>5

\* No more than n are the best n.
LEMMA BestAreFew ==
  ASSUME NEW T \in SUBSET Chunks, NEW n \in Nat
  PROVE  Best(T, n) \in SUBSET T /\ Cardinality(Best(T, n)) <= n
<1> DEFINE B == Best(T, n)
<1>1. B \in SUBSET T /\ B \in SUBSET Chunks
  BY DEF Best
<1>2. SUFFICES ASSUME ~(Cardinality(B) <= n) PROVE FALSE
  BY <1>1
<1> DEFINE k == n + 1
<1>3. PICK s : s \in Rankings(B)
  BY <1>1, RankingExists
<1>4. k \in 1..Cardinality(B) /\ Cardinality(B) \in Nat
  BY <1>1, <1>2, ChunkSets
<1> DEFINE worst == s[k]
           U == {s[i] : i \in 1..n}
<1>5. worst \in B /\ U \in SUBSET B /\ Cardinality(U) = n
  <2>1. s \in [1..Cardinality(B) -> B]
    BY <1>3 DEF Rankings
  <2>2. CASE n = 0
    BY <1>4, <2>1, <2>2, FS_EmptySet
  <2>3. CASE n # 0
    <3>1. n \in 1..Cardinality(B)
      BY <1>4, <2>3
    <3> HIDE DEF B
    <3> QED BY <1>1, <1>3, <1>4, <2>1, <3>1, RankingFacts
  <2> QED BY <2>2, <2>3
<1>6. U \in SUBSET Above(T, worst)
  <2>1. \A i \in 1..n : s[i] \in B /\ Memory[s[i]].sim > Memory[worst].sim
    BY <1>3, <1>4 DEF Rankings
  <2> QED BY <1>1, <2>1 DEF Above
<1>7. Cardinality(Above(T, worst)) < n /\ Cardinality(Above(T, worst)) \in Nat
  <2>1. Above(T, worst) = {d \in T : Memory[d].sim > Memory[worst].sim} /\ Above(T, worst) \in SUBSET Chunks
    BY DEF Above
  <2> HIDE DEF worst
  <2> QED BY <1>5, <2>1, ChunkSets DEF Best
<1>8. Cardinality(U) <= Cardinality(Above(T, worst))
  <2>1. Above(T, worst) \in SUBSET Chunks
    BY DEF Above
  <2> HIDE DEF U
  <2> QED BY <1>6, <2>1, ChunkSets
<1> HIDE DEF U, worst
<1> QED BY <1>5, <1>7, <1>8

\* n that are better than c make n of the best n better than c.
LEMMA BestAbove ==
  ASSUME NEW T \in SUBSET Chunks, NEW n \in Nat, NEW c \in Chunks,
         Cardinality(Above(T, c)) >= n
  PROVE  Cardinality(Above(Best(T, n), c)) >= n
<1> DEFINE U == Above(T, c)
           V == Above(Best(T, n), c)
<1>1. U \in SUBSET T /\ U \in SUBSET Chunks /\ V \in SUBSET Chunks
  BY DEF Above, Best
<1>2. IsFiniteSet(V) /\ Cardinality(V) \in Nat /\ Cardinality(U) \in Nat
  <2> HIDE DEF U, V
  <2> QED BY <1>1, ChunkSets
<1>3. CASE n = 0
  BY <1>2, <1>3
<1>4. CASE n # 0
  <2>1. PICK s : s \in Rankings(U)
    <3> HIDE DEF U
    <3> QED BY <1>1, RankingExists
  <2>2. n \in 1..Cardinality(U)
    BY <1>2, <1>4
  <2> DEFINE F == {s[i] : i \in 1..n}
  <2>3. /\ F \in SUBSET U /\ Cardinality(F) = n
        /\ \A i \in 1..n : Cardinality(Above(U, s[i])) < n
    <3> HIDE DEF U
    <3> QED BY <1>1, <2>1, <2>2, RankingFacts, ZenonT(40)
  <2>4. F \in SUBSET V
    <3> SUFFICES ASSUME NEW i \in 1..n PROVE s[i] \in V
      OBVIOUS
    <3>1. s[i] \in U
      BY <2>3
    <3>2. s[i] \in T /\ Memory[s[i]].sim > Memory[c].sim
      BY <3>1 DEF Above
    <3>3. Above(U, s[i]) = Above(T, s[i])
      <4>1. \A d \in T : Memory[d].sim \in Int
        BY AnswersAssumption
      <4>2. Memory[c].sim \in Int
        BY AnswersAssumption
      <4> QED BY <3>2, <4>1, <4>2 DEF Above
    <3>4. Cardinality({d \in T : Memory[d].sim > Memory[s[i]].sim}) < n
      BY <2>3, <3>3 DEF Above
    <3> QED BY <3>2, <3>4 DEF Above, Best
  <2> HIDE DEF F, V
  <2>5. Cardinality(F) <= Cardinality(V)
    BY <1>1, <2>4, ChunkSets
  <2> HIDE DEF U
  <2>6. Cardinality(F) = n
    BY <2>3
  <2>7. V = Above(Best(T, n), c)
    BY DEF V
  <2> QED BY <1>2, <2>5, <2>6, <2>7
<1> QED BY <1>3, <1>4

\* The best n of T cover all of T, and what T covers.
LEMMA BestCovers ==
  ASSUME NEW T \in SUBSET Chunks, NEW n \in Nat, NEW c \in Chunks, Covered(T, n, c)
  PROVE  Covered(Best(T, n), n, c)
<1>1. Above(T, c) = {d \in T : Memory[d].sim > Memory[c].sim} /\ Above(T, c) \in SUBSET Chunks
  BY DEF Above
<1>2. Cardinality(Above(T, c)) \in Nat
  BY <1>1, ChunkSets
<1>3. CASE Cardinality(Above(T, c)) >= n
  BY <1>3, BestAbove DEF Covered
<1>4. CASE ~(Cardinality(Above(T, c)) >= n)
  BY <1>1, <1>2, <1>4 DEF Covered, Best
<1> QED BY <1>3, <1>4

LEMMA CoveredGrows ==
  ASSUME NEW T \in SUBSET Chunks, NEW U \in SUBSET T, NEW n \in Nat, NEW c \in Chunks,
         Covered(U, n, c)
  PROVE  Covered(T, n, c)
<1>1. Above(U, c) \in SUBSET Above(T, c) /\ Above(T, c) \in SUBSET Chunks
  BY DEF Above
<1>2. Cardinality(Above(U, c)) \in Nat /\ Cardinality(Above(T, c)) \in Nat
      /\ Cardinality(Above(U, c)) <= Cardinality(Above(T, c))
  BY <1>1, ChunkSets
<1> QED BY <1>2 DEF Covered

\* When k more than n are fetched, and no more than k of them are dropped.
LEMMA OverfetchCovers ==
  ASSUME NEW T \in SUBSET Chunks, NEW D \in SUBSET Chunks, NEW k \in Nat, NEW n \in Nat,
         NEW c \in T \ D, Cardinality(D) <= k
  PROVE  Covered(Best(Best(T, k + n) \ D, n), n, c)
<1> DEFINE B == Best(T, k + n)
<1>1. B \in SUBSET Chunks /\ B \ D \in SUBSET Chunks /\ c \in Chunks
  BY DEF Best
<1>2. Covered(B, k + n, c)
  <2>1. k + n \in Nat /\ Covered(T, k + n, c)
    BY DEF Covered
  <2> QED BY <1>1, <2>1, BestCovers
<1> HIDE DEF B
<1>3. Covered(B \ D, n, c)
  <2>1. CASE c \in B
    BY <2>1 DEF Covered
  <2>2. CASE c \notin B
    <3> DEFINE U == Above(B, c)
    <3>1. Cardinality(U) >= k + n /\ U \in SUBSET Chunks
      BY <1>1, <1>2, <2>2 DEF Covered, Above
    <3>2. Above(B \ D, c) = U \ D
      BY DEF Above
    <3> HIDE DEF U
    <3>3. U \cap D \in SUBSET D /\ IsFiniteSet(U)
      BY <3>1, ChunkSets
    <3>4. /\ Cardinality(U \cap D) <= Cardinality(D) /\ Cardinality(U \cap D) \in Nat
          /\ Cardinality(D) \in Nat /\ Cardinality(U) \in Nat
      BY <3>1, <3>3, ChunkSets
    <3>5. Cardinality(U \ D) = Cardinality(U) - Cardinality(U \cap D)
      BY <3>3, FS_Difference
    <3>6. Cardinality(U \ D) >= n
      BY <3>1, <3>4, <3>5
    <3> QED BY <3>2, <3>6 DEF Covered
  <2> QED BY <2>1, <2>2
<1> QED BY <1>1, <1>3, BestCovers DEF B

----------------------------------------------------------------------------
(***************************************************************************)
(* Retrieval.                                                              *)
(***************************************************************************)

\* What parse_request has let through.
AskTyped ==
  \A r \in Requests : LET a == Asked(r) IN
    IsAnswer(r) /\ ~a.bad =>
      /\ a.namespaces \in Seq(Namespaces) /\ a.namespaces # <<>>
      /\ \A s \in {a.projectSubjects, a.named, a.candidates} : s \in Seq(ToSet(s))
      /\ a.max \in Nat /\ a.least \in Int

Relevant(r, c) == About(r, c) /\ Allowed(call[r].head, Memory[c].place)
Finds(s, c) == Memory[c].place = s.place /\ s.subject \in Memory[c].subjects

\* The dead fit into what a search fetches beyond its limit.
FewDead(r) == Cardinality(dead) <= (Overfetch - 1) * Asked(r).max

\* The searches to come are of the call.
TodoOf(r) ==
  /\ work[r].todo # <<>> /\ work[r].todo \in Seq(ToSet(work[r].todo))
  /\ \A s \in ToSet(work[r].todo) : /\ s.place \in ToSet(Asked(r).namespaces)
                                    /\ s.subject \in ToSet(SubjectsOf(Asked(r)))

\* A memory that is wanted has been found, or so many better ones as are asked
\* for, or it will be.
CoveredOf(r) ==
  FewDead(r) => \A c \in Chunks \ dead : Relevant(r, c) =>
    \/ Covered(work[r].found, Asked(r).max, c)
    \/ pc[r] # "rank" /\ \E s \in ToSet(work[r].todo) : Finds(s, c)

\* The evidence is the best there is.
BestOf(r) ==
  LET E == ToSet(work[r].evidence) IN
  FewDead(r) => \A c \in Chunks \ (E \cup dead) : Relevant(r, c) =>
    Cardinality(E) = Asked(r).max /\ \A e \in E : Memory[e].sim > Memory[c].sim

SoughtOf(r) ==
  /\ work[r].gone \subseteq dead
  /\ \A c \in work[r].found : c \in Chunks \ work[r].gone /\ About(r, c)
  /\ ToSet(work[r].evidence) \subseteq work[r].found
  /\ pc[r] \in AnswerPcs \/ reply[r] \in Retrieved => ~Asked(r).bad
  /\ pc[r] \in {"embed", "search"} => TodoOf(r)
  /\ pc[r] \in {"embed", "search", "rank"} => CoveredOf(r)
  /\ pc[r] \in {"resolve", "compose", "judge"} \/ reply[r] \in Retrieved => BestOf(r)

Sought == /\ WorkTyped /\ AskTyped /\ dead \subseteq Chunks
          /\ \A r \in Requests : Answering(r) => SoughtOf(r)

LEMMA SeqOfItself ==
  ASSUME NEW S, NEW s \in Seq(S)
  PROVE  /\ s \in Seq(ToSet(s)) /\ DOMAIN s = 1..Len(s) /\ Len(s) \in Nat
         /\ s # <<>> => Len(s) > 0
BY DEF ToSet

LEMMA HeadAndTail ==
  ASSUME NEW S, NEW s \in Seq(S), s # <<>>
  PROVE  /\ Head(s) \in ToSet(s) /\ Tail(s) \in Seq(S)
         /\ ToSet(s) = {Head(s)} \cup ToSet(Tail(s))
         /\ Tail(s) \in Seq(ToSet(Tail(s)))
<1>1. Len(s) \in Nat /\ Len(s) > 0 /\ DOMAIN s = 1..Len(s)
  BY SeqOfItself
<1>2. /\ Tail(s) \in Seq(S) /\ DOMAIN Tail(s) = 1..(Len(s) - 1) /\ Head(s) = s[1]
      /\ \A i \in 1..(Len(s) - 1) : Tail(s)[i] = s[i + 1]
  BY <1>1
<1>3. ToSet(s) \subseteq {Head(s)} \cup ToSet(Tail(s))
  <2> SUFFICES ASSUME NEW i \in 1..Len(s) PROVE s[i] \in {Head(s)} \cup ToSet(Tail(s))
    BY <1>1 DEF ToSet
  <2>1. CASE i = 1
    BY <1>2, <2>1
  <2>2. CASE i # 1
    <3>1. i - 1 \in 1..(Len(s) - 1) /\ Tail(s)[i - 1] = s[i]
      BY <1>1, <1>2, <2>2
    <3> QED BY <1>2, <3>1 DEF ToSet
  <2> QED BY <2>1, <2>2
<1>4. ToSet(Tail(s)) \subseteq ToSet(s) /\ Head(s) \in ToSet(s)
  <2>1. \A i \in 1..(Len(s) - 1) : i + 1 \in 1..Len(s)
    BY <1>1
  <2> QED BY <1>1, <1>2, <2>1 DEF ToSet
<1> QED BY <1>2, <1>3, <1>4, SeqOfItself

\* However the subjects are found, they are a list.
LEMMA SubjectsAreListed ==
  ASSUME NEW a, \A s \in {a.projectSubjects, a.named, a.candidates} : s \in Seq(ToSet(s))
  PROVE  SubjectsOf(a) \in Seq(ToSet(SubjectsOf(a)))
<1> DEFINE all == IF a.project = "known" /\ a.projectSubjects # <<>> THEN a.projectSubjects
                  ELSE IF a.op = "recall" /\ a.named # <<>> THEN a.named
                  ELSE Cut(a.candidates, MaxSubjects)
           first(i) == \A j \in 1..i-1 : all[j] # all[i]
           I == {i \in DOMAIN all : first(i)}
           n == Cardinality(I)
           f == [k \in 1..n |-> all[CHOOSE i \in DOMAIN all :
                                       first(i) /\ Cardinality({j \in 1..i : first(j)}) = k]]
<1>1. SubjectsOf(a) = Cut(f, MaxTried)
  BY DEF SubjectsOf
<1>0. MaxSubjects \in Nat /\ MaxTried \in Nat
  BY AnswersAssumption
<1>2. n \in Nat
  <2>0. Cut(a.candidates, MaxSubjects) \in Seq(ToSet(a.candidates))
    BY <1>0 DEF Cut
  <2>1. DOMAIN all = 1..Len(all) /\ Len(all) \in Nat
    BY <2>0
  <2>2. I \in SUBSET (1..Len(all))
    BY <2>1
  <2> HIDE DEF all, I
  <2>3. IsFiniteSet(1..Len(all))
    BY <2>1, FS_Interval
  <2> QED BY <2>2, <2>3, FS_Subset, FS_CardinalityType
<1> DEFINE S == {f[k] : k \in 1..n}
<1>3. f \in Seq(S) /\ Len(f) = n
  <2> HIDE DEF n
  <2>1. f \in [1..n -> S]
    BY ZenonT(40)
  <2> HIDE DEF f, S
  <2> QED BY <1>2, <2>1, SMTT(30)
<1> HIDE DEF f, S, n
<1>5. Cut(f, MaxTried) \in Seq(S)
  BY <1>0, <1>3 DEF Cut
<1> QED BY <1>1, <1>5, SeqOfItself

LEMMA QuotientFacts ==
  ASSUME NEW n \in Nat, NEW i \in Nat, NEW j \in Nat, j < n
  PROVE  (i * n + j) \div n = i /\ (i * n + j) % n = j
<1> DEFINE x == i * n + j
           q == x \div n
<1>1. x \in Nat /\ n > 0
  OBVIOUS
<1>2. q \in Int /\ x = n * q + (x % n) /\ x % n \in 0..(n-1)
  BY <1>1
<1>3. n * (i - q) = (x % n) - j
  BY <1>2
<1>4. i - q = 0
  <2>1. CASE i - q >= 1
    <3>1. n * (i - q) >= n
      BY <2>1, <1>1, <1>2
    <3> QED BY <3>1, <1>3, <1>2
  <2>2. CASE i - q <= -1
    <3>1. n * (i - q) <= -n
      BY <2>2, <1>1, <1>2
    <3> QED BY <3>1, <1>3, <1>2
  <2> QED BY <2>1, <2>2, <1>2
<1> QED BY <1>2, <1>4, <1>3

\* The searches are those of every namespace with every subject.
LEMMA SearchesFacts ==
  ASSUME NEW a, a.namespaces \in Seq(Namespaces), a.namespaces # <<>>,
         SubjectsOf(a) \in Seq(ToSet(SubjectsOf(a))), SubjectsOf(a) # <<>>
  PROVE  /\ SearchesOf(a) # <<>> /\ SearchesOf(a) \in Seq(ToSet(SearchesOf(a)))
         /\ \A s \in ToSet(SearchesOf(a)) : /\ s.place \in ToSet(a.namespaces)
                                            /\ s.subject \in ToSet(SubjectsOf(a))
         /\ \A p \in ToSet(a.namespaces), b \in ToSet(SubjectsOf(a)) :
              \E s \in ToSet(SearchesOf(a)) : s.place = p /\ s.subject = b
<1> DEFINE N == a.namespaces
           S == SubjectsOf(a)
           T == SearchesOf(a)
           m == Len(N)
           n == Len(S)
<1>1. /\ DOMAIN N = 1..m /\ m \in Nat /\ m > 0
      /\ DOMAIN S = 1..n /\ n \in Nat /\ n > 0
  <2>1. DOMAIN N = 1..m /\ m \in Nat /\ m > 0
    BY SeqOfItself
  <2>2. DOMAIN S = 1..n /\ n \in Nat /\ n > 0
    BY SeqOfItself
  <2> QED BY <2>1, <2>2
<1>2. T = [k \in 1..(m * n) |-> [place |-> N[((k - 1) \div n) + 1], subject |-> S[((k - 1) % n) + 1]]]
  BY DEF SearchesOf
<1> HIDE DEF N, S, T, m, n
<1>3. m * n \in Nat /\ m * n > 0
  BY <1>1
<1>4. T \in Seq(ToSet(T)) /\ T # <<>> /\ DOMAIN T = 1..(m * n)
  <2>1. DOMAIN T = 1..(m * n) /\ T = [k \in 1..(m * n) |-> T[k]]
    BY <1>2
  <2>2. T \in [1..(m * n) -> ToSet(T)]
    BY <2>1 DEF ToSet
  <2> QED BY <1>3, <2>1, <2>2, SMTT(30)
<1>5. \A k \in 1..(m * n) : ((k - 1) \div n) + 1 \in 1..m /\ ((k - 1) % n) + 1 \in 1..n
  <2> TAKE k \in 1..(m * n)
  <2> DEFINE q == (k - 1) \div n
             x == (k - 1) % n
  <2>1. q \in Int /\ x \in 0..(n - 1) /\ k - 1 = n * q + x
    BY <1>1, <1>3
  <2>2. 0 <= k - 1 /\ k - 1 < n * m
    BY <1>1, <1>3
  <2> HIDE DEF q, x
  <2>3. q >= 0
    <3>1. SUFFICES ASSUME q <= -1 PROVE n * q <= -n
      BY <1>1, <2>1, <2>2
    <3> QED BY <1>1, <2>1, <3>1
  <2>4. q < m
    <3>1. SUFFICES ASSUME q >= m PROVE n * q >= n * m
      BY <1>1, <2>1, <2>2
    <3> QED BY <1>1, <2>1, <3>1
  <2> QED BY <1>1, <2>1, <2>3, <2>4 DEF q, x
<1>6. ASSUME NEW s \in ToSet(T) PROVE s.place \in ToSet(N) /\ s.subject \in ToSet(S)
  <2>1. PICK k \in 1..(m * n) : s = T[k]
    BY <1>4 DEF ToSet
  <2>2. s = [place |-> N[((k - 1) \div n) + 1], subject |-> S[((k - 1) % n) + 1]]
    BY <1>2, <2>1
  <2> QED BY <1>1, <1>5, <2>2 DEF ToSet
<1>7. ASSUME NEW p \in ToSet(N), NEW b \in ToSet(S)
      PROVE  \E s \in ToSet(T) : s.place = p /\ s.subject = b
  <2>1. PICK i \in 1..m, j \in 1..n : p = N[i] /\ b = S[j]
    BY <1>1 DEF ToSet
  <2> DEFINE k == (i - 1) * n + (j - 1) + 1
  <2>2. i - 1 \in Nat /\ j - 1 \in Nat /\ j - 1 < n
    BY <1>1
  <2>3. (k - 1) \div n = i - 1 /\ (k - 1) % n = j - 1
    <3>1. k - 1 = (i - 1) * n + (j - 1)
      BY <1>1
    <3>2. ((i - 1) * n + (j - 1)) \div n = i - 1 /\ ((i - 1) * n + (j - 1)) % n = j - 1
      BY <1>1, <2>2, QuotientFacts, ZenonT(30)
    <3> HIDE DEF k
    <3> QED BY <3>1, <3>2
  <2>4. k \in 1..(m * n)
    <3>1. (i - 1) * n >= 0 /\ i * n <= m * n /\ (i - 1) * n = i * n - n
      BY <1>1
    <3>2. (i - 1) * n \in Int /\ i * n \in Int
      BY <1>1
    <3> QED BY <1>1, <1>3, <3>1, <3>2
  <2> HIDE DEF k
  <2>5. T[k].place = N[i] /\ T[k].subject = S[j]
    BY <1>1, <1>2, <2>3, <2>4
  <2> QED BY <1>4, <2>1, <2>4, <2>5 DEF ToSet
<1> QED BY <1>4, <1>6, <1>7 DEF N, S, T

\* The engine lets a session see all that its headers allow.
LEMMA AllowedSees ==
  ASSUME NEW h \in Headers, ~BadHead(h), NEW n, Allowed(h, n)
  PROVE  Sees(SessionOf(h), n)
BY DEF Headers, BadHead, SessionOf, ParseScopes, Sees, Allowed, Namespaces, Unrestricted

\* What a search leaves out is worse than all that it takes.
LEMMA SearchCovers ==
  ASSUME NEW r, NEW s, NEW c \in Chunks \ dead, dead \subseteq Chunks, Finds(s, c),
         Sees(conn[r].as, s.place), Asked(r).max \in Nat, Asked(r).least \in Int,
         Memory[c].sim >= Asked(r).least, FewDead(r)
  PROVE  Covered({d \in HitsOf(r, s) : Memory[d].sim >= Asked(r).least}, Asked(r).max, c)
<1> DEFINE C == {d \in Chunks : /\ Memory[d].place = s.place /\ s.subject \in Memory[d].subjects
                                /\ Sees(conn[r].as, s.place)}
           n == Asked(r).max
           least == Asked(r).least
           k == (Overfetch - 1) * n
           H == HitsOf(r, s)
           new == {d \in H : Memory[d].sim >= least}
<1>1. c \in C \ dead /\ C \in SUBSET Chunks
  BY DEF Finds
<1>2. k \in Nat /\ Overfetch * n = k + n
  <2>1. Overfetch \in Nat /\ Overfetch - 1 \in Nat
    BY AnswersAssumption
  <2> QED BY <2>1
<1>3. H = Best(Best(C, k + n) \ dead, n)
  BY <1>2 DEF HitsOf
<1>4. Cardinality(dead) <= k
  BY DEF FewDead
<1> HIDE DEF C, k
<1>5. Covered(H, n, c)
  <2>1. Covered(Best(Best(C, k + n) \ dead, n), n, c)
    BY <1>1, <1>2, <1>4, OverfetchCovers
  <2> QED BY <1>3, <2>1
<1>6. H \in SUBSET Chunks
  BY <1>1, <1>3 DEF Best
<1>7. Above(H, c) = Above(new, c)
  <2>1. \A d \in H : Memory[d].sim \in Int
    BY <1>6, AnswersAssumption
  <2>2. Memory[c].sim \in Int
    BY AnswersAssumption
  <2> HIDE DEF H
  <2> QED BY <2>1, <2>2 DEF Above
<1> HIDE DEF H, new
<1>8. Covered(new, n, c)
  <2>1. CASE c \in H
    BY <2>1 DEF Covered, new
  <2>2. CASE Cardinality(Above(H, c)) >= n
    BY <1>7, <2>2 DEF Covered
  <2> QED BY <1>5, <2>1, <2>2 DEF Covered
<1> QED BY <1>8 DEF new, H

LEMMA AskedStays ==
  ASSUME UNCHANGED call
  PROVE  /\ AskTyped => AskTyped'
         /\ \A r : Asked(r)' = Asked(r) /\ Answering(r)' = Answering(r)
         /\ \A r : SubjectsOf(Asked(r))' = SubjectsOf(Asked(r))
         /\ \A r, c : Relevant(r, c)' = Relevant(r, c) /\ About(r, c)' = About(r, c)
<1>1. \A r : Asked(r)' = Asked(r) /\ Answering(r)' = Answering(r) /\ IsAnswer(r)' = IsAnswer(r)
  BY DEF Asked, Answering, IsAnswer
<1>2. \A r : SubjectsOf(Asked(r))' = SubjectsOf(Asked(r))
  BY <1>1
<1>3. \A r, c : Relevant(r, c)' = Relevant(r, c) /\ About(r, c)' = About(r, c)
  BY <1>1, <1>2 DEF Relevant, About, Allowed
<1>4. AskTyped => AskTyped'
  BY <1>1 DEF AskTyped
<1> QED BY <1>1, <1>2, <1>3, <1>4

\* More dead leave less to be found.
LEMMA FewDeadBefore ==
  ASSUME NEW r, UNCHANGED call, dead \subseteq dead', dead' \subseteq Chunks,
         Asked(r).max \in Nat, FewDead(r)'
  PROVE  FewDead(r)
<1>1. Asked(r)' = Asked(r)
  BY AskedStays
<1>2. Cardinality(dead) <= Cardinality(dead') /\ Cardinality(dead) \in Nat /\ Cardinality(dead') \in Nat
  BY ChunkSets
<1>3. (Overfetch - 1) * Asked(r).max \in Nat
  BY AnswersAssumption
<1>4. Cardinality(dead') <= (Overfetch - 1) * Asked(r).max
  BY <1>1 DEF FewDead
<1> QED BY <1>2, <1>3, <1>4 DEF FewDead

\* What others do changes nothing for r.
LEMMA SoughtStays ==
  ASSUME AskTyped, NEW r \in Requests, Answering(r), SoughtOf(r),
         UNCHANGED call, work'[r] = work[r], dead \subseteq dead', dead' \subseteq Chunks,
         pc'[r] = pc[r] \/ pc'[r] \notin AnswerPcs,
         reply'[r] = reply[r] \/ reply'[r] \notin Retrieved
  PROVE  SoughtOf(r)'
<1>1. /\ Asked(r)' = Asked(r) /\ \A c : Relevant(r, c)' = Relevant(r, c) /\ About(r, c)' = About(r, c)
      /\ SubjectsOf(Asked(r))' = SubjectsOf(Asked(r))
  BY AskedStays
<1>2. ~Asked(r).bad => (FewDead(r)' => FewDead(r))
  BY FewDeadBefore DEF AskTyped, Answering
<1>3. pc'[r] \in AnswerPcs => pc'[r] = pc[r]
  OBVIOUS
<1>4. reply'[r] \in Retrieved => reply'[r] = reply[r]
  OBVIOUS
<1>5. TodoOf(r) => TodoOf(r)'
  BY <1>1 DEF TodoOf
<1>6. CoveredOf(r) /\ pc'[r] = pc[r] /\ ~Asked(r).bad => CoveredOf(r)'
  BY <1>1, <1>2 DEF CoveredOf
<1>7. BestOf(r) /\ ~Asked(r).bad => BestOf(r)'
  BY <1>1, <1>2 DEF BestOf
<1>8. /\ (work[r].gone \subseteq dead)'
      /\ (\A c \in work[r].found : c \in Chunks \ work[r].gone /\ About(r, c))'
      /\ (ToSet(work[r].evidence) \subseteq work[r].found)'
  BY <1>1 DEF SoughtOf
<1>9. (pc[r] \in AnswerPcs \/ reply[r] \in Retrieved => ~Asked(r).bad)'
  BY <1>1, <1>3, <1>4 DEF SoughtOf
<1>10. (pc[r] \in {"embed", "search"} => TodoOf(r))' /\ (pc[r] \in {"embed", "search", "rank"} => CoveredOf(r))'
  BY <1>3, <1>5, <1>6 DEF SoughtOf, AnswerPcs
<1>11. (pc[r] \in {"resolve", "compose", "judge"} \/ reply[r] \in Retrieved => BestOf(r))'
  BY <1>3, <1>4, <1>7 DEF SoughtOf, AnswerPcs
<1> QED BY <1>8, <1>9, <1>10, <1>11 DEF SoughtOf

\* r does not search, and takes what it holds along.
LEMMA SoughtGoesOn ==
  ASSUME AskTyped, NEW r \in Requests, Answering(r), SoughtOf(r), ~Asked(r).bad,
         UNCHANGED <<call, dead>>,
         /\ work'[r].todo = work[r].todo /\ work'[r].found = work[r].found
         /\ work'[r].evidence = work[r].evidence /\ work'[r].gone = work[r].gone,
         \/ pc[r] = "embed" /\ pc'[r] = "search" /\ reply'[r] \notin Retrieved
         \/ pc'[r] \notin {"embed", "search", "rank", "resolve", "compose", "judge"}
            /\ reply'[r] \notin Retrieved
         \/ /\ pc[r] \in {"resolve", "compose", "judge"}
            /\ pc'[r] \in {"compose", "judge", "close"}
  PROVE  SoughtOf(r)'
<1>1. /\ Asked(r)' = Asked(r) /\ \A c : Relevant(r, c)' = Relevant(r, c) /\ About(r, c)' = About(r, c)
      /\ SubjectsOf(Asked(r))' = SubjectsOf(Asked(r))
  BY AskedStays
<1>2. FewDead(r)' = FewDead(r)
  BY <1>1 DEF FewDead
<1>3. TodoOf(r) => TodoOf(r)'
  BY <1>1 DEF TodoOf
<1>4. CoveredOf(r) /\ pc'[r] # "rank" => CoveredOf(r)'
  BY <1>1, <1>2 DEF CoveredOf
<1>5. BestOf(r) => BestOf(r)'
  BY <1>1, <1>2 DEF BestOf
<1>6. /\ (work[r].gone \subseteq dead)'
      /\ (\A c \in work[r].found : c \in Chunks \ work[r].gone /\ About(r, c))'
      /\ (ToSet(work[r].evidence) \subseteq work[r].found)'
  BY <1>1 DEF SoughtOf
<1> QED BY <1>1, <1>3, <1>4, <1>5, <1>6 DEF SoughtOf

LEMMA AskBodySought ==
  ASSUME LifeInv, Sought, NEW r \in Requests, Answering(r), AskBody(r)
  PROVE  SoughtOf(r)'
<1> DEFINE a == Asked(r)
           blank == [Blank EXCEPT !.gone = dead]
<1>1. /\ Asked(r)' = Asked(r) /\ \A c : Relevant(r, c)' = Relevant(r, c) /\ About(r, c)' = About(r, c)
      /\ SubjectsOf(Asked(r))' = SubjectsOf(Asked(r))
  BY AskedStays DEF AskBody, Answer, Go
<1>2. PICK w : /\ work' = [work EXCEPT ![r] = w] /\ dead' = dead
               /\ w = blank \/ (w = [blank EXCEPT !.todo = SearchesOf(a)])
  BY DEF AskBody, Keep
<1>3. /\ w.gone = dead /\ w.found = {} /\ w.evidence = <<>>
      /\ work'[r] = w /\ dead' = dead
  BY <1>2 DEF Blank, Sought, WorkTyped
<1>4. pc \in [Requests -> Pcs] /\ DOMAIN reply = Requests /\ reply[r] = "none" /\ a.op # "ingest"
  BY DEF LifeInv, Types, Told, AskBody, Answering
<1>5. ToSet(<<>>) = {}
  BY DEF ToSet
<1>6. /\ (work[r].gone \subseteq dead)'
      /\ (\A c \in work[r].found : c \in Chunks \ work[r].gone /\ About(r, c))'
      /\ (ToSet(work[r].evidence) \subseteq work[r].found)'
  BY <1>3, <1>5
<1>7. CASE pc'[r] = "close" /\ reply'[r] \notin Retrieved
  BY <1>6, <1>7 DEF SoughtOf, AnswerPcs
<1>8. CASE /\ ~a.bad /\ SubjectsOf(a) = <<>> /\ pc'[r] = "close"
  <2>1. \A c : ~Relevant(r, c)
    BY <1>5, <1>8 DEF Relevant, About
  <2>2. BestOf(r)'
    BY <1>1, <2>1 DEF BestOf
  <2> QED BY <1>1, <1>6, <1>8, <2>2 DEF SoughtOf, AnswerPcs
<1>9. CASE /\ ~a.bad /\ SubjectsOf(a) # <<>> /\ pc'[r] = "embed" /\ reply'[r] = "none"
           /\ work' = [work EXCEPT ![r] = [blank EXCEPT !.todo = SearchesOf(a)]]
  <2>1. work'[r].todo = SearchesOf(a)
    BY <1>9 DEF Blank, Sought, WorkTyped
  <2>2. /\ a.namespaces \in Seq(Namespaces) /\ a.namespaces # <<>>
        /\ SubjectsOf(a) \in Seq(ToSet(SubjectsOf(a)))
    <3>1. /\ a.namespaces \in Seq(Namespaces) /\ a.namespaces # <<>>
          /\ \A s \in {a.projectSubjects, a.named, a.candidates} : s \in Seq(ToSet(s))
      BY <1>9 DEF Sought, AskTyped, Answering
    <3> HIDE DEF a
    <3> QED BY <3>1, SubjectsAreListed
  <2>3. /\ SearchesOf(a) # <<>> /\ SearchesOf(a) \in Seq(ToSet(SearchesOf(a)))
        /\ \A s \in ToSet(SearchesOf(a)) : /\ s.place \in ToSet(a.namespaces)
                                           /\ s.subject \in ToSet(SubjectsOf(a))
        /\ \A p \in ToSet(a.namespaces), b \in ToSet(SubjectsOf(a)) :
             \E s \in ToSet(SearchesOf(a)) : s.place = p /\ s.subject = b
    <3>1. SubjectsOf(a) # <<>>
      BY <1>9
    <3> HIDE DEF a
    <3> QED BY <2>2, <3>1, SearchesFacts
  <2> HIDE DEF a
  <2>4. TodoOf(r)'
    BY <1>1, <2>1, <2>3 DEF TodoOf, a
  <2>5. \A c : Relevant(r, c) => \E s \in ToSet(SearchesOf(a)) : Finds(s, c)
    <3> SUFFICES ASSUME NEW c, Relevant(r, c) PROVE \E s \in ToSet(SearchesOf(a)) : Finds(s, c)
      OBVIOUS
    <3>1. PICK b \in ToSet(SubjectsOf(a)) : b \in Memory[c].subjects
      BY DEF Relevant, About, a
    <3>2. Memory[c].place \in ToSet(a.namespaces)
      BY DEF Relevant, About, a
    <3> QED BY <2>3, <3>1, <3>2 DEF Finds
  <2>6. CoveredOf(r)'
    BY <1>1, <1>9, <2>1, <2>5 DEF CoveredOf
  <2> QED BY <1>1, <1>6, <1>9, <2>4, <2>6 DEF SoughtOf, AnswerPcs, Retrieved, a
<1>10. CASE (a.bad \/ TooMany(a)) /\ Answer(r, "bad request")
  BY <1>4, <1>7, <1>10 DEF Answer, Retrieved
<1>11. CASE ~a.bad /\ a.project = "unknown" /\ Answer(r, "not found")
  BY <1>4, <1>7, <1>11 DEF Answer, Retrieved
<1>12. CASE /\ ~a.bad /\ SubjectsOf(a) = <<>>
            /\ Answer(r, IF a.op = "recall" THEN "recalled" ELSE "no evidence")
  BY <1>4, <1>8, <1>12 DEF Answer
<1>13. CASE /\ ~a.bad /\ SubjectsOf(a) # <<>> /\ Go(r, "embed")
            /\ Keep(r, [blank EXCEPT !.todo = SearchesOf(a)])
  BY <1>4, <1>9, <1>13 DEF Go, Keep
<1> QED BY <1>4, <1>10, <1>11, <1>12, <1>13, Zenon DEF AskBody

LEMMA SearchSought ==
  ASSUME LifeInv, Sought, NEW r \in Requests, Answering(r), Search(r)
  PROVE  SoughtOf(r)'
<1> DEFINE w == work[r]
           s == Head(w.todo)
           new == {c \in HitsOf(r, s) : Memory[c].sim >= Asked(r).least}
           v == [w EXCEPT !.todo = Tail(@), !.found = @ \cup new]
<1>1. /\ Asked(r)' = Asked(r) /\ \A c : Relevant(r, c)' = Relevant(r, c) /\ About(r, c)' = About(r, c)
      /\ SubjectsOf(Asked(r))' = SubjectsOf(Asked(r))
  BY AskedStays DEF Search, Go
<1>2. /\ pc[r] = "search" /\ dead' = dead /\ work' = [work EXCEPT ![r] = v]
      /\ pc'[r] \in {"rank", "embed", "search"} /\ (pc'[r] = "rank" <=> Tail(w.todo) = <<>>)
      /\ reply' = reply /\ reply[r] = "none"
  BY SMTT(30) DEF Search, Keep, Go, More, LifeInv, Types, Told
<1>3. /\ work'[r].todo = Tail(w.todo) /\ work'[r].found = w.found \cup new
      /\ work'[r].evidence = w.evidence /\ work'[r].gone = w.gone
  BY <1>2, ZenonT(40) DEF Blank, Sought, WorkTyped
<1>4. /\ SoughtOf(r) /\ ~Asked(r).bad /\ TodoOf(r) /\ CoveredOf(r)
      /\ Asked(r).max \in Nat /\ Asked(r).least \in Int
  BY <1>2 DEF Sought, SoughtOf, AskTyped, Answering, AnswerPcs
<1>5. s \in ToSet(w.todo) /\ Tail(w.todo) \in Seq(ToSet(w.todo))
      /\ ToSet(w.todo) = {s} \cup ToSet(Tail(w.todo))
      /\ Tail(w.todo) \in Seq(ToSet(Tail(w.todo)))
  BY <1>4, HeadAndTail DEF TodoOf
<1>6. \A c \in new : c \in Chunks \ dead /\ About(r, c)
  <2> SUFFICES ASSUME NEW c \in new PROVE c \in Chunks \ dead /\ About(r, c)
    OBVIOUS
  <2>1. /\ c \in Chunks \ dead /\ Memory[c].place = s.place /\ s.subject \in Memory[c].subjects
        /\ Memory[c].sim >= Asked(r).least
    BY DEF HitsOf, Best
  <2>2. s.place \in ToSet(Asked(r).namespaces) /\ s.subject \in ToSet(SubjectsOf(Asked(r)))
    BY <1>4, <1>5 DEF TodoOf
  <2> HIDE DEF new, s
  <2> QED BY <2>1, <2>2 DEF About
<1>7. ASSUME NEW c \in Chunks \ dead, Relevant(r, c), FewDead(r)
      PROVE  \/ Covered(w.found \cup new, Asked(r).max, c)
             \/ Tail(w.todo) # <<>> /\ \E t \in ToSet(Tail(w.todo)) : Finds(t, c)
  <2>1. w.found \cup new \in SUBSET Chunks
    BY <1>4, <1>6 DEF SoughtOf
  <2>2. CASE Covered(w.found, Asked(r).max, c)
    <3> HIDE DEF new
    <3> QED BY <1>4, <2>1, <2>2, CoveredGrows
  <2>3. CASE Finds(s, c)
    <3>1. Sees(conn[r].as, s.place)
      <4>1. /\ conn[r].as = SessionOf(call[r].head) /\ call[r].head \in Headers
            /\ ~BadHead(call[r].head)
        BY <1>2 DEF LifeInv, Types, Bound
      <4>2. Allowed(call[r].head, s.place)
        BY <1>7, <2>3 DEF Finds, Relevant
      <4> QED BY <4>1, <4>2, AllowedSees
    <3>2. Memory[c].sim >= Asked(r).least /\ dead \subseteq Chunks
      BY <1>7 DEF Relevant, About, Sought
    <3> HIDE DEF s, w
    <3>3. Covered(new, Asked(r).max, c)
      BY <1>4, <1>7, <2>3, <3>1, <3>2, SearchCovers
    <3> HIDE DEF new
    <3> QED BY <1>4, <2>1, <3>3, CoveredGrows
  <2>4. CASE \E t \in ToSet(Tail(w.todo)) : Finds(t, c)
    <3>1. Tail(w.todo) # <<>>
      BY <2>4 DEF ToSet
    <3> QED BY <2>4, <3>1
  <2> HIDE DEF new, s
  <2> QED BY <1>4, <1>5, <1>7, <2>2, <2>3, <2>4 DEF CoveredOf
<1> HIDE DEF new, s, v
<1>8. CoveredOf(r)'
  <2>1. FewDead(r)' => FewDead(r)
    BY <1>1, <1>2 DEF FewDead
  <2> QED BY <1>1, <1>2, <1>3, <1>7, <2>1 DEF CoveredOf
<1>9. pc'[r] # "rank" => TodoOf(r)'
  <2>1. ToSet(Tail(w.todo)) \subseteq ToSet(w.todo)
    BY <1>5
  <2> QED BY <1>1, <1>2, <1>3, <1>4, <1>5, <2>1 DEF TodoOf
<1>10. /\ (work[r].gone \subseteq dead)'
       /\ (\A c \in work[r].found : c \in Chunks \ work[r].gone /\ About(r, c))'
       /\ (ToSet(work[r].evidence) \subseteq work[r].found)'
  BY <1>1, <1>2, <1>3, <1>4, <1>6 DEF SoughtOf
<1> QED BY <1>1, <1>2, <1>4, <1>8, <1>9, <1>10 DEF SoughtOf, Retrieved

LEMMA RankSought ==
  ASSUME LifeInv, Sought, NEW r \in Requests, Answering(r), Rank(r)
  PROVE  SoughtOf(r)'
<1> DEFINE w == work[r]
           n == Asked(r).max
           B == Best(w.found, n)
           best == ByLikeness(B)
<1>1. /\ Asked(r)' = Asked(r) /\ \A c : Relevant(r, c)' = Relevant(r, c) /\ About(r, c)' = About(r, c)
      /\ SubjectsOf(Asked(r))' = SubjectsOf(Asked(r))
  BY AskedStays DEF Rank, Go, Answer
<1>2. /\ pc[r] = "rank" /\ dead' = dead /\ work' = [work EXCEPT ![r] = [w EXCEPT !.evidence = best]]
      /\ pc'[r] \in {"resolve", "close"}
  BY DEF Rank, Keep, Go, Answer, LifeInv, Types
<1>3. /\ work'[r].found = w.found /\ work'[r].evidence = best /\ work'[r].gone = w.gone
  BY <1>2 DEF Blank, Sought, WorkTyped
<1>4. /\ SoughtOf(r) /\ ~Asked(r).bad /\ CoveredOf(r) /\ n \in Nat /\ w.found \in SUBSET Chunks
  BY <1>2 DEF Sought, SoughtOf, AskTyped, Answering, AnswerPcs
<1>5. B \in SUBSET w.found /\ Cardinality(B) <= n
  BY <1>4, BestAreFew
<1>6. ToSet(best) = B
  BY <1>4, <1>5, ByLikenessLists
<1>7. ASSUME NEW c \in Chunks \ (B \cup dead), Relevant(r, c), FewDead(r)
      PROVE  Cardinality(B) = n /\ \A e \in B : Memory[e].sim > Memory[c].sim
  <2>1. Covered(w.found, n, c)
    BY <1>2, <1>4, <1>7 DEF CoveredOf
  <2>2. Covered(B, n, c)
    BY <1>4, <2>1, BestCovers
  <2> HIDE DEF B, n
  <2>3. /\ Cardinality(Above(B, c)) >= n /\ Above(B, c) \in SUBSET B
        /\ \A e \in Above(B, c) : Memory[e].sim > Memory[c].sim
    BY <1>7, <2>2 DEF Covered, Above
  <2>4. IsFiniteSet(B) /\ Cardinality(B) \in Nat /\ Cardinality(Above(B, c)) \in Nat
        /\ Cardinality(Above(B, c)) <= Cardinality(B)
    BY <1>4, <1>5, <2>3, ChunkSets
  <2>5. Cardinality(B) = n /\ Cardinality(Above(B, c)) = Cardinality(B)
    BY <1>4, <1>5, <2>3, <2>4
  <2>6. Above(B, c) = B
    BY <2>3, <2>4, <2>5, FS_Subset
  <2> QED BY <2>3, <2>5, <2>6
<1> HIDE DEF B, best
<1>8. BestOf(r)'
  <2>1. FewDead(r)' => FewDead(r)
    BY <1>1, <1>2 DEF FewDead
  <2> QED BY <1>1, <1>2, <1>3, <1>6, <1>7, <2>1 DEF BestOf
<1>9. /\ (work[r].gone \subseteq dead)'
      /\ (\A c \in work[r].found : c \in Chunks \ work[r].gone /\ About(r, c))'
      /\ (ToSet(work[r].evidence) \subseteq work[r].found)'
  BY <1>1, <1>2, <1>3, <1>4, <1>5, <1>6 DEF SoughtOf
<1> QED BY <1>1, <1>2, <1>4, <1>8, <1>9 DEF SoughtOf

LEMMA AnswerStepSought ==
  ASSUME LifeInv, Sought, NEW r \in Requests, AnswerStep(r)
  PROVE  Sought'
<1>1. Works(r) /\ Moves(r, AnswerPcs, AnswerReplies)
  BY AnswerWorks, AnswerMoves DEF Sought
<1>2. dead' = dead /\ DOMAIN home' = Requests /\ call' = call
  <2>1. dead' = dead /\ DOMAIN home' = Requests
    BY DEF AnswerStep, AskBody, EmbedQuery, Search, Rank, ResolveModel, Compose, Judge, Extract,
           Probe, StoreExtraction, Report, Keep, answerVars, Sought, WorkTyped
  <2> QED BY <1>1, <2>1, SMTT(30) DEF Moves
<1>3. WorkTyped' /\ AskTyped' /\ (dead \subseteq Chunks)'
  <2>1. WorkTyped'
    BY <1>1, <1>2 DEF Works, Sought, WorkTyped
  <2> QED BY <1>2, <2>1, AskedStays DEF Sought
<1>4. \A q \in Requests \ {r} : Answering(q)' => SoughtOf(q)'
  <2> SUFFICES ASSUME NEW q \in Requests \ {r}, Answering(q)' PROVE SoughtOf(q)'
    OBVIOUS
  <2>1. Answering(q) /\ SoughtOf(q)
    BY <1>2, AskedStays DEF Sought
  <2>2. work'[q] = work[q] /\ pc'[q] = pc[q] /\ reply'[q] = reply[q]
    BY <1>1 DEF Works, Moves, Sought, WorkTyped, LifeInv, Types
  <2> QED BY <1>2, <2>1, <2>2, SoughtStays DEF Sought
<1>5. ASSUME Answering(r) PROVE SoughtOf(r)'
  <2>1. /\ pc \in [Requests -> Pcs] /\ DOMAIN reply = Requests /\ reply[r] = "none"
        /\ SoughtOf(r) /\ AskTyped /\ DOMAIN work[r] = DOMAIN Blank
    BY <1>1, <1>5 DEF LifeInv, Types, Told, Moves, AnswerPcs, Sought, WorkTyped
  <2>2. pc[r] \in AnswerPcs => ~Asked(r).bad
    BY <2>1 DEF SoughtOf
  <2> DEFINE Keeping == /\ work'[r].todo = work[r].todo /\ work'[r].found = work[r].found
                        /\ work'[r].evidence = work[r].evidence /\ work'[r].gone = work[r].gone
             Goes == \/ pc[r] = "embed" /\ pc'[r] = "search" /\ reply'[r] \notin Retrieved
                     \/ pc'[r] \notin {"embed", "search", "rank", "resolve", "compose", "judge"}
                        /\ reply'[r] \notin Retrieved
                     \/ /\ pc[r] \in {"resolve", "compose", "judge"}
                        /\ pc'[r] \in {"compose", "judge", "close"}
  <2>3. work' = work => Keeping
    OBVIOUS
  <2>4. ASSUME pc[r] \in AnswerPcs, Keeping, Goes PROVE SoughtOf(r)'
    BY <1>2, <1>5, <2>1, <2>2, <2>4, SoughtGoesOn
  <2> HIDE DEF Keeping, Goes
  <2>5. CASE AskBody(r)
    BY <1>5, <2>5, AskBodySought
  <2>6. CASE Search(r)
    BY <1>5, <2>6, SearchSought
  <2>7. CASE Rank(r)
    BY <1>5, <2>7, RankSought
  <2>8. CASE EmbedQuery(r) \/ ResolveModel(r) \/ Judge(r) \/ Extract(r) \/ StoreExtraction(r)
    <3>1. work' = work
      BY <2>8 DEF EmbedQuery, ResolveModel, Judge, Extract, StoreExtraction, answerVars
    <3>2. Goes /\ pc[r] \in AnswerPcs
      <4>1. CASE EmbedQuery(r)
        BY <2>1, <4>1 DEF EmbedQuery, Go, Answer, Goes, Retrieved, AnswerPcs
      <4>2. CASE ResolveModel(r)
        BY <1>5, <2>1, <4>2 DEF ResolveModel, Go, Answer, Goes, Retrieved, AnswerPcs, Answering, Asked
      <4>3. CASE Judge(r)
        BY <2>1, <4>3 DEF Judge, Go, Answer, Goes, AnswerPcs
      <4>4. CASE Extract(r) \/ StoreExtraction(r)
        BY <2>1, <4>4 DEF Extract, StoreExtraction, Go, Answer, Goes, Retrieved, AnswerPcs
      <4> QED BY <2>8, <4>1, <4>2, <4>3, <4>4
    <3> QED BY <2>3, <2>4, <3>1, <3>2
  <2>9. CASE Compose(r)
    <3>1. Goes /\ pc[r] \in AnswerPcs
      BY <2>1, <2>9 DEF Compose, Go, Answer, Goes, AnswerPcs
    <3>2. Keeping
      <4>1. CASE UNCHANGED answerVars
        BY <2>3, <4>1 DEF answerVars
      <4>2. ASSUME NEW out,
                   work' = [work EXCEPT ![r] = [work[r] EXCEPT !.calls = @ + 1, !.out = <<out>>]]
            PROVE  Keeping
        BY <2>1, <4>2 DEF Keeping, Blank, Sought, WorkTyped
      <4> QED BY <2>9, <4>1, <4>2 DEF Compose, Keep
    <3> QED BY <2>4, <3>1, <3>2
  <2>10. CASE Probe(r)
    <3> DEFINE v == [work[r] EXCEPT !.takes = (engine >= 106)]
    <3>1. work' = [work EXCEPT ![r] = v]
      BY <2>10, Zenon DEF Probe, Keep
    <3>2. /\ v.todo = work[r].todo /\ v.found = work[r].found
          /\ v.evidence = work[r].evidence /\ v.gone = work[r].gone
      BY <2>1
    <3> HIDE DEF v
    <3>3. Keeping
      BY <3>1, <3>2 DEF Keeping, Sought, WorkTyped
    <3>4. Goes /\ pc[r] \in AnswerPcs
      BY <2>1, <2>10 DEF Probe, Go, Goes, Retrieved, AnswerPcs
    <3> QED BY <2>4, <3>3, <3>4
  <2>11. CASE Report(r)
    <3>1. PICK report : work' = [work EXCEPT ![r] = [work[r] EXCEPT !.report = report]]
      BY <2>11 DEF Report, Keep
    <3>2. Keeping
      BY <2>1, <3>1 DEF Keeping, Blank, Sought, WorkTyped
    <3>3. Goes /\ pc[r] \in AnswerPcs
      BY <2>1, <2>11 DEF Report, Answer, Goes, Retrieved, AnswerPcs
    <3> QED BY <2>4, <3>2, <3>3
  <2> QED BY <2>5, <2>6, <2>7, <2>8, <2>9, <2>10, <2>11 DEF AnswerStep
<1>6. Answering(r)' => SoughtOf(r)'
  BY <1>2, <1>5, AskedStays
<1> QED BY <1>3, <1>4, <1>6 DEF Sought

\* The steps of others, the deletion of a document among them.
LEMMA OthersSought ==
  ASSUME Sought, UNCHANGED <<call, work>>, DOMAIN home' = Requests,
         dead \subseteq dead', dead' \subseteq Chunks,
         \A q \in Requests : /\ pc'[q] = pc[q] \/ pc'[q] \notin AnswerPcs
                             /\ reply'[q] = reply[q] \/ reply'[q] \notin Retrieved
  PROVE  Sought'
<1>1. ASSUME NEW q \in Requests, Answering(q)' PROVE SoughtOf(q)'
  <2>1. Answering(q) /\ SoughtOf(q)
    BY <1>1, AskedStays DEF Sought
  <2> QED BY <2>1, SoughtStays DEF Sought
<1>2. WorkTyped' /\ AskTyped'
  BY AskedStays DEF Sought, WorkTyped
<1> QED BY <1>1, <1>2 DEF Sought

LEMMA NextSought ==
  ASSUME LifeInv, Sought, [Next]_vars
  PROVE  Sought'
<1>1. ASSUME NEW r \in Requests, Step(r), ~AnswerStep(r) PROVE Sought'
  <2>1. UNCHANGED <<call, home, work, dead>>
    BY <1>1, OtherSteps DEF Step, Crash, answerVars
  <2>2. PICK x \in Pcs \ AnswerPcs : pc' = [pc EXCEPT ![r] = x]
    BY <1>1, OtherSteps
  <2>3. reply' = reply \/ \E a : reply' = [reply EXCEPT ![r] = a] /\ a \notin FromMemory
    BY <1>1, OtherSteps
  <2>4. \A q \in Requests : /\ pc'[q] = pc[q] \/ pc'[q] \notin AnswerPcs
                            /\ reply'[q] = reply[q] \/ reply'[q] \notin Retrieved
    BY <2>2, <2>3 DEF LifeInv, Types, FromMemory
  <2> QED BY <2>1, <2>4, OthersSought DEF Sought, WorkTyped
<1>2. CASE Outside
  <2>1. /\ UNCHANGED <<call, work, home, pc, reply>>
        /\ dead' = dead \/ \E c \in Chunks : dead' = dead \cup {c}
    BY <1>2 DEF Outside, Upgrade, Forget, lifeVars, answerVars
  <2>2. dead \subseteq dead' /\ dead' \subseteq Chunks
    BY <2>1 DEF Sought
  <2> QED BY <2>1, <2>2, OthersSought DEF Sought, WorkTyped
<1>3. CASE UNCHANGED vars
  <2>1. UNCHANGED <<call, work, home, dead, pc, reply>>
    BY <1>3 DEF vars, lifeVars, answerVars
  <2> QED BY <2>1, OthersSought DEF Sought, WorkTyped
<1> QED BY <1>1, <1>2, <1>3, AnswerStepSought DEF Next, Done

LEMMA InitSought == Init => Sought
<1> SUFFICES ASSUME Init PROVE Sought
  OBVIOUS
<1>1. PICK s \in Starts : call = s.calls
  BY DEF Init
<1>2. AskTyped
  BY <1>1, AsksAssumption DEF AskTyped, Asked, IsAnswer
<1>3. dead = {} /\ work = [r \in Requests |-> Blank] /\ DOMAIN home = Requests
  BY DEF Init, AnswersInit
<1>4. ASSUME NEW r \in Requests PROVE SoughtOf(r)
  <2>1. work[r].evidence = <<>> /\ work[r].found = {} /\ work[r].gone = {}
    BY <1>3 DEF Blank
  <2>2. reply[r] = "none" /\ pc[r] \in {"new", "done"}
    BY DEF Init, LifeInit
  <2>3. ToSet(<<>>) = {}
    BY DEF ToSet
  <2> QED BY <2>1, <2>2, <2>3 DEF SoughtOf, AnswerPcs, Retrieved
<1> QED BY <1>2, <1>3, <1>4 DEF Sought, WorkTyped

\* However many subjects and namespaces are searched, and whatever is deleted
\* meanwhile, the evidence is the best that is there.
THEOREM EvidenceIsBest == Spec => []BestOfAll
<1>1. Sought => BestOfAll
  <2> SUFFICES ASSUME Sought, NEW r \in Requests, Answering(r)
               PROVE  LET E == ToSet(work[r].evidence) IN
                 /\ E \cap work[r].gone = {}
                 /\ (reply[r] \in Retrieved /\ FewDead(r)) =>
                      /\ \A c \in E : About(r, c)
                      /\ \A c \in Chunks \ (E \cup dead) : Relevant(r, c) =>
                           Cardinality(E) = Asked(r).max /\ \A e \in E : Memory[e].sim > Memory[c].sim
    BY DEF BestOfAll, Relevant, FewDead, Retrieved
  <2>1. SoughtOf(r)
    BY DEF Sought
  <2> QED BY <2>1 DEF SoughtOf, BestOf
<1> QED BY <1>1, InitSought, NextSought, LifeInvariant, PTL DEF Spec

----------------------------------------------------------------------------
(***************************************************************************)
(* Errors and what they leave in a table.                                  *)
(***************************************************************************)

DidTyped ==
  /\ did = [r \in Requests |-> did[r]]
  /\ \A r \in Requests : DOMAIN did[r] = DOMAIN NoDeed
  /\ DOMAIN pend = Requests /\ DOMAIN returned = Requests

\* A row that the call of r returns of the rows W, in a table t, has no form.
Unwritable(r, W, t) == Ask(r).returning /\ Rendered(Returning(W, t)) # "ok"
\* The handler of r holds the rows that it has written.
ReturnsRows(r, W) == returned[r] = IF Ask(r).returning THEN Returning(W, did[r].found) ELSE {}

\* Rows are committed on the way to the answer "ok", or to a failure if they have
\* no form, and one at most where one was asked for.
Persisted(r) ==
  did[r].wrote # Nothing =>
    /\ pc[r] \in {"render", "close", "done"}
    /\ \/ reply[r] \in {"none", "lost"}
       \/ reply[r] = "ok" /\ ~Unwritable(r, did[r].wrote, did[r].found)
       \/ reply[r] = "internal error" /\ Unwritable(r, did[r].wrote, did[r].found)
KeptOf(r) ==
  /\ Persisted(r)
  /\ pc[r] = "settle" => ReturnsRows(r, pend[r])
  /\ pc[r] = "render" => ReturnsRows(r, did[r].wrote)
  /\ Single(Ask(r)) => Cardinality(DOMAIN did[r].wrote) <= 1
Kept == DidTyped /\ \A r \in Requests : KeptOf(r)

LEMMA NothingIsSmall == Cardinality(DOMAIN Nothing) <= 1
<1>1. DOMAIN Nothing = {}
  BY DEF Nothing
<1> QED BY <1>1, FS_EmptySet

\* No rows can be written.
LEMMA NothingIsWritable == \A t : Rendered(Returning(Nothing, t)) = "ok"
<1>1. DOMAIN Nothing = {}
  BY DEF Nothing
<1>2. \A t : Returning(Nothing, t) = {}
  BY <1>1 DEF Returning
<1> QED BY <1>2 DEF Rendered

LEMMA InitKept == Init => Kept
<1> SUFFICES ASSUME Init PROVE Kept
  OBVIOUS
<1>1. DidTyped /\ \A r \in Requests : did[r].wrote = Nothing
  BY DEF Init, TablesInit, DidTyped, NoDeed
<1>2. \A r \in Requests : pc[r] \in {"new", "done"}
  BY DEF Init, LifeInit
<1> QED BY <1>1, <1>2, NothingIsSmall DEF Kept, KeptOf, Persisted

\* A statement of r changes what it has seen, and not what it has committed.
OnlySees(r) == /\ did' = [q \in Requests |-> IF q = r THEN did'[r] ELSE did[q]]
            /\ DOMAIN did'[r] = DOMAIN NoDeed
            /\ did'[r].wrote = did[r].wrote

LEMMA TableStepKept ==
  ASSUME LifeInv, Kept, NEW r \in Requests, TableStep(r)
  PROVE  Kept'
<1>1. Moves(r, TablePcs, TableReplies)
  BY TableMoves
<1>2. /\ pc \in [Requests -> Pcs] /\ DOMAIN reply = Requests /\ call' = call
      /\ reply[r] = "none" /\ KeptOf(r) /\ DOMAIN did[r] = DOMAIN NoDeed
      /\ did = [q \in Requests |-> did[q]] /\ DOMAIN pend = Requests /\ DOMAIN returned = Requests
  BY <1>1 DEF Moves, LifeInv, Types, Told, Kept, DidTyped, TablePcs
<1>3. ASSUME DidTyped', KeptOf(r)',
             \A q \in Requests \ {r} : /\ did'[q] = did[q] /\ pend'[q] = pend[q]
                                       /\ returned'[q] = returned[q]
      PROVE  Kept'
  <2>1. ASSUME NEW q \in Requests \ {r} PROVE KeptOf(q)'
    <3>1. /\ pc'[q] = pc[q] /\ reply'[q] = reply[q] /\ did'[q] = did[q] /\ pend'[q] = pend[q]
          /\ returned'[q] = returned[q] /\ Ask(q)' = Ask(q)
      BY <1>1, <1>2, <1>3 DEF Moves, Ask
    <3>2. KeptOf(q)
      BY DEF Kept
    <3> QED BY <3>1, <3>2 DEF KeptOf, Persisted, ReturnsRows, Unwritable
  <2> QED BY <1>3, <2>1 DEF Kept
<1>4. Ask(r)' = Ask(r)
  BY <1>2 DEF Ask
<1> USE DEF Go, Answer
\* A step on the way to the statement.
<1>5. ASSUME OnlySees(r), pend' = pend, returned' = returned, pc[r] \notin {"settle", "render"},
             pc'[r] \notin {"settle", "render"}
      PROVE  Kept'
  <2>1. did[r].wrote = Nothing
    BY <1>1, <1>2, <1>5 DEF KeptOf, Persisted, Moves, TablePcs
  <2>2. did'[r].wrote = Nothing /\ \A q \in Requests \ {r} : did'[q] = did[q]
    BY <1>5, <2>1 DEF OnlySees
  <2>3. DidTyped'
    BY <1>5, <2>2 DEF OnlySees, Kept, DidTyped
  <2>4. KeptOf(r)'
    BY <1>5, <2>2, NothingIsSmall DEF KeptOf, Persisted
  <2> QED BY <1>3, <1>5, <2>2, <2>3, <2>4
<1>6. ASSUME UNCHANGED tableVars, pc[r] \notin {"settle", "render"}, pc'[r] \notin {"settle", "render"}
      PROVE  Kept'
  BY <1>2, <1>5, <1>6 DEF OnlySees, tableVars
<1>7. CASE TableBody(r) \/ Check(r)
  <2>1. UNCHANGED tableVars /\ pc[r] \in {"body", "check"} /\ pc'[r] \notin {"settle", "render"}
    BY <1>2, <1>7 DEF TableBody, Check
  <2> QED BY <1>6, <2>1
<1>8. CASE CountRows(r)
  <2>1. PICK n : did' = [did EXCEPT ![r] = [did[r] EXCEPT !.count = n, !.scanned = table]]
    BY <1>8 DEF CountRows
  <2>2. OnlySees(r)
    BY <1>2, <2>1 DEF OnlySees, NoDeed
  <2>3. pend' = pend /\ returned' = returned /\ pc[r] = "count" /\ pc'[r] = "select"
    BY <1>2, <1>8 DEF CountRows
  <2> QED BY <1>5, <2>2, <2>3
<1>9. CASE SelectRows(r)
  <2>1. PICK R : did' = [did EXCEPT ![r] = [did[r] EXCEPT !.read = R, !.found = table]]
    BY <1>9 DEF SelectRows
  <2>2. OnlySees(r)
    BY <1>2, <2>1 DEF OnlySees, NoDeed
  <2>3. pend' = pend /\ returned' = returned /\ pc[r] = "select" /\ pc'[r] = "close"
    BY <1>2, <1>9 DEF SelectRows
  <2> QED BY <1>5, <2>2, <2>3
<1>10. CASE Scan(r)
  <2>1. /\ did' = did /\ pend' = pend /\ returned' = returned /\ pc[r] = "scan" /\ pc'[r] = "write"
        /\ OnlySees(r)
    BY <1>2, <1>10 DEF Scan, OnlySees
  <2> QED BY <1>5, <2>1
<1>11. CASE Write(r)
  <2>0. pc[r] = "write" /\ did[r].wrote = Nothing
    BY <1>2, <1>11 DEF Write, KeptOf, Persisted
  <2>1. CASE pend' = pend /\ returned' = returned /\ did' = did /\ pc'[r] = "close"
    <3>1. OnlySees(r)
      BY <1>2, <2>1 DEF OnlySees
    <3> QED BY <1>5, <2>0, <2>1, <3>1
  <2>2. CASE ~(pend' = pend /\ returned' = returned /\ did' = did /\ pc'[r] = "close")
    <3>1. PICK w : /\ pend' = [pend EXCEPT ![r] = w.rows]
                   /\ returned' = [returned EXCEPT ![r] =
                                     IF Ask(r).returning THEN Returning(w.rows, table) ELSE {}]
                   /\ did' = [did EXCEPT ![r].scanned = scan[r], ![r].found = table]
                   /\ pc' = [pc EXCEPT ![r] = "settle"]
      BY <1>2, <1>11, <2>2 DEF Write
    <3>2. did'[r].wrote = Nothing /\ did'[r].found = table /\ DOMAIN did'[r] = DOMAIN NoDeed
      BY <1>2, <2>0, <3>1 DEF NoDeed
    <3>3. /\ pend'[r] = w.rows /\ pc'[r] = "settle"
          /\ returned'[r] = IF Ask(r).returning THEN Returning(w.rows, table) ELSE {}
      BY <1>2, <3>1
    <3>4. KeptOf(r)'
      BY <1>4, <3>2, <3>3, NothingIsSmall DEF KeptOf, Persisted, ReturnsRows
    <3>5. DidTyped'
      BY <1>2, <3>1, <3>2 DEF Kept, DidTyped
    <3>6. \A q \in Requests \ {r} : did'[q] = did[q] /\ pend'[q] = pend[q] /\ returned'[q] = returned[q]
      BY <1>2, <3>1
    <3> QED BY <1>3, <3>4, <3>5, <3>6
  <2> QED BY <2>1, <2>2
<1>12. CASE Settle(r)
  <2>0. /\ pc[r] = "settle" /\ did[r].wrote = Nothing /\ ReturnsRows(r, pend[r])
        /\ returned' = returned /\ pend' = [pend EXCEPT ![r] = Nothing]
    BY <1>2, <1>12 DEF Settle, KeptOf, Persisted
  <2>1. CASE did' = did /\ pc'[r] = "close"
    <3>1. DidTyped'
      BY <1>2, <2>0, <2>1 DEF Kept, DidTyped
    <3>2. KeptOf(r)'
      BY <2>0, <2>1, NothingIsSmall DEF KeptOf, Persisted
    <3>3. \A q \in Requests \ {r} : did'[q] = did[q] /\ pend'[q] = pend[q] /\ returned'[q] = returned[q]
      BY <1>2, <2>0, <2>1
    <3> QED BY <1>3, <3>1, <3>2, <3>3
  <2>2. CASE ~(did' = did /\ pc'[r] = "close")
    <3>1. /\ did' = [did EXCEPT ![r] = [did[r] EXCEPT !.wrote = pend[r]]]
          /\ pc' = [pc EXCEPT ![r] = "render"] /\ reply' = reply
          /\ Single(Ask(r)) => Cardinality(DOMAIN pend[r]) = 1
      BY <1>2, <1>12, <2>2 DEF Settle
    <3>2. did'[r].wrote = pend[r] /\ did'[r].found = did[r].found /\ DidTyped'
      BY <1>2, <2>0, <3>1 DEF NoDeed, Kept, DidTyped
    <3>3. ReturnsRows(r, did[r].wrote)'
      BY <1>4, <2>0, <3>2 DEF ReturnsRows
    <3>4. KeptOf(r)'
      BY <1>2, <1>4, <3>1, <3>2, <3>3 DEF KeptOf, Persisted
    <3>5. \A q \in Requests \ {r} : did'[q] = did[q] /\ pend'[q] = pend[q] /\ returned'[q] = returned[q]
      BY <1>2, <2>0, <3>1
    <3> QED BY <1>3, <3>2, <3>4, <3>5
  <2> QED BY <2>1, <2>2
<1>13. CASE Render(r)
  <2>1. /\ pc[r] = "render" /\ ReturnsRows(r, did[r].wrote) /\ UNCHANGED tableVars
        /\ pc'[r] = "close" /\ reply'[r] = Rendered(returned[r])
    BY <1>2, <1>13 DEF Render, KeptOf
  <2>2. Rendered({}) = "ok"
    BY DEF Rendered
  <2>3. Rendered(returned[r]) \in {"ok", "internal error"}
    BY DEF Rendered
  <2>4. Rendered(returned[r]) = "ok" <=> ~Unwritable(r, did[r].wrote, did[r].found)
    BY <2>1, <2>2 DEF ReturnsRows, Unwritable
  <2>5. Unwritable(r, did[r].wrote, did[r].found)' <=> Unwritable(r, did[r].wrote, did[r].found)
    BY <1>4, <2>1 DEF Unwritable, tableVars
  <2>6. KeptOf(r)'
    BY <1>2, <1>4, <2>1, <2>3, <2>4, <2>5 DEF KeptOf, Persisted, tableVars
  <2> QED BY <1>3, <2>1, <2>6 DEF tableVars, Kept, DidTyped
<1> QED BY <1>7, <1>8, <1>9, <1>10, <1>11, <1>12, <1>13 DEF TableStep

\* Steps that are of no handler of tables change no such thing.
LEMMA OtherStepKept ==
  ASSUME LifeInv, Kept, NEW r \in Requests, Step(r), ~TableStep(r)
  PROVE  Kept'
<1>1. call' = call /\ did' = did /\ returned' = returned
  BY AnswerMoves, GraphMoves, RecordMoves
     DEF Step, Moves, tableVars, Authenticate, Bind, Close, Go, Answer, Crash, Die
<1>2. pc \in [Requests -> Pcs] /\ DOMAIN reply = Requests /\ DOMAIN pend = Requests
  BY DEF LifeInv, Types, Kept, DidTyped
<1>3. DOMAIN pend' = Requests /\ \A q \in Requests \ {r} : pend'[q] = pend[q]
  BY <1>2 DEF Step, tableVars, Crash
<1> DEFINE Busy == did[r].wrote # Nothing
<1>4. (\A q \in Requests \ {r} : pc'[q] = pc[q] /\ reply'[q] = reply[q]) /\ pc'[r] \notin {"settle", "render"}
  <2>1. CASE AnswerStep(r) \/ GraphStep(r) \/ RecordStep(r)
    BY <1>2, <2>1, AnswerMoves, GraphMoves, RecordMoves DEF Moves, AnswerPcs, GraphPcs, RecordPcs
  <2>2. CASE Authenticate(r)
    BY <1>2, <2>2 DEF Authenticate, Answer
  <2>3. CASE Bind(r)
    BY <1>2, <2>3 DEF Bind, Answer, Go
  <2>4. CASE Close(r) \/ Crash(r)
    BY <1>2, <2>4 DEF Close, Crash, Die
  <2> QED BY <2>1, <2>2, <2>3, <2>4 DEF Step
<1>5. Busy => pc[r] \in {"render", "close", "done"}
  BY DEF Kept, KeptOf, Persisted
<1>6. Busy => pc'[r] = "done" /\ reply'[r] \in {reply[r], "lost"}
  <2>1. Busy => Close(r) \/ Crash(r)
    BY <1>5, AnswerMoves, GraphMoves, RecordMoves
       DEF Step, Moves, Authenticate, Bind, AnswerPcs, GraphPcs, RecordPcs
  <2> QED BY <1>2, <2>1 DEF Close, Crash, Die
<1>7. KeptOf(r)'
  <2>1. Ask(r)' = Ask(r) /\ KeptOf(r)
    BY <1>1 DEF Ask, Kept
  <2> QED BY <1>1, <1>4, <1>6, <2>1 DEF KeptOf, Persisted, Unwritable
<1>8. ASSUME NEW q \in Requests \ {r} PROVE KeptOf(q)'
  <2>1. Ask(q)' = Ask(q) /\ KeptOf(q)
    BY <1>1 DEF Ask, Kept
  <2> QED BY <1>1, <1>3, <1>4, <2>1 DEF KeptOf, Persisted, Unwritable, ReturnsRows
<1> QED BY <1>1, <1>3, <1>7, <1>8 DEF Kept, DidTyped

LEMMA NextKept ==
  ASSUME LifeInv, Kept, [Next]_vars
  PROVE  Kept'
<1>1. CASE UNCHANGED <<call, pc, reply, did, pend, returned>>
  BY <1>1 DEF Kept, DidTyped, KeptOf, Persisted, Unwritable, ReturnsRows, Ask
<1>2. CASE Outside
  BY <1>1, <1>2 DEF Outside, Upgrade, lifeVars, tableVars
<1> QED BY <1>1, <1>2, TableStepKept, OtherStepKept DEF Next, Done, vars, lifeVars, tableVars

\* A call that is refused has committed nothing; one that fails has committed
\* all, and a row that it returns has no form; one that succeeds can be written.
THEOREM RefusalsPersistNothing == Spec => []RefusedNeverPersists
<1>1. Kept => RefusedNeverPersists
  <2> SUFFICES ASSUME Kept, NEW r \in Requests
               PROVE  /\ reply[r] \notin {"none", "ok", "lost"} =>
                           \/ did[r].wrote = Nothing
                           \/ reply[r] = "internal error" /\ Ask(r).returning /\ Rendered(Wrote(r)) # "ok"
                      /\ reply[r] = "ok" /\ Ask(r).returning => Rendered(Wrote(r)) = "ok"
                      /\ Single(Ask(r)) => Cardinality(DOMAIN did[r].wrote) <= 1
    BY DEF RefusedNeverPersists
  <2>1. KeptOf(r)
    BY DEF Kept
  <2>2. did[r].wrote = Nothing => Rendered(Wrote(r)) = "ok"
    BY NothingIsWritable DEF Wrote
  <2> QED BY <2>1, <2>2 DEF KeptOf, Persisted, Unwritable, Wrote
<1> QED BY <1>1, InitKept, NextKept, LifeInvariant, PTL DEF Spec

----------------------------------------------------------------------------
(***************************************************************************)
(* Records, as a part of Requests: what a call that is refused has         *)
(* committed.                                                              *)
(*                                                                         *)
(* A handler commits on its way to a few steps only (Marked), and what it  *)
(* may answer from there is known.  Traces lists the ways a step of a      *)
(* handler can go, Trace says what they leave.                             *)
(***************************************************************************)

Marked == {"reload", "scope", "show", "close", "done"}

\* The history is a sequence.
HistoryTyped ==
  /\ past = [done |-> past.done, stores |-> past.stores]
  /\ \E S : past.done \in Seq(S)

\* What r has told when it has committed e.
Tolerated(r, e) ==
  \/ Succeeded(r) \/ reply[r] \in {"none", "lost", "null"}
  \/ reply[r] = "internal error" /\ Order(r).op \in {"close", "reopen", "archive"}
  \/ reply[r] = "refused" /\ Order(r).op = "start" /\ e.what = "start"
  \/ reply[r] = "not found" /\ Order(r).op \in {"start", "finalize"}

\* Where r is when it has committed e.
Trace(r, e) ==
  /\ pc[r] \in Marked
  /\ pc[r] = "scope" => e.what = "start"
  /\ pc[r] = "show" => Order(r).op \in {"start", "finalize"}
  /\ Tolerated(r, e)

\* A few steps are of some handlers only.
RowChanges == {"patch", "close", "reopen", "archive"}
Ordered(r) ==
  /\ pc[r] \in {"update", "reload"} => Order(r).op \in RowChanges
  /\ pc[r] = "finalize" => Order(r).op = "finalize"
  /\ pc[r] = "scope" => Order(r).op = "start"

Traced ==
  /\ HistoryTyped
  /\ \A r \in Requests :
       /\ Ordered(r)
       /\ \A i \in DOMAIN past.done : past.done[i].by = r => Trace(r, past.done[i])

\* What a step of a handler of records does to the history.
Traces(r) ==
  \/ /\ UNCHANGED past /\ pc[r] \notin Marked
     /\ pc'[r] = "finalize" => Order(r).op = "finalize"
     /\ pc'[r] # "scope"
     /\ pc'[r] = "update" => Order(r).op \in RowChanges
     /\ pc'[r] = "reload" => pc[r] = "update"
  \/ \E what, id, a : /\ Enter(r, what, id) /\ pc[r] \notin Marked
                      /\ a \in {"ok", Success(Order(r))} /\ Answer(r, a)
  \/ \E what, id : Enter(r, what, id) /\ pc[r] = "update" /\ Go(r, "reload")
  \/ \E id : /\ Enter(r, "start", id) /\ pc[r] \notin Marked /\ Order(r).op = "start"
             /\ Go(r, "scope") \/ Go(r, "show")
  \/ \E id : /\ Enter(r, "finalize", id) /\ pc[r] = "finalize" /\ Go(r, "show")
  \/ /\ UNCHANGED past /\ pc[r] = "reload"
     /\ \E a \in {Success(Order(r)), "null", "internal error"} :
          (a = "internal error" => a = Success(Order(r)) \/ Order(r).op # "patch") /\ Answer(r, a)
  \/ /\ pc[r] = "scope" /\ Go(r, "show")
     /\ UNCHANGED past \/ \E id : Enter(r, "scope", id)
  \/ UNCHANGED past /\ pc[r] = "scope" /\ Answer(r, "refused")
  \/ UNCHANGED past /\ pc[r] = "show" /\ \E a \in {"ok", "not found"} : Answer(r, a)

LEMMA RecordTraces ==
  ASSUME NEW r \in Requests, RecordStep(r), pc \in [Requests -> Pcs]
  PROVE  Traces(r)
<1> DEFINE Quiet == UNCHANGED past /\ pc[r] \notin Marked /\ \E a : Answer(r, a)
           Waiting == /\ UNCHANGED past /\ pc[r] \notin Marked
                      /\ \/ Go(r, "update") /\ Order(r).op \in RowChanges
                         \/ Go(r, "reload") /\ pc[r] = "update"
                         \/ \E x : x \notin {"finalize", "scope", "update", "reload"} /\ Go(r, x)
           Commits == \E what, id, a : /\ Enter(r, what, id) /\ pc[r] \notin Marked
                                       /\ a \in {"ok", Success(Order(r))} /\ Answer(r, a)
<1>1. ASSUME Quiet \/ Waiting PROVE Traces(r)
  <2>1. CASE Quiet
    <3>1. UNCHANGED past /\ pc[r] \notin Marked /\ pc'[r] = "close"
      BY <2>1 DEF Answer
    <3> QED BY <3>1 DEF Traces
  <2>2. CASE Waiting
    BY <2>2 DEF Traces, Go
  <2> QED BY <1>1, <2>1, <2>2
<1>2. ASSUME Commits PROVE Traces(r)
  BY <1>2 DEF Traces
<1>3. ASSUME NEW a, Refuses(r, a) PROVE UNCHANGED past /\ Answer(r, a)
  BY <1>3 DEF Refuses, Ends
<1>4. ASSUME NEW a, Ends(r, a) PROVE Answer(r, a)
  BY <1>4 DEF Ends
<1>5. ASSUME NEW op, NEW route, AtBody(r, op, route)
      PROVE  pc[r] \notin Marked /\ Order(r).op = op
  BY <1>5 DEF AtBody, Marked
<1>6. CASE RowStep(r)
  <2>1. ASSUME NEW route, CreateRow(r, route) PROVE Traces(r)
    <3>1. Quiet \/ Commits
      BY <1>3, <1>4, <1>5, <2>1 DEF CreateRow
    <3> QED BY <1>1, <1>2, <3>1
  <2>2. ASSUME NEW op \in RowChanges, NEW route, NEW fits, Looks(r, op, route, fits)
        PROVE  Traces(r)
    <3>1. Quiet \/ Waiting
      BY <1>3, <1>5, <2>2 DEF Looks
    <3> QED BY <1>1, <3>1
  <2>3. CASE UpdateRow(r)
    <3>1. pc[r] \notin Marked
      BY <2>3 DEF UpdateRow, Marked
    <3>2. Quiet \/ Waiting \/ \E what, id : Enter(r, what, id) /\ Go(r, "reload")
      BY <1>3, <2>3, <3>1 DEF UpdateRow, recordVars
    <3>3. ASSUME \E what, id : Enter(r, what, id) /\ Go(r, "reload") PROVE Traces(r)
      BY <2>3, <3>3 DEF Traces, UpdateRow
    <3> QED BY <1>1, <3>2, <3>3
  <2>4. CASE ReloadRow(r)
    <3>1. /\ UNCHANGED past
          /\ \E a \in {Success(Order(r)), "null", "internal error"} :
               (a = "internal error" => a = Success(Order(r)) \/ Order(r).op # "patch") /\ Answer(r, a)
      BY <1>3, <2>4 DEF ReloadRow
    <3> QED BY <2>4, <3>1 DEF Traces, ReloadRow
  <2>5. CASE PatchEpisode(r)
    <3>1. Quiet \/ Commits
      BY <1>3, <1>4, <1>5, <2>5 DEF PatchEpisode
    <3> QED BY <1>1, <1>2, <3>1
  <2>6. ASSUME NEW route, DeleteRow(r, route) PROVE Traces(r)
    <3>1. Quiet \/ Commits
      BY <1>3, <1>4, <1>5, <2>6 DEF DeleteRow
    <3> QED BY <1>1, <1>2, <3>1
  <2> HIDE DEF Quiet, Waiting, Commits
  <2> QED BY <1>6, <2>1, <2>2, <2>3, <2>4, <2>5, <2>6
          DEF RowStep, CreateNote, CreatePool, CreateDocumentType, CreateEpisodeType, CreateEpisode,
              PatchNote, PatchPool, PatchDocumentType, PatchEpisodeType, CloseIssue, ReopenIssue,
              ArchivePool, DeleteNote, DeleteDocumentType, DeleteEpisodeType, DeleteEpisode, RowChanges
<1>7. CASE FactStep(r)
  <2>1. ASSUME NEW route, Batch(r, route) PROVE Traces(r)
    <3>1. Quiet \/ Waiting
      BY <1>3, <1>5, <2>1 DEF Batch
    <3> QED BY <1>1, <3>1
  <2>2. CASE PutFact(r)
    <3>1. Quiet \/ Waiting
      BY <1>3, <2>2 DEF PutFact, Marked
    <3> QED BY <1>1, <3>1
  <2>3. CASE CommitFacts(r)
    BY <1>2, <1>4, <2>3 DEF CommitFacts, Marked
  <2>4. ASSUME NEW op, NEW route, LooksForFact(r, op, route) PROVE Traces(r)
    <3>1. Quiet \/ Waiting
      BY <1>3, <1>5, <2>4 DEF LooksForFact
    <3> QED BY <1>1, <3>1
  <2>5. CASE AmendFact(r)
    <3>1. Quiet \/ Commits
      BY <1>3, <1>4, <2>5 DEF AmendFact, Marked
    <3> QED BY <1>1, <1>2, <3>1
  <2> HIDE DEF Quiet, Waiting, Commits
  <2> QED BY <1>7, <2>1, <2>2, <2>3, <2>4, <2>5
          DEF FactStep, CreateAttributes, CreateStatements, CreateEpisodeStatement, CreateObject,
              PatchAttribute, PatchStatement, DeleteAttribute, DeleteStatement
<1>8. CASE ChatStep(r)
  <2>1. CASE StartChat(r)
    <3>1. CASE Refuses(r, "refused")
      BY <1>1, <1>3, <1>5, <2>1, <3>1 DEF StartChat
    <3>2. CASE /\ Enter(r, "start", Len(store.chats) + 1)
               /\ Go(r, IF Order(r).scope = "none" THEN "show" ELSE "scope")
      <4>1. Go(r, "scope") \/ Go(r, "show")
        BY <3>2
      <4> QED BY <1>5, <2>1, <3>2, <4>1 DEF StartChat, Traces
    <3> QED BY <2>1, <3>1, <3>2 DEF StartChat
  <2>2. CASE ScopeChat(r)
    <3> HIDE DEF Quiet, Waiting, Commits
    <3>1. CASE Scopes(r, own[r].chat, Order(r).scope) /\ Go(r, "show")
      BY <2>2, <3>1 DEF ScopeChat, Scopes, Traces
    <3>2. CASE Go(r, "show") /\ UNCHANGED recordVars
      BY <2>2, <3>2 DEF ScopeChat, recordVars, Traces
    <3>3. CASE Refuses(r, "refused")
      BY <1>3, <2>2, <3>3 DEF ScopeChat, Traces
    <3> QED BY <2>2, <3>1, <3>2, <3>3 DEF ScopeChat
  <2>3. CASE ShowChat(r)
    <3>1. UNCHANGED past /\ \E a \in {"ok", "not found"} : Answer(r, a)
      BY <1>3, <2>3 DEF ShowChat
    <3> QED BY <2>3, <3>1 DEF Traces, ShowChat
  <2>4. CASE AppendMessages(r)
    <3>1. Quiet \/ Waiting
      BY <1>3, <1>5, <2>4 DEF AppendMessages, LooksForChat
    <3> QED BY <1>1, <3>1
  <2>5. CASE FinalizeChat(r)
    <3>1. Quiet \/ /\ UNCHANGED past /\ pc[r] \notin Marked /\ Order(r).op = "finalize"
                   /\ Go(r, "finalize")
      BY <1>3, <1>5, <2>5 DEF FinalizeChat, LooksForChat
    <3> QED BY <1>1, <3>1 DEF Traces, Go
  <2>6. CASE PutMessage(r)
    <3>1. Quiet \/ Waiting
      BY <1>3, <2>6, SMTT(30) DEF PutMessage, Marked
    <3> QED BY <1>1, <3>1
  <2>7. CASE CommitMessages(r)
    BY <1>2, <1>4, <2>7 DEF CommitMessages, Marked
  <2>8. CASE CloseChat(r)
    <3>1. Quiet \/ \E id : Enter(r, "finalize", id) /\ Go(r, "show")
      BY <1>3, <2>8 DEF CloseChat, Marked
    <3> QED BY <1>1, <2>8, <3>1 DEF CloseChat, Traces
  <2>9. CASE MoveChat(r)
    <3>1. Quiet \/ Commits
      BY <1>3, <1>4, <1>5, <2>9 DEF MoveChat, Scopes
    <3> QED BY <1>1, <1>2, <3>1
  <2> QED BY <1>8, <2>1, <2>2, <2>3, <2>4, <2>5, <2>6, <2>7, <2>8, <2>9 DEF ChatStep
<1> QED BY <1>6, <1>7, <1>8 DEF RecordStep

----------------------------------------------------------------------------
Entry(r, what, id) == [by |-> r, what |-> what, id |-> id]

\* A step that is entered is the last of the history, and the others stay.
LEMMA EnteredLast ==
  ASSUME HistoryTyped, NEW r, NEW what, NEW id, Enter(r, what, id)
  PROVE  /\ HistoryTyped'
         /\ \A i \in DOMAIN past'.done :
              \/ past'.done[i] = Entry(r, what, id)
              \/ i \in DOMAIN past.done /\ past'.done[i] = past.done[i]
<1> DEFINE e == Entry(r, what, id)
<1>1. PICK S : past.done \in Seq(S)
  BY DEF HistoryTyped
<1> DEFINE T == S \cup {e}
<1>2. past.done \in Seq(T)
  BY <1>1
<1>3. past' = [done |-> Append(past.done, e), stores |-> Append(past.stores, store')]
  BY DEF Enter, HistoryTyped, Entry
<1>4. e \in T
  OBVIOUS
<1> HIDE DEF e, T
<1>5. /\ Append(past.done, e) \in Seq(T)
      /\ \A i \in DOMAIN Append(past.done, e) :
           \/ Append(past.done, e)[i] = e
           \/ i \in DOMAIN past.done /\ Append(past.done, e)[i] = past.done[i]
  BY <1>2, <1>4
<1> QED BY <1>3, <1>5 DEF HistoryTyped, e

LEMMA InitTraced == Init => Traced
<1> SUFFICES ASSUME Init PROVE Traced
  OBVIOUS
<1>1. past.done = <<>> /\ past = [done |-> past.done, stores |-> past.stores]
  BY DEF Init
<1>2. <<>> \in Seq({})
  OBVIOUS
<1>3. \A r \in Requests : pc[r] \in {"new", "done"}
  BY DEF Init, LifeInit
<1> QED BY <1>1, <1>2, <1>3 DEF Traced, HistoryTyped, Ordered

LEMMA RecordStepTraced ==
  ASSUME LifeInv, Traced, NEW r \in Requests, RecordStep(r)
  PROVE  Traced'
<1> USE DEF Order
<1>1. pc \in [Requests -> Pcs] /\ DOMAIN reply = Requests
  BY DEF LifeInv, Types
<1>2. Traces(r)
  BY <1>1, RecordTraces
<1>3. call' = call /\ \A q \in Requests \ {r} : pc'[q] = pc[q] /\ reply'[q] = reply[q]
  BY <1>1, RecordMoves DEF Moves
<1>4. pc[r] \in RecordPcs \cup {"body"} /\ reply[r] = "none"
  BY RecordMoves DEF Moves, LifeInv, Told, RecordPcs
<1>5. \A i \in DOMAIN past.done : past.done[i].by = r => Trace(r, past.done[i])
  BY DEF Traced
<1>6. \A q \in Requests : Ordered(q)'
  <2>1. Ordered(r)'
    <3>1. Ordered(r)
      BY DEF Traced
    <3> QED BY <1>1, <1>2, <1>3, <3>1 DEF Traces, Ordered, Go, Answer
  <2>2. \A q \in Requests \ {r} : Ordered(q) => Ordered(q)'
    BY <1>3 DEF Ordered
  <2> QED BY <2>1, <2>2 DEF Traced
<1>7. Ordered(r) /\ HistoryTyped
  BY DEF Traced
<1>8. \A e : Trace(r, e) => Trace(r, e)'
  BY <1>1, <1>2, <1>3, <1>4, <1>7
     DEF Traces, Ordered, RowChanges, Trace, Tolerated, Succeeded, Success, Marked, Go, Answer
<1>9. \A q \in Requests \ {r} : \A e : Trace(q, e) => Trace(q, e)'
  BY <1>3 DEF Trace, Tolerated, Succeeded
<1>10. CASE UNCHANGED past
  BY <1>3, <1>6, <1>8, <1>9, <1>10 DEF Traced, HistoryTyped
<1>11. ASSUME NEW what, NEW id, Enter(r, what, id), Trace(r, Entry(r, what, id))'
       PROVE  Traced'
  <2>1. HistoryTyped' /\ \A i \in DOMAIN past'.done :
           \/ past'.done[i] = Entry(r, what, id)
           \/ i \in DOMAIN past.done /\ past'.done[i] = past.done[i]
    BY <1>7, <1>11, EnteredLast
  <2>2. Entry(r, what, id).by = r /\ Trace(r, Entry(r, what, id))'
    BY <1>11 DEF Entry
  <2> QED BY <1>3, <1>6, <1>8, <1>9, <2>1, <2>2 DEF Traced
<1>12. ASSUME NEW what, NEW id, Enter(r, what, id),
              \/ \E a \in {"ok", Success(Order(r))} : Answer(r, a)
              \/ Go(r, "reload")
              \/ what = "start" /\ Order(r).op = "start" /\ (Go(r, "scope") \/ Go(r, "show"))
              \/ Order(r).op \in {"start", "finalize"} /\ Go(r, "show")
       PROVE  Traced'
  <2>1. Trace(r, Entry(r, what, id))'
    BY <1>1, <1>3, <1>4, <1>12 DEF Entry, Trace, Tolerated, Succeeded, Success, Marked, Go, Answer
  <2> QED BY <1>11, <1>12, <2>1
<1> QED BY <1>2, <1>7, <1>10, <1>12 DEF Traces, Ordered

\* Steps of other handlers, and those before and after one, enter nothing.
LEMMA OtherStepTraced ==
  ASSUME LifeInv, Traced, NEW r \in Requests, Step(r), ~RecordStep(r)
  PROVE  Traced'
<1>1. pc \in [Requests -> Pcs] /\ DOMAIN reply = Requests
  BY DEF LifeInv, Types
<1>2. call' = call /\ past' = past
  BY TableMoves, AnswerMoves, GraphMoves
     DEF Step, Moves, recordVars, Authenticate, Bind, Close, Go, Answer, Crash, Die
<1>3. \A q \in Requests \ {r} : pc'[q] = pc[q] /\ reply'[q] = reply[q]
  <2>1. CASE TableStep(r) \/ AnswerStep(r) \/ GraphStep(r)
    BY <1>1, <2>1, TableMoves, AnswerMoves, GraphMoves DEF Moves
  <2>2. CASE Authenticate(r)
    BY <1>1, <2>2 DEF Authenticate, Answer
  <2>3. CASE Bind(r)
    BY <1>1, <2>3 DEF Bind, Answer, Go
  <2>4. CASE Close(r) \/ Crash(r)
    BY <1>1, <2>4 DEF Close, Crash, Die
  <2> QED BY <2>1, <2>2, <2>3, <2>4 DEF Step
<1>4. CASE Close(r) \/ Crash(r)
  <2>1. pc'[r] = "done" /\ (reply'[r] = reply[r] \/ reply'[r] = "lost")
    BY <1>1, <1>4 DEF Close, Crash, Die
  <2>2. \A e : Trace(r, e) => Trace(r, e)'
    BY <1>2, <2>1 DEF Trace, Tolerated, Succeeded, Marked, Order
  <2>3. \A q \in Requests \ {r} : \A e : Trace(q, e) => Trace(q, e)'
    BY <1>2, <1>3 DEF Trace, Tolerated, Succeeded, Order
  <2>4. \A q \in Requests : Ordered(q) => Ordered(q)'
    BY <1>2, <1>3, <2>1 DEF Ordered, Order
  <2> QED BY <1>2, <2>2, <2>3, <2>4 DEF Traced, HistoryTyped
<1>5. CASE ~(Close(r) \/ Crash(r))
  <2>1. pc[r] \notin Marked /\ pc'[r] \notin {"finalize", "scope", "update", "reload"}
    <3>1. CASE TableStep(r) \/ AnswerStep(r) \/ GraphStep(r)
      BY <1>1, <3>1, TableMoves, AnswerMoves, GraphMoves
         DEF Moves, Marked, TablePcs, AnswerPcs, GraphPcs
    <3>2. CASE Authenticate(r)
      BY <1>1, <3>2 DEF Authenticate, Answer, Marked
    <3>3. CASE Bind(r)
      BY <1>1, <3>3 DEF Bind, Answer, Go, Marked
    <3> QED BY <1>5, <3>1, <3>2, <3>3 DEF Step
  <2>2. \A i \in DOMAIN past.done : past.done[i].by # r
    BY <2>1 DEF Traced, Trace
  <2> QED BY <1>2, <1>3, <2>1, <2>2, ZenonT(40)
       DEF Traced, HistoryTyped, Ordered, Trace, Tolerated, Succeeded, Order
<1> QED BY <1>4, <1>5

LEMMA NextTraced ==
  ASSUME LifeInv, Traced, [Next]_vars
  PROVE  Traced'
<1>1. CASE UNCHANGED <<call, pc, reply, past>>
  BY <1>1 DEF Traced, HistoryTyped, Ordered, Trace, Tolerated, Succeeded, Order
<1>2. CASE Outside
  BY <1>1, <1>2 DEF Outside, Upgrade, lifeVars, recordVars
<1> QED BY <1>1, <1>2, RecordStepTraced, OtherStepTraced
        DEF Next, Done, vars, lifeVars, recordVars

\* A call on rows, facts or chats that is refused has committed nothing, but for
\* what RefusalsCommitNothing names; a part of RecordsAreTheirHistory.
THEOREM RefusedChangesNothing == Spec => []RefusalsCommitNothing
<1>1. Traced => RefusalsCommitNothing
  BY DEF Traced, Trace, Tolerated, RefusalsCommitNothing
<1> QED BY <1>1, InitTraced, NextTraced, LifeInvariant, PTL DEF Spec

----------------------------------------------------------------------------
(***************************************************************************)
(* Records: sequences, and what a batch writes.                            *)
(***************************************************************************)

LEMMA ListedFacts ==
  ASSUME NEW s, IsList(s)
  PROVE  Len(s) \in Nat /\ DOMAIN s = 1..Len(s) /\ (s = <<>> <=> Len(s) = 0)
BY DEF IsList

LEMMA ListedOf ==
  ASSUME NEW S, NEW s \in Seq(S)
  PROVE  IsList(s)
BY SeqOfItself DEF IsList

LEMMA ListedEqual ==
  ASSUME NEW s, NEW t, IsList(s), IsList(t), Len(s) = Len(t), \A i \in 1..Len(s) : s[i] = t[i]
  PROVE  s = t
BY DEF IsList

LEMMA ListedAppend ==
  ASSUME NEW s, NEW e, IsList(s)
  PROVE  /\ IsList(Append(s, e)) /\ Len(Append(s, e)) = Len(s) + 1
         /\ DOMAIN Append(s, e) = 1..(Len(s) + 1) /\ Append(s, e)[Len(s) + 1] = e
         /\ \A i \in 1..Len(s) : Append(s, e)[i] = s[i]
<1> DEFINE T == ToSet(s) \cup {e}
<1>1. s \in Seq(T) /\ e \in T
  BY DEF IsList
<1> HIDE DEF T
<1>2. Append(s, e) \in Seq(T)
  BY <1>1
<1>3. IsList(Append(s, e))
  BY <1>2, ListedOf
<1> QED BY <1>1, <1>3

LEMMA ListedConcat ==
  ASSUME NEW s, NEW t, IsList(s), IsList(t)
  PROVE  /\ IsList(s \o t) /\ Len(s \o t) = Len(s) + Len(t)
         /\ DOMAIN (s \o t) = 1..(Len(s) + Len(t))
         /\ \A i \in 1..Len(s) : (s \o t)[i] = s[i]
         /\ \A i \in 1..Len(t) : (s \o t)[Len(s) + i] = t[i]
<1> DEFINE T == ToSet(s) \cup ToSet(t)
<1>1. s \in Seq(T) /\ t \in Seq(T)
  BY DEF IsList
<1> HIDE DEF T
<1>2. s \o t \in Seq(T)
  BY <1>1
<1>3. Len(s \o t) = Len(s) + Len(t) /\ Len(s) \in Nat /\ Len(t) \in Nat
      /\ \A i \in 1..Len(s) + Len(t) : (s \o t)[i] = IF i <= Len(s) THEN s[i] ELSE t[i - Len(s)]
  BY <1>1
<1>4. \A i \in 1..Len(t) : Len(s) + i \in 1..Len(s) + Len(t) /\ ~(Len(s) + i <= Len(s))
                            /\ (Len(s) + i) - Len(s) = i
  BY <1>3
<1>5. \A i \in 1..Len(s) : i \in 1..Len(s) + Len(t) /\ i <= Len(s)
  BY <1>3
<1> QED BY <1>2, <1>3, <1>4, <1>5, ListedOf, ListedFacts

LEMMA ListedExcept ==
  ASSUME NEW s, NEW i \in DOMAIN s, NEW e, IsList(s)
  PROVE  /\ IsList([s EXCEPT ![i] = e]) /\ Len([s EXCEPT ![i] = e]) = Len(s)
         /\ DOMAIN [s EXCEPT ![i] = e] = DOMAIN s
         /\ [s EXCEPT ![i] = e][i] = e
         /\ \A j \in DOMAIN s \ {i} : [s EXCEPT ![i] = e][j] = s[j]
<1> DEFINE T == ToSet(s) \cup {e}
<1>1. s \in Seq(T) /\ e \in T
  BY DEF IsList
<1> HIDE DEF T
<1>2. [s EXCEPT ![i] = e] \in Seq(T) /\ Len([s EXCEPT ![i] = e]) = Len(s)
  BY <1>1
<1> QED BY <1>1, <1>2, ListedOf

LEMMA ListedTail ==
  ASSUME NEW s, IsList(s), s # <<>>
  PROVE  /\ IsList(Tail(s)) /\ Len(Tail(s)) = Len(s) - 1 /\ Head(s) = s[1] /\ 1 \in DOMAIN s
         /\ \A i \in 1..(Len(s) - 1) : Tail(s)[i] = s[i + 1]
<1> DEFINE T == ToSet(s)
<1>1. s \in Seq(T)
  BY DEF IsList
<1> HIDE DEF T
<1>2. Tail(s) \in Seq(T) /\ Len(Tail(s)) = Len(s) - 1 /\ Len(s) # 0
  BY <1>1
<1>3. IsList(Tail(s))
  BY <1>2, ListedOf
<1>4. Len(s) \in Nat /\ Head(s) = s[1] /\ DOMAIN s = 1..Len(s)
  BY <1>1
<1>5. \A i \in 1..(Len(s) - 1) : Tail(s)[i] = s[i + 1]
  BY <1>1, <1>2
<1> QED BY <1>2, <1>3, <1>4, <1>5

\* What is taken from the front of one list and put to the end of another.
LEMMA MovedOver ==
  ASSUME NEW s, NEW t, IsList(s), IsList(t), t # <<>>
  PROVE  Append(s, Head(t)) \o Tail(t) = s \o t
<1> DEFINE u == Append(s, Head(t)) \o Tail(t)
           v == s \o t
<1>1. /\ IsList(Append(s, Head(t))) /\ IsList(Tail(t)) /\ Len(Append(s, Head(t))) = Len(s) + 1
      /\ Len(Tail(t)) = Len(t) - 1 /\ Len(s) \in Nat /\ Len(t) \in Nat /\ Len(t) # 0
  BY ListedAppend, ListedTail, ListedFacts
<1>2. IsList(u) /\ IsList(v) /\ Len(u) = Len(v) /\ Len(v) = Len(s) + Len(t)
  BY <1>1, ListedConcat
<1>3. ASSUME NEW i \in 1..Len(v) PROVE u[i] = v[i]
  <2>1. CASE i <= Len(s)
    <3>1. i \in 1..Len(s) /\ i \in 1..Len(Append(s, Head(t)))
      BY <1>1, <2>1
    <3>2. u[i] = Append(s, Head(t))[i] /\ v[i] = s[i]
      BY <1>1, <3>1, ListedConcat
    <3> QED BY <3>1, <3>2, ListedAppend
  <2>2. CASE i = Len(s) + 1
    <3>1. i \in 1..Len(Append(s, Head(t))) /\ 1 \in 1..Len(t)
      BY <1>1, <2>2
    <3>2. u[i] = Append(s, Head(t))[i] /\ v[i] = t[1]
      BY <1>1, <2>2, <3>1, ListedConcat
    <3> QED BY <2>2, <3>2, ListedAppend, ListedTail
  <2>3. CASE i > Len(s) + 1
    <3> DEFINE j == i - (Len(s) + 1)
    <3>1. j \in 1..Len(Tail(t)) /\ j + 1 \in 1..Len(t) /\ i = Len(s) + (j + 1)
          /\ i = Len(Append(s, Head(t))) + j
      BY <1>1, <1>2, <2>3
    <3> HIDE DEF j
    <3>2. u[i] = Tail(t)[j] /\ v[i] = t[j + 1]
      BY <1>1, <3>1, ListedConcat
    <3> QED BY <1>1, <3>1, <3>2, ListedTail
  <2> QED BY <1>1, <1>2, <2>1, <2>2, <2>3
<1> HIDE DEF u, v
<1>4. u = v
  BY <1>2, <1>3, ListedEqual
<1> QED BY <1>4 DEF u, v

\* The lists of a list, one after the other, are a list: there is a function that
\* joins the first k, for every k, and the last of them is FlattenSeq.
LEMMA FlattenListed ==
  ASSUME NEW seqs, IsList(seqs), \A i \in DOMAIN seqs : IsList(seqs[i])
  PROVE  IsList(FlattenSeq(seqs))
<1> DEFINE n == Len(seqs)
           Joins(g, k) == /\ g = [i \in 1..k |-> g[i]]
                          /\ \A i \in 1..k : /\ IsList(g[i])
                                             /\ g[i] = IF i = 1 THEN seqs[i] ELSE g[i - 1] \o seqs[i]
           K == {k \in 1..n : \E g : Joins(g, k)}
<1>1. n \in Nat /\ DOMAIN seqs = 1..n
  BY ListedFacts
<1>2. CASE n = 0
  BY <1>2 DEF FlattenSeq
<1>3. CASE n # 0
  <2>1. 1 \in K
    <3> DEFINE g == [i \in 1..1 |-> seqs[i]]
    <3>1. Joins(g, 1)
      BY <1>1, <1>3
    <3> HIDE DEF g, Joins
    <3> QED BY <1>1, <1>3, <3>1
  <2>2. ASSUME NEW k \in K, k # n PROVE k + 1 \in K
    <3>1. k \in 1..n /\ k + 1 \in 1..n /\ k \in Nat
      BY <1>1, <2>2
    <3>2. PICK g : Joins(g, k)
      BY <2>2
    <3> DEFINE last == g[k] \o seqs[k + 1]
               h == [i \in 1..(k + 1) |-> IF i = k + 1 THEN last ELSE g[i]]
    <3>3. IsList(g[k]) /\ IsList(seqs[k + 1])
      <4>1. k \in 1..k
        BY <3>1
      <4>2. IsList(g[k])
        BY <3>2, <4>1
      <4> QED BY <1>1, <3>1, <4>2
    <3>4. IsList(last)
      BY <3>3, ListedConcat
    <3>5. ASSUME NEW i \in 1..(k + 1)
          PROVE  IsList(h[i]) /\ h[i] = IF i = 1 THEN seqs[i] ELSE h[i - 1] \o seqs[i]
      <4>1. CASE i = k + 1
        <5>1. i # 1 /\ i - 1 = k /\ k \in 1..(k + 1) /\ k # k + 1
          BY <3>1, <4>1
        <5> QED BY <3>4, <4>1, <5>1
      <4>2. CASE i # k + 1
        <5>1. i \in 1..k /\ (i # 1 => i - 1 \in 1..(k + 1) /\ i - 1 # k + 1)
          BY <3>1, <4>2
        <5> QED BY <3>2, <4>2, <5>1
      <4> QED BY <4>1, <4>2
    <3>6. h = [i \in 1..(k + 1) |-> h[i]]
      OBVIOUS
    <3> HIDE DEF h
    <3>7. Joins(h, k + 1)
      BY <3>5, <3>6
    <3> QED BY <3>1, <3>7
  <2>3. K \subseteq Int /\ IsFiniteSet(K) /\ K # {}
    <3>1. IsFiniteSet(1..n) /\ K \subseteq 1..n /\ 1..n \subseteq Int
      BY <1>1, FS_Interval
    <3> QED BY <2>1, <3>1, FS_Subset
  <2>4. PICK m \in K : \A i \in K : i <= m
    <3> HIDE DEF K
    <3> QED BY <2>3, FiniteSetHasMax
  <2>5. n \in K
    <3>1. m \in 1..n
      OBVIOUS
    <3> HIDE DEF K
    <3> QED BY <1>1, <2>2, <2>4, <3>1
  <2>6. PICK g : Joins(g, n)
    BY <2>5
  <2> DEFINE Is(f) == f = [i \in 1..n |-> IF i = 1 THEN seqs[i] ELSE f[i - 1] \o seqs[i]]
             flat == CHOOSE f : Is(f)
  <2>7. Is(g)
    BY <2>6
  <2>8. Is(flat)
    <3> HIDE DEF Is
    <3> QED BY <2>7
  <2> HIDE DEF flat
  <2>12. \A i \in 1..n : /\ flat[i] = IF i = 1 THEN seqs[i] ELSE flat[i - 1] \o seqs[i]
                         /\ g[i] = IF i = 1 THEN seqs[i] ELSE g[i - 1] \o seqs[i]
    BY <2>6, <2>8
  <2>9. FlattenSeq(seqs) = flat[n]
    BY <1>3 DEF FlattenSeq, flat
  <2>13. IsFiniteSet(1..n) /\ 1..n \subseteq Int
    BY <1>1, FS_Interval
  <2>10. ASSUME NEW k \in 1..n PROVE flat[k] = g[k]
    <3> DEFINE D == {i \in 1..n : \A j \in 1..i : flat[j] = g[j]}
    <3>1. 1 \in D
      <4>1. 1 \in 1..n /\ flat[1] = g[1] /\ \A j \in 1..1 : j = 1
        BY <1>1, <1>3, <2>12
      <4> QED BY <4>1
    <3>2. ASSUME NEW i \in D, i # n PROVE i + 1 \in D
      <4>0. i \in 1..n /\ \A j \in 1..i : flat[j] = g[j]
        BY <3>2
      <4>1. i \in 1..n /\ i + 1 \in 1..n /\ i + 1 # 1 /\ (i + 1) - 1 = i /\ flat[i] = g[i]
        BY <1>1, <3>2, <4>0
      <4>2. flat[i + 1] = flat[i] \o seqs[i + 1] /\ g[i + 1] = g[i] \o seqs[i + 1]
        BY <2>12, <4>1
      <4>3. \A j \in 1..(i + 1) : j \in 1..i \/ j = i + 1
        BY <4>1
      <4> QED BY <4>0, <4>1, <4>2, <4>3
    <3>3. D \subseteq 1..n /\ D \subseteq Int /\ D # {} /\ IsFiniteSet(D)
      <4> QED BY <3>1, <2>13, FS_Subset
    <3>4. PICK m2 \in D : \A i \in D : i <= m2
      <4> HIDE DEF D
      <4> QED BY <3>3, FiniteSetHasMax
    <3>5. m2 = n
      <4> HIDE DEF D
      <4> QED BY <1>1, <3>2, <3>3, <3>4
    <3> QED BY <3>4, <3>5
  <2> HIDE DEF Is
  <2>11. n \in 1..n
    BY <1>1, <1>3
  <2> QED BY <2>6, <2>9, <2>10, <2>11, ZenonT(40)
<1> QED BY <1>2, <1>3

LEMMA OneListed ==
  ASSUME NEW x
  PROVE  IsList(<<x>>) /\ IsList(<<>>) /\ Len(<<x>>) = 1 /\ <<x>>[1] = x
<1>1. <<x>> \in Seq({x}) /\ <<>> \in Seq({x})
  OBVIOUS
<1> QED BY <1>1, ListedOf

LEMMA MappedListed ==
  ASSUME NEW s, IsList(s), NEW t, DOMAIN t = DOMAIN s, t = [i \in DOMAIN s |-> t[i]]
  PROVE  IsList(t)
<1>1. DOMAIN s = 1..Len(s) /\ Len(s) \in Nat
  BY ListedFacts
<1>2. t \in [1..Len(s) -> ToSet(t)]
  BY <1>1 DEF ToSet
<1>3. t \in Seq(ToSet(t))
  BY <1>1, <1>2
<1> QED BY <1>3 DEF IsList

LEMMA WritesListed ==
  ASSUME NEW a, a.route \in {"attributes", "statements", "episodes", "objects"}, IsList(a.items),
         \A i \in DOMAIN a.items : IsList(a.items[i].attributes)
  PROVE  IsList(WritesOf(a))
<1>1. \A item : IsList(AttributeWrites(item))
  BY OneListed DEF AttributeWrites, Fails, Writes
<1>2. \A item : IsList(StatementWrites(item))
  <2> SUFFICES ASSUME NEW item PROVE IsList(StatementWrites(item))
    OBVIOUS
  <2> DEFINE s == IF item.subject = <<>> THEN <<>> ELSE Writes(item.subject, "person", FALSE)
             t == Writes(item.key, item.text, item.refused)
  <2>1. IsList(s) /\ IsList(t) /\ IsList(Fails(item.key))
    BY OneListed DEF Writes, Fails
  <2>2. IsList(s \o t)
    <3> HIDE DEF s, t
    <3> QED BY <2>1, ListedConcat
  <2> QED BY <2>1, <2>2 DEF StatementWrites
<1>3. ASSUME NEW item, IsList(item.attributes) PROVE IsList(ObjectWrites(item))
  <2> DEFINE s == IF item.subject = <<>> THEN <<>> ELSE Writes(item.subject, item.text, FALSE)
             lists == [i \in DOMAIN item.attributes |->
               Writes(item.attributes[i].key, item.attributes[i].text, item.attributes[i].refused)]
  <2>1. IsList(s) /\ \A i \in DOMAIN lists : IsList(lists[i])
    BY OneListed DEF Writes
  <2>2. DOMAIN lists = DOMAIN item.attributes /\ lists = [i \in DOMAIN item.attributes |-> lists[i]]
    OBVIOUS
  <2>3. ObjectWrites(item) = s \o FlattenSeq(lists)
    BY DEF ObjectWrites
  <2> HIDE DEF s, lists
  <2>4. IsList(lists)
    BY <1>3, <2>2, MappedListed
  <2> QED BY <2>1, <2>3, <2>4, FlattenListed, ListedConcat
<1> DEFINE lists == [i \in DOMAIN a.items |->
              CASE a.route = "attributes" -> AttributeWrites(a.items[i])
                [] a.route \in {"statements", "episodes"} -> StatementWrites(a.items[i])
                [] a.route = "objects" -> ObjectWrites(a.items[i])]
<1>4. DOMAIN lists = DOMAIN a.items /\ lists = [i \in DOMAIN a.items |-> lists[i]]
  OBVIOUS
<1>5. \A i \in DOMAIN lists : IsList(lists[i])
  <2> SUFFICES ASSUME NEW i \in DOMAIN a.items PROVE IsList(lists[i])
    OBVIOUS
  <2>1. CASE a.route = "attributes"
    BY <1>1, <2>1
  <2>2. CASE a.route \in {"statements", "episodes"}
    BY <1>2, <2>2
  <2>3. CASE a.route = "objects"
    BY <1>3, <2>3
  <2> QED BY <2>1, <2>2, <2>3
<1>6. WritesOf(a) = FlattenSeq(lists)
  BY DEF WritesOf
<1> HIDE DEF lists
<1>7. IsList(lists)
  BY <1>4, MappedListed
<1> QED BY <1>5, <1>6, <1>7, FlattenListed

----------------------------------------------------------------------------
(***************************************************************************)
(* Records: what a handler knows, and what is true of it.                  *)
(***************************************************************************)

Now == Len(past.done)
CountOf(r) == Cardinality(EntriesOf(r))

\* When i steps were committed, r could have been answered v; a row was x.
Truly(r, i, v) == v \in Verdicts(StoreAt(i), r)
RowAt(i, id) == RowIn(StoreAt(i), id)
Once(r, v) == \E i \in own[r].from..Now : Truly(r, i, v)

PastTyped ==
  /\ past = [done |-> past.done, stores |-> past.stores]
  /\ IsList(past.done) /\ IsList(past.stores) /\ Len(past.stores) = Now + 1
  /\ store = StoreAt(Now) /\ StoreTyped(store)
  /\ \A i \in DOMAIN past.done : past.done[i].by \in Requests /\ IsRecord(past.done[i].by)

\* The i-th step of the history is the next of its call, and does what it says.
FollowsAt(i) ==
  LET e == past.done[i]
      steps == StepsOf(Order(e.by))
  IN  /\ StoreAt(i) = EffectOf(StoreAt(i - 1), e)
      /\ Nth(i) \in DOMAIN steps /\ e.what = steps[Nth(i)]

PastInv ==
  /\ PastTyped /\ \A i \in DOMAIN past.done : FollowsAt(i)
  /\ \A r \in Requests : IsRecord(r) => OrderTyped(Order(r))

\* No two transactions have written the same fact.
HeldInv ==
  /\ DOMAIN own = Requests /\ \A r \in Requests : DOMAIN own[r] = DOMAIN NothingHeld
  /\ \A r \in Requests : pc[r] # "put" => own[r].wrote = <<>>
  /\ \A p, q \in Requests : p # q => DOMAIN own[p].wrote \cap DOMAIN own[q].wrote = {}

ChangesRow(a) ==
  \/ a.op = "patch" /\ a.route \in {"notes", "pools", "documenttypes", "episodetypes"}
  \/ a.op \in {"close", "reopen"} /\ a.route = "notes"
  \/ a.op = "archive" /\ a.route = "pools"

\* A row r may change was there, and is of its kind as long as it is there.
FitAt(r, i) ==
  /\ RowAt(i, Order(r).id) # Gone
  /\ Order(r).op = "patch" =>
       ~Truly(r, i, "not found") /\ (Order(r).bad => Truly(r, i, "bad request"))
  /\ Order(r).op # "patch" => Truly(r, i, "ok")
Looked(r) ==
  LET a == Order(r) IN
  /\ ChangesRow(a) /\ a.id \in DOMAIN store.rows
  /\ store.rows[a.id] = Gone \/ store.rows[a.id].kind \in KindsOf[a.route]
  /\ \E i \in own[r].from..Now : FitAt(r, i)

\* The first m writes of a batch are done, none of which fails.
WroteOf(a, h, m) ==
  LET W == WritesOf(a) IN
  /\ m <= Len(W) /\ h.todo = SubSeq(W, m + 1, Len(W))
  /\ \A i \in 1..m : W[i].fails = "no"
  /\ DOMAIN h.wrote = {W[i].key : i \in 1..m}
  /\ \A i \in 1..m : (\A j \in (i + 1)..m : W[j].key # W[i].key) => h.wrote[W[i].key] = W[i].text
Putting(r) ==
  LET a == Order(r) IN
  /\ a.op = "batch" /\ ~a.bad /\ a.route \in {"attributes", "statements", "episodes", "objects"}
  /\ own[r].rows = RowsOf(a) /\ \E m \in Nat : WroteOf(a, own[r], m)
  /\ \E i \in own[r].from..Now : a.route = "episodes" => RowAt(i, a.episode).kind = "episode"

\* The fact r has found is still there, or was gone at some moment since.
Amending(r) ==
  LET a == Order(r) IN
  /\ a.op \in {"amend", "drop"} /\ ~a.bad /\ Once(r, "ok")
  /\ \/ store.facts[a.key].by = own[r].fact.by
     \/ \E i \in own[r].from..Now : StoreAt(i).facts[a.key] = None

ChatThere(r) == own[r].chat \in DOMAIN store.chats
HomeAllowed(r) == MayWrite(conn[r].as, HomeOf(conn[r].as))
Scoping(r) ==
  /\ Order(r).op = "start" /\ Order(r).scope # "none" /\ CountOf(r) = 1
  /\ ChatThere(r) /\ HomeAllowed(r)
  /\ store.chats[own[r].chat].scope = HomeOf(conn[r].as) \/ MovedByAnother(r)
Started(r) ==
  /\ Order(r).op = "start" /\ HomeAllowed(r)
  /\ CountOf(r) = Len(StepsOf(Order(r))) \/ (CountOf(r) = 1 /\ MovedByAnother(r))
SessionFound(r, op) ==
  /\ Order(r).op = op /\ ~Order(r).bad /\ own[r].chat = Order(r).chat
  /\ Once(r, "ok") /\ Once(r, "refused")
Showing(r) ==
  /\ ChatThere(r)
  /\ Started(r) \/ (SessionFound(r, "finalize") /\ CountOf(r) = 1)
Appending(r) ==
  /\ ChatThere(r) /\ SessionFound(r, "append")
  /\ IsList(own[r].lines) /\ IsList(own[r].todo) /\ Order(r).lines = own[r].lines \o own[r].todo

\* The answer of r is true of a moment between from and to.
JudgedBetween(r, a, from, to) ==
  IF a \in {"null", "internal error"}
  THEN \E i, j \in from..to :
         /\ i < j /\ RowAt(j, Order(r).id) = Gone
         /\ IF Order(r).op = "patch" THEN a = "null" /\ ~Truly(r, i, "not found")
            ELSE a = "internal error" /\ Truly(r, i, "ok")
  ELSE \E i \in from..to : Truly(r, i, a)
\* What a call has come to, whether or not its answer could be written.
Outcome(r) == IF Succeeded(r) THEN "ok" ELSE reply[r]
\* A failure of the server is no outcome of a call whose answer has no form.
MayCome(a, v) == v = "internal error" => ~Unrendered(a)
AnswerTo(a, v) == IF v = "ok" THEN Success(a) ELSE v
\* A call that has succeeded has committed all of its steps.
Fulfilled(r) ==
  \/ CountOf(r) = Len(StepsOf(Order(r))) \/ Order(r).op = "drop"
  \/ Order(r).op = "start" /\ EntriesOf(r) # {} /\ MovedByAnother(r)

Unserved == {"unauthenticated", "unreachable", "bad principal", "principal unsupported"}
Before == {"new", "bind", "body"}
RecordOf(r) ==
  /\ pc[r] \in RecordPcs => own[r].from \in 0..Now /\ IsRecord(r)
  /\ IsRecord(r) => pc[r] \in RecordPcs \cup Before \cup {"close", "done"}
  /\ pc[r] \in Before => own[r] = NothingHeld
  /\ pc[r] \in Before \cup {"update", "put", "amend", "append", "finalize"} => EntriesOf(r) = {}
  /\ pc[r] = "update" => Looked(r)
  /\ pc[r] = "reload" => /\ Looked(r)
                         /\ store.rows[Order(r).id] = Gone \/ (CountOf(r) = 1 /\ Once(r, "ok"))
  /\ pc[r] = "put" => Putting(r)
  /\ pc[r] = "amend" => Amending(r)
  /\ pc[r] = "scope" => Scoping(r)
  /\ pc[r] = "show" => Showing(r)
  /\ pc[r] = "append" => Appending(r)
  /\ pc[r] = "finalize" => ChatThere(r) /\ SessionFound(r, "finalize")
  /\ pc[r] \in {"close", "done"} /\ IsRecord(r) /\ Succeeded(r) => Fulfilled(r)
  /\ pc[r] = "close" /\ IsRecord(r) /\ reply[r] \notin Unserved =>
       /\ own[r].from \in 0..Now /\ own[r].to \in 0..Now
       /\ reply[r] = AnswerTo(Order(r), Outcome(r))
       /\ JudgedBetween(r, Outcome(r), own[r].from, own[r].to)

RecordsInv == PastInv /\ HeldInv /\ \A r \in Requests : RecordOf(r)

\* What was asked stays, and with it what a step of the history does.
LEMMA OrdersStay ==
  ASSUME UNCHANGED call
  PROVE  /\ \A r : Order(r)' = Order(r) /\ IsRecord(r)' = IsRecord(r)
         /\ \A S, e : EffectOf(S, e)' = EffectOf(S, e)
<1>1. \A r : Order(r)' = Order(r) /\ IsRecord(r)' = IsRecord(r)
  BY DEF Order, IsRecord
<1>2. ASSUME NEW F, NEW r PROVE Said(F, r)' = Said(F, r)
  BY <1>1, ZenonT(40) DEF Said
<1>3. ASSUME NEW S, NEW e PROVE EffectOf(S, e)' = EffectOf(S, e)
  BY <1>1, <1>2, ZenonT(40) DEF EffectOf
<1> QED BY <1>1, <1>3

LEMMA VerdictsStay ==
  ASSUME NEW r, UNCHANGED call, conn'[r] = conn[r], own'[r].chat = own[r].chat
  PROVE  \A S : Verdicts(S, r)' = Verdicts(S, r)
<1>1. \A q : Order(q)' = Order(q) /\ IsRecord(q)' = IsRecord(q)
  BY OrdersStay
<1> QED BY <1>1, ZenonT(40) DEF Verdicts

\* The keys of the facts of a batch, and those that other batches name too.
KeysOf(q) == {w.key : w \in ToSet(WritesOf(Order(q)))}
Contended(r) ==
  {k \in KeysOf(r) : \E q \in {p \in Requests \ {r} : IsRecord(p) /\ Order(p).op = "batch"} : k \in KeysOf(q)}
ErrorsOf(a) == {i \in DOMAIN WritesOf(a) : WritesOf(a)[i].fails # "no"}

LEMMA RowVerdicts ==
  ASSUME NEW S, NEW r
  PROVE  LET a == Order(r)
             x == RowIn(S, a.id)
             there == x.kind \in KindsOf[a.route] IN
    /\ a.op = "create" => Verdicts(S, r) =
         {IF a.bad THEN "bad request" ELSE IF NameTaken(S, a) THEN "conflict" ELSE "ok"}
    /\ a.op = "patch" => Verdicts(S, r) =
         {IF ~there /\ ~(a.bad /\ a.route = "episodes") THEN "not found"
          ELSE IF a.bad THEN "bad request" ELSE IF NameTaken(S, a) THEN "conflict" ELSE "ok"}
    /\ a.op = "delete" => Verdicts(S, r) = {IF there THEN "ok" ELSE "not found"}
    /\ a.op \in {"close", "reopen", "archive"} => Verdicts(S, r) =
         {IF ~there THEN "not found"
          ELSE IF (a.route = "notes" => x.kind = "issue") /\ (x.closed <=> a.op = "reopen")
               THEN "ok" ELSE "conflict"}
BY DEF Verdicts

LEMMA FactVerdicts ==
  ASSUME NEW S, NEW r
  PROVE  LET a == Order(r) IN
    /\ a.op = "batch" => Verdicts(S, r) =
         {IF a.bad THEN "bad request"
          ELSE IF a.route = "episodes" /\ RowIn(S, a.episode).kind # "episode" THEN "not found"
          ELSE IF ErrorsOf(a) # {} THEN WritesOf(a)[Min(ErrorsOf(a))].fails ELSE "ok"}
         \cup {d \in {"deadlock"} : Cardinality(Contended(r)) >= 2}
    /\ a.op \in {"amend", "drop"} => Verdicts(S, r) =
         IF a.bad THEN {"bad request"} ELSE IF S.facts[a.key] # None THEN {"ok"}
         ELSE {"not found", "refused"}
BY DEF Verdicts, KeysOf, Contended, ErrorsOf

LEMMA ChatVerdicts ==
  ASSUME NEW S, NEW r
  PROVE  LET a == Order(r)
             seen == SeesChat(S, conn[r].as, a.chat) IN
    /\ a.op = "start" => Verdicts(S, r) =
         IF ~MayWrite(conn[r].as, HomeOf(conn[r].as)) THEN {"refused"}
         ELSE {"ok"} \cup {d \in {"refused"} : a.scope # "none"}
                \cup {d \in {"not found"} : /\ own[r].chat \in DOMAIN S.chats
                                          /\ ~SeesChat(S, conn[r].as, own[r].chat)}
    /\ a.op \in {"append", "finalize"} => Verdicts(S, r) =
         IF a.bad THEN {"bad request"} ELSE IF seen THEN {"ok", "refused"} ELSE {"not found"}
    /\ a.op = "move" => Verdicts(S, r) =
         {"engine too old"} \cup
         {IF a.bad THEN "bad request" ELSE IF ~seen THEN "not found"
          ELSE IF MayWrite(conn[r].as, a.scope) THEN "ok" ELSE "refused"}
BY DEF Verdicts

\* What may become of a store: a row that is gone stays gone, a row keeps its
\* kind, a fact its creator as long as it is there, and sessions stay.
Grows(S, T) ==
  /\ \A id \in DOMAIN S.rows :
       /\ id \in DOMAIN T.rows /\ (S.rows[id] = Gone => T.rows[id] = Gone)
       /\ \A route \in DOMAIN KindsOf : S.rows[id].kind \in KindsOf[route] =>
            T.rows[id] = Gone \/ T.rows[id].kind \in KindsOf[route]
  /\ \A k \in Facts : S.facts[k] = None \/ T.facts[k] = None \/ T.facts[k].by = S.facts[k].by
  /\ DOMAIN S.chats \subseteq DOMAIN T.chats

\* The next step of a call is committed.
Commits(r, what, id) ==
  /\ Enter(r, what, id) /\ store' = EffectOf(store, Entry(r, what, id))
  /\ StoreTyped(store') /\ Grows(store, store')
  /\ \A i \in DOMAIN store.chats :
       store'.chats[i].scope = store.chats[i].scope \/ (what = "scope" /\ id = i)
  /\ CountOf(r) + 1 \in DOMAIN StepsOf(Order(r)) /\ what = StepsOf(Order(r))[CountOf(r) + 1]
Effects(r) ==
  UNCHANGED <<store, past>> \/ (IsRecord(r) /\ \E what, id : Commits(r, what, id))

LEMMA PastFacts ==
  ASSUME PastInv
  PROVE  /\ Now \in Nat /\ DOMAIN past.done = 1..Now /\ DOMAIN past.stores = 1..(Now + 1)
         /\ store = StoreAt(Now) /\ StoreTyped(store)
         /\ \A r : EntriesOf(r) \subseteq 1..Now /\ IsFiniteSet(EntriesOf(r)) /\ CountOf(r) \in Nat
         /\ \A r : EntriesOf(r) = {} <=> CountOf(r) = 0
<1>1. /\ Now \in Nat /\ DOMAIN past.done = 1..Now /\ DOMAIN past.stores = 1..(Now + 1)
      /\ store = StoreAt(Now) /\ StoreTyped(store)
  BY ListedFacts DEF PastInv, PastTyped, Now
<1>2. ASSUME NEW r PROVE EntriesOf(r) \subseteq 1..Now /\ IsFiniteSet(EntriesOf(r)) /\ CountOf(r) \in Nat
                           /\ (EntriesOf(r) = {} <=> CountOf(r) = 0)
  <2>1. EntriesOf(r) \subseteq 1..Now
    BY <1>1 DEF EntriesOf
  <2>2. IsFiniteSet(1..Now)
    BY <1>1, FS_Interval
  <2>3. IsFiniteSet(EntriesOf(r))
    BY <2>1, <2>2, FS_Subset
  <2>4. Cardinality(EntriesOf(r)) \in Nat /\ (Cardinality(EntriesOf(r)) = 0 <=> EntriesOf(r) = {})
    BY <2>3, FS_CardinalityType, FS_EmptySet
  <2> QED BY <2>1, <2>3, <2>4 DEF CountOf
<1> QED BY <1>1, <1>2

\* The history after one more step.
LEMMA CommitsPast ==
  ASSUME PastInv, NEW r \in Requests, IsRecord(r), UNCHANGED call,
         NEW what, NEW id, Commits(r, what, id)
  PROVE  /\ PastInv' /\ Now' = Now + 1
         /\ \A i \in 0..Now : StoreAt(i)' = StoreAt(i)
         /\ past'.done[Now + 1] = Entry(r, what, id)
         /\ \A i \in 1..Now : past'.done[i] = past.done[i]
         /\ EntriesOf(r)' = EntriesOf(r) \cup {Now + 1} /\ CountOf(r)' = CountOf(r) + 1
         /\ \A q : q # r => EntriesOf(q)' = EntriesOf(q)
<1> DEFINE e == Entry(r, what, id)
<1>0. PICK n : n = Now
  OBVIOUS
<1>1. /\ n \in Nat /\ DOMAIN past.done = 1..n /\ DOMAIN past.stores = 1..(n + 1)
      /\ store = past.stores[n + 1] /\ StoreTyped(store)
      /\ IsList(past.done) /\ IsList(past.stores) /\ Len(past.stores) = n + 1 /\ Len(past.done) = n
      /\ past = [done |-> past.done, stores |-> past.stores]
  BY <1>0, PastFacts DEF PastInv, PastTyped, Now, StoreAt
<1>2. past' = [done |-> Append(past.done, e), stores |-> Append(past.stores, store')]
  <2>1. past' = [past EXCEPT !.done = Append(@, e), !.stores = Append(@, store')]
    BY DEF Commits, Enter, Entry
  <2> HIDE DEF e
  <2> QED BY <1>1, <2>1
<1>3. past'.done = Append(past.done, e) /\ past'.stores = Append(past.stores, store')
  BY <1>2
<1>4. e.by = r /\ e.what = what /\ e.id = id
  BY DEF Entry
<1>5. Now' = Len(past'.done)
  BY DEF Now
<1> HIDE DEF e
<1>6. /\ IsList(past'.done) /\ Len(past'.done) = n + 1 /\ DOMAIN past'.done = 1..(n + 1)
      /\ past'.done[n + 1] = e /\ \A i \in 1..n : past'.done[i] = past.done[i]
  <2>1. /\ IsList(Append(past.done, e)) /\ Len(Append(past.done, e)) = Len(past.done) + 1
        /\ DOMAIN Append(past.done, e) = 1..(Len(past.done) + 1)
        /\ Append(past.done, e)[Len(past.done) + 1] = e
        /\ \A i \in 1..Len(past.done) : Append(past.done, e)[i] = past.done[i]
    BY <1>1, ListedAppend
  <2> QED BY <1>1, <1>3, <2>1
<1>7. /\ IsList(past'.stores) /\ Len(past'.stores) = (n + 1) + 1
      /\ past'.stores[(n + 1) + 1] = store' /\ \A i \in 1..(n + 1) : past'.stores[i] = past.stores[i]
  <2> DEFINE s == past.stores
             t == Append(s, store')
  <2>1. /\ IsList(t) /\ Len(t) = Len(s) + 1 /\ t[Len(s) + 1] = store'
        /\ \A i \in 1..Len(s) : t[i] = s[i]
    BY <1>1, ListedAppend
  <2> HIDE DEF t
  <2>2. past'.stores = t
    BY <1>3 DEF t
  <2> QED BY <1>1, <2>1, <2>2
<1>8. Now = n /\ Now' = n + 1
  BY <1>0, <1>5, <1>6
<1>9. \A i \in 0..n : StoreAt(i)' = StoreAt(i)
  <2>1. \A i \in 0..n : i + 1 \in 1..(n + 1)
    BY <1>1
  <2>2. \A i : StoreAt(i)' = past'.stores[i + 1] /\ StoreAt(i) = past.stores[i + 1]
    BY DEF StoreAt
  <2> QED BY <1>7, <2>1, <2>2
<1>10. StoreAt(n + 1)' = store'
  BY <1>7 DEF StoreAt
<1>11. \A q : EntriesOf(q)' = {i \in 1..(n + 1) : past'.done[i].by = q} /\ EntriesOf(q) = {i \in 1..n : past.done[i].by = q}
  BY <1>1, <1>6 DEF EntriesOf
<1>12. \A i : i \in 1..(n + 1) <=> (i \in 1..n \/ i = n + 1)
  BY <1>1
<1>13. n + 1 \notin 1..n
  BY <1>1
<1>14. ASSUME NEW q, NEW i PROVE i \in EntriesOf(q)' <=> i \in EntriesOf(q) \/ (i = n + 1 /\ q = r)
  <2>1. i \in EntriesOf(q)' <=> i \in 1..(n + 1) /\ past'.done[i].by = q
    BY <1>11
  <2>2. i \in EntriesOf(q) <=> i \in 1..n /\ past.done[i].by = q
    BY <1>11
  <2>3. CASE i = n + 1
    BY <1>4, <1>6, <1>12, <1>13, <2>1, <2>2, <2>3
  <2>4. CASE i # n + 1
    BY <1>6, <1>12, <2>1, <2>2, <2>4
  <2> QED BY <2>3, <2>4
<1>15. EntriesOf(r)' = EntriesOf(r) \cup {n + 1}
  BY <1>14
<1>16. \A q : q # r => EntriesOf(q)' = EntriesOf(q)
  BY <1>14
<1>17. n + 1 \notin EntriesOf(r) /\ IsFiniteSet(EntriesOf(r)) /\ CountOf(r) \in Nat
  BY <1>11, <1>13, PastFacts
<1>18. CountOf(r)' = CountOf(r) + 1
  <2>1. Cardinality(EntriesOf(r) \cup {n + 1}) = Cardinality(EntriesOf(r)) + 1
    BY <1>17, FS_AddElement
  <2> QED BY <1>15, <2>1 DEF CountOf
<1>19. \A q : Order(q)' = Order(q) /\ (IsRecord(q)' <=> IsRecord(q))
  BY OrdersStay
<1>20. \A S, x : EffectOf(S, x)' = EffectOf(S, x)
  BY OrdersStay
<1>21. PastTyped'
  <2>1. store' = StoreAt(Now)'
    BY <1>7, <1>8 DEF StoreAt
  <2>2. \A i \in DOMAIN past'.done : past'.done[i].by \in Requests /\ call'[past'.done[i].by].kind = "record"
    <3> SUFFICES ASSUME NEW i \in 1..(n + 1)
                 PROVE  past'.done[i].by \in Requests /\ call'[past'.done[i].by].kind = "record"
      BY <1>6
    <3>1. CASE i = n + 1
      BY <1>4, <1>6, <3>1 DEF IsRecord
    <3>2. CASE i \in 1..n
      BY <1>1, <1>6, <3>2 DEF PastInv, PastTyped, IsRecord
    <3> QED BY <1>12, <3>1, <3>2
  <2>3. past' = [done |-> past'.done, stores |-> past'.stores]
    BY <1>2
  <2>4. Len(past'.stores) = Now' + 1
    BY <1>7, <1>8
  <2>5. StoreTyped(store')
    BY DEF Commits
  <2> QED BY <1>6, <1>7, <2>1, <2>2, <2>3, <2>4, <2>5 DEF PastTyped, IsRecord
<1>22. ASSUME NEW i \in 1..n PROVE FollowsAt(i)'
  <2>1. i \in 0..n /\ i - 1 \in 0..n /\ i # n + 1 /\ i <= n
    BY <1>1
  <2>2. past'.done[i] = past.done[i] /\ StoreAt(i)' = StoreAt(i) /\ StoreAt(i - 1)' = StoreAt(i - 1)
    BY <1>6, <1>9, <2>1
  <2>3. Nth(i)' = Nth(i)
    <3>0. PICK q : q = past.done[i].by
      OBVIOUS
    <3> DEFINE P == {j \in EntriesOf(q)' : j <= i}
               Q == {j \in EntriesOf(q) : j <= i}
    <3>1. ~(n + 1 <= i)
      BY <1>1, <2>1
    <3>2. P = Q
      BY <1>14, <3>1
    <3>3. Nth(i)' = Cardinality(P) /\ Nth(i) = Cardinality(Q)
      BY <2>2, <3>0 DEF Nth
    <3> QED BY <3>2, <3>3
  <2>4. FollowsAt(i)
    BY <1>1 DEF PastInv
  <2> QED BY <1>19, <1>20, <2>2, <2>3, <2>4 DEF FollowsAt
<1>23. FollowsAt(n + 1)'
  <2>1. Nth(n + 1)' = CountOf(r) + 1
    <3>1. \A j \in EntriesOf(r)' : j <= n + 1
      BY <1>1, <1>11
    <3>2. {j \in EntriesOf(r)' : j <= n + 1} = EntriesOf(r)'
      BY <3>1
    <3>3. Nth(n + 1)' = CountOf(r)'
      BY <1>4, <1>6, <3>2 DEF Nth, CountOf
    <3> QED BY <1>18, <3>3
  <2>2. StoreAt((n + 1) - 1)' = store
    <3>1. (n + 1) - 1 = n /\ n \in 0..n
      BY <1>1
    <3>2. StoreAt(n)' = StoreAt(n)
      BY <1>9, <3>1
    <3> QED BY <1>1, <3>1, <3>2 DEF StoreAt
  <2>3. StoreAt(n + 1)' = EffectOf(store, e)
    BY <1>10 DEF Commits, e
  <2>4. CountOf(r) + 1 \in DOMAIN StepsOf(Order(r)) /\ what = StepsOf(Order(r))[CountOf(r) + 1]
    BY DEF Commits
  <2> QED BY <1>4, <1>6, <1>19, <1>20, <2>1, <2>2, <2>3, <2>4 DEF FollowsAt
<1>24. PastInv'
  <2>1. \A i \in 1..(n + 1) : FollowsAt(i)'
    BY <1>12, <1>22, <1>23
  <2>2. \A q \in Requests : IsRecord(q)' => OrderTyped(Order(q))'
    BY <1>19 DEF PastInv, OrderTyped
  <2> QED BY <1>6, <1>21, <2>1, <2>2 DEF PastInv
<1> QED BY <1>6, <1>8, <1>9, <1>15, <1>16, <1>18, <1>24, <1>0 DEF e

LEMMA QuietPast ==
  ASSUME PastInv, UNCHANGED <<call, store, past>>
  PROVE  /\ PastInv' /\ Now' = Now /\ \A i : StoreAt(i)' = StoreAt(i)
         /\ \A q : EntriesOf(q)' = EntriesOf(q) /\ CountOf(q)' = CountOf(q)
         /\ past' = past
<1>1. Now' = Now /\ (\A i : StoreAt(i)' = StoreAt(i)) /\ \A q : EntriesOf(q)' = EntriesOf(q) /\ CountOf(q)' = CountOf(q)
  BY DEF Now, StoreAt, EntriesOf, CountOf
<1>2. \A q : Order(q)' = Order(q) /\ (IsRecord(q)' <=> IsRecord(q))
  BY OrdersStay
<1>3. PastTyped'
  BY <1>1, <1>2 DEF PastInv, PastTyped
<1>4. \A i : Nth(i)' = Nth(i)
  BY <1>1 DEF Nth
<1>5. \A S, x : EffectOf(S, x)' = EffectOf(S, x)
  BY OrdersStay
<1>6. \A i \in DOMAIN past'.done : FollowsAt(i)'
  BY <1>1, <1>2, <1>4, <1>5 DEF PastInv, FollowsAt
<1>7. \A q \in Requests : IsRecord(q)' => OrderTyped(Order(q))'
  BY <1>2 DEF PastInv, OrderTyped
<1> QED BY <1>1, <1>3, <1>6, <1>7 DEF PastInv

\* What a step of another handler leaves as it is, for q.
Onward(q) ==
  /\ PastInv' /\ Now \in Nat /\ Now' \in Nat /\ Now <= Now'
  /\ store' = StoreAt(Now)' /\ store = StoreAt(Now)
  /\ \A i \in 0..Now : StoreAt(i)' = StoreAt(i)
  /\ EntriesOf(q)' = EntriesOf(q) /\ CountOf(q)' = CountOf(q)
  /\ MovedByAnother(q) => MovedByAnother(q)'
  /\ Grows(store, store')
  /\ \A i \in DOMAIN store.chats :
       store'.chats[i].scope = store.chats[i].scope \/ (i = own[q].chat /\ MovedByAnother(q)')
       \/ i # own[q].chat

LEMMA QuietOnward ==
  ASSUME PastInv, NEW q, UNCHANGED <<call, store, past>>, own'[q].chat = own[q].chat
  PROVE  Onward(q)
<1>1. /\ PastInv' /\ Now' = Now /\ (\A i : StoreAt(i)' = StoreAt(i))
      /\ EntriesOf(q)' = EntriesOf(q) /\ CountOf(q)' = CountOf(q) /\ past' = past
  BY QuietPast
<1>2. Now \in Nat /\ store = StoreAt(Now)
  BY PastFacts
<1>3. store' = StoreAt(Now)'
  BY <1>1 DEF PastInv, PastTyped
<1>4. MovedByAnother(q)' = MovedByAnother(q)
  BY <1>1 DEF MovedByAnother
<1>5. Grows(store, store')
  BY DEF Grows
<1> QED BY <1>1, <1>2, <1>3, <1>4, <1>5 DEF Onward

LEMMA OthersOnward ==
  ASSUME PastInv, NEW r \in Requests, NEW q \in Requests \ {r}, UNCHANGED call, Effects(r),
         own'[q].chat = own[q].chat
  PROVE  Onward(q)
<1>1. CASE UNCHANGED <<store, past>>
  BY <1>1, QuietOnward
<1>2. ASSUME IsRecord(r), NEW what, NEW id, Commits(r, what, id) PROVE Onward(q)
  <2>1. /\ PastInv' /\ Now' = Now + 1 /\ (\A i \in 0..Now : StoreAt(i)' = StoreAt(i))
        /\ past'.done[Now + 1] = Entry(r, what, id)
        /\ (\A i \in 1..Now : past'.done[i] = past.done[i])
        /\ EntriesOf(q)' = EntriesOf(q)
    BY <1>2, CommitsPast
  <2>2. Now \in Nat /\ store = StoreAt(Now) /\ DOMAIN past.done = 1..Now
    BY PastFacts
  <2>3. store' = StoreAt(Now)'
    BY <2>1 DEF PastInv, PastTyped
  <2>4. DOMAIN past'.done = 1..(Now + 1)
    BY <2>1, ListedFacts DEF PastInv, PastTyped, Now
  <2>5. CountOf(q)' = CountOf(q)
    BY <2>1 DEF CountOf
  <2>6. \A i : i \in 1..Now => i \in 1..(Now + 1)
    BY <2>2
  <2>7. MovedByAnother(q) => MovedByAnother(q)'
    BY <2>1, <2>2, <2>4, <2>6 DEF MovedByAnother
  <2>8. ASSUME what = "scope", id = own[q].chat PROVE MovedByAnother(q)'
    <3>1. Now + 1 \in 1..(Now + 1) /\ Now + 1 \notin 1..Now
      BY <2>2
    <3>2. EntriesOf(q) \subseteq 1..Now
      BY PastFacts
    <3>3. Now + 1 \in DOMAIN past'.done \ EntriesOf(q)'
      BY <2>1, <2>4, <3>1, <3>2
    <3>4. past'.done[Now + 1].what = "scope" /\ past'.done[Now + 1].id = own'[q].chat
      BY <2>1, <2>8 DEF Entry
    <3> QED BY <3>3, <3>4 DEF MovedByAnother
  <2>9. \A i \in DOMAIN store.chats :
          store'.chats[i].scope = store.chats[i].scope \/ (what = "scope" /\ id = i)
    BY <1>2 DEF Commits
  <2>10. Grows(store, store')
    BY <1>2 DEF Commits
  <2>11. Now' \in Nat /\ Now <= Now'
    BY <2>1, <2>2
  <2> QED BY <2>1, <2>2, <2>3, <2>5, <2>7, <2>8, <2>9, <2>10, <2>11 DEF Onward
<1> QED BY <1>1, <1>2 DEF Effects

\* What r could be answered at a moment stays.
LEMMA MomentsStay ==
  ASSUME NEW q, Now \in Nat, \A i \in 0..Now : StoreAt(i)' = StoreAt(i),
         UNCHANGED call, conn'[q] = conn[q], own'[q].chat = own[q].chat
  PROVE  /\ \A i \in 0..Now : \A v : Truly(q, i, v)' = Truly(q, i, v)
         /\ \A i \in 0..Now : \A id : RowAt(i, id)' = RowAt(i, id)
         /\ \A i \in 0..Now : FitAt(q, i)' = FitAt(q, i)
         /\ \A v : \A from, to \in 0..Now :
              JudgedBetween(q, v, from, to)' = JudgedBetween(q, v, from, to)
<1>1. \A S : Verdicts(S, q)' = Verdicts(S, q)
  BY VerdictsStay
<1>2. Order(q)' = Order(q)
  BY OrdersStay
<1>3. \A i \in 0..Now : \A v : Truly(q, i, v)' = Truly(q, i, v)
  BY <1>1 DEF Truly
<1>4. \A i \in 0..Now : \A id : RowAt(i, id)' = RowAt(i, id)
  BY DEF RowAt
<1>5. \A i \in 0..Now : FitAt(q, i)' = FitAt(q, i)
  BY <1>2, <1>3, <1>4 DEF FitAt
<1>6. ASSUME NEW v, NEW from \in 0..Now, NEW to \in 0..Now
      PROVE  JudgedBetween(q, v, from, to)' = JudgedBetween(q, v, from, to)
  <2>1. \A i \in from..to : i \in 0..Now
    OBVIOUS
  <2> QED BY <1>2, <1>3, <1>4, <2>1, ZenonT(40) DEF JudgedBetween
<1> QED BY <1>3, <1>4, <1>5, <1>6

\* What holds of q, holds on while it makes no step.
LEMMA OnwardStays ==
  ASSUME RecordsInv, NEW q \in Requests, UNCHANGED call, Onward(q),
         pc'[q] = pc[q], reply'[q] = reply[q], conn'[q] = conn[q], own'[q] = own[q]
  PROVE  RecordOf(q)'
<1>1. PastInv /\ RecordOf(q)
  BY DEF RecordsInv
<1>2. Onward(q)
  OBVIOUS
<1>3. /\ \A i \in 0..Now : \A v : Truly(q, i, v)' = Truly(q, i, v)
      /\ \A i \in 0..Now : \A id : RowAt(i, id)' = RowAt(i, id)
      /\ \A i \in 0..Now : FitAt(q, i)' = FitAt(q, i)
      /\ \A v : \A from, to \in 0..Now :
           JudgedBetween(q, v, from, to)' = JudgedBetween(q, v, from, to)
  BY <1>2, MomentsStay DEF Onward
<1>4. Order(q)' = Order(q) /\ IsRecord(q)' = IsRecord(q)
  BY OrdersStay
<1>31. Succeeded(q)' = Succeeded(q) /\ Outcome(q)' = Outcome(q)
  <2>1. Succeeded(q)' = Succeeded(q)
    BY <1>4 DEF Succeeded
  <2> QED BY <2>1 DEF Outcome
<1>5. Now \in Nat /\ Now' \in Nat /\ Now <= Now'
  BY <1>2 DEF Onward
<1>6. EntriesOf(q)' = EntriesOf(q) /\ CountOf(q)' = CountOf(q)
      /\ (MovedByAnother(q) => MovedByAnother(q)')
  BY <1>2 DEF Onward
<1> DEFINE f == own[q].from
<1>7. pc[q] \in RecordPcs => f \in 0..Now
  BY <1>1 DEF RecordOf
<1>8. \A i \in 0..Now : i \in 0..Now'
  BY <1>5
<1>9. ASSUME pc[q] \in RecordPcs, NEW i \in f..Now PROVE i \in 0..Now /\ i \in f..Now'
  BY <1>5, <1>7, <1>9
<1>10. ASSUME pc[q] \in RecordPcs, NEW v, Once(q, v) PROVE Once(q, v)'
  BY <1>3, <1>9, <1>10 DEF Once
<1>11. ASSUME pc[q] \in RecordPcs, Looked(q) PROVE Looked(q)'
  <2> DEFINE a == Order(q)
  <2>1. PICK i \in f..Now : FitAt(q, i)
    BY <1>11 DEF Looked
  <2>2. i \in f..Now' /\ FitAt(q, i)'
    BY <1>3, <1>9, <1>11, <2>1
  <2>3. a.route \in DOMAIN KindsOf /\ ChangesRow(a) /\ a.id \in DOMAIN store.rows
    BY <1>11 DEF Looked, ChangesRow, KindsOf
  <2>4. a.id \in DOMAIN store'.rows
        /\ (store'.rows[a.id] = Gone \/ store'.rows[a.id].kind \in KindsOf[a.route])
    BY <1>2, <1>11, <2>3 DEF Onward, Grows, Looked
  <2>5. ChangesRow(Order(q))'
    BY <1>4, <2>3 DEF ChangesRow
  <2> QED BY <1>4, <2>2, <2>4, <2>5 DEF Looked
<1>12. ASSUME pc[q] = "reload" PROVE Looked(q)' /\ (store'.rows[Order(q).id] = Gone \/ (CountOf(q)' = 1 /\ Once(q, "ok")'))
  <2>1. pc[q] \in RecordPcs /\ Looked(q) /\ Order(q).id \in DOMAIN store.rows
    BY <1>1, <1>12 DEF RecordOf, RecordPcs, Looked
  <2>2. store.rows[Order(q).id] = Gone => store'.rows[Order(q).id] = Gone
    BY <1>2, <2>1 DEF Onward, Grows
  <2> QED BY <1>1, <1>6, <1>10, <1>11, <1>12, <2>1, <2>2 DEF RecordOf
<1>13. ASSUME pc[q] = "put" PROVE Putting(q)'
  <2>1. pc[q] \in RecordPcs /\ Putting(q)
    BY <1>1, <1>13 DEF RecordOf, RecordPcs
  <2>0. PICK e : e = Order(q).episode
    OBVIOUS
  <2>2. PICK i \in f..Now : Order(q).route = "episodes" => RowAt(i, e).kind = "episode"
    BY <2>0, <2>1 DEF Putting
  <2>3. i \in f..Now' /\ (Order(q).route = "episodes" => RowAt(i, e)'.kind = "episode")
    BY <1>3, <1>9, <2>1, <2>2
  <2>4. \A m : WroteOf(Order(q), own[q], m) = WroteOf(Order(q), own[q], m)'
    BY <1>4 DEF WroteOf
  <2>5. \E j \in own'[q].from..Now' :
          Order(q)'.route = "episodes" => RowAt(j, Order(q).episode)'.kind = "episode"
    BY <1>4, <2>0, <2>3
  <2> QED BY <1>4, <2>1, <2>4, <2>5 DEF Putting
<1>14. ASSUME pc[q] = "amend" PROVE Amending(q)'
  <2> DEFINE k == Order(q).key
  <2>1. pc[q] \in RecordPcs /\ Amending(q) /\ IsRecord(q)
    BY <1>1, <1>14 DEF RecordOf, RecordPcs
  <2>2. k \in Facts
    BY <1>1, <2>1 DEF PastInv, OrderTyped, Amending
  <2>3. Once(q, "ok")'
    BY <1>10, <2>1 DEF Amending
  <2>4. CASE \E i \in f..Now : StoreAt(i).facts[k] = None
    <3>1. PICK i \in f..Now : StoreAt(i).facts[k] = None
      BY <2>4
    <3>2. i \in f..Now' /\ StoreAt(i)' = StoreAt(i)
      BY <1>2, <1>9, <2>1 DEF Onward
    <3> QED BY <1>4, <2>1, <2>3, <3>1, <3>2 DEF Amending
  <2>5. CASE store.facts[k].by = own[q].fact.by
    <3>1. store.facts[k] = None \/ store'.facts[k] = None \/ store'.facts[k].by = store.facts[k].by
      BY <1>2, <2>2 DEF Onward, Grows
    <3>2. CASE store.facts[k] = None
      <4>1. Now \in f..Now
        BY <1>5, <1>7, <2>1
      <4> QED BY <1>2, <2>4, <3>2, <4>1 DEF Onward
    <3>3. CASE store'.facts[k] = None
      <4>1. Now' \in f..Now'
        BY <1>5, <1>7, <2>1
      <4>2. StoreAt(Now)'.facts[k] = None
        BY <1>2, <3>3 DEF Onward
      <4>3. \E i \in f..Now' : StoreAt(i)'.facts[k] = None
        BY <4>1, <4>2 DEF StoreAt
      <4> QED BY <1>4, <2>1, <2>3, <4>3 DEF Amending
    <3>4. CASE store'.facts[k].by = store.facts[k].by
      BY <1>4, <2>1, <2>3, <2>5, <3>4 DEF Amending
    <3> QED BY <3>1, <3>2, <3>3, <3>4
  <2> QED BY <2>1, <2>4, <2>5 DEF Amending
<1>15. ChatThere(q) => ChatThere(q)'
  BY <1>2 DEF ChatThere, Onward, Grows
<1>16. HomeAllowed(q)' = HomeAllowed(q) /\ HomeOf(conn[q].as)' = HomeOf(conn[q].as)
  BY DEF HomeAllowed, HomeOf, MayWrite, Sees
<1>17. ASSUME pc[q] = "scope" PROVE Scoping(q)'
  <2>1. Scoping(q)
    BY <1>1, <1>17 DEF RecordOf
  <2>2. store'.chats[own[q].chat].scope = HomeOf(conn[q].as) \/ MovedByAnother(q)'
    BY <1>2, <2>1 DEF Scoping, ChatThere, Onward
  <2> QED BY <1>4, <1>6, <1>15, <1>16, <2>1, <2>2 DEF Scoping
<1>18. Started(q) => Started(q)'
  <2>1. StepsOf(Order(q))' = StepsOf(Order(q))
    BY <1>4 DEF StepsOf
  <2> QED BY <1>4, <1>6, <1>16, <2>1 DEF Started
<1>19. ASSUME pc[q] \in RecordPcs, NEW op, SessionFound(q, op) PROVE SessionFound(q, op)'
  BY <1>4, <1>10, <1>19 DEF SessionFound
<1>20. ASSUME pc[q] = "show" PROVE Showing(q)'
  <2>1. pc[q] \in RecordPcs /\ Showing(q)
    BY <1>1, <1>20 DEF RecordOf, RecordPcs
  <2> QED BY <1>6, <1>15, <1>18, <1>19, <2>1 DEF Showing
<1>21. ASSUME pc[q] = "append" PROVE Appending(q)'
  <2>1. pc[q] \in RecordPcs /\ Appending(q)
    BY <1>1, <1>21 DEF RecordOf, RecordPcs
  <2> QED BY <1>4, <1>15, <1>19, <2>1 DEF Appending
<1>22. ASSUME pc[q] = "finalize" PROVE ChatThere(q)' /\ SessionFound(q, "finalize")'
  <2>1. pc[q] \in RecordPcs /\ ChatThere(q) /\ SessionFound(q, "finalize")
    BY <1>1, <1>22 DEF RecordOf, RecordPcs
  <2> QED BY <1>15, <1>19, <2>1
<1>23. Fulfilled(q) => Fulfilled(q)'
  <2>1. StepsOf(Order(q))' = StepsOf(Order(q))
    BY <1>4 DEF StepsOf
  <2> QED BY <1>4, <1>6, <2>1 DEF Fulfilled
<1>24. ASSUME pc[q] = "close", IsRecord(q), reply[q] \notin Unserved
       PROVE  /\ own[q].from \in 0..Now' /\ own[q].to \in 0..Now'
              /\ (reply[q] = AnswerTo(Order(q), Outcome(q)))'
              /\ JudgedBetween(q, Outcome(q), own[q].from, own[q].to)'
  <2>1. /\ own[q].from \in 0..Now /\ own[q].to \in 0..Now
        /\ reply[q] = AnswerTo(Order(q), Outcome(q))
        /\ JudgedBetween(q, Outcome(q), own[q].from, own[q].to)
    BY <1>1, <1>24 DEF RecordOf
  <2>2. PICK v, from, to : v = Outcome(q) /\ from = own[q].from /\ to = own[q].to
    OBVIOUS
  <2>3. JudgedBetween(q, v, from, to)' = JudgedBetween(q, v, from, to)
    BY <1>3, <2>1, <2>2
  <2>4. JudgedBetween(q, Outcome(q), own[q].from, own[q].to)'
    BY <1>31, <2>1, <2>2, <2>3
  <2>5. (reply[q] = AnswerTo(Order(q), Outcome(q)))'
    BY <1>4, <1>31, <2>1 DEF AnswerTo
  <2> QED BY <1>8, <2>1, <2>4, <2>5
<1>25. pc'[q] \in RecordPcs => own'[q].from \in 0..Now' /\ IsRecord(q)'
  BY <1>1, <1>4, <1>7, <1>8 DEF RecordOf
<1>26. /\ IsRecord(q)' => pc'[q] \in RecordPcs \cup Before \cup {"close", "done"}
       /\ pc'[q] \in Before => own'[q] = NothingHeld
       /\ pc'[q] \in Before \cup {"update", "put", "amend", "append", "finalize"} => EntriesOf(q)' = {}
  BY <1>1, <1>4, <1>6 DEF RecordOf
<1>27. pc'[q] = "update" => Looked(q)'
  BY <1>1, <1>11 DEF RecordOf, RecordPcs
<1>28. pc'[q] = "reload" =>
         Looked(q)' /\ (store'.rows[Order(q)'.id] = Gone \/ (CountOf(q)' = 1 /\ Once(q, "ok")'))
  BY <1>4, <1>12
<1>29. pc'[q] \in {"close", "done"} /\ IsRecord(q)' /\ Succeeded(q)' => Fulfilled(q)'
  BY <1>1, <1>4, <1>23, <1>31 DEF RecordOf
<1>30. pc'[q] = "close" /\ IsRecord(q)' /\ reply'[q] \notin Unserved =>
         /\ own'[q].from \in 0..Now' /\ own'[q].to \in 0..Now'
         /\ (reply[q] = AnswerTo(Order(q), Outcome(q)))'
         /\ JudgedBetween(q, Outcome(q), own[q].from, own[q].to)'
  BY <1>4, <1>24
<1> HIDE DEF f
<1> QED BY <1>13, <1>14, <1>17, <1>20, <1>21, <1>22, <1>25, <1>26, <1>27, <1>28, <1>29, <1>30
        DEF RecordOf

LEMMA OthersStay ==
  ASSUME RecordsInv, NEW r \in Requests, NEW q \in Requests \ {r}, UNCHANGED call, Effects(r),
         pc'[q] = pc[q], reply'[q] = reply[q], conn'[q] = conn[q], own'[q] = own[q]
  PROVE  RecordOf(q)'
<1>1. Onward(q)
  BY OthersOnward DEF RecordsInv
<1> QED BY <1>1, OnwardStays

\* What each step of a history does.
LEMMA EffectFacts ==
  ASSUME NEW S, NEW r, NEW id
  PROVE  LET a == Order(r) IN
    /\ EffectOf(S, Entry(r, "create", id)) =
         [S EXCEPT !.rows = Append(@, [kind |-> a.set.kind, name |-> a.set.name, closed |-> FALSE])]
    /\ EffectOf(S, Entry(r, "delete", id)) = [S EXCEPT !.rows[id] = Gone]
    /\ EffectOf(S, Entry(r, "batch", id)) = [S EXCEPT !.facts = Said(@, r), !.rows = @ \o RowsOf(a)]
    /\ EffectOf(S, Entry(r, "amend", id)) = [S EXCEPT !.facts[a.key].text = a.text]
    /\ EffectOf(S, Entry(r, "drop", id)) = [S EXCEPT !.facts[a.key] = None]
    /\ EffectOf(S, Entry(r, "start", id)) =
         [S EXCEPT !.chats = Append(@, [scope |-> HomeOf(call[r].head), closed |-> FALSE, log |-> <<>>])]
    /\ EffectOf(S, Entry(r, "scope", id)) = [S EXCEPT !.chats[id].scope = a.scope]
    /\ EffectOf(S, Entry(r, "append", id)) = [S EXCEPT !.chats[id].log = @ \o a.lines]
    /\ EffectOf(S, Entry(r, "finalize", id)) = [S EXCEPT !.chats[id].closed = TRUE]
BY DEF EffectOf, Entry

LEMMA UpdateFacts ==
  ASSUME NEW S, NEW r, NEW id
  PROVE  LET a == Order(r) IN
    EffectOf(S, Entry(r, "update", id)) =
      [S EXCEPT !.rows[id] = [c \in DOMAIN @ |->
         IF a.op = "patch" THEN IF c \in DOMAIN a.set THEN a.set[c] ELSE @[c]
         ELSE IF c = "closed" THEN a.op # "reopen" ELSE @[c]]]
BY DEF EffectOf, Entry

LEMMA StepsFacts ==
  ASSUME NEW a
  PROVE  /\ a.op \in {"patch", "close", "reopen", "archive"} => StepsOf(a) = <<"update">>
         /\ a.op = "move" => StepsOf(a) = <<"scope">>
         /\ a.op = "start" => StepsOf(a) = IF a.scope = "none" THEN <<"start">> ELSE <<"start", "scope">>
         /\ a.op \in {"create", "delete", "batch", "amend", "drop", "append", "finalize"} => StepsOf(a) = <<a.op>>
BY DEF StepsOf

\* A row is of one kind.
LEMMA KindsDiffer ==
  /\ \A p, q \in DOMAIN KindsOf : \A k : k \in KindsOf[p] /\ k \in KindsOf[q] => p = q
  /\ \A p \in DOMAIN KindsOf : Gone.kind \notin KindsOf[p]
<1>1. DOMAIN KindsOf = {"notes", "pools", "episodes", "documenttypes", "episodetypes"}
  BY DEF KindsOf
<1>2. /\ KindsOf["notes"] = {"note", "issue"} /\ KindsOf["pools"] = {"pool"}
      /\ KindsOf["episodes"] = {"episode"} /\ KindsOf["documenttypes"] = {"document type"}
      /\ KindsOf["episodetypes"] = {"episode type"}
  BY DEF KindsOf
<1>3. Gone.kind = "gone"
  BY DEF Gone
<1> QED BY <1>1, <1>2, <1>3, ZenonT(40)

LEMMA RowInFacts ==
  ASSUME NEW S, NEW id
  PROVE  /\ id \in DOMAIN S.rows => RowIn(S, id) = S.rows[id]
         /\ \A route \in DOMAIN KindsOf : RowIn(S, id).kind \in KindsOf[route] =>
              id \in DOMAIN S.rows /\ S.rows[id] # Gone
         /\ RowIn(S, id) # Gone => id \in DOMAIN S.rows
BY KindsDiffer DEF RowIn

----------------------------------------------------------------------------
(***************************************************************************)
(* What may become of a store.                                             *)
(***************************************************************************)

LEMMA RowAdded ==
  ASSUME NEW S, StoreTyped(S), NEW x, RowTyped(x)
  PROVE  LET T == [S EXCEPT !.rows = Append(@, x)] IN
         StoreTyped(T) /\ Grows(S, T) /\ T.chats = S.chats
<1> DEFINE T == [S EXCEPT !.rows = Append(@, x)]
           R == Append(S.rows, x)
<1>1. S = [rows |-> S.rows, facts |-> S.facts, chats |-> S.chats]
  BY DEF StoreTyped
<1>2. T = [rows |-> R, facts |-> S.facts, chats |-> S.chats]
  BY <1>1, SMTT(30)
<1>3. /\ IsList(R) /\ DOMAIN R = 1..(Len(S.rows) + 1) /\ R[Len(S.rows) + 1] = x
      /\ \A i \in 1..Len(S.rows) : R[i] = S.rows[i]
  BY ListedAppend DEF StoreTyped
<1>4. Len(S.rows) \in Nat /\ DOMAIN S.rows = 1..Len(S.rows)
  BY ListedFacts DEF StoreTyped
<1>5. T.rows = R /\ T.facts = S.facts /\ T.chats = S.chats
  BY <1>2
<1> HIDE DEF T, R
<1>6. \A i \in DOMAIN R : RowTyped(R[i])
  <2>1. \A i \in 1..(Len(S.rows) + 1) : i \in 1..Len(S.rows) \/ i = Len(S.rows) + 1
    BY <1>4
  <2> QED BY <1>3, <1>4, <2>1 DEF StoreTyped
<1>7. StoreTyped(T)
  BY <1>2, <1>3, <1>5, <1>6 DEF StoreTyped
<1>8. \A i \in DOMAIN S.rows : i \in DOMAIN R /\ R[i] = S.rows[i]
  BY <1>3, <1>4
<1>9. Grows(S, T)
  BY <1>5, <1>8 DEF Grows
<1> QED BY <1>5, <1>7, <1>9 DEF T

LEMMA RowChanged ==
  ASSUME NEW S, StoreTyped(S), NEW id \in DOMAIN S.rows, NEW x, RowTyped(x),
         S.rows[id] = Gone => x = Gone,
         \A route \in DOMAIN KindsOf : S.rows[id].kind \in KindsOf[route] => x = Gone \/ x.kind \in KindsOf[route]
  PROVE  LET T == [S EXCEPT !.rows[id] = x] IN
         StoreTyped(T) /\ Grows(S, T) /\ T.chats = S.chats
<1> DEFINE T == [S EXCEPT !.rows[id] = x]
           R == [S.rows EXCEPT ![id] = x]
<1>1. S = [rows |-> S.rows, facts |-> S.facts, chats |-> S.chats]
  BY DEF StoreTyped
<1>2. T = [rows |-> R, facts |-> S.facts, chats |-> S.chats]
  BY <1>1
<1>3. /\ IsList(R) /\ DOMAIN R = DOMAIN S.rows /\ R[id] = x
      /\ \A i \in DOMAIN S.rows \ {id} : R[i] = S.rows[i]
  BY ListedExcept DEF StoreTyped
<1>4. T.rows = R /\ T.facts = S.facts /\ T.chats = S.chats
  BY <1>2
<1> HIDE DEF T, R
<1>5. \A i \in DOMAIN R : RowTyped(R[i])
  BY <1>3 DEF StoreTyped
<1>6. StoreTyped(T)
  BY <1>2, <1>3, <1>4, <1>5 DEF StoreTyped
<1>7. Grows(S, T)
  BY <1>3, <1>4 DEF Grows
<1> QED BY <1>4, <1>6, <1>7 DEF T

LEMMA FactsWritten ==
  ASSUME NEW S, StoreTyped(S), NEW F, F = [k \in Facts |-> [by |-> F[k].by, text |-> F[k].text]],
         \A k \in Facts : S.facts[k] = None \/ F[k] = None \/ F[k].by = S.facts[k].by,
         NEW L, IsList(L), \A i \in DOMAIN L : RowTyped(L[i])
  PROVE  LET T == [S EXCEPT !.facts = F, !.rows = @ \o L] IN
         StoreTyped(T) /\ Grows(S, T) /\ T.chats = S.chats
<1> DEFINE T == [S EXCEPT !.facts = F, !.rows = @ \o L]
           R == S.rows \o L
<1>1. S = [rows |-> S.rows, facts |-> S.facts, chats |-> S.chats]
  BY DEF StoreTyped
<1>2. T = [rows |-> R, facts |-> F, chats |-> S.chats]
  <2> DEFINE U == [S EXCEPT !.facts = F]
  <2>1. U = [rows |-> S.rows, facts |-> F, chats |-> S.chats]
    BY <1>1
  <2>2. T = [U EXCEPT !.rows = U.rows \o L]
    OBVIOUS
  <2> HIDE DEF U, T
  <2> QED BY <2>1, <2>2
<1>3. /\ IsList(R) /\ DOMAIN R = 1..(Len(S.rows) + Len(L))
      /\ \A i \in 1..Len(S.rows) : R[i] = S.rows[i]
      /\ \A i \in 1..Len(L) : R[Len(S.rows) + i] = L[i]
  BY ListedConcat DEF StoreTyped
<1>4. Len(S.rows) \in Nat /\ DOMAIN S.rows = 1..Len(S.rows) /\ Len(L) \in Nat /\ DOMAIN L = 1..Len(L)
  BY ListedFacts DEF StoreTyped
<1>5. T.rows = R /\ T.facts = F /\ T.chats = S.chats
  BY <1>2
<1> HIDE DEF T, R
<1>6. \A i \in DOMAIN R : RowTyped(R[i])
  <2>1. ASSUME NEW i \in 1..(Len(S.rows) + Len(L)), i \notin 1..Len(S.rows)
        PROVE  \E j \in 1..Len(L) : i = Len(S.rows) + j
    <3>1. i - Len(S.rows) \in 1..Len(L) /\ i = Len(S.rows) + (i - Len(S.rows))
      BY <1>4, <2>1, SMTT(30)
    <3> QED BY <3>1
  <2> QED BY <1>3, <1>4, <2>1 DEF StoreTyped
<1>7. StoreTyped(T)
  BY <1>2, <1>3, <1>5, <1>6 DEF StoreTyped
<1>8. \A i \in DOMAIN S.rows : i \in DOMAIN R /\ R[i] = S.rows[i]
  BY <1>3, <1>4
<1>9. Grows(S, T)
  BY <1>5, <1>8 DEF Grows
<1> QED BY <1>5, <1>7, <1>9 DEF T

LEMMA FactChanged ==
  ASSUME NEW S, StoreTyped(S), NEW k \in Facts, NEW f, f = [by |-> f.by, text |-> f.text],
         S.facts[k] = None \/ f = None \/ f.by = S.facts[k].by
  PROVE  LET T == [S EXCEPT !.facts[k] = f] IN
         StoreTyped(T) /\ Grows(S, T) /\ T.chats = S.chats
<1> DEFINE T == [S EXCEPT !.facts[k] = f]
           F == [S.facts EXCEPT ![k] = f]
<1>1. S = [rows |-> S.rows, facts |-> S.facts, chats |-> S.chats]
  BY DEF StoreTyped
<1>2. T = [rows |-> S.rows, facts |-> F, chats |-> S.chats]
  BY <1>1
<1>3. S.facts = [j \in Facts |-> [by |-> S.facts[j].by, text |-> S.facts[j].text]]
  BY DEF StoreTyped
<1>4. DOMAIN F = Facts /\ F[k] = f /\ \A j \in Facts \ {k} : F[j] = S.facts[j]
  BY <1>3
<1>5. \A j \in Facts : F[j] = [by |-> F[j].by, text |-> F[j].text]
  BY <1>3, <1>4
<1>6. F = [j \in Facts |-> F[j]]
  BY <1>3
<1>7. F = [j \in Facts |-> [by |-> F[j].by, text |-> F[j].text]]
  BY <1>5, <1>6
<1>8. T.rows = S.rows /\ T.facts = F /\ T.chats = S.chats
  BY <1>2
<1> HIDE DEF T, F
<1>9. StoreTyped(T)
  BY <1>2, <1>7, <1>8 DEF StoreTyped
<1>10. Grows(S, T)
  BY <1>4, <1>8 DEF Grows
<1> QED BY <1>8, <1>9, <1>10 DEF T

ChatTyped(c) == c = [scope |-> c.scope, closed |-> c.closed, log |-> c.log] /\ IsList(c.log)

LEMMA ChatAdded ==
  ASSUME NEW S, StoreTyped(S), NEW c, ChatTyped(c), NEW T, T = [S EXCEPT !.chats = Append(@, c)]
  PROVE  /\ StoreTyped(T) /\ Grows(S, T) /\ Len(S.chats) + 1 \in DOMAIN T.chats
         /\ T.chats[Len(S.chats) + 1] = c
         /\ \A i \in DOMAIN S.chats : T.chats[i] = S.chats[i]
<1> DEFINE R == Append(S.chats, c)
<1>1. S = [rows |-> S.rows, facts |-> S.facts, chats |-> S.chats]
  BY DEF StoreTyped
<1>2. T = [rows |-> S.rows, facts |-> S.facts, chats |-> R]
  BY <1>1
<1>3. /\ IsList(R) /\ DOMAIN R = 1..(Len(S.chats) + 1) /\ R[Len(S.chats) + 1] = c
      /\ \A i \in 1..Len(S.chats) : R[i] = S.chats[i]
  BY ListedAppend DEF StoreTyped
<1>4. Len(S.chats) \in Nat /\ DOMAIN S.chats = 1..Len(S.chats)
  BY ListedFacts DEF StoreTyped
<1>5. T.rows = S.rows /\ T.facts = S.facts /\ T.chats = R
  BY <1>2
<1> HIDE DEF R
<1>6. \A i \in DOMAIN R : ChatTyped(R[i])
  <2>1. \A i \in 1..(Len(S.chats) + 1) : i \in 1..Len(S.chats) \/ i = Len(S.chats) + 1
    BY <1>4
  <2>2. \A i \in DOMAIN S.chats : ChatTyped(S.chats[i])
    BY DEF StoreTyped, ChatTyped
  <2> QED BY <1>3, <1>4, <2>1, <2>2
<1>7. StoreTyped(T)
  BY <1>2, <1>3, <1>5, <1>6 DEF StoreTyped, ChatTyped
<1>8. \A i \in DOMAIN S.chats : i \in DOMAIN R /\ R[i] = S.chats[i]
  BY <1>3, <1>4
<1>9. Grows(S, T)
  BY <1>5, <1>8 DEF Grows
<1>10. Len(S.chats) + 1 \in DOMAIN R
  BY <1>3, <1>4
<1> QED BY <1>3, <1>5, <1>7, <1>8, <1>9, <1>10

LEMMA ChatChanged ==
  ASSUME NEW S, StoreTyped(S), NEW i \in DOMAIN S.chats, NEW c, ChatTyped(c)
  PROVE  LET T == [S EXCEPT !.chats[i] = c] IN
         /\ StoreTyped(T) /\ Grows(S, T)
         /\ T.chats[i] = c /\ \A j \in DOMAIN S.chats \ {i} : T.chats[j] = S.chats[j]
<1> DEFINE T == [S EXCEPT !.chats[i] = c]
           R == [S.chats EXCEPT ![i] = c]
<1>1. S = [rows |-> S.rows, facts |-> S.facts, chats |-> S.chats]
  BY DEF StoreTyped
<1>2. T = [rows |-> S.rows, facts |-> S.facts, chats |-> R]
  BY <1>1
<1>3. /\ IsList(R) /\ DOMAIN R = DOMAIN S.chats /\ R[i] = c
      /\ \A j \in DOMAIN S.chats \ {i} : R[j] = S.chats[j]
  BY ListedExcept DEF StoreTyped
<1>4. T.rows = S.rows /\ T.facts = S.facts /\ T.chats = R
  BY <1>2
<1> HIDE DEF T, R
<1>5. \A j \in DOMAIN R : ChatTyped(R[j])
  BY <1>3 DEF StoreTyped, ChatTyped
<1>6. StoreTyped(T)
  BY <1>2, <1>3, <1>4, <1>5 DEF StoreTyped, ChatTyped
<1>7. Grows(S, T)
  BY <1>3, <1>4 DEF Grows
<1> QED BY <1>3, <1>4, <1>6, <1>7 DEF T

\* The moments before a step of r stay what they were.
LEMMA PastStays ==
  ASSUME PastInv, NEW r \in Requests, UNCHANGED call, Effects(r)
  PROVE  /\ PastInv' /\ Now \in Nat /\ Now' \in Nat /\ Now <= Now'
         /\ store = StoreAt(Now) /\ store' = StoreAt(Now)' /\ StoreTyped(store)
         /\ \A i \in 0..Now : StoreAt(i)' = StoreAt(i)
<1>1. Now \in Nat /\ store = StoreAt(Now) /\ StoreTyped(store)
  BY PastFacts
<1>2. CASE UNCHANGED <<store, past>>
  <2>1. PastInv' /\ Now' = Now /\ \A i : StoreAt(i)' = StoreAt(i)
    BY <1>2, QuietPast
  <2>2. store' = StoreAt(Now)'
    BY <2>1 DEF PastInv, PastTyped
  <2> QED BY <1>1, <2>1, <2>2
<1>3. ASSUME IsRecord(r), NEW what, NEW id, Commits(r, what, id)
      PROVE  PastInv' /\ Now' = Now + 1 /\ (\A i \in 0..Now : StoreAt(i)' = StoreAt(i)) /\ store' = StoreAt(Now)'
  <2>1. PastInv' /\ Now' = Now + 1 /\ \A i \in 0..Now : StoreAt(i)' = StoreAt(i)
    BY <1>3, CommitsPast
  <2> QED BY <2>1 DEF PastInv, PastTyped
<1> QED BY <1>1, <1>2, <1>3 DEF Effects

\* Where a handler began.
Since(r) == IF pc[r] = "body" THEN Now ELSE own[r].from

\* What no other transaction is to know: r holds h now.
LEMMA HoldsOn ==
  ASSUME LifeInv, RecordsInv, NEW r \in Requests, NEW h, Held(r, h), DOMAIN h = DOMAIN NothingHeld,
         h.wrote = <<>>, NEW x, pc' = [pc EXCEPT ![r] = x]
  PROVE  HeldInv' /\ own'[r] = h /\ pc'[r] = x /\ \A q \in Requests \ {r} : own'[q] = own[q] /\ pc'[q] = pc[q]
<1>1. DOMAIN own = Requests /\ own' = [own EXCEPT ![r] = h]
  BY DEF RecordsInv, HeldInv, Held
<1>2. DOMAIN pc = Requests
  BY DEF LifeInv, Types
<1>3. own'[r] = h /\ pc'[r] = x /\ DOMAIN own' = Requests
      /\ \A q \in Requests \ {r} : own'[q] = own[q] /\ pc'[q] = pc[q]
  BY <1>1, <1>2
<1>4. DOMAIN h.wrote = {}
  OBVIOUS
<1>5. \A q \in Requests : pc'[q] # "put" => own'[q].wrote = <<>>
  BY <1>3 DEF RecordsInv, HeldInv
<1>6. \A p, q \in Requests : p # q => DOMAIN own'[p].wrote \cap DOMAIN own'[q].wrote = {}
  BY <1>3, <1>4 DEF RecordsInv, HeldInv
<1>7. \A q \in Requests : DOMAIN own'[q] = DOMAIN NothingHeld
  BY <1>3 DEF RecordsInv, HeldInv
<1> QED BY <1>3, <1>5, <1>6, <1>7 DEF HeldInv

\* What the answer says of the outcome.
LEMMA OutcomeIsTold ==
  ASSUME NEW r, NEW v, UNCHANGED call, MayCome(Order(r), v),
         reply'[r] = AnswerTo(Order(r), v)
  PROVE  Outcome(r)' = v /\ (Succeeded(r)' <=> v = "ok")
<1>1. Order(r)' = Order(r)
  BY OrdersStay
<1>2. Succeeded(r)' <=> v = "ok"
  BY <1>1 DEF Succeeded, AnswerTo, Success, MayCome
<1> QED BY <1>2 DEF Outcome, AnswerTo

\* What only some calls are answered.
LEMMA SuccessIsWritten ==
  ASSUME NEW a, a.op \notin {"create", "patch", "batch"}
  PROVE  Success(a) = "ok" /\ ~Unrendered(a)
BY DEF Success, Unrendered

\* A handler ends, and what it has come to was right at some moment since it began.
LEMMA EndsRecord ==
  ASSUME LifeInv, RecordsInv, NEW r \in Requests, IsRecord(r), pc[r] \in RecordPcs \cup {"body"},
         NEW a, MayCome(Order(r), a), Ends(r, AnswerTo(Order(r), a)), Effects(r),
         JudgedBetween(r, a, Since(r), Now), a = "ok" => Fulfilled(r)'
  PROVE  RecordOf(r)' /\ HeldInv'
<1> DEFINE f == Since(r)
           h == [NothingHeld EXCEPT !.chat = own[r].chat, !.to = Len(past'.done),
                   !.from = IF pc[r] = "body" THEN Len(past.done) ELSE own[r].from]
<1>1. PastInv /\ RecordOf(r) /\ HeldInv
  BY DEF RecordsInv
<1>2. Held(r, h) /\ Answer(r, AnswerTo(Order(r), a))
  BY DEF Ends
<1>3. /\ DOMAIN h = DOMAIN NothingHeld /\ h.wrote = <<>>
      /\ h.chat = own[r].chat /\ h.to = Now' /\ h.from = f
  BY DEF NothingHeld, Now, Since
<1>4. /\ call' = call /\ conn' = conn /\ pc' = [pc EXCEPT ![r] = "close"]
      /\ reply'[r] = AnswerTo(Order(r), a)
  BY <1>2 DEF Answer, LifeInv, Types
<1>5. Now \in Nat /\ Now' \in Nat /\ Now <= Now' /\ \A i \in 0..Now : StoreAt(i)' = StoreAt(i)
  BY <1>1, <1>4, PastStays
<1>6. f \in 0..Now
  BY <1>1, <1>5 DEF RecordOf, Since
<1> HIDE DEF h, f
<1>7. HeldInv' /\ own'[r] = h /\ pc'[r] = "close"
  BY <1>2, <1>3, <1>4, HoldsOn
<1>8. own'[r].chat = own[r].chat /\ own'[r].from = f /\ own'[r].to = Now'
  BY <1>3, <1>7
<1>9. /\ \A i \in 0..Now : \A v : Truly(r, i, v)' = Truly(r, i, v)
      /\ \A i \in 0..Now : \A id : RowAt(i, id)' = RowAt(i, id)
  BY <1>4, <1>5, <1>8, MomentsStay
<1>10. Order(r)' = Order(r) /\ IsRecord(r)' = IsRecord(r)
  BY <1>4, OrdersStay
<1>11. \A i \in f..Now : i \in 0..Now /\ i \in f..Now'
  BY <1>5, <1>6
<1>12. PICK g, t : g = f /\ t = Now'
  OBVIOUS
<1>13. JudgedBetween(r, a, g, t)'
  <2>1. JudgedBetween(r, a, f, Now)
    BY DEF f
  <2>2. PICK id : id = Order(r).id
    OBVIOUS
  <2>3. CASE a \in {"null", "internal error"}
    <3>1. PICK i, j \in f..Now : /\ i < j /\ RowAt(j, id) = Gone
             /\ IF Order(r).op = "patch" THEN a = "null" /\ ~Truly(r, i, "not found")
                ELSE a = "internal error" /\ Truly(r, i, "ok")
      BY <2>1, <2>2, <2>3 DEF JudgedBetween
    <3>2. i \in g..t /\ j \in g..t /\ RowAt(j, id)' = RowAt(j, id)
          /\ \A v : Truly(r, i, v)' = Truly(r, i, v)
      BY <1>9, <1>11, <1>12
    <3> QED BY <1>10, <2>2, <2>3, <3>1, <3>2 DEF JudgedBetween
  <2>4. CASE a \notin {"null", "internal error"}
    <3>1. PICK i \in f..Now : Truly(r, i, a)
      BY <2>1, <2>4 DEF JudgedBetween
    <3>2. i \in g..t /\ Truly(r, i, a)'
      BY <1>9, <1>11, <1>12, <3>1
    <3> QED BY <2>4, <3>2 DEF JudgedBetween
  <2> QED BY <2>3, <2>4
<1>14. g \in 0..Now' /\ t \in 0..Now'
  BY <1>5, <1>6, <1>12
<1>16. Outcome(r)' = a /\ (Succeeded(r)' <=> a = "ok")
  BY <1>4, OutcomeIsTold
<1>15. JudgedBetween(r, Outcome(r), own[r].from, own[r].to)'
  BY <1>8, <1>12, <1>13, <1>16
<1>17. (reply[r] = AnswerTo(Order(r), Outcome(r)))'
  BY <1>4, <1>10, <1>16 DEF AnswerTo
<1> QED BY <1>7, <1>8, <1>10, <1>12, <1>14, <1>15, <1>16, <1>17 DEF RecordOf, RecordPcs, Before

\* It ends where nothing is left to commit.
LEMMA RestsRecord ==
  ASSUME LifeInv, RecordsInv, NEW r \in Requests, IsRecord(r), pc[r] \in RecordPcs \cup {"body"},
         NEW a, MayCome(Order(r), a), Refuses(r, AnswerTo(Order(r), a)),
         JudgedBetween(r, a, Since(r), Now), a = "ok" => Fulfilled(r)
  PROVE  Effects(r) /\ RecordOf(r)' /\ HeldInv'
<1>1. UNCHANGED <<store, past>> /\ Ends(r, AnswerTo(Order(r), a))
  BY DEF Refuses, Undone
<1>2. Effects(r)
  BY <1>1 DEF Effects
<1>3. call' = call /\ own'[r].chat = own[r].chat
  BY <1>1 DEF Ends, Answer, Held, NothingHeld, RecordsInv, HeldInv
<1>4. Order(r)' = Order(r) /\ EntriesOf(r)' = EntriesOf(r) /\ CountOf(r)' = CountOf(r)
  BY <1>1, <1>3, OrdersStay, QuietPast DEF RecordsInv
<1>5. MovedByAnother(r)' = MovedByAnother(r)
  BY <1>1, <1>3, <1>4 DEF MovedByAnother
<1>6. StepsOf(Order(r))' = StepsOf(Order(r))
  BY <1>4 DEF StepsOf
<1>7. Fulfilled(r)' = Fulfilled(r)
  BY <1>4, <1>5, <1>6 DEF Fulfilled
<1> QED BY <1>1, <1>2, <1>7, EndsRecord

LEMMA RefusesRecord ==
  ASSUME LifeInv, RecordsInv, NEW r \in Requests, IsRecord(r), pc[r] \in RecordPcs \cup {"body"},
         NEW a, a \in {"ok", "internal error"} => ~Unrendered(Order(r)), Refuses(r, a),
         JudgedBetween(r, a, Since(r), Now), a = "ok" => Fulfilled(r)
  PROVE  Effects(r) /\ RecordOf(r)' /\ HeldInv'
<1>1. AnswerTo(Order(r), a) = a /\ MayCome(Order(r), a)
  BY DEF AnswerTo, Success, MayCome
<1> QED BY <1>1, RestsRecord

\* The last step of a call is committed, and it ends.
LEMMA CommitsRecord ==
  ASSUME LifeInv, RecordsInv, NEW r \in Requests, IsRecord(r), pc[r] \in RecordPcs \cup {"body"},
         NEW what, NEW id, Commits(r, what, id), Ends(r, Success(Order(r))),
         CountOf(r) + 1 = Len(StepsOf(Order(r))), \E i \in Since(r)..Now : Truly(r, i, "ok")
  PROVE  Effects(r) /\ RecordOf(r)' /\ HeldInv'
<1>1. Effects(r) /\ call' = call
  BY DEF Effects, Ends, Answer
<1>2. CountOf(r)' = CountOf(r) + 1
  BY <1>1, CommitsPast DEF RecordsInv
<1>3. StepsOf(Order(r))' = StepsOf(Order(r))
  BY <1>1, OrdersStay DEF StepsOf
<1>4. Fulfilled(r)'
  BY <1>2, <1>3 DEF Fulfilled
<1>5. JudgedBetween(r, "ok", Since(r), Now) /\ AnswerTo(Order(r), "ok") = Success(Order(r))
  BY DEF JudgedBetween, AnswerTo
<1>6. MayCome(Order(r), "ok")
  BY DEF MayCome
<1> QED BY <1>1, <1>4, <1>5, <1>6, EndsRecord

LEMMA AtOnce ==
  ASSUME NEW n \in Nat
  PROVE  n \in n..n
OBVIOUS

\* Where a handler begins.
LEMMA AtTheBody ==
  ASSUME RecordsInv, NEW r \in Requests, NEW op, NEW route, AtBody(r, op, route)
  PROVE  /\ pc[r] = "body" /\ IsRecord(r) /\ Order(r).op = op /\ Order(r).route = route
         /\ own[r] = NothingHeld /\ EntriesOf(r) = {} /\ CountOf(r) = 0
         /\ OrderTyped(Order(r)) /\ store = StoreAt(Now) /\ StoreTyped(store) /\ Now \in Nat
         /\ Since(r) = Now
<1>1. pc[r] = "body" /\ IsRecord(r) /\ Order(r).op = op /\ Order(r).route = route
  BY DEF AtBody
<1>2. own[r] = NothingHeld /\ EntriesOf(r) = {}
  BY <1>1 DEF RecordsInv, RecordOf, Before
<1>3. CountOf(r) = 0 /\ store = StoreAt(Now) /\ StoreTyped(store) /\ Now \in Nat
  BY <1>2, PastFacts DEF RecordsInv
<1>4. OrderTyped(Order(r))
  BY <1>1 DEF RecordsInv, PastInv
<1> QED BY <1>1, <1>2, <1>3, <1>4 DEF Since

\* A refusal at the body, true of the store as it is.
LEMMA RefusesAtBody ==
  ASSUME LifeInv, RecordsInv, NEW r \in Requests, NEW op, NEW route, AtBody(r, op, route),
         NEW a, a \notin {"ok", "null", "internal error"}, Refuses(r, a),
         a \in Verdicts(store, r)
  PROVE  Effects(r) /\ RecordOf(r)' /\ HeldInv'
<1>1. pc[r] = "body" /\ IsRecord(r) /\ store = StoreAt(Now) /\ Now \in Nat /\ Since(r) = Now
  BY AtTheBody
<1>2. Truly(r, Now, a) /\ Now \in Now..Now
  <2>1. a \in Verdicts(StoreAt(Now), r)
    BY <1>1
  <2>2. Truly(r, Now, a)
    BY <2>1 DEF Truly
  <2>3. Now \in Now..Now
    BY <1>1, AtOnce
  <2> QED BY <2>2, <2>3
<1>3. JudgedBetween(r, a, Since(r), Now)
  BY <1>1, <1>2 DEF JudgedBetween
<1> QED BY <1>1, <1>3, RefusesRecord

\* The only step of a call, at its body.
LEMMA CommitsAtBody ==
  ASSUME LifeInv, RecordsInv, NEW r \in Requests, NEW op, NEW route, AtBody(r, op, route),
         NEW what, NEW id, Enter(r, what, id), store' = EffectOf(store, Entry(r, what, id)),
         StoreTyped(store'), Grows(store, store'), Ends(r, Success(Order(r))),
         \A i \in DOMAIN store.chats :
           store'.chats[i].scope = store.chats[i].scope \/ (what = "scope" /\ id = i),
         StepsOf(Order(r)) = <<what>>, "ok" \in Verdicts(store, r)
  PROVE  Effects(r) /\ RecordOf(r)' /\ HeldInv'
<1>1. /\ pc[r] = "body" /\ IsRecord(r) /\ store = StoreAt(Now) /\ Now \in Nat /\ Since(r) = Now
      /\ CountOf(r) = 0
  BY AtTheBody
<1>2. Truly(r, Now, "ok") /\ Now \in Now..Now
  BY <1>1 DEF Truly
<1>3. CountOf(r) + 1 = Len(StepsOf(Order(r))) /\ CountOf(r) + 1 \in DOMAIN StepsOf(Order(r))
      /\ StepsOf(Order(r))[CountOf(r) + 1] = what
  BY <1>1
<1>4. Commits(r, what, id)
  BY <1>3 DEF Commits
<1> QED BY <1>1, <1>2, <1>3, <1>4, CommitsRecord

LEMMA CreateRowGoes ==
  ASSUME LifeInv, RecordsInv, NEW r \in Requests, NEW route \in DOMAIN KindsOf, CreateRow(r, route)
  PROVE  Effects(r) /\ RecordOf(r)' /\ HeldInv'
<1> DEFINE a == Order(r)
           x == [kind |-> a.set.kind, name |-> a.set.name, closed |-> FALSE]
<1>1. AtBody(r, "create", route)
  BY DEF CreateRow
<1>2. /\ a.op = "create" /\ OrderTyped(a) /\ StoreTyped(store)
  BY <1>1, AtTheBody
<1>3. Verdicts(store, r) = {IF a.bad THEN "bad request" ELSE IF NameTaken(store, a) THEN "conflict" ELSE "ok"}
  BY <1>2, RowVerdicts
<1>4. CASE a.bad /\ Refuses(r, "bad request")
  BY <1>1, <1>3, <1>4, RefusesAtBody DEF Unserved
<1>5. CASE ~a.bad /\ NameTaken(store, a) /\ Refuses(r, "conflict")
  BY <1>1, <1>3, <1>5, RefusesAtBody DEF Unserved
<1>6. CASE /\ ~a.bad /\ ~NameTaken(store, a)
           /\ store' = [store EXCEPT !.rows = Append(@, Overlaid([closed |-> FALSE], a.set))]
           /\ Enter(r, "create", Len(store.rows) + 1) /\ Ends(r, Success(a))
  <2>1. PICK k, n : a.set = [kind |-> k, name |-> n]
    BY <1>2 DEF OrderTyped
  <2>2. Overlaid([closed |-> FALSE], [kind |-> k, name |-> n]) = [kind |-> k, name |-> n, closed |-> FALSE]
    <3> DEFINE f == [closed |-> FALSE]
               g == [kind |-> k, name |-> n]
               y == [kind |-> k, name |-> n, closed |-> FALSE]
    <3>1. DOMAIN f \cup DOMAIN g = {"kind", "name", "closed"} /\ DOMAIN g = {"kind", "name"}
      OBVIOUS
    <3>2. y = [c \in {"kind", "name", "closed"} |-> y[c]]
      OBVIOUS
    <3>3. \A c \in {"kind", "name", "closed"} : y[c] = IF c \in DOMAIN g THEN g[c] ELSE f[c]
      <4>1. /\ y["kind"] = g["kind"] /\ y["name"] = g["name"] /\ y["closed"] = f["closed"]
        OBVIOUS
      <4>2. "closed" \notin DOMAIN g
        OBVIOUS
      <4> HIDE DEF f, y
      <4> QED BY <3>1, <4>1, <4>2
    <3> HIDE DEF f, g, y
    <3>4. Overlaid(f, g) = y
      BY <3>1, <3>2, <3>3 DEF Overlaid
    <3> QED BY <3>4 DEF f, g, y
  <2>3. Overlaid([closed |-> FALSE], a.set) = x
    BY <2>1, <2>2
  <2>4. RowTyped(x)
    BY DEF RowTyped
  <2>5. EffectOf(store, Entry(r, "create", Len(store.rows) + 1)) = [store EXCEPT !.rows = Append(@, x)]
    BY DEF EffectOf, Entry
  <2> HIDE DEF x
  <2>6. store' = [store EXCEPT !.rows = Append(@, x)]
    BY <1>6, <2>3
  <2>7. StoreTyped(store') /\ Grows(store, store') /\ store'.chats = store.chats
    BY <1>2, <2>4, <2>6, RowAdded
  <2>8. StepsOf(a) = <<"create">>
    BY <1>2, StepsFacts
  <2>9. "ok" \in Verdicts(store, r)
    BY <1>3, <1>6
  <2> HIDE DEF a
  <2> QED BY <1>1, <1>6, <2>5, <2>6, <2>7, <2>8, <2>9, CommitsAtBody DEF a
<1> QED BY <1>4, <1>5, <1>6 DEF CreateRow

LEMMA DeleteRowGoes ==
  ASSUME LifeInv, RecordsInv, NEW r \in Requests, NEW route \in DOMAIN KindsOf, DeleteRow(r, route)
  PROVE  Effects(r) /\ RecordOf(r)' /\ HeldInv'
<1> DEFINE a == Order(r)
<1>1. AtBody(r, "delete", route)
  BY DEF DeleteRow
<1>2. /\ a.op = "delete" /\ a.route = route /\ StoreTyped(store)
  BY <1>1, AtTheBody
<1>3. Verdicts(store, r) = {IF RowIn(store, a.id).kind \in KindsOf[route] THEN "ok" ELSE "not found"}
  BY <1>2, RowVerdicts
<1>4. CASE RowIn(store, a.id).kind \notin KindsOf[route] /\ Refuses(r, "not found")
  BY <1>1, <1>3, <1>4, RefusesAtBody DEF Unserved
<1>5. CASE /\ RowIn(store, a.id).kind \in KindsOf[route]
           /\ store' = [store EXCEPT !.rows[a.id] = Gone]
           /\ Enter(r, "delete", a.id) /\ Ends(r, "ok")
  <2>1. a.id \in DOMAIN store.rows
    BY <1>5, RowInFacts
  <2>2. RowTyped(Gone)
    BY DEF RowTyped
  <2>3. StoreTyped(store') /\ Grows(store, store') /\ store'.chats = store.chats
    BY <1>2, <1>5, <2>1, <2>2, RowChanged
  <2>4. EffectOf(store, Entry(r, "delete", a.id)) = [store EXCEPT !.rows[a.id] = Gone]
    BY DEF EffectOf, Entry
  <2>5. StepsOf(a) = <<"delete">>
    BY <1>2, StepsFacts
  <2>6. "ok" \in Verdicts(store, r)
    BY <1>3, <1>5
  <2>7. Success(a) = "ok"
    BY <1>2, SuccessIsWritten
  <2> QED BY <1>1, <1>5, <2>3, <2>4, <2>5, <2>6, <2>7, CommitsAtBody
<1> QED BY <1>4, <1>5 DEF DeleteRow

----------------------------------------------------------------------------
(***************************************************************************)
(* Records: rows.                                                          *)
(***************************************************************************)

\* What an UPDATE makes of a row, both as the handler says and as its call does.
Altered(a, x) ==
  [c \in DOMAIN x |-> IF a.op = "patch" THEN IF c \in DOMAIN a.set THEN a.set[c] ELSE x[c]
                      ELSE IF c = "closed" THEN a.op # "reopen" ELSE x[c]]

LEMMA AlteredFacts ==
  ASSUME NEW a, OrderTyped(a), a.op \in {"patch", "close", "reopen", "archive"}, NEW x, RowTyped(x), x # Gone,
         x.kind \in KindsOf[a.route], a.route \in DOMAIN KindsOf
  PROVE  /\ Overlaid(x, Assigned(a)) = Altered(a, x) /\ RowTyped(Altered(a, x)) /\ Altered(a, x) # Gone
         /\ \A route \in DOMAIN KindsOf : x.kind \in KindsOf[route] => Altered(a, x).kind \in KindsOf[route]
<1>1. PICK k, n, b : b \in BOOLEAN /\ x = [kind |-> k, name |-> n, closed |-> b]
  BY DEF RowTyped
<1>2. DOMAIN x = {"kind", "name", "closed"}
  BY <1>1
<1>3. CASE a.op = "patch"
  <2>1. Assigned(a) = a.set /\ DOMAIN a.set \subseteq {"kind", "name"}
    BY <1>3 DEF Assigned, OrderTyped
  <2>2. DOMAIN a.set \cup DOMAIN x = DOMAIN x
    BY <1>2, <2>1
  <2>3. Overlaid(x, a.set) = Altered(a, x)
    BY <1>3, <2>2 DEF Overlaid, Altered
  <2>4. Altered(a, x) = [c \in {"kind", "name", "closed"} |-> IF c \in DOMAIN a.set THEN a.set[c] ELSE x[c]]
    BY <1>2, <1>3 DEF Altered
  <2> DEFINE y == Altered(a, x)
  <2>5. /\ DOMAIN y = {"kind", "name", "closed"} /\ y.closed = b
        /\ y.kind = IF "kind" \in DOMAIN a.set THEN a.set.kind ELSE k
    BY <1>1, <2>1, <2>4
  <2>6. y = [c \in {"kind", "name", "closed"} |-> y[c]]
    BY <2>4
  <2> HIDE DEF y
  <2>7. y = [kind |-> y.kind, name |-> y.name, closed |-> y.closed]
    BY <2>6
  <2>8. RowTyped(y) /\ y # Gone
    BY <1>1, <2>5, <2>7 DEF RowTyped, Gone
  <2>9. y.kind \in KindsOf[a.route]
    BY <1>1, <1>3, <2>5 DEF OrderTyped
  <2>10. \A route \in DOMAIN KindsOf : x.kind \in KindsOf[route] => y.kind \in KindsOf[route]
    BY <2>9, KindsDiffer
  <2> QED BY <2>1, <2>3, <2>8, <2>10 DEF y
<1>4. CASE a.op # "patch"
  <2> DEFINE v == (a.op # "reopen")
             y == [kind |-> k, name |-> n, closed |-> v]
  <2>1. Assigned(a) = [closed |-> v]
    BY <1>4 DEF Assigned
  <2>2. Overlaid([kind |-> k, name |-> n, closed |-> b], [closed |-> v]) = y
    BY DEF Overlaid
  <2>3. Altered(a, x) = y
    BY <1>1, <1>2, <1>4 DEF Altered
  <2>4. v \in BOOLEAN
    OBVIOUS
  <2> HIDE DEF v
  <2>5. RowTyped(y) /\ y # Gone /\ y.kind = x.kind
    BY <1>1, <2>4 DEF RowTyped, Gone
  <2> QED BY <1>1, <2>1, <2>2, <2>3, <2>5
<1> QED BY <1>3, <1>4

LEMMA UpdateEffect ==
  ASSUME StoreTyped(store), NEW r, NEW id \in DOMAIN store.rows, OrderTyped(Order(r)),
         Order(r).op \in {"patch", "close", "reopen", "archive"}, store.rows[id] # Gone,
         store.rows[id].kind \in KindsOf[Order(r).route], Order(r).route \in DOMAIN KindsOf,
         store' = [store EXCEPT !.rows[id] = Overlaid(store.rows[id], Assigned(Order(r)))]
  PROVE  /\ store' = EffectOf(store, Entry(r, "update", id))
         /\ StoreTyped(store') /\ Grows(store, store') /\ store'.chats = store.chats
         /\ store'.rows[id] # Gone
<1> DEFINE a == Order(r)
           x == store.rows[id]
           y == Altered(a, x)
<1>1. RowTyped(x)
  BY DEF StoreTyped
<1>2. /\ Overlaid(x, Assigned(a)) = y /\ RowTyped(y) /\ y # Gone
      /\ \A route \in DOMAIN KindsOf : x.kind \in KindsOf[route] => y.kind \in KindsOf[route]
  BY <1>1, AlteredFacts
<1>3. EffectOf(store, Entry(r, "update", id)) = [store EXCEPT !.rows[id] = y]
  BY UpdateFacts DEF Altered
<1> HIDE DEF y
<1>4. store' = [store EXCEPT !.rows[id] = y]
  BY <1>2
<1>5. StoreTyped(store') /\ Grows(store, store') /\ store'.chats = store.chats
  BY <1>2, <1>4, RowChanged
<1>6. store'.rows[id] = y
  BY <1>4 DEF StoreTyped
<1> QED BY <1>2, <1>3, <1>4, <1>5, <1>6

\* A handler goes on to a step of its own.
LEMMA GoesRecord ==
  ASSUME LifeInv, RecordsInv, NEW r \in Requests, IsRecord(r), pc[r] \in RecordPcs \cup {"body"},
         NEW x \in RecordPcs, Go(r, x), Effects(r), own'[r].from = Since(r),
         x \in {"update", "put", "amend", "append", "finalize"} => EntriesOf(r)' = {},
         x = "update" => Looked(r)',
         x = "reload" =>
           Looked(r)' /\ (store'.rows[Order(r).id] = Gone \/ (CountOf(r)' = 1 /\ Once(r, "ok")')),
         x = "put" => Putting(r)', x = "amend" => Amending(r)', x = "scope" => Scoping(r)',
         x = "show" => Showing(r)', x = "append" => Appending(r)',
         x = "finalize" => ChatThere(r)' /\ SessionFound(r, "finalize")'
  PROVE  RecordOf(r)'
<1>1. call' = call /\ pc'[r] = x
  BY DEF Go, LifeInv, Types
<1>2. Order(r)' = Order(r) /\ IsRecord(r)' = IsRecord(r)
  BY <1>1, OrdersStay
<1>3. Now \in Nat /\ Now' \in Nat /\ Now <= Now'
  BY <1>1, PastStays DEF RecordsInv
<1>4. Since(r) \in 0..Now'
  BY <1>3 DEF RecordsInv, RecordOf, Since
<1>5. x \notin Before \cup {"close", "done"}
  BY DEF RecordPcs, Before
<1>6. pc'[r] \in RecordPcs => own'[r].from \in 0..Now' /\ IsRecord(r)'
  BY <1>2, <1>4
<1>7. pc'[r] = "reload" =>
        Looked(r)' /\ (store'.rows[Order(r)'.id] = Gone \/ (CountOf(r)' = 1 /\ Once(r, "ok")'))
  BY <1>1, <1>2
<1>8. pc'[r] \in Before \cup {"update", "put", "amend", "append", "finalize"} => EntriesOf(r)' = {}
  BY <1>1, <1>5
<1>9. /\ pc'[r] = "update" => Looked(r)'
      /\ pc'[r] = "put" => Putting(r)'
      /\ pc'[r] = "amend" => Amending(r)'
      /\ pc'[r] = "scope" => Scoping(r)'
      /\ pc'[r] = "show" => Showing(r)'
      /\ pc'[r] = "append" => Appending(r)'
      /\ pc'[r] = "finalize" => ChatThere(r)' /\ SessionFound(r, "finalize")'
  BY <1>1
<1> QED BY <1>1, <1>5, <1>6, <1>7, <1>8, <1>9 DEF RecordOf

\* A handler begins: it holds h, and has read and written nothing else.
LEMMA BeginsFacts ==
  ASSUME LifeInv, RecordsInv, NEW r \in Requests, NEW op, NEW route, AtBody(r, op, route),
         NEW h, Held(r, h), h.from = Now, h.wrote = <<>>, DOMAIN h = DOMAIN NothingHeld,
         NEW x, Go(r, x), UNCHANGED <<store, past>>
  PROVE  /\ Effects(r) /\ HeldInv' /\ own'[r] = h /\ own'[r].from = Since(r) /\ EntriesOf(r)' = {}
         /\ Now' = Now /\ Now \in own'[r].from..Now' /\ (\A i : StoreAt(i)' = StoreAt(i))
         /\ conn' = conn /\ Order(r)' = Order(r) /\ call' = call
         /\ \A i \in 0..Now : h.chat = own[r].chat =>
              /\ \A v : Truly(r, i, v)' = Truly(r, i, v)
              /\ FitAt(r, i)' = FitAt(r, i)
<1>1. /\ pc[r] = "body" /\ EntriesOf(r) = {} /\ Since(r) = Now /\ Now \in Nat
  BY AtTheBody
<1>2. call' = call /\ conn' = conn /\ pc' = [pc EXCEPT ![r] = x]
  BY DEF Go
<1>3. HeldInv' /\ own'[r] = h
  BY <1>2, HoldsOn
<1>4. Effects(r) /\ Now' = Now /\ (\A i : StoreAt(i)' = StoreAt(i)) /\ EntriesOf(r)' = EntriesOf(r)
  BY <1>2, QuietPast DEF Effects, RecordsInv
<1>5. Order(r)' = Order(r)
  BY <1>2, OrdersStay
<1>6. Now \in own'[r].from..Now'
  BY <1>1, <1>3, <1>4, AtOnce
<1>7. ASSUME h.chat = own[r].chat, NEW i \in 0..Now
      PROVE  (\A v : Truly(r, i, v)' = Truly(r, i, v)) /\ FitAt(r, i)' = FitAt(r, i)
  BY <1>1, <1>2, <1>3, <1>4, <1>7, MomentsStay
<1> QED BY <1>1, <1>2, <1>3, <1>4, <1>5, <1>6, <1>7

\* The row is there, and may be changed as it is.
Fits(op, route, x, fits) ==
  \/ op = "patch" /\ route \in {"notes", "pools", "documenttypes", "episodetypes"} /\ fits = TRUE
  \/ op = "close" /\ route = "notes" /\ fits = MayClose(x)
  \/ op = "reopen" /\ route = "notes" /\ fits = MayReopen(x)
  \/ op = "archive" /\ route = "pools" /\ fits = MayArchive(x)

LEMMA FitsFacts ==
  ASSUME NEW S, StoreTyped(S), NEW r, NEW fits,
         Fits(Order(r).op, Order(r).route, RowIn(S, Order(r).id), fits)
  PROVE  LET a == Order(r)
             x == RowIn(S, a.id) IN
    /\ ChangesRow(a) /\ a.route \in DOMAIN KindsOf
    /\ x.kind \notin KindsOf[a.route] => "not found" \in Verdicts(S, r)
    /\ x.kind \in KindsOf[a.route] /\ ~fits => "conflict" \in Verdicts(S, r)
    /\ x.kind \in KindsOf[a.route] /\ fits =>
         /\ a.op = "patch" => "not found" \notin Verdicts(S, r) /\ (a.bad => "bad request" \in Verdicts(S, r))
         /\ a.op # "patch" => "ok" \in Verdicts(S, r)
<1> DEFINE a == Order(r)
           x == RowIn(S, a.id)
           there == x.kind \in KindsOf[a.route]
<1>1. a.route \in {"notes", "pools", "documenttypes", "episodetypes"} /\ ChangesRow(a)
  BY DEF Fits, ChangesRow
<1>2. a.route \in DOMAIN KindsOf
  BY <1>1 DEF KindsOf
<1>3. CASE a.op = "patch"
  <2>1. Verdicts(S, r) =
         {IF ~there /\ ~(a.bad /\ a.route = "episodes") THEN "not found"
          ELSE IF a.bad THEN "bad request" ELSE IF NameTaken(S, a) THEN "conflict" ELSE "ok"}
    BY <1>3, RowVerdicts
  <2>2. fits = TRUE
    BY <1>3 DEF Fits
  <2>3. ~there => "not found" \in Verdicts(S, r)
    BY <1>1, <2>1
  <2>4. there => "not found" \notin Verdicts(S, r) /\ (a.bad => "bad request" \in Verdicts(S, r))
    BY <2>1
  <2> HIDE DEF a, x, there
  <2>5. ChangesRow(a) /\ a.route \in DOMAIN KindsOf
    BY <1>1, <1>2
  <2> QED BY <1>3, <2>2, <2>3, <2>4, <2>5 DEF a, x, there
<1>4. CASE a.op \in {"close", "reopen", "archive"}
  <2> DEFINE good == (a.route = "notes" => x.kind = "issue") /\ (x.closed <=> a.op = "reopen")
  <2>1. Verdicts(S, r) = {IF ~there THEN "not found" ELSE IF good THEN "ok" ELSE "conflict"}
    BY <1>4, RowVerdicts
  <2>2. there => x.closed \in BOOLEAN
    <3>1. there => a.id \in DOMAIN S.rows /\ S.rows[a.id] # Gone /\ x = S.rows[a.id]
      BY <1>2, RowInFacts
    <3> HIDE DEF x, there
    <3> QED BY <3>1 DEF StoreTyped, RowTyped
  <2>3. there => (fits <=> good)
    BY <1>4, <2>2 DEF Fits, MayClose, MayReopen, MayArchive
  <2> HIDE DEF good
  <2>4. ~there => "not found" \in Verdicts(S, r)
    BY <2>1
  <2>5. there /\ ~fits => "conflict" \in Verdicts(S, r)
    BY <2>1, <2>3
  <2>6. there /\ fits => "ok" \in Verdicts(S, r)
    BY <2>1, <2>3
  <2> QED BY <1>1, <1>2, <1>4, <2>4, <2>5, <2>6
<1> QED BY <1>3, <1>4 DEF Fits

LEMMA LooksGoes ==
  ASSUME LifeInv, RecordsInv, NEW r \in Requests, NEW op, NEW route, NEW fits, Looks(r, op, route, fits),
         Fits(op, route, RowIn(store, Order(r).id), fits)
  PROVE  Effects(r) /\ RecordOf(r)' /\ HeldInv'
<1> DEFINE a == Order(r)
           x == RowIn(store, a.id)
           there == x.kind \in KindsOf[route]
<1>1. AtBody(r, op, route)
  BY DEF Looks
<1>2. /\ a.op = op /\ a.route = route /\ StoreTyped(store) /\ pc[r] = "body" /\ IsRecord(r)
      /\ own[r] = NothingHeld /\ store = StoreAt(Now) /\ Now \in Nat
  BY <1>1, AtTheBody
<1>3. /\ ChangesRow(a) /\ a.route \in DOMAIN KindsOf
      /\ ~there => "not found" \in Verdicts(store, r)
      /\ there /\ ~fits => "conflict" \in Verdicts(store, r)
      /\ there /\ fits =>
           /\ a.op = "patch" => "not found" \notin Verdicts(store, r) /\ (a.bad => "bad request" \in Verdicts(store, r))
           /\ a.op # "patch" => "ok" \in Verdicts(store, r)
  <2>1. Fits(a.op, a.route, x, fits) /\ StoreTyped(store)
    BY <1>2
  <2> HIDE DEF there
  <2>2. LET t == x.kind \in KindsOf[a.route] IN
        /\ ChangesRow(a) /\ a.route \in DOMAIN KindsOf
        /\ ~t => "not found" \in Verdicts(store, r)
        /\ t /\ ~fits => "conflict" \in Verdicts(store, r)
        /\ t /\ fits =>
             /\ a.op = "patch" => "not found" \notin Verdicts(store, r) /\ (a.bad => "bad request" \in Verdicts(store, r))
             /\ a.op # "patch" => "ok" \in Verdicts(store, r)
    BY <2>1, FitsFacts, Zenon
  <2> QED BY <1>2, <2>2 DEF there
<1>4. CASE ~there /\ Refuses(r, "not found")
  BY <1>1, <1>3, <1>4, RefusesAtBody DEF Unserved
<1>5. CASE there /\ ~fits /\ Refuses(r, "conflict")
  BY <1>1, <1>3, <1>5, RefusesAtBody DEF Unserved
<1>6. CASE there /\ fits /\ Held(r, Taken(r)) /\ Go(r, "update") /\ UNCHANGED <<store, past>>
  <2> DEFINE h == Taken(r)
  <2>1. h.from = Now /\ h.wrote = <<>> /\ DOMAIN h = DOMAIN NothingHeld /\ h.chat = own[r].chat
    BY <1>2 DEF Taken, NothingHeld, Now
  <2> HIDE DEF h
  <2>2. /\ Effects(r) /\ HeldInv' /\ own'[r].from = Since(r) /\ EntriesOf(r)' = {}
        /\ Now \in own'[r].from..Now' /\ Order(r)' = Order(r)
        /\ \A i \in 0..Now : FitAt(r, i)' = FitAt(r, i)
    BY <1>1, <1>6, <2>1, BeginsFacts DEF h
  <2>3. Now \in 0..Now
    BY <1>2
  <2>4. a.id \in DOMAIN store.rows /\ store.rows[a.id] # Gone /\ x = store.rows[a.id]
    BY <1>2, <1>3, <1>6, RowInFacts
  <2>5. FitAt(r, Now)
    <3>1. RowAt(Now, a.id) # Gone
      BY <1>2, <2>4 DEF RowAt
    <3>2. \A v : Truly(r, Now, v) <=> v \in Verdicts(store, r)
      BY <1>2 DEF Truly
    <3> QED BY <1>3, <1>6, <3>1, <3>2 DEF FitAt
  <2>6. PICK n : n = Now
    OBVIOUS
  <2>7. FitAt(r, n)' /\ n \in own'[r].from..Now'
    BY <2>2, <2>3, <2>5, <2>6
  <2>8. /\ store' = store /\ store.rows[a.id].kind \in KindsOf[a.route]
    BY <1>2, <1>6, <2>4
  <2>9. ChangesRow(Order(r))'
    BY <1>3, <2>2 DEF ChangesRow
  <2>10. Looked(r)'
    BY <2>2, <2>4, <2>7, <2>8, <2>9 DEF Looked
  <2>11. "update" \in RecordPcs
    BY DEF RecordPcs
  <2> QED BY <1>2, <1>6, <2>2, <2>10, <2>11, GoesRecord
<1> QED BY <1>4, <1>5, <1>6 DEF Looks

\* What r holds stays as it is.
LEMMA KeepsOn ==
  ASSUME LifeInv, RecordsInv, NEW r \in Requests, UNCHANGED own, NEW x, x # "put", pc[r] # "put",
         pc' = [pc EXCEPT ![r] = x]
  PROVE  HeldInv'
<1>1. DOMAIN pc = Requests
  BY DEF LifeInv, Types
<1>2. \A q \in Requests : pc'[q] # "put" => pc[q] # "put"
  BY <1>1
<1> QED BY <1>2 DEF RecordsInv, HeldInv

\* Where a handler is at a step of its own.
LEMMA AtTheStep ==
  ASSUME RecordsInv, NEW r \in Requests, pc[r] \in RecordPcs
  PROVE  /\ IsRecord(r) /\ OrderTyped(Order(r)) /\ Since(r) = own[r].from /\ own[r].from \in 0..Now
         /\ Now \in Nat /\ store = StoreAt(Now) /\ StoreTyped(store) /\ Now \in own[r].from..Now
<1>1. IsRecord(r) /\ own[r].from \in 0..Now
  BY DEF RecordsInv, RecordOf
<1>2. OrderTyped(Order(r))
  BY <1>1 DEF RecordsInv, PastInv
<1>3. Since(r) = own[r].from
  BY DEF Since, RecordPcs
<1>4. Now \in Nat /\ store = StoreAt(Now) /\ StoreTyped(store)
  BY PastFacts DEF RecordsInv
<1>5. Now \in own[r].from..Now
  BY <1>1, <1>4
<1> QED BY <1>1, <1>2, <1>3, <1>4, <1>5

LEMMA UpdateRowGoes ==
  ASSUME LifeInv, RecordsInv, NEW r \in Requests, UpdateRow(r)
  PROVE  Effects(r) /\ RecordOf(r)' /\ HeldInv'
<1> DEFINE a == Order(r)
           x == RowIn(store, a.id)
<1>1. pc[r] = "update" /\ pc[r] \in RecordPcs /\ "reload" \in RecordPcs
  BY DEF UpdateRow, RecordPcs
<1>2. /\ IsRecord(r) /\ OrderTyped(a) /\ Since(r) = own[r].from /\ own[r].from \in 0..Now
      /\ Now \in Nat /\ store = StoreAt(Now) /\ StoreTyped(store) /\ Now \in own[r].from..Now
  BY <1>1, AtTheStep
<1>3. Looked(r) /\ EntriesOf(r) = {} /\ CountOf(r) = 0
  BY <1>1, PastFacts DEF RecordsInv, RecordOf
<1>4. /\ ChangesRow(a) /\ a.id \in DOMAIN store.rows /\ x = store.rows[a.id]
      /\ x = Gone \/ x.kind \in KindsOf[a.route]
  BY <1>3, RowInFacts DEF Looked
<1>5. /\ a.op \in {"patch", "close", "reopen", "archive"} /\ a.route \in DOMAIN KindsOf
      /\ a.op # "patch" => a.route \notin NamedTypes
  BY <1>4 DEF ChangesRow, KindsOf, NamedTypes
<1>6. PICK i \in own[r].from..Now : FitAt(r, i)
  BY <1>3 DEF Looked
<1>7. i \in 0..Now
  BY <1>2
<1>8. \A v : Truly(r, Now, v) <=> v \in Verdicts(store, r)
  BY <1>2 DEF Truly
<1>9. x # Gone /\ a.op = "patch" => Verdicts(store, r) =
        {IF a.bad THEN "bad request" ELSE IF NameTaken(store, a) THEN "conflict" ELSE "ok"}
  <2> SUFFICES ASSUME x # Gone, a.op = "patch"
               PROVE  Verdicts(store, r) =
                        {IF a.bad THEN "bad request" ELSE IF NameTaken(store, a) THEN "conflict" ELSE "ok"}
    OBVIOUS
  <2>1. x.kind \in KindsOf[a.route]
    BY <1>4
  <2>2. Verdicts(store, r) =
         {IF ~(x.kind \in KindsOf[a.route]) /\ ~(a.bad /\ a.route = "episodes") THEN "not found"
          ELSE IF a.bad THEN "bad request" ELSE IF NameTaken(store, a) THEN "conflict" ELSE "ok"}
    BY RowVerdicts
  <2> QED BY <2>1, <2>2
<1>10. CASE a.bad /\ Refuses(r, "bad request")
  <2>1. a.op = "patch"
    BY <1>2, <1>5, <1>10 DEF OrderTyped
  <2>2. Truly(r, i, "bad request")
    BY <1>6, <1>10, <2>1 DEF FitAt
  <2>3. JudgedBetween(r, "bad request", Since(r), Now)
    BY <1>2, <2>2 DEF JudgedBetween
  <2> QED BY <1>1, <1>2, <1>10, <2>3, RefusesRecord DEF Unserved
<1>11. CASE ~a.bad /\ x # Gone /\ NameTaken(store, a) /\ Refuses(r, "conflict")
  <2>1. a.op = "patch"
    BY <1>5, <1>11 DEF NameTaken
  <2>2. Truly(r, Now, "conflict")
    BY <1>8, <1>9, <1>11, <2>1
  <2>3. JudgedBetween(r, "conflict", Since(r), Now)
    BY <1>2, <2>2 DEF JudgedBetween
  <2> QED BY <1>1, <1>2, <1>11, <2>3, RefusesRecord DEF Unserved
<1>12. ASSUME Effects(r), Go(r, "reload"), UNCHANGED own
       PROVE  /\ own'[r].from = Since(r) /\ HeldInv' /\ Order(r)' = Order(r)
              /\ FitAt(r, i)' /\ i \in own'[r].from..Now'
              /\ \A j \in 0..Now : \A v : Truly(r, j, v)' = Truly(r, j, v)
              /\ ChangesRow(Order(r))'
  <2>1. call' = call /\ conn' = conn /\ pc' = [pc EXCEPT ![r] = "reload"]
    BY <1>12 DEF Go
  <2>2. HeldInv'
    BY <1>1, <1>12, <2>1, KeepsOn
  <2>3. Now' \in Nat /\ Now <= Now' /\ \A j \in 0..Now : StoreAt(j)' = StoreAt(j)
    BY <1>12, <2>1, PastStays DEF RecordsInv
  <2>4. /\ FitAt(r, i)' = FitAt(r, i)
        /\ \A j \in 0..Now : \A v : Truly(r, j, v)' = Truly(r, j, v)
    BY <1>2, <1>7, <1>12, <2>1, <2>3, MomentsStay
  <2>5. i \in own'[r].from..Now'
    BY <1>2, <1>12, <2>3
  <2>6. Order(r)' = Order(r)
    BY <2>1, OrdersStay
  <2>7. ChangesRow(Order(r))'
    BY <1>4, <2>6 DEF ChangesRow
  <2> QED BY <1>2, <1>6, <1>12, <2>2, <2>4, <2>5, <2>6, <2>7
<1>13. CASE ~a.bad /\ x = Gone /\ Go(r, "reload") /\ UNCHANGED recordVars
  <2>1. Effects(r) /\ UNCHANGED <<own, store>>
    BY <1>13 DEF Effects, recordVars
  <2>2. /\ own'[r].from = Since(r) /\ HeldInv' /\ Order(r)' = Order(r)
        /\ FitAt(r, i)' /\ i \in own'[r].from..Now' /\ ChangesRow(Order(r))'
    BY <1>12, <1>13, <2>1
  <2>3. Looked(r)'
    BY <1>4, <1>13, <2>1, <2>2 DEF Looked
  <2> QED BY <1>1, <1>2, <1>4, <1>13, <2>1, <2>2, <2>3, GoesRecord
<1>14. CASE /\ ~a.bad /\ x # Gone /\ ~NameTaken(store, a)
            /\ store' = [store EXCEPT !.rows[a.id] = Overlaid(x, Assigned(a))]
            /\ Enter(r, "update", a.id) /\ Go(r, "reload") /\ UNCHANGED own
  <2>1. /\ store' = EffectOf(store, Entry(r, "update", a.id))
        /\ StoreTyped(store') /\ Grows(store, store') /\ store'.chats = store.chats
        /\ store'.rows[a.id] # Gone
    BY <1>2, <1>4, <1>5, <1>14, UpdateEffect
  <2>2. CountOf(r) + 1 \in DOMAIN StepsOf(a) /\ StepsOf(a)[CountOf(r) + 1] = "update"
    BY <1>3, <1>5, StepsFacts
  <2>3. Commits(r, "update", a.id)
    BY <1>14, <2>1, <2>2 DEF Commits
  <2>4. Effects(r) /\ call' = call
    BY <1>2, <1>14, <2>3 DEF Effects, Go
  <2>5. /\ own'[r].from = Since(r) /\ HeldInv' /\ Order(r)' = Order(r)
        /\ FitAt(r, i)' /\ i \in own'[r].from..Now' /\ ChangesRow(Order(r))'
        /\ \A j \in 0..Now : \A v : Truly(r, j, v)' = Truly(r, j, v)
    BY <1>12, <1>14, <2>4
  <2>6. CountOf(r)' = 1
    BY <1>2, <1>3, <2>3, <2>4, CommitsPast DEF RecordsInv
  <2>7. a.id \in DOMAIN store'.rows /\ store'.rows[a.id].kind \in KindsOf[a.route]
    BY <1>4, <1>5, <1>14, <2>1 DEF Grows
  <2>8. Looked(r)'
    BY <2>5, <2>7 DEF Looked
  <2>9. \E j \in own[r].from..Now : Truly(r, j, "ok")
    <3>1. CASE a.op = "patch"
      BY <1>2, <1>8, <1>9, <1>14, <3>1
    <3>2. CASE a.op # "patch"
      BY <1>6, <3>2 DEF FitAt
    <3> QED BY <3>1, <3>2
  <2>10. Once(r, "ok")'
    <3>1. PICK j \in own[r].from..Now : Truly(r, j, "ok")
      BY <2>9
    <3>2. j \in 0..Now
      BY <1>2
    <3>3. Now' \in Nat /\ Now <= Now'
      BY <2>4, PastStays DEF RecordsInv
    <3>4. j \in own[r].from..Now'
      BY <1>2, <3>3
    <3>5. Truly(r, j, "ok")'
      BY <2>5, <3>1, <3>2
    <3> QED BY <1>14, <3>4, <3>5 DEF Once
  <2> QED BY <1>1, <1>2, <1>14, <2>4, <2>5, <2>6, <2>8, <2>10, GoesRecord
<1> QED BY <1>10, <1>11, <1>13, <1>14 DEF UpdateRow

LEMMA ReloadRowGoes ==
  ASSUME LifeInv, RecordsInv, NEW r \in Requests, ReloadRow(r)
  PROVE  Effects(r) /\ RecordOf(r)' /\ HeldInv'
<1> DEFINE a == Order(r)
<1>1. pc[r] = "reload" /\ pc[r] \in RecordPcs
  BY DEF ReloadRow, RecordPcs
<1>2. /\ IsRecord(r) /\ Since(r) = own[r].from /\ own[r].from \in 0..Now
      /\ Now \in Nat /\ store = StoreAt(Now) /\ Now \in own[r].from..Now
  BY <1>1, AtTheStep
<1>3. Looked(r) /\ (store.rows[a.id] = Gone \/ (CountOf(r) = 1 /\ Once(r, "ok")))
  BY <1>1 DEF RecordsInv, RecordOf
<1>4. a.op \in {"patch", "close", "reopen", "archive"} /\ RowIn(store, a.id) = store.rows[a.id]
  BY <1>3, RowInFacts DEF Looked, ChangesRow
<1>5. CASE RowIn(store, a.id) # Gone
  <2>1. Refuses(r, AnswerTo(a, "ok"))
    BY <1>5 DEF ReloadRow, AnswerTo
  <2>2. CountOf(r) = 1 /\ Once(r, "ok")
    BY <1>3, <1>4, <1>5
  <2>3. JudgedBetween(r, "ok", Since(r), Now)
    BY <1>2, <2>2 DEF Once, JudgedBetween
  <2>4. Fulfilled(r)
    BY <1>4, <2>2, StepsFacts DEF Fulfilled
  <2>5. MayCome(a, "ok")
    BY DEF MayCome
  <2> QED BY <1>1, <1>2, <2>1, <2>3, <2>4, <2>5, RestsRecord
<1>6. CASE RowIn(store, a.id) = Gone
  <2> DEFINE v == IF a.op = "patch" THEN "null" ELSE "internal error"
  <2>1. Refuses(r, v)
    BY <1>6 DEF ReloadRow
  <2>2. PICK i \in own[r].from..Now : FitAt(r, i)
    BY <1>3 DEF Looked
  <2>3. RowAt(Now, a.id) = Gone /\ RowAt(i, a.id) # Gone
    BY <1>2, <1>6, <2>2 DEF RowAt, FitAt
  <2>4. i < Now
    BY <1>2, <2>3
  <2>5. JudgedBetween(r, v, Since(r), Now)
    BY <1>2, <2>2, <2>3, <2>4 DEF FitAt, JudgedBetween
  <2>6. v # "ok" /\ (v = "internal error" => ~Unrendered(a))
    BY <1>4, SuccessIsWritten
  <2> HIDE DEF v
  <2> QED BY <1>1, <1>2, <2>1, <2>5, <2>6, RefusesRecord
<1> QED BY <1>5, <1>6

LEMMA PatchEpisodeGoes ==
  ASSUME LifeInv, RecordsInv, NEW r \in Requests, PatchEpisode(r)
  PROVE  Effects(r) /\ RecordOf(r)' /\ HeldInv'
<1> DEFINE a == Order(r)
           x == RowIn(store, a.id)
<1>1. AtBody(r, "patch", "episodes")
  BY DEF PatchEpisode
<1>2. /\ a.op = "patch" /\ a.route = "episodes" /\ OrderTyped(a) /\ StoreTyped(store)
  BY <1>1, AtTheBody
<1>3. "episodes" \in DOMAIN KindsOf /\ KindsOf["episodes"] = {"episode"} /\ "episodes" \notin NamedTypes
  BY DEF KindsOf, NamedTypes
<1>4. Verdicts(store, r) =
         {IF ~(x.kind = "episode") /\ ~a.bad THEN "not found" ELSE IF a.bad THEN "bad request" ELSE "ok"}
  <2>1. Verdicts(store, r) =
         {IF ~(x.kind \in KindsOf[a.route]) /\ ~(a.bad /\ a.route = "episodes") THEN "not found"
          ELSE IF a.bad THEN "bad request" ELSE IF NameTaken(store, a) THEN "conflict" ELSE "ok"}
    BY <1>2, RowVerdicts
  <2>2. ~NameTaken(store, a)
    BY <1>2, <1>3 DEF NameTaken
  <2> QED BY <1>2, <1>3, <2>1, <2>2
<1>5. CASE a.bad /\ Refuses(r, "bad request")
  BY <1>1, <1>4, <1>5, RefusesAtBody DEF Unserved
<1>6. CASE ~a.bad /\ x.kind # "episode" /\ Refuses(r, "not found")
  BY <1>1, <1>4, <1>6, RefusesAtBody DEF Unserved
<1>7. CASE /\ ~a.bad /\ x.kind = "episode"
           /\ store' = [store EXCEPT !.rows[a.id] = Overlaid(x, Assigned(a))]
           /\ Enter(r, "update", a.id) /\ Ends(r, "ok")
  <2>1. x.kind \in KindsOf["episodes"]
    BY <1>3, <1>7
  <2>2. a.id \in DOMAIN store.rows /\ store.rows[a.id] # Gone /\ x = store.rows[a.id]
    BY <1>3, <2>1, RowInFacts
  <2>3. /\ store' = EffectOf(store, Entry(r, "update", a.id))
        /\ StoreTyped(store') /\ Grows(store, store') /\ store'.chats = store.chats
    BY <1>2, <1>3, <1>7, <2>1, <2>2, UpdateEffect
  <2>4. StepsOf(a) = <<"update">>
    BY <1>2, StepsFacts
  <2>5. "ok" \in Verdicts(store, r)
    BY <1>4, <1>7
  <2>6. Success(a) = "ok"
    BY <1>2, <1>3 DEF Success, Unrendered
  <2> QED BY <1>1, <1>7, <2>3, <2>4, <2>5, <2>6, CommitsAtBody
<1> QED BY <1>5, <1>6, <1>7 DEF PatchEpisode

LEMMA RowStepGoes ==
  ASSUME LifeInv, RecordsInv, NEW r \in Requests, RowStep(r)
  PROVE  Effects(r) /\ RecordOf(r)' /\ HeldInv'
<1> DEFINE Goes == Effects(r) /\ RecordOf(r)' /\ HeldInv'
<1>1. DOMAIN KindsOf = {"notes", "pools", "episodes", "documenttypes", "episodetypes"}
  BY DEF KindsOf
<1>2. CASE CreateNote(r) \/ CreatePool(r) \/ CreateDocumentType(r) \/ CreateEpisodeType(r) \/ CreateEpisode(r)
  BY <1>1, <1>2, CreateRowGoes DEF CreateNote, CreatePool, CreateDocumentType, CreateEpisodeType, CreateEpisode
<1>3. CASE DeleteNote(r) \/ DeleteDocumentType(r) \/ DeleteEpisodeType(r) \/ DeleteEpisode(r)
  BY <1>1, <1>3, DeleteRowGoes DEF DeleteNote, DeleteDocumentType, DeleteEpisodeType, DeleteEpisode
<1>4. CASE PatchNote(r) \/ PatchPool(r) \/ PatchDocumentType(r) \/ PatchEpisodeType(r)
  BY <1>4, LooksGoes DEF PatchNote, PatchPool, PatchDocumentType, PatchEpisodeType, Fits
<1>5. CASE CloseIssue(r) \/ ReopenIssue(r) \/ ArchivePool(r)
  BY <1>5, LooksGoes DEF CloseIssue, ReopenIssue, ArchivePool, Fits
<1> HIDE DEF Goes
<1>6. CASE UpdateRow(r) \/ ReloadRow(r) \/ PatchEpisode(r)
  BY <1>6, UpdateRowGoes, ReloadRowGoes, PatchEpisodeGoes DEF Goes
<1> QED BY <1>2, <1>3, <1>4, <1>5, <1>6 DEF RowStep, Goes

----------------------------------------------------------------------------
(***************************************************************************)
(* Records: facts.                                                         *)
(***************************************************************************)

LEMMA ListedFrom ==
  ASSUME NEW W, IsList(W), NEW m \in Nat, m <= Len(W)
  PROVE  /\ m = 0 => SubSeq(W, m + 1, Len(W)) = W
         /\ SubSeq(W, m + 1, Len(W)) = <<>> <=> m = Len(W)
         /\ m < Len(W) => /\ Head(SubSeq(W, m + 1, Len(W))) = W[m + 1]
                          /\ Tail(SubSeq(W, m + 1, Len(W))) = SubSeq(W, m + 2, Len(W))
                          /\ m + 1 \in DOMAIN W
<1> DEFINE S == ToSet(W)
           n == Len(W)
<1>1. W \in Seq(S) /\ n \in Nat /\ DOMAIN W = 1..n
  BY ListedFacts DEF IsList
<1>2. W \in [1..n -> S]
  BY <1>1
<1> HIDE DEF S, n
<1>3. \A i \in (m + 1)..n : i \in 1..n /\ W[i] \in S
  BY <1>1, <1>2
<1>4. /\ SubSeq(W, m + 1, n) \in Seq(S)
      /\ Len(SubSeq(W, m + 1, n)) = IF m + 1 <= n THEN n - (m + 1) + 1 ELSE 0
  BY <1>1, <1>3, SubSeqProperties
<1>5. SubSeq(W, m + 1, n) = <<>> <=> m = n
  <2>1. SubSeq(W, m + 1, n) = <<>> <=> Len(SubSeq(W, m + 1, n)) = 0
    <3>1. \A t \in Seq(S) : t = <<>> <=> Len(t) = 0
      OBVIOUS
    <3> QED BY <1>4, <3>1
  <2>2. m <= n
    BY DEF n
  <2> QED BY <1>1, <1>4, <2>1, <2>2
<1>6. ASSUME m < n
      PROVE  /\ Head(SubSeq(W, m + 1, n)) = W[m + 1]
             /\ Tail(SubSeq(W, m + 1, n)) = SubSeq(W, m + 2, n) /\ m + 1 \in 1..n
  <2>1. m + 1 \in 1..n /\ n \in (m + 1)..n /\ (m + 1) + 1 = m + 2
    BY <1>1, <1>6
  <2>2. \A j \in (m + 1)..n : /\ Head(SubSeq(W, m + 1, j)) = W[m + 1]
                              /\ Tail(SubSeq(W, m + 1, j)) = SubSeq(W, (m + 1) + 1, j)
    BY <1>1, <2>1, HeadTailOfSubSeq DEF n
  <2> QED BY <2>1, <2>2
<1>7. m = 0 => SubSeq(W, m + 1, n) = W
  BY <1>1, SubSeqFull DEF n
<1> QED BY <1>1, <1>5, <1>6, <1>7, ZenonT(40) DEF n

\* The keys of a batch are finitely many.
LEMMA KeysFinite ==
  ASSUME NEW q, IsList(WritesOf(Order(q)))
  PROVE  /\ IsFiniteSet(KeysOf(q))
         /\ KeysOf(q) = {WritesOf(Order(q))[i].key : i \in DOMAIN WritesOf(Order(q))}
<1> DEFINE W == WritesOf(Order(q))
           f == [i \in DOMAIN W |-> W[i].key]
<1>1. Len(W) \in Nat /\ DOMAIN W = 1..Len(W)
  BY ListedFacts
<1>2. KeysOf(q) = {W[i].key : i \in DOMAIN W}
  BY DEF KeysOf, ToSet
<1> HIDE DEF W
<1>3. f \in Surjection(DOMAIN W, KeysOf(q))
  BY <1>2 DEF Surjection
<1>4. IsFiniteSet(DOMAIN W)
  BY <1>1, FS_Interval
<1>5. IsFiniteSet(KeysOf(q))
  BY <1>3, <1>4, FS_Surjection
<1> QED BY <1>2, <1>5 DEF W

\* A batch that is let through.
LEMMA BatchListed ==
  ASSUME NEW a, OrderTyped(a), a.op = "batch", a.route \in {"attributes", "statements", "episodes", "objects"}
  PROVE  /\ IsList(WritesOf(a)) /\ Len(WritesOf(a)) \in Nat /\ DOMAIN WritesOf(a) = 1..Len(WritesOf(a))
         /\ IsList(RowsOf(a)) /\ \A i \in DOMAIN RowsOf(a) : RowTyped(RowsOf(a)[i])
<1>1. IsList(WritesOf(a))
  BY WritesListed DEF OrderTyped
<1>2. IsList(RowsOf(a))
  BY OneListed DEF RowsOf
<1>3. \A n : RowTyped([kind |-> "episode", name |-> n, closed |-> FALSE])
  BY DEF RowTyped
<1>4. \A i \in DOMAIN RowsOf(a) : RowTyped(RowsOf(a)[i])
  <2>1. CASE RowsOf(a) = <<>>
    BY <2>1
  <2>2. CASE RowsOf(a) = <<[kind |-> "episode", name |-> a.items[1].text, closed |-> FALSE]>>
    BY <1>3, <2>2
  <2> QED BY <2>1, <2>2 DEF RowsOf
<1> QED BY <1>1, <1>2, <1>4, ListedFacts

LEMMA BatchGoes ==
  ASSUME LifeInv, RecordsInv, NEW r \in Requests,
         NEW route \in {"attributes", "statements", "episodes", "objects"}, Batch(r, route)
  PROVE  Effects(r) /\ RecordOf(r)' /\ HeldInv'
<1> DEFINE a == Order(r)
           W == WritesOf(a)
           there == route = "episodes" => RowIn(store, a.episode).kind = "episode"
<1>1. AtBody(r, "batch", route)
  BY DEF Batch
<1>2. /\ a.op = "batch" /\ a.route = route /\ OrderTyped(a) /\ store = StoreAt(Now) /\ Now \in Nat
      /\ pc[r] = "body" /\ IsRecord(r) /\ own[r] = NothingHeld
  BY <1>1, AtTheBody
<1>3. /\ a.bad => "bad request" \in Verdicts(store, r)
      /\ ~a.bad /\ ~there => "not found" \in Verdicts(store, r)
  <2>1. Verdicts(store, r) =
         {IF a.bad THEN "bad request"
          ELSE IF a.route = "episodes" /\ RowIn(store, a.episode).kind # "episode" THEN "not found"
          ELSE IF ErrorsOf(a) # {} THEN WritesOf(a)[Min(ErrorsOf(a))].fails ELSE "ok"}
         \cup {d \in {"deadlock"} : Cardinality(Contended(r)) >= 2}
    BY <1>2, FactVerdicts, ZenonT(40)
  <2> QED BY <1>2, <2>1
<1>4. CASE a.bad /\ Refuses(r, "bad request")
  BY <1>1, <1>3, <1>4, RefusesAtBody DEF Unserved
<1>5. CASE ~a.bad /\ ~there /\ Refuses(r, "not found")
  BY <1>1, <1>3, <1>5, RefusesAtBody DEF Unserved
<1>6. CASE /\ ~a.bad /\ there
           /\ Held(r, [Taken(r) EXCEPT !.todo = W, !.rows = RowsOf(a)])
           /\ Go(r, "put") /\ UNCHANGED <<store, past>>
  <2> DEFINE h == [Taken(r) EXCEPT !.todo = W, !.rows = RowsOf(a)]
  <2>1. /\ h.from = Now /\ h.wrote = <<>> /\ DOMAIN h = DOMAIN NothingHeld
        /\ h.todo = W /\ h.rows = RowsOf(a)
    BY <1>2 DEF Taken, NothingHeld, Now
  <2> HIDE DEF h
  <2>2. /\ Effects(r) /\ HeldInv' /\ own'[r] = h /\ own'[r].from = Since(r) /\ EntriesOf(r)' = {}
        /\ Now \in own'[r].from..Now' /\ Order(r)' = Order(r) /\ \A i : StoreAt(i)' = StoreAt(i)
    BY <1>1, <1>6, <2>1, BeginsFacts DEF h
  <2>3. IsList(W) /\ Len(W) \in Nat
    BY <1>2, BatchListed
  <2>4. WroteOf(a, h, 0)
    <3>1. SubSeq(W, 0 + 1, Len(W)) = W
      BY <2>3, ListedFrom
    <3>2. 1..0 = {} /\ DOMAIN h.wrote = {}
      BY <2>1
    <3>3. 0 <= Len(W)
      BY <2>3
    <3> QED BY <2>1, <3>1, <3>2, <3>3 DEF WroteOf
  <2>5. WroteOf(Order(r), own[r], 0)'
    BY <2>2, <2>4 DEF WroteOf
  <2>6. PICK n, e : n = Now /\ e = a.episode
    OBVIOUS
  <2>7. a.route = "episodes" => RowAt(n, e)'.kind = "episode"
    <3>1. RowAt(n, e)' = RowAt(n, e)
      BY <2>2 DEF RowAt
    <3> QED BY <1>2, <1>6, <2>6, <3>1 DEF RowAt
  <2>8. \E i \in own'[r].from..Now' : Order(r)'.route = "episodes" => RowAt(i, Order(r).episode)'.kind = "episode"
    BY <2>2, <2>6, <2>7
  <2>9. /\ Order(r)'.op = "batch" /\ ~Order(r)'.bad
        /\ Order(r)'.route \in {"attributes", "statements", "episodes", "objects"}
        /\ own'[r].rows = RowsOf(Order(r))'
    BY <1>2, <1>6, <2>1, <2>2 DEF RowsOf
  <2>10. Putting(r)'
    BY <2>5, <2>8, <2>9 DEF Putting
  <2>11. "put" \in RecordPcs
    BY DEF RecordPcs
  <2> QED BY <1>2, <1>6, <2>2, <2>10, <2>11, GoesRecord
<1> QED BY <1>4, <1>5, <1>6 DEF Batch

\* A batch that is being written.
LEMMA AtPut ==
  ASSUME RecordsInv, NEW r \in Requests, pc[r] = "put"
  PROVE  LET a == Order(r)
             W == WritesOf(a) IN
         /\ pc[r] \in RecordPcs /\ IsRecord(r) /\ Putting(r) /\ OrderTyped(a) /\ EntriesOf(r) = {} /\ CountOf(r) = 0
         /\ a.op = "batch" /\ ~a.bad /\ a.route \in {"attributes", "statements", "episodes", "objects"}
         /\ IsList(W) /\ Len(W) \in Nat /\ DOMAIN W = 1..Len(W)
         /\ DOMAIN own[r].wrote \subseteq KeysOf(r)
<1> DEFINE a == Order(r)
           W == WritesOf(a)
<1>1. pc[r] \in RecordPcs /\ IsRecord(r) /\ Putting(r) /\ EntriesOf(r) = {}
  BY DEF RecordsInv, RecordOf, RecordPcs
<1>2. OrderTyped(a) /\ CountOf(r) = 0
  BY <1>1, PastFacts DEF RecordsInv, PastInv
<1>3. a.op = "batch" /\ ~a.bad /\ a.route \in {"attributes", "statements", "episodes", "objects"}
  BY <1>1 DEF Putting
<1>4. IsList(W) /\ Len(W) \in Nat /\ DOMAIN W = 1..Len(W)
  BY <1>2, <1>3, BatchListed
<1>5. DOMAIN own[r].wrote \subseteq KeysOf(r)
  <2>1. PICK m \in Nat : WroteOf(a, own[r], m)
    BY <1>1 DEF Putting
  <2>2. DOMAIN own[r].wrote = {W[i].key : i \in 1..m} /\ m <= Len(W)
    BY <2>1 DEF WroteOf
  <2>3. KeysOf(r) = {W[i].key : i \in DOMAIN W}
    BY <1>4, KeysFinite
  <2>4. 1..m \subseteq DOMAIN W
    BY <1>4, <2>2
  <2> HIDE DEF W
  <2> QED BY <2>2, <2>3, <2>4
<1> QED BY <1>1, <1>2, <1>3, <1>4, <1>5

\* What r is to write next.
LEMMA NextWrite ==
  ASSUME RecordsInv, NEW r \in Requests, pc[r] = "put", own[r].todo # <<>>
  PROVE  LET W == WritesOf(Order(r)) IN
         \E m \in Nat : /\ WroteOf(Order(r), own[r], m) /\ m < Len(W) /\ m + 1 \in DOMAIN W
                        /\ Head(own[r].todo) = W[m + 1] /\ Tail(own[r].todo) = SubSeq(W, m + 2, Len(W))
<1> DEFINE W == WritesOf(Order(r))
<1>1. Putting(r) /\ IsList(W) /\ Len(W) \in Nat
  BY AtPut
<1>2. PICK m \in Nat : WroteOf(Order(r), own[r], m)
  BY <1>1 DEF Putting
<1>3. m <= Len(W) /\ own[r].todo = SubSeq(W, m + 1, Len(W))
  BY <1>2 DEF WroteOf
<1> HIDE DEF W
<1>4. m < Len(W)
  BY <1>1, <1>3, ListedFrom
<1>5. /\ Head(own[r].todo) = W[m + 1] /\ Tail(own[r].todo) = SubSeq(W, m + 2, Len(W))
      /\ m + 1 \in DOMAIN W
  BY <1>1, <1>3, <1>4, ListedFrom, ZenonT(40)
<1> QED BY <1>2, <1>4, <1>5 DEF W

\* Whoever waits for another, waits for a fact that both name.
LEMMA WaitsContended ==
  ASSUME RecordsInv, NEW p \in Requests, NEW q \in Requests, Waits(p, q)
  PROVE  LET k == Head(own[p].todo).key IN
         /\ k \in DOMAIN own[q].wrote /\ k \in KeysOf(p) /\ k \in KeysOf(q)
         /\ p # q /\ IsRecord(p) /\ IsRecord(q) /\ Order(p).op = "batch" /\ Order(q).op = "batch"
<1> DEFINE k == Head(own[p].todo).key
           W == WritesOf(Order(p))
<1>1. q # p /\ pc[p] = "put" /\ own[p].todo # <<>> /\ k \in DOMAIN own[q].wrote
  BY DEF Waits
<1>2. own[q].wrote # <<>>
  BY <1>1
<1>3. pc[q] = "put"
  BY <1>2 DEF RecordsInv, HeldInv
<1>4. k \in KeysOf(q) /\ IsRecord(q) /\ Order(q).op = "batch"
  BY <1>1, <1>3, AtPut
<1>5. IsRecord(p) /\ Order(p).op = "batch" /\ IsList(W)
  BY <1>1, AtPut
<1>6. \E j \in DOMAIN W : Head(own[p].todo) = W[j]
  BY <1>1, NextWrite
<1>7. k \in KeysOf(p)
  BY <1>5, <1>6, KeysFinite
<1> QED BY <1>1, <1>4, <1>5, <1>7

LEMMA DeadlockJudged ==
  ASSUME RecordsInv, NEW r \in Requests, pc[r] = "put", Deadlocked(r)
  PROVE  Cardinality(Contended(r)) >= 2
<1>1. PICK U \in SUBSET Requests :
        r \in U /\ \A p \in U : (\E q \in U : Waits(p, q)) /\ \E q \in U : Waits(q, p)
  BY DEF Deadlocked
<1>2. PICK q \in Requests : Waits(r, q)
  BY <1>1
<1>3. PICK p \in Requests : Waits(p, r)
  BY <1>1
<1>4. PICK k : k = Head(own[r].todo).key
  OBVIOUS
<1>5. PICK l : l = Head(own[p].todo).key
  OBVIOUS
<1>6. /\ k \in DOMAIN own[q].wrote /\ k \in KeysOf(r) /\ k \in KeysOf(q)
      /\ r # q /\ IsRecord(q) /\ Order(q).op = "batch"
  BY <1>2, <1>4, WaitsContended
<1>7. /\ l \in DOMAIN own[r].wrote /\ l \in KeysOf(r) /\ l \in KeysOf(p)
      /\ r # p /\ IsRecord(p) /\ Order(p).op = "batch"
  BY <1>3, <1>5, WaitsContended
<1>8. k # l
  BY <1>6, <1>7 DEF RecordsInv, HeldInv
<1>9. k \in Contended(r) /\ l \in Contended(r)
  BY <1>6, <1>7 DEF Contended
<1>10. IsFiniteSet(Contended(r))
  <2>1. IsFiniteSet(KeysOf(r))
    BY AtPut, KeysFinite
  <2>2. Contended(r) \in SUBSET KeysOf(r)
    BY DEF Contended
  <2> QED BY <2>1, <2>2, FS_Subset
<1>11. IsFiniteSet({k}) /\ Cardinality({k}) = 1
  <2>1. Cardinality({} \cup {k}) = 0 + 1 /\ IsFiniteSet({} \cup {k})
    BY FS_EmptySet, FS_AddElement
  <2>2. {} \cup {k} = {k}
    OBVIOUS
  <2> QED BY <2>1, <2>2
<1>12. IsFiniteSet({k} \cup {l}) /\ Cardinality({k} \cup {l}) = 2
  <2>1. l \notin {k}
    BY <1>8
  <2> QED BY <1>11, <2>1, FS_AddElement, SMTT(30)
<1>13. Cardinality({k} \cup {l}) <= Cardinality(Contended(r))
  BY <1>9, <1>10, FS_Subset
<1>14. Cardinality(Contended(r)) \in Nat
  BY <1>10, FS_CardinalityType
<1> QED BY <1>12, <1>13, <1>14

LEMMA NextOrLater ==
  ASSUME NEW m \in Nat, NEW n \in Nat
  PROVE  /\ 1..n \subseteq Nat /\ \A j \in 1..n : j \in 1..m \/ m + 1 <= j
         /\ \A x \in Nat : x <= m + 1 /\ m + 1 <= x => x = m + 1
OBVIOUS

LEMMA PutFactGoes ==
  ASSUME LifeInv, RecordsInv, NEW r \in Requests, PutFact(r)
  PROVE  Effects(r) /\ RecordOf(r)' /\ HeldInv'
<1> DEFINE a == Order(r)
           W == WritesOf(a)
           w == Head(own[r].todo)
<1>1. pc[r] = "put" /\ own[r].todo # <<>> /\ "put" \in RecordPcs
  BY DEF PutFact, RecordPcs
<1>2. /\ pc[r] \in RecordPcs /\ IsRecord(r) /\ Putting(r) /\ EntriesOf(r) = {}
      /\ a.op = "batch" /\ ~a.bad /\ a.route \in {"attributes", "statements", "episodes", "objects"}
      /\ Len(W) \in Nat /\ DOMAIN W = 1..Len(W)
  BY <1>1, AtPut
<1>3. /\ Since(r) = own[r].from /\ own[r].from \in 0..Now /\ Now \in Nat
  BY <1>2, AtTheStep
<1>4. PICK m \in Nat : /\ WroteOf(a, own[r], m) /\ m < Len(W) /\ m + 1 \in DOMAIN W
                       /\ w = W[m + 1] /\ Tail(own[r].todo) = SubSeq(W, m + 2, Len(W))
  BY <1>1, NextWrite
<1>5. PICK i \in own[r].from..Now : a.route = "episodes" => RowAt(i, a.episode).kind = "episode"
  BY <1>2 DEF Putting
<1>6. Verdicts(StoreAt(i), r) =
        {IF ErrorsOf(a) # {} THEN W[Min(ErrorsOf(a))].fails ELSE "ok"}
          \cup {d \in {"deadlock"} : Cardinality(Contended(r)) >= 2}
  <2>1. Verdicts(StoreAt(i), r) =
         {IF a.bad THEN "bad request"
          ELSE IF a.route = "episodes" /\ RowIn(StoreAt(i), a.episode).kind # "episode" THEN "not found"
          ELSE IF ErrorsOf(a) # {} THEN W[Min(ErrorsOf(a))].fails ELSE "ok"}
         \cup {d \in {"deadlock"} : Cardinality(Contended(r)) >= 2}
    BY <1>2, FactVerdicts, ZenonT(40)
  <2>2. ~(a.route = "episodes" /\ RowIn(StoreAt(i), a.episode).kind # "episode")
    BY <1>5 DEF RowAt
  <2> QED BY <1>2, <2>1, <2>2
<1> HIDE DEF W
<1>7. ASSUME NEW why \in {"bad request", "refused"}, w.fails = why, Refuses(r, why)
      PROVE  Effects(r) /\ RecordOf(r)' /\ HeldInv'
  <2>1. m + 1 \in ErrorsOf(a) /\ \A j \in ErrorsOf(a) : m + 1 <= j
    <3>1. ErrorsOf(a) = {j \in DOMAIN W : W[j].fails # "no"}
      BY DEF ErrorsOf, W
    <3>2. \A j \in 1..m : W[j].fails = "no"
      BY <1>4 DEF WroteOf, W
    <3>3. m + 1 \in ErrorsOf(a)
      BY <1>4, <1>7, <3>1
    <3>4. \A j \in 1..Len(W) : j \in 1..m \/ m + 1 <= j
      BY <1>2, <1>4, NextOrLater
    <3>5. \A j \in ErrorsOf(a) : j \in 1..Len(W) /\ j \notin 1..m
      BY <1>2, <3>1, <3>2
    <3> QED BY <3>3, <3>4, <3>5
  <2>2. ErrorsOf(a) \subseteq Nat
    <3>1. ErrorsOf(a) \subseteq DOMAIN W
      BY DEF ErrorsOf, W
    <3>2. 1..Len(W) \subseteq Nat
      BY <1>2, <1>4, NextOrLater
    <3> QED BY <1>2, <3>1, <3>2
  <2>3. Min(ErrorsOf(a)) = m + 1
    <3>0. \A x \in Nat : x <= m + 1 /\ m + 1 <= x => x = m + 1
      BY <1>4, NextOrLater
    <3>1. \A x \in ErrorsOf(a) : (\A j \in ErrorsOf(a) : x <= j) => x = m + 1
      BY <2>1, <2>2, <3>0
    <3> QED BY <2>1, <3>1 DEF Min
  <2>4. Truly(r, i, why)
    BY <1>4, <1>6, <1>7, <2>1, <2>3 DEF Truly
  <2>5. JudgedBetween(r, why, Since(r), Now)
    BY <1>3, <2>4 DEF JudgedBetween
  <2> QED BY <1>2, <1>7, <2>5, RefusesRecord DEF Unserved
<1>8. CASE Deadlocked(r) /\ Refuses(r, "deadlock")
  <2>1. Cardinality(Contended(r)) >= 2
    BY <1>1, <1>8, DeadlockJudged
  <2>2. Truly(r, i, "deadlock")
    BY <1>6, <2>1 DEF Truly
  <2>3. JudgedBetween(r, "deadlock", Since(r), Now)
    BY <1>3, <2>2 DEF JudgedBetween
  <2> QED BY <1>2, <1>8, <2>3, RefusesRecord DEF Unserved
<1>9. CASE /\ w.fails = "no" /\ \A q \in Requests : ~Waits(r, q)
           /\ Held(r, [own[r] EXCEPT !.todo = Tail(@), !.wrote = Overlaid(@, [k \in {w.key} |-> w.text])])
           /\ Go(r, "put") /\ UNCHANGED <<store, past>>
  <2> DEFINE g == own[r].wrote
             v == Overlaid(g, [k \in {w.key} |-> w.text])
             h == [own[r] EXCEPT !.todo = Tail(@), !.wrote = v]
  <2>1. /\ call' = call /\ conn' = conn /\ pc' = [pc EXCEPT ![r] = "put"]
        /\ Held(r, h)
    BY <1>9 DEF Go
  <2>2. DOMAIN own[r] = DOMAIN NothingHeld /\ DOMAIN own = Requests
    BY DEF RecordsInv, HeldInv
  <2>3. /\ DOMAIN h = DOMAIN NothingHeld /\ h.from = own[r].from /\ h.rows = own[r].rows /\ h.chat = own[r].chat
        /\ h.todo = SubSeq(W, m + 2, Len(W)) /\ h.wrote = v
    BY <1>4, <2>2 DEF NothingHeld
  <2>4. /\ DOMAIN v = DOMAIN g \cup {w.key} /\ v[w.key] = w.text
        /\ \A k \in DOMAIN g \ {w.key} : v[k] = g[k]
    BY DEF Overlaid
  <2> HIDE DEF h, v, g
  <2>5. own'[r] = h /\ (\A q \in Requests \ {r} : own'[q] = own[q]) /\ DOMAIN own' = Requests
    BY <2>1, <2>2 DEF Held
  <2>6. \A q \in Requests : pc'[q] # "put" => pc[q] # "put" /\ q # r
    BY <1>1, <2>1 DEF LifeInv, Types
  <2>7. HeldInv'
    <3>1. \A q \in Requests : DOMAIN own'[q] = DOMAIN NothingHeld
      BY <2>3, <2>5 DEF RecordsInv, HeldInv
    <3>2. \A q \in Requests : pc'[q] # "put" => own'[q].wrote = <<>>
      BY <2>5, <2>6 DEF RecordsInv, HeldInv
    <3>3. \A q \in Requests \ {r} : w.key \notin DOMAIN own[q].wrote
      BY <1>1, <1>9 DEF Waits
    <3>4. \A q \in Requests \ {r} : DOMAIN v \cap DOMAIN own[q].wrote = {}
      BY <2>4, <3>3 DEF RecordsInv, HeldInv, g
    <3>5. \A p, q \in Requests : p # q => DOMAIN own'[p].wrote \cap DOMAIN own'[q].wrote = {}
      BY <2>3, <2>5, <3>4 DEF RecordsInv, HeldInv
    <3> QED BY <2>5, <3>1, <3>2, <3>5 DEF HeldInv
  <2>8. /\ Effects(r) /\ Now' = Now /\ (\A j : StoreAt(j)' = StoreAt(j)) /\ EntriesOf(r)' = {}
        /\ Order(r)' = Order(r)
    BY <1>2, <1>9, <2>1, QuietPast, OrdersStay DEF Effects, RecordsInv
  <2>9. WroteOf(a, h, m + 1)
    <3>1. /\ \A j \in 1..m : W[j].fails = "no"
          /\ DOMAIN g = {W[j].key : j \in 1..m}
          /\ \A j \in 1..m : (\A l \in (j + 1)..m : W[l].key # W[j].key) => g[W[j].key] = W[j].text
      BY <1>4 DEF WroteOf, W, g
    <3>2. \A j : j \in 1..(m + 1) <=> j \in 1..m \/ j = m + 1
      BY <1>4
    <3>3. (m + 1) + 1 = m + 2 /\ m + 1 <= Len(W)
      BY <1>2, <1>4
    <3>4. \A j \in 1..(m + 1) : W[j].fails = "no"
      BY <1>4, <1>9, <3>1, <3>2, SMTT(30)
    <3>5. DOMAIN v = {W[j].key : j \in 1..(m + 1)}
      BY <1>4, <2>4, <3>1, <3>2
    <3>6. ASSUME NEW j \in 1..(m + 1), \A l \in (j + 1)..(m + 1) : W[l].key # W[j].key
          PROVE  v[W[j].key] = W[j].text
      <4>1. CASE j = m + 1
        BY <1>4, <2>4, <4>1
      <4>2. CASE j \in 1..m
        <5>1. m + 1 \in (j + 1)..(m + 1) /\ \A l \in (j + 1)..m : l \in (j + 1)..(m + 1)
          BY <1>4, <4>2
        <5>2. W[j].key # w.key /\ g[W[j].key] = W[j].text /\ W[j].key \in DOMAIN g
          BY <1>4, <3>1, <3>6, <4>2, <5>1
        <5> QED BY <2>4, <5>2
      <4> QED BY <3>2, <4>1, <4>2
    <3> QED BY <2>3, <3>3, <3>4, <3>5, <3>6 DEF WroteOf, W
  <2>10. PICK n : n = m + 1
    OBVIOUS
  <2>11. WroteOf(Order(r), own[r], n)' /\ n \in Nat
    BY <2>5, <2>8, <2>9, <2>10 DEF WroteOf
  <2>12. PICK e : e = a.episode
    OBVIOUS
  <2>13. i \in own'[r].from..Now' /\ (a.route = "episodes" => RowAt(i, e)'.kind = "episode")
    <3>1. RowAt(i, e)' = RowAt(i, e)
      BY <2>8 DEF RowAt
    <3> QED BY <1>5, <2>3, <2>5, <2>8, <2>12, <3>1
  <2>14. \E j \in own'[r].from..Now' : Order(r)'.route = "episodes" => RowAt(j, Order(r).episode)'.kind = "episode"
    BY <2>8, <2>12, <2>13
  <2>15. /\ Order(r)'.op = "batch" /\ ~Order(r)'.bad
         /\ Order(r)'.route \in {"attributes", "statements", "episodes", "objects"}
         /\ own'[r].rows = RowsOf(Order(r))'
    BY <1>2, <2>3, <2>5, <2>8 DEF RowsOf, Putting
  <2>16. Putting(r)'
    BY <2>11, <2>14, <2>15 DEF Putting
  <2>17. own'[r].from = Since(r)
    BY <1>3, <2>3, <2>5
  <2> QED BY <1>1, <1>2, <1>9, <2>7, <2>8, <2>16, <2>17, GoesRecord
<1> QED BY <1>7, <1>8, <1>9 DEF PutFact

LEMMA MaxFacts ==
  ASSUME NEW S, S \subseteq Int, IsFiniteSet(S), S # {}
  PROVE  Max(S) \in S /\ \A i \in S : i <= Max(S)
<1>1. PICK m \in S : \A i \in S : i <= m
  BY FiniteSetHasMax
<1>2. \A i \in S : m >= i
  <2>1. \A i, j \in Int : i <= j => j >= i
    OBVIOUS
  <2> QED BY <1>1, <2>1
<1>3. Max(S) \in S /\ \A i \in S : Max(S) >= i
  BY <1>1, <1>2 DEF Max
<1>4. \A i, j \in Int : i >= j => j <= i
  OBVIOUS
<1> QED BY <1>3, <1>4

LEMMA LaterThan ==
  ASSUME NEW m \in Nat, NEW i \in 1..m
  PROVE  \A j \in (i + 1)..m : j \in 1..m /\ ~(j <= i)
OBVIOUS

\* What a batch has written, once it is done, is what it says.
LEMMA WrittenIsSaid ==
  ASSUME NEW r, NEW F, DOMAIN F = Facts, IsList(WritesOf(Order(r))),
         WroteOf(Order(r), own[r], Len(WritesOf(Order(r))))
  PROVE  Stored(r, F) = Said(F, r)
<1> DEFINE W == WritesOf(Order(r))
           n == Len(W)
           of(k) == {i \in DOMAIN W : W[i].key = k}
           g == own[r].wrote
<1>1. n \in Nat /\ DOMAIN W = 1..n
  BY ListedFacts
<1>2. /\ DOMAIN g = {W[i].key : i \in 1..n}
      /\ \A i \in 1..n : (\A j \in (i + 1)..n : W[j].key # W[i].key) => g[W[i].key] = W[i].text
  BY DEF WroteOf
<1>3. Said(F, r) = [k \in Facts |-> IF of(k) = {} THEN F[k]
                      ELSE [by |-> IF F[k] = None THEN <<r>> ELSE F[k].by, text |-> W[Max(of(k))].text]]
  BY DEF Said
<1>4. Stored(r, F) = [k \in Facts |-> IF k \notin DOMAIN g THEN F[k]
                        ELSE [by |-> IF F[k] = None THEN <<r>> ELSE F[k].by, text |-> g[k]]]
  BY DEF Stored
<1> HIDE DEF W, g
<1>5. ASSUME NEW k PROVE k \in DOMAIN g <=> of(k) # {}
  BY <1>1, <1>2
<1> HIDE DEF n
<1>6. ASSUME NEW k, of(k) # {} PROVE g[k] = W[Max(of(k))].text
  <2> DEFINE m == Max(of(k))
  <2>1. of(k) \subseteq 1..n /\ of(k) \subseteq Int
    BY <1>1
  <2>2. IsFiniteSet(of(k))
    BY <1>1, <2>1, FS_Interval, FS_Subset
  <2>3. m \in of(k) /\ \A i \in of(k) : i <= m
    <3> HIDE DEF of
    <3> QED BY <1>6, <2>1, <2>2, MaxFacts
  <2> HIDE DEF m
  <2>4. m \in 1..n /\ W[m].key = k
    BY <1>1, <2>3
  <2>5. \A j \in (m + 1)..n : j \in 1..n /\ ~(j <= m)
    BY <1>1, <2>4, LaterThan
  <2>6. \A j \in (m + 1)..n : W[j].key # W[m].key
    BY <1>1, <2>3, <2>4, <2>5
  <2> QED BY <1>2, <2>4, <2>6 DEF m
<1> HIDE DEF of
<1> QED BY <1>3, <1>4, <1>5, <1>6

LEMMA CommitFactsGoes ==
  ASSUME LifeInv, RecordsInv, NEW r \in Requests, CommitFacts(r)
  PROVE  Effects(r) /\ RecordOf(r)' /\ HeldInv'
<1> DEFINE a == Order(r)
           W == WritesOf(a)
           F == Said(store.facts, r)
<1>1. pc[r] = "put" /\ own[r].todo = <<>>
  BY DEF CommitFacts
<1>2. /\ pc[r] \in RecordPcs /\ IsRecord(r) /\ Putting(r) /\ EntriesOf(r) = {} /\ CountOf(r) = 0
      /\ a.op = "batch" /\ ~a.bad /\ a.route \in {"attributes", "statements", "episodes", "objects"}
      /\ OrderTyped(a) /\ IsList(W) /\ Len(W) \in Nat /\ DOMAIN W = 1..Len(W)
  BY <1>1, AtPut
<1>3. /\ Since(r) = own[r].from /\ own[r].from \in 0..Now /\ Now \in Nat /\ StoreTyped(store)
  BY <1>2, AtTheStep
<1>4. WroteOf(a, own[r], Len(W))
  <2>1. PICK m \in Nat : WroteOf(a, own[r], m)
    BY <1>2 DEF Putting
  <2>2. m <= Len(W) /\ SubSeq(W, m + 1, Len(W)) = <<>>
    BY <1>1, <2>1, SMTT(30) DEF WroteOf
  <2> HIDE DEF W
  <2>3. m = Len(W)
    BY <1>2, <2>2, ListedFrom, ZenonT(40)
  <2> QED BY <2>1, <2>3
<1>5. DOMAIN store.facts = Facts
  BY <1>3 DEF StoreTyped
<1>6. Stored(r, store.facts) = F
  BY <1>2, <1>4, <1>5, WrittenIsSaid
<1>7. own[r].rows = RowsOf(a) /\ IsList(RowsOf(a)) /\ \A i \in DOMAIN RowsOf(a) : RowTyped(RowsOf(a)[i])
  BY <1>2, BatchListed DEF Putting
<1>8. /\ F = [k \in Facts |-> [by |-> F[k].by, text |-> F[k].text]]
      /\ \A k \in Facts : store.facts[k] = None \/ F[k] = None \/ F[k].by = store.facts[k].by
  <2> DEFINE g == own[r].wrote
             fs == store.facts
  <2>1. F = [k \in Facts |-> IF k \notin DOMAIN g THEN fs[k]
                     ELSE [by |-> IF fs[k] = None THEN <<r>> ELSE fs[k].by, text |-> g[k]]]
    BY <1>6 DEF Stored
  <2>2. \A k \in Facts : fs[k] = [by |-> fs[k].by, text |-> fs[k].text]
    BY <1>3 DEF StoreTyped
  <2> HIDE DEF F, g, fs
  <2>3. ASSUME NEW k \in Facts
        PROVE  F[k] = [by |-> F[k].by, text |-> F[k].text] /\ (fs[k] = None \/ F[k].by = fs[k].by)
    <3>1. CASE k \notin DOMAIN g
      BY <2>1, <2>2, <3>1
    <3>2. CASE k \in DOMAIN g
      BY <2>1, <3>2
    <3> QED BY <3>1, <3>2
  <2>4. F = [k \in Facts |-> F[k]]
    BY <2>1
  <2> QED BY <2>3, <2>4 DEF fs
<1>9. store' = [store EXCEPT !.facts = F, !.rows = @ \o RowsOf(a)]
  <2>1. store' = [store EXCEPT !.facts = Stored(r, @), !.rows = @ \o own[r].rows]
    BY DEF CommitFacts
  <2> HIDE DEF F
  <2> QED BY <1>6, <1>7, <2>1
<1>10. StoreTyped(store') /\ Grows(store, store') /\ store'.chats = store.chats
  <2> HIDE DEF F
  <2> QED BY <1>3, <1>7, <1>8, <1>9, FactsWritten, ZenonT(40)
<1>11. store' = EffectOf(store, Entry(r, "batch", 0))
  BY <1>9 DEF EffectOf, Entry
<1>12. CountOf(r) + 1 = Len(StepsOf(a)) /\ CountOf(r) + 1 \in DOMAIN StepsOf(a) /\ StepsOf(a)[CountOf(r) + 1] = "batch"
  <2>1. StepsOf(a) = <<"batch">>
    BY <1>2, StepsFacts
  <2> HIDE DEF a
  <2> QED BY <1>2, <2>1
<1>13. Commits(r, "batch", 0) /\ Ends(r, Success(a))
  BY <1>10, <1>11, <1>12 DEF Commits, CommitFacts
<1>14. PICK i \in own[r].from..Now : a.route = "episodes" => RowAt(i, a.episode).kind = "episode"
  BY <1>2 DEF Putting
<1>15. Truly(r, i, "ok")
  <2>1. Verdicts(StoreAt(i), r) =
         {IF a.bad THEN "bad request"
          ELSE IF a.route = "episodes" /\ RowIn(StoreAt(i), a.episode).kind # "episode" THEN "not found"
          ELSE IF ErrorsOf(a) # {} THEN W[Min(ErrorsOf(a))].fails ELSE "ok"}
         \cup {d \in {"deadlock"} : Cardinality(Contended(r)) >= 2}
    BY <1>2, FactVerdicts, ZenonT(40)
  <2>2. ~(a.route = "episodes" /\ RowIn(StoreAt(i), a.episode).kind # "episode")
    BY <1>14 DEF RowAt
  <2>3. ErrorsOf(a) = {}
    BY <1>2, <1>4 DEF ErrorsOf, WroteOf
  <2> QED BY <1>2, <2>1, <2>2, <2>3 DEF Truly
<1>16. \E j \in Since(r)..Now : Truly(r, j, "ok")
  BY <1>3, <1>15
<1> HIDE DEF a
<1> QED BY <1>2, <1>12, <1>13, <1>16, CommitsRecord DEF a

LEMMA LooksForFactGoes ==
  ASSUME LifeInv, RecordsInv, NEW r \in Requests, NEW op \in {"amend", "drop"}, NEW route,
         LooksForFact(r, op, route)
  PROVE  Effects(r) /\ RecordOf(r)' /\ HeldInv'
<1> DEFINE a == Order(r)
           f == store.facts[a.key]
<1>1. AtBody(r, op, route)
  BY DEF LooksForFact
<1>2. /\ a.op \in {"amend", "drop"} /\ store = StoreAt(Now) /\ Now \in Nat
      /\ pc[r] = "body" /\ IsRecord(r) /\ own[r] = NothingHeld
  BY <1>1, AtTheBody
<1>3. Verdicts(store, r) = IF a.bad THEN {"bad request"} ELSE IF f # None THEN {"ok"}
                           ELSE {"not found", "refused"}
  BY <1>2, FactVerdicts, ZenonT(40)
<1>4. CASE a.bad /\ Refuses(r, "bad request")
  BY <1>1, <1>3, <1>4, RefusesAtBody DEF Unserved
<1>5. CASE ~a.bad /\ f = None /\ Refuses(r, "not found")
  BY <1>1, <1>3, <1>5, RefusesAtBody DEF Unserved
<1>6. CASE /\ ~a.bad /\ f # None /\ Held(r, [Taken(r) EXCEPT !.fact = f])
           /\ Go(r, "amend") /\ UNCHANGED <<store, past>>
  <2> DEFINE h == [Taken(r) EXCEPT !.fact = f]
  <2>1. h.from = Now /\ h.wrote = <<>> /\ DOMAIN h = DOMAIN NothingHeld /\ h.chat = own[r].chat /\ h.fact = f
    BY <1>2 DEF Taken, NothingHeld, Now
  <2>0. Held(r, h) /\ Go(r, "amend") /\ UNCHANGED <<store, past>>
    BY <1>6
  <2> HIDE DEF h
  <2>2. /\ Effects(r) /\ HeldInv' /\ own'[r] = h /\ own'[r].from = Since(r) /\ EntriesOf(r)' = {}
        /\ Now \in own'[r].from..Now' /\ Order(r)' = Order(r)
        /\ \A i \in 0..Now : \A v : Truly(r, i, v)' = Truly(r, i, v)
    <3> HIDE DEF a
    <3> QED BY <1>1, <2>0, <2>1, BeginsFacts
  <2>3. Now \in 0..Now
    BY <1>2
  <2>4. Truly(r, Now, "ok")
    BY <1>2, <1>3, <1>6 DEF Truly
  <2>5. PICK n : n = Now
    OBVIOUS
  <2>6. Truly(r, n, "ok")' /\ n \in own'[r].from..Now'
    BY <2>2, <2>3, <2>4, <2>5
  <2>7. Once(r, "ok")'
    BY <2>6 DEF Once
  <2>8. store'.facts[Order(r)'.key].by = own'[r].fact.by
    BY <1>6, <2>1, <2>2
  <2>9. Order(r)'.op \in {"amend", "drop"} /\ ~Order(r)'.bad
    BY <1>2, <1>6, <2>2
  <2>10. Amending(r)'
    BY <2>7, <2>8, <2>9 DEF Amending
  <2>11. "amend" \in RecordPcs
    BY DEF RecordPcs
  <2> QED BY <1>2, <1>6, <2>2, <2>10, <2>11, GoesRecord
<1> QED BY <1>4, <1>5, <1>6 DEF LooksForFact

LEMMA AmendFactGoes ==
  ASSUME LifeInv, RecordsInv, NEW r \in Requests, AmendFact(r)
  PROVE  Effects(r) /\ RecordOf(r)' /\ HeldInv'
<1> DEFINE a == Order(r)
           k == a.key
           f == store.facts[k]
<1>1. pc[r] = "amend" /\ pc[r] \in RecordPcs
  BY DEF AmendFact, RecordPcs
<1>2. /\ IsRecord(r) /\ OrderTyped(a) /\ Since(r) = own[r].from /\ own[r].from \in 0..Now
      /\ Now \in Nat /\ store = StoreAt(Now) /\ StoreTyped(store) /\ Now \in own[r].from..Now
  BY <1>1, AtTheStep
<1>3. Amending(r) /\ EntriesOf(r) = {} /\ CountOf(r) = 0
  BY <1>1, PastFacts DEF RecordsInv, RecordOf
<1>4. a.op \in {"amend", "drop"} /\ ~a.bad /\ Once(r, "ok") /\ k \in Facts
  BY <1>2, <1>3 DEF Amending, OrderTyped
<1>5. \E i \in Since(r)..Now : Truly(r, i, "ok")
  BY <1>2, <1>4 DEF Once
<1>6. StepsOf(a) = <<a.op>>
  BY <1>4, StepsFacts
<1>11. Success(a) = "ok" /\ ~Unrendered(a)
  BY <1>4, SuccessIsWritten
<1>7. CASE /\ f # None /\ f.by = own[r].fact.by
           /\ store' = [store EXCEPT !.facts[k] = IF a.op = "drop" THEN None ELSE [f EXCEPT !.text = a.text]]
           /\ Enter(r, a.op, 0) /\ Ends(r, "ok")
  <2> DEFINE g == IF a.op = "drop" THEN None ELSE [f EXCEPT !.text = a.text]
  <2>1. f = [by |-> f.by, text |-> f.text]
    BY <1>2, <1>4 DEF StoreTyped
  <2>2. g = [by |-> g.by, text |-> g.text] /\ (g = None \/ g.by = f.by)
    <3>1. CASE a.op = "drop"
      BY <3>1 DEF None
    <3>2. CASE a.op # "drop"
      <4>1. [f EXCEPT !.text = a.text] = [by |-> f.by, text |-> a.text]
        BY <2>1
      <4> QED BY <3>2, <4>1
    <3> QED BY <3>1, <3>2
  <2>3. store' = EffectOf(store, Entry(r, a.op, 0))
    <3>1. CASE a.op = "drop"
      BY <1>7, <3>1 DEF EffectOf, Entry
    <3>2. CASE a.op = "amend"
      BY <1>7, <3>2 DEF EffectOf, Entry
    <3> QED BY <1>4, <3>1, <3>2
  <2> HIDE DEF g
  <2>4. store' = [store EXCEPT !.facts[k] = g]
    BY <1>7 DEF g
  <2>5. StoreTyped(store') /\ Grows(store, store') /\ store'.chats = store.chats
    BY <1>2, <1>4, <2>2, <2>4, FactChanged
  <2>6. CountOf(r) + 1 = Len(StepsOf(a)) /\ CountOf(r) + 1 \in DOMAIN StepsOf(a) /\ StepsOf(a)[CountOf(r) + 1] = a.op
    <3> HIDE DEF a
    <3> QED BY <1>3, <1>6
  <2>7. Commits(r, a.op, 0)
    BY <1>7, <2>3, <2>5, <2>6 DEF Commits
  <2>8. Ends(r, Success(a))
    BY <1>7, <1>11
  <2> HIDE DEF a
  <2> QED BY <1>1, <1>2, <1>5, <2>6, <2>7, <2>8, CommitsRecord DEF a
<1>8. ASSUME f = None \/ f.by # own[r].fact.by
      PROVE  \E i \in Since(r)..Now : Truly(r, i, "not found") /\ Truly(r, i, "refused")
  <2>1. \E i \in own[r].from..Now : StoreAt(i).facts[k] = None
    <3>1. CASE f = None
      BY <1>2, <3>1
    <3>2. CASE f.by # own[r].fact.by
      BY <1>3, <3>2 DEF Amending
    <3> QED BY <1>8, <3>1, <3>2
  <2>2. PICK i \in own[r].from..Now : StoreAt(i).facts[k] = None
    BY <2>1
  <2>3. Verdicts(StoreAt(i), r) =
          IF a.bad THEN {"bad request"} ELSE IF StoreAt(i).facts[k] # None THEN {"ok"}
          ELSE {"not found", "refused"}
    BY <1>4, FactVerdicts
  <2>4. Truly(r, i, "not found") /\ Truly(r, i, "refused")
    BY <1>4, <2>2, <2>3 DEF Truly
  <2> QED BY <1>2, <2>2, <2>4
<1>9. CASE (f = None \/ f.by # own[r].fact.by) /\ Refuses(r, IF a.op = "drop" THEN "ok" ELSE "not found")
  <2>1. CASE a.op = "drop"
    <3>1. JudgedBetween(r, "ok", Since(r), Now)
      BY <1>5 DEF JudgedBetween
    <3>2. Refuses(r, "ok") /\ Fulfilled(r)
      BY <1>9, <2>1 DEF Fulfilled
    <3> QED BY <1>1, <1>2, <1>11, <3>1, <3>2, RefusesRecord
  <2>2. CASE a.op # "drop"
    <3>1. JudgedBetween(r, "not found", Since(r), Now)
      BY <1>8, <1>9 DEF JudgedBetween
    <3>2. Refuses(r, "not found")
      BY <1>9, <2>2
    <3> QED BY <1>1, <1>2, <3>1, <3>2, RefusesRecord DEF Unserved
  <2> QED BY <2>1, <2>2
<1>10. CASE (f = None \/ f.by # own[r].fact.by) /\ Refuses(r, "refused")
  <2>1. JudgedBetween(r, "refused", Since(r), Now)
    BY <1>8, <1>10 DEF JudgedBetween
  <2> QED BY <1>1, <1>2, <1>10, <2>1, RefusesRecord DEF Unserved
<1> QED BY <1>7, <1>9, <1>10 DEF AmendFact

LEMMA FactStepGoes ==
  ASSUME LifeInv, RecordsInv, NEW r \in Requests, FactStep(r)
  PROVE  Effects(r) /\ RecordOf(r)' /\ HeldInv'
<1>1. CASE CreateAttributes(r) \/ CreateStatements(r) \/ CreateEpisodeStatement(r) \/ CreateObject(r)
  BY <1>1, BatchGoes DEF CreateAttributes, CreateStatements, CreateEpisodeStatement, CreateObject
<1>2. CASE PatchAttribute(r) \/ PatchStatement(r) \/ DeleteAttribute(r) \/ DeleteStatement(r)
  BY <1>2, LooksForFactGoes DEF PatchAttribute, PatchStatement, DeleteAttribute, DeleteStatement
<1>3. CASE PutFact(r) \/ CommitFacts(r) \/ AmendFact(r)
  BY <1>3, PutFactGoes, CommitFactsGoes, AmendFactGoes
<1> QED BY <1>1, <1>2, <1>3 DEF FactStep

----------------------------------------------------------------------------
(***************************************************************************)
(* Records: chat sessions.                                                 *)
(***************************************************************************)

\* Changes of one session.
LEMMA SessionSet ==
  ASSUME NEW S, StoreTyped(S), NEW i \in DOMAIN S.chats, NEW T, NEW v,
         \/ T = [S EXCEPT !.chats[i].scope = v]
         \/ T = [S EXCEPT !.chats[i].closed = v]
         \/ T = [S EXCEPT !.chats[i].log = v] /\ IsList(v)
  PROVE  /\ StoreTyped(T) /\ Grows(S, T)
         /\ \A j \in DOMAIN S.chats : j # i => T.chats[j] = S.chats[j]
         /\ T = [S EXCEPT !.chats[i].scope = v] \/ T.chats[i].scope = S.chats[i].scope
<1> DEFINE c == S.chats[i]
<1>1. c = [scope |-> c.scope, closed |-> c.closed, log |-> c.log] /\ IsList(c.log)
  BY DEF StoreTyped
<1>2. ASSUME NEW d, ChatTyped(d), T = [S EXCEPT !.chats[i] = d]
      PROVE  /\ StoreTyped(T) /\ Grows(S, T) /\ T.chats[i] = d
             /\ \A j \in DOMAIN S.chats : j # i => T.chats[j] = S.chats[j]
  BY <1>2, ChatChanged
<1>3. CASE T = [S EXCEPT !.chats[i].scope = v]
  <2> DEFINE d == [scope |-> v, closed |-> c.closed, log |-> c.log]
  <2>1. T = [S EXCEPT !.chats[i] = [c EXCEPT !.scope = v]]
    BY <1>3
  <2> HIDE DEF c
  <2>2. [c EXCEPT !.scope = v] = d /\ ChatTyped(d)
    BY <1>1 DEF ChatTyped
  <2> HIDE DEF d
  <2>3. T = [S EXCEPT !.chats[i] = d]
    BY <2>1, <2>2
  <2> QED BY <1>2, <1>3, <2>2, <2>3
<1>4. CASE T = [S EXCEPT !.chats[i].closed = v]
  <2> DEFINE d == [scope |-> c.scope, closed |-> v, log |-> c.log]
  <2>1. T = [S EXCEPT !.chats[i] = [c EXCEPT !.closed = v]]
    BY <1>4
  <2> HIDE DEF c
  <2>2. [c EXCEPT !.closed = v] = d /\ ChatTyped(d) /\ d.scope = c.scope
    BY <1>1 DEF ChatTyped
  <2> HIDE DEF d
  <2>3. T = [S EXCEPT !.chats[i] = d]
    BY <2>1, <2>2
  <2> QED BY <1>2, <2>2, <2>3 DEF c
<1>5. CASE T = [S EXCEPT !.chats[i].log = v] /\ IsList(v)
  <2> DEFINE d == [scope |-> c.scope, closed |-> c.closed, log |-> v]
  <2>1. T = [S EXCEPT !.chats[i] = [c EXCEPT !.log = v]]
    BY <1>5
  <2> HIDE DEF c
  <2>2. [c EXCEPT !.log = v] = d /\ ChatTyped(d) /\ d.scope = c.scope
    BY <1>1, <1>5 DEF ChatTyped
  <2> HIDE DEF d
  <2>3. T = [S EXCEPT !.chats[i] = d]
    BY <2>1, <2>2
  <2> QED BY <1>2, <2>2, <2>3 DEF c
<1> QED BY <1>3, <1>4, <1>5

\* The engine puts what a session writes where the headers of its call say.
LEMMA HomeAsked ==
  ASSUME LifeInv, NEW r \in Requests, pc[r] \notin {"new", "bind", "close", "done"}
  PROVE  HomeOf(call[r].head) = HomeOf(conn[r].as)
<1> DEFINE h == call[r].head
<1>1. conn[r].as = SessionOf(h)
  BY DEF LifeInv, Bound
<1>2. SessionOf(h).ref = "none" <=> h.ref = "none"
  BY DEF SessionOf, Unrestricted
<1> QED BY <1>1, <1>2 DEF HomeOf

LEMMA SeenStays ==
  ASSUME NEW q, Order(q).op \in {"append", "finalize"}, UNCHANGED call, conn'[q] = conn[q]
  PROVE  \A S : Verdicts(S, q)' = Verdicts(S, q)
<1>1. Order(q)' = Order(q)
  BY OrdersStay
<1>2. \A S : SeesChat(S, conn[q].as, Order(q).chat)' = SeesChat(S, conn[q].as, Order(q).chat)
  BY <1>1 DEF SeesChat, Sees
<1> QED BY <1>1, <1>2 DEF Verdicts

LEMMA StartVerdicts ==
  ASSUME NEW S, NEW r, Order(r).op = "start"
  PROVE  LET may == MayWrite(conn[r].as, HomeOf(conn[r].as)) IN
         /\ ~may => "refused" \in Verdicts(S, r)
         /\ may => "ok" \in Verdicts(S, r)
         /\ may /\ Order(r).scope # "none" => "refused" \in Verdicts(S, r)
         /\ may /\ own[r].chat \in DOMAIN S.chats /\ ~SeesChat(S, conn[r].as, own[r].chat) =>
              "not found" \in Verdicts(S, r)
<1> DEFINE may == MayWrite(conn[r].as, HomeOf(conn[r].as))
           wants == Order(r).scope # "none"
           lost == own[r].chat \in DOMAIN S.chats /\ ~SeesChat(S, conn[r].as, own[r].chat)
<1>1. Verdicts(S, r) = IF ~may THEN {"refused"}
                       ELSE {"ok"} \cup {d \in {"refused"} : wants} \cup {d \in {"not found"} : lost}
  BY ChatVerdicts
<1> HIDE DEF may, wants, lost
<1>2. /\ ~may => "refused" \in Verdicts(S, r)
      /\ may => "ok" \in Verdicts(S, r)
      /\ may /\ wants => "refused" \in Verdicts(S, r)
      /\ may /\ lost => "not found" \in Verdicts(S, r)
  BY <1>1
<1> QED BY <1>2 DEF may, wants, lost

LEMMA StartChatGoes ==
  ASSUME LifeInv, RecordsInv, NEW r \in Requests, StartChat(r)
  PROVE  Effects(r) /\ RecordOf(r)' /\ HeldInv'
<1> DEFINE a == Order(r)
           there == HomeOf(conn[r].as)
           n == Len(store.chats) + 1
           x == IF a.scope = "none" THEN "show" ELSE "scope"
           c == [scope |-> there, closed |-> FALSE, log |-> <<>>]
<1>1. AtBody(r, "start", "chat")
  BY DEF StartChat
<1>2. /\ a.op = "start" /\ store = StoreAt(Now) /\ StoreTyped(store) /\ Now \in Nat
      /\ pc[r] = "body" /\ IsRecord(r) /\ own[r] = NothingHeld /\ Since(r) = Now /\ CountOf(r) = 0
  BY <1>1, AtTheBody
<1>3. CASE ~MayWrite(conn[r].as, there) /\ Refuses(r, "refused")
  <2>1. "refused" \in Verdicts(store, r)
    BY <1>2, <1>3, StartVerdicts
  <2> QED BY <1>1, <1>3, <2>1, RefusesAtBody DEF Unserved
<1>4. CASE /\ MayWrite(conn[r].as, there)
           /\ store' = [store EXCEPT !.chats = Append(@, c)]
           /\ Enter(r, "start", n) /\ Held(r, [Taken(r) EXCEPT !.chat = n]) /\ Go(r, x)
  <2> DEFINE h == [Taken(r) EXCEPT !.chat = n]
  <2>1. h.from = Now /\ h.wrote = <<>> /\ DOMAIN h = DOMAIN NothingHeld /\ h.chat = n
    BY <1>2 DEF Taken, NothingHeld, Now
  <2>2. Held(r, h) /\ Go(r, x) /\ x \in {"show", "scope"}
    BY <1>4
  <2> HIDE DEF h
  <2>3. call' = call /\ conn' = conn /\ pc' = [pc EXCEPT ![r] = x]
    BY <2>2 DEF Go
  <2>4. HeldInv' /\ own'[r] = h
    <3> HIDE DEF x
    <3> QED BY <2>1, <2>2, <2>3, HoldsOn
  <2>5. EffectOf(store, Entry(r, "start", n)) = store'
    <3>1. HomeOf(call[r].head) = there
      BY <1>2, HomeAsked
    <3>2. EffectOf(store, Entry(r, "start", n)) =
            [store EXCEPT !.chats = Append(@, [scope |-> HomeOf(call[r].head), closed |-> FALSE, log |-> <<>>])]
      BY DEF EffectOf, Entry
    <3> QED BY <1>4, <3>1, <3>2
  <2>6. ChatTyped(c) /\ c.scope = there
    BY OneListed DEF ChatTyped
  <2> HIDE DEF c
  <2>7. /\ StoreTyped(store') /\ Grows(store, store') /\ n \in DOMAIN store'.chats
        /\ store'.chats[n] = c /\ \A i \in DOMAIN store.chats : store'.chats[i] = store.chats[i]
    <3>1. store' = [store EXCEPT !.chats = Append(@, c)]
      BY <1>4
    <3> QED BY <1>2, <2>6, <3>1, ChatAdded, SMTT(30)
  <2>8. StepsOf(a) = IF a.scope = "none" THEN <<"start">> ELSE <<"start", "scope">>
    BY <1>2, StepsFacts
  <2>9. CountOf(r) + 1 \in DOMAIN StepsOf(a) /\ StepsOf(a)[CountOf(r) + 1] = "start"
    <3>1. CASE a.scope = "none"
      <4>1. StepsOf(a) = <<"start">>
        BY <2>8, <3>1
      <4> HIDE DEF a
      <4> QED BY <1>2, <4>1
    <3>2. CASE a.scope # "none"
      <4>1. StepsOf(a) = <<"start", "scope">>
        BY <2>8, <3>2
      <4> HIDE DEF a
      <4> QED BY <1>2, <4>1
    <3> QED BY <3>1, <3>2
  <2>10. Commits(r, "start", n)
    BY <1>4, <2>5, <2>7, <2>9 DEF Commits
  <2>11. Effects(r)
    BY <1>2, <2>10 DEF Effects
  <2>12. CountOf(r)' = 1
    <3>1. CountOf(r)' = CountOf(r) + 1
      BY <1>2, <2>3, <2>10, CommitsPast DEF RecordsInv
    <3> QED BY <1>2, <3>1
  <2>13. Order(r)' = a
    BY <2>3, OrdersStay
  <2>14. own'[r].chat = n /\ own'[r].from = Since(r) /\ ChatThere(r)'
    BY <1>2, <2>1, <2>4, <2>7 DEF ChatThere
  <2>15. HomeAllowed(r)' /\ HomeOf(conn[r].as)' = there
    BY <1>4, <2>3 DEF HomeAllowed, HomeOf, MayWrite, Sees
  <2>16. CASE a.scope = "none"
    <3>1. x = "show"
      BY <2>16
    <3>2. Len(StepsOf(a)) = 1
      <4>1. StepsOf(a) = <<"start">>
        BY <2>8, <2>16
      <4> HIDE DEF a
      <4> QED BY <4>1
    <3>3. StepsOf(Order(r))' = StepsOf(a)
      BY <2>13 DEF StepsOf
    <3>4. Started(r)'
      BY <1>2, <2>12, <2>13, <2>15, <3>2, <3>3 DEF Started
    <3>5. Showing(r)' /\ "show" \in RecordPcs
      BY <2>14, <3>4 DEF Showing, RecordPcs
    <3> HIDE DEF x, a
    <3> QED BY <1>2, <2>2, <2>4, <2>11, <2>14, <3>1, <3>5, GoesRecord
  <2>17. CASE a.scope # "none"
    <3>1. x = "scope"
      BY <2>17
    <3>2. store'.chats[own'[r].chat].scope = there
      BY <2>6, <2>7, <2>14
    <3>3. Scoping(r)' /\ "scope" \in RecordPcs
      BY <1>2, <2>12, <2>13, <2>14, <2>15, <2>17, <3>2 DEF Scoping, RecordPcs
    <3> HIDE DEF x, a
    <3> QED BY <1>2, <2>2, <2>4, <2>11, <2>14, <3>1, <3>3, GoesRecord
  <2> QED BY <2>16, <2>17
<1> QED BY <1>3, <1>4 DEF StartChat

\* Another scope is given to a session.
LEMMA ScopesEffect ==
  ASSUME StoreTyped(store), NEW r, NEW i \in DOMAIN store.chats, Scopes(r, i, Order(r).scope)
  PROVE  /\ Enter(r, "scope", i) /\ store' = EffectOf(store, Entry(r, "scope", i))
         /\ StoreTyped(store') /\ Grows(store, store')
         /\ \A j \in DOMAIN store.chats : store'.chats[j].scope = store.chats[j].scope \/ i = j
<1> DEFINE v == Order(r).scope
<1>1. store' = [store EXCEPT !.chats[i].scope = v] /\ Enter(r, "scope", i)
  BY DEF Scopes
<1>2. store' = EffectOf(store, Entry(r, "scope", i))
  BY <1>1 DEF EffectOf, Entry
<1>3. /\ StoreTyped(store') /\ Grows(store, store')
      /\ \A j \in DOMAIN store.chats : j # i => store'.chats[j] = store.chats[j]
  <2> HIDE DEF v
  <2> QED BY <1>1, SessionSet
<1> QED BY <1>1, <1>2, <1>3

LEMMA ScopeChatGoes ==
  ASSUME LifeInv, RecordsInv, NEW r \in Requests, ScopeChat(r)
  PROVE  Effects(r) /\ RecordOf(r)' /\ HeldInv'
<1> DEFINE a == Order(r)
           i == own[r].chat
           seen == Sees(conn[r].as, store.chats[i].scope)
           may == Enforced /\ MayWrite(conn[r].as, a.scope)
<1>1. pc[r] = "scope" /\ pc[r] \in RecordPcs /\ "show" \in RecordPcs
  BY DEF ScopeChat, RecordPcs
<1>2. /\ IsRecord(r) /\ Since(r) = own[r].from /\ own[r].from \in 0..Now
      /\ Now \in Nat /\ store = StoreAt(Now) /\ StoreTyped(store) /\ Now \in own[r].from..Now
  BY <1>1, AtTheStep
<1>3. /\ a.op = "start" /\ a.scope # "none" /\ CountOf(r) = 1 /\ ChatThere(r) /\ HomeAllowed(r)
      /\ store.chats[i].scope = HomeOf(conn[r].as) \/ MovedByAnother(r)
  BY <1>1 DEF RecordsInv, RecordOf, Scoping
<1>4. StepsOf(a) = <<"start", "scope">>
  BY <1>3, StepsFacts
<1>5. ASSUME Go(r, "show"), UNCHANGED own, Effects(r), DOMAIN store.chats \subseteq DOMAIN store'.chats,
             CountOf(r)' = 2 \/ (CountOf(r)' = 1 /\ MovedByAnother(r)')
      PROVE  RecordOf(r)' /\ HeldInv'
  <2>1. call' = call /\ conn' = conn /\ pc' = [pc EXCEPT ![r] = "show"]
    BY <1>5 DEF Go
  <2>2. HeldInv'
    BY <1>1, <1>5, <2>1, KeepsOn
  <2>3. Order(r)' = a
    BY <2>1, OrdersStay
  <2>4. HomeAllowed(r)'
    BY <1>3, <2>1 DEF HomeAllowed, HomeOf, MayWrite, Sees
  <2>5. Len(StepsOf(Order(r))') = 2
    <3>1. StepsOf(Order(r))' = StepsOf(a)
      BY <2>3 DEF StepsOf
    <3> HIDE DEF a
    <3> QED BY <1>4, <3>1
  <2>6. Started(r)'
    BY <1>3, <1>5, <2>3, <2>4, <2>5 DEF Started
  <2>7. ChatThere(r)'
    BY <1>3, <1>5 DEF ChatThere
  <2>8. Showing(r)'
    BY <2>6, <2>7 DEF Showing
  <2>9. own'[r].from = Since(r)
    BY <1>2, <1>5
  <2> QED BY <1>1, <1>2, <1>5, <2>2, <2>8, <2>9, GoesRecord
<1>6. CASE may /\ seen /\ Scopes(r, i, a.scope) /\ Go(r, "show") /\ UNCHANGED own
  <2>1. i \in DOMAIN store.chats
    BY <1>3 DEF ChatThere
  <2>2. /\ Enter(r, "scope", i) /\ store' = EffectOf(store, Entry(r, "scope", i))
        /\ StoreTyped(store') /\ Grows(store, store')
        /\ \A j \in DOMAIN store.chats : store'.chats[j].scope = store.chats[j].scope \/ i = j
    BY <1>2, <1>6, <2>1, ScopesEffect
  <2>3. CountOf(r) + 1 \in DOMAIN StepsOf(a) /\ StepsOf(a)[CountOf(r) + 1] = "scope"
    <3> HIDE DEF a
    <3> QED BY <1>3, <1>4
  <2>4. Commits(r, "scope", i)
    BY <2>2, <2>3 DEF Commits
  <2>5. Effects(r) /\ call' = call
    BY <1>2, <1>6, <2>4 DEF Effects, Go
  <2>6. CountOf(r)' = 2
    <3>1. CountOf(r)' = CountOf(r) + 1
      BY <1>2, <2>4, <2>5, CommitsPast DEF RecordsInv
    <3> QED BY <1>3, <3>1
  <2>7. DOMAIN store.chats \subseteq DOMAIN store'.chats
    BY <2>2 DEF Grows
  <2> QED BY <1>5, <1>6, <2>5, <2>6, <2>7
<1>7. CASE Enforced /\ ~seen /\ Go(r, "show") /\ UNCHANGED recordVars
  <2>1. MovedByAnother(r)
    BY <1>3, <1>7 DEF HomeAllowed, MayWrite
  <2>2. Effects(r) /\ UNCHANGED <<call, store, own, past>>
    BY <1>7 DEF Effects, recordVars, Go
  <2>3. CountOf(r)' = CountOf(r) /\ EntriesOf(r)' = EntriesOf(r)
    BY <2>2, QuietPast DEF RecordsInv
  <2>4. MovedByAnother(r)'
    BY <2>1, <2>2, <2>3 DEF MovedByAnother
  <2> QED BY <1>3, <1>5, <1>7, <2>2, <2>3, <2>4
<1>8. CASE ~may /\ (Enforced => seen) /\ Refuses(r, "refused")
  <2>1. "refused" \in Verdicts(store, r)
    BY <1>3, StartVerdicts DEF HomeAllowed
  <2>3. Truly(r, Now, "refused")
    BY <1>2, <2>1 DEF Truly
  <2>2. JudgedBetween(r, "refused", Since(r), Now)
    BY <1>2, <2>3 DEF JudgedBetween
  <2> QED BY <1>1, <1>2, <1>8, <2>2, RefusesRecord DEF Unserved
<1> QED BY <1>6, <1>7, <1>8 DEF ScopeChat

LEMMA ShowChatGoes ==
  ASSUME LifeInv, RecordsInv, NEW r \in Requests, ShowChat(r)
  PROVE  Effects(r) /\ RecordOf(r)' /\ HeldInv'
<1> DEFINE a == Order(r)
           i == own[r].chat
<1>1. pc[r] = "show" /\ pc[r] \in RecordPcs
  BY DEF ShowChat, RecordPcs
<1>2. /\ IsRecord(r) /\ Since(r) = own[r].from /\ own[r].from \in 0..Now
      /\ Now \in Nat /\ store = StoreAt(Now) /\ Now \in own[r].from..Now
  BY <1>1, AtTheStep
<1>3. ChatThere(r) /\ (Started(r) \/ (SessionFound(r, "finalize") /\ CountOf(r) = 1))
  BY <1>1 DEF RecordsInv, RecordOf, Showing
<1>4. CASE SeesChat(store, conn[r].as, i)
  <2>1. Refuses(r, "ok")
    BY <1>4 DEF ShowChat
  <2>2. CASE Started(r)
    <3>1. Truly(r, Now, "ok")
      <4>1. "ok" \in Verdicts(store, r)
        BY <2>2, StartVerdicts DEF Started, HomeAllowed
      <4> QED BY <1>2, <4>1 DEF Truly
    <3>2. JudgedBetween(r, "ok", Since(r), Now)
      BY <1>2, <3>1 DEF JudgedBetween
    <3>3. CountOf(r) = 1 => EntriesOf(r) # {}
      BY PastFacts DEF RecordsInv
    <3>4. Fulfilled(r)
      BY <2>2, <3>3 DEF Started, Fulfilled
    <3>5. ~Unrendered(a)
      BY <2>2, SuccessIsWritten DEF Started
    <3> QED BY <1>1, <1>2, <2>1, <3>2, <3>4, <3>5, RefusesRecord
  <2>3. CASE SessionFound(r, "finalize") /\ CountOf(r) = 1
    <3>1. JudgedBetween(r, "ok", Since(r), Now)
      BY <1>2, <2>3 DEF JudgedBetween, SessionFound, Once
    <3>2. StepsOf(a) = <<"finalize">>
      BY <2>3, StepsFacts DEF SessionFound
    <3>3. Fulfilled(r)
      BY <2>3, <3>2 DEF Fulfilled
    <3>4. ~Unrendered(a)
      BY <2>3, SuccessIsWritten DEF SessionFound
    <3> QED BY <1>1, <1>2, <2>1, <3>1, <3>3, <3>4, RefusesRecord
  <2> QED BY <1>3, <2>2, <2>3
<1>5. CASE ~SeesChat(store, conn[r].as, i)
  <2>1. Refuses(r, "not found")
    BY <1>5 DEF ShowChat
  <2>2. Truly(r, Now, "not found") \/ ~(Started(r) \/ SessionFound(r, "finalize"))
    <3>1. ASSUME Started(r) PROVE Truly(r, Now, "not found")
      <4>1. "not found" \in Verdicts(store, r)
        BY <1>3, <1>5, <3>1, StartVerdicts DEF Started, HomeAllowed, ChatThere
      <4> QED BY <1>2, <4>1 DEF Truly
    <3>2. ASSUME SessionFound(r, "finalize") PROVE Truly(r, Now, "not found")
      BY <1>2, <1>5, <3>2, ChatVerdicts, ZenonT(40) DEF Truly, SessionFound
    <3> QED BY <3>1, <3>2
  <2>3. JudgedBetween(r, "not found", Since(r), Now)
    BY <1>2, <1>3, <2>2 DEF JudgedBetween
  <2> QED BY <1>1, <1>2, <2>1, <2>3, RefusesRecord DEF Unserved
<1> QED BY <1>4, <1>5

LEMMA LooksForChatGoes ==
  ASSUME LifeInv, RecordsInv, NEW r \in Requests, NEW op \in {"append", "finalize"}, LooksForChat(r, op, op)
  PROVE  Effects(r) /\ RecordOf(r)' /\ HeldInv'
<1> DEFINE a == Order(r)
           seen == SeesChat(store, conn[r].as, a.chat)
<1>1. AtBody(r, op, "chat")
  BY DEF LooksForChat
<1>2. /\ a.op = op /\ store = StoreAt(Now) /\ Now \in Nat /\ OrderTyped(a)
      /\ pc[r] = "body" /\ IsRecord(r) /\ own[r] = NothingHeld
  BY <1>1, AtTheBody
<1>3. /\ a.bad => "bad request" \in Verdicts(store, r)
      /\ ~a.bad /\ ~seen => "not found" \in Verdicts(store, r)
      /\ ~a.bad /\ seen => "ok" \in Verdicts(store, r) /\ "refused" \in Verdicts(store, r)
  <2>1. Verdicts(store, r) = IF a.bad THEN {"bad request"} ELSE IF seen THEN {"ok", "refused"} ELSE {"not found"}
    BY <1>2, ChatVerdicts
  <2> HIDE DEF seen
  <2> QED BY <2>1
<1>4. CASE a.bad /\ Refuses(r, "bad request")
  BY <1>1, <1>3, <1>4, RefusesAtBody DEF Unserved
<1>5. CASE ~a.bad /\ ~seen /\ Refuses(r, "not found")
  BY <1>1, <1>3, <1>5, RefusesAtBody DEF Unserved
<1>6. CASE /\ ~a.bad /\ seen /\ Held(r, [Taken(r) EXCEPT !.chat = a.chat, !.todo = a.lines])
           /\ Go(r, op) /\ UNCHANGED <<store, past>>
  <2> DEFINE h == [Taken(r) EXCEPT !.chat = a.chat, !.todo = a.lines]
  <2>1. /\ h.from = Now /\ h.wrote = <<>> /\ DOMAIN h = DOMAIN NothingHeld
        /\ h.chat = a.chat /\ h.todo = a.lines /\ h.lines = <<>>
    BY <1>2 DEF Taken, NothingHeld, Now
  <2>0. Held(r, h) /\ Go(r, op) /\ UNCHANGED <<store, past>>
    BY <1>6
  <2> HIDE DEF h
  <2>2. /\ Effects(r) /\ HeldInv' /\ own'[r] = h /\ own'[r].from = Since(r) /\ EntriesOf(r)' = {}
        /\ Now \in own'[r].from..Now' /\ Order(r)' = Order(r) /\ conn' = conn /\ call' = call
        /\ \A i : StoreAt(i)' = StoreAt(i)
    <3> HIDE DEF a
    <3> QED BY <1>1, <2>0, <2>1, BeginsFacts
  <2>3. \A S : Verdicts(S, r)' = Verdicts(S, r)
    BY <1>2, <2>2, SeenStays
  <2>4. PICK n : n = Now
    OBVIOUS
  <2>5. \A v : Truly(r, n, v)' = Truly(r, n, v)
    BY <2>2, <2>3 DEF Truly
  <2>6. Truly(r, n, "ok") /\ Truly(r, n, "refused")
    BY <1>2, <1>3, <1>6, <2>4 DEF Truly
  <2>7. Once(r, "ok")' /\ Once(r, "refused")'
    BY <2>2, <2>4, <2>5, <2>6 DEF Once
  <2>8. SessionFound(r, op)'
    BY <1>2, <1>6, <2>1, <2>2, <2>7 DEF SessionFound
  <2>9. ChatThere(r)'
    BY <1>6, <2>1, <2>2 DEF ChatThere, SeesChat
  <2>10. CASE op = "append"
    <3>1. IsList(a.lines) /\ IsList(<<>>)
      BY <1>2, <2>10, OneListed DEF OrderTyped
    <3>2. a.lines = <<>> \o a.lines
      <4> DEFINE L == a.lines
      <4>1. L \in Seq(ToSet(L))
        BY <3>1 DEF IsList
      <4> HIDE DEF L
      <4> QED BY <4>1 DEF L
    <3>3. IsList(own'[r].lines) /\ IsList(own'[r].todo) /\ Order(r)'.lines = own'[r].lines \o own'[r].todo
      BY <2>1, <2>2, <3>1, <3>2
    <3>4. Appending(r)' /\ "append" \in RecordPcs
      BY <2>8, <2>9, <2>10, <3>3 DEF Appending, RecordPcs
    <3> QED BY <1>2, <1>6, <2>2, <2>10, <3>4, GoesRecord
  <2>11. CASE op = "finalize"
    <3>1. "finalize" \in RecordPcs /\ SessionFound(r, "finalize")'
      BY <2>8, <2>11 DEF RecordPcs
    <3> QED BY <1>2, <1>6, <2>2, <2>9, <2>11, <3>1, GoesRecord
  <2> QED BY <2>10, <2>11
<1> QED BY <1>4, <1>5, <1>6 DEF LooksForChat

\* The session that was found: what may be told of it, now and later.
LEMMA AtTheSession ==
  ASSUME RecordsInv, NEW r \in Requests, pc[r] \in {"append", "finalize"}
  PROVE  /\ pc[r] \in RecordPcs /\ pc[r] # "put" /\ IsRecord(r) /\ ChatThere(r) /\ SessionFound(r, pc[r])
         /\ EntriesOf(r) = {} /\ CountOf(r) = 0 /\ own[r].wrote = <<>>
         /\ Since(r) = own[r].from /\ own[r].from \in 0..Now /\ Now \in Nat /\ StoreTyped(store)
         /\ JudgedBetween(r, "refused", Since(r), Now) /\ \E i \in Since(r)..Now : Truly(r, i, "ok")
         /\ StepsOf(Order(r)) = <<Order(r).op>>
<1>1. pc[r] \in RecordPcs /\ pc[r] # "put"
  BY DEF RecordPcs
<1>2. /\ IsRecord(r) /\ Since(r) = own[r].from /\ own[r].from \in 0..Now /\ Now \in Nat /\ StoreTyped(store)
  BY <1>1, AtTheStep
<1>3. ChatThere(r) /\ SessionFound(r, pc[r]) /\ EntriesOf(r) = {}
  <2>1. RecordOf(r)
    BY DEF RecordsInv
  <2> QED BY <2>1 DEF RecordOf, Appending
<1>4. CountOf(r) = 0
  BY <1>3, PastFacts DEF RecordsInv
<1>5. own[r].wrote = <<>>
  BY <1>1 DEF RecordsInv, HeldInv
<1>6. JudgedBetween(r, "refused", Since(r), Now) /\ \E i \in Since(r)..Now : Truly(r, i, "ok")
  BY <1>2, <1>3 DEF SessionFound, Once, JudgedBetween
<1>7. StepsOf(Order(r)) = <<Order(r).op>>
  BY <1>3, StepsFacts DEF SessionFound
<1> QED BY <1>1, <1>2, <1>3, <1>4, <1>5, <1>6, <1>7

\* A session that was found stays found.
LEMMA SessionStays ==
  ASSUME RecordsInv, NEW r \in Requests, NEW op \in {"append", "finalize"}, pc[r] = op, Effects(r),
         UNCHANGED <<call, conn>>, own'[r].from = own[r].from, own'[r].chat = own[r].chat,
         DOMAIN store.chats \subseteq DOMAIN store'.chats
  PROVE  ChatThere(r)' /\ SessionFound(r, op)' /\ Order(r)' = Order(r)
<1>1. ChatThere(r) /\ SessionFound(r, op) /\ own[r].from \in 0..Now
  BY AtTheSession
<1>2. Now \in Nat /\ Now' \in Nat /\ Now <= Now' /\ \A i \in 0..Now : StoreAt(i)' = StoreAt(i)
  BY PastStays DEF RecordsInv
<1>3. \A i \in 0..Now : \A v : Truly(r, i, v)' = Truly(r, i, v)
  BY <1>2, MomentsStay
<1>4. Order(r)' = Order(r)
  BY OrdersStay
<1>5. ASSUME NEW v, Once(r, v) PROVE Once(r, v)'
  <2>1. PICK i \in own[r].from..Now : Truly(r, i, v)
    BY <1>5 DEF Once
  <2>2. i \in 0..Now /\ i \in own'[r].from..Now'
    BY <1>1, <1>2
  <2> QED BY <1>3, <2>1, <2>2 DEF Once
<1>6. ChatThere(r)'
  BY <1>1 DEF ChatThere
<1> QED BY <1>1, <1>4, <1>5, <1>6 DEF SessionFound

LEMMA PutMessageGoes ==
  ASSUME LifeInv, RecordsInv, NEW r \in Requests, PutMessage(r)
  PROVE  Effects(r) /\ RecordOf(r)' /\ HeldInv'
<1> DEFINE h == [own[r] EXCEPT !.todo = Tail(@), !.lines = Append(@, Head(own[r].todo))]
<1>1. pc[r] = "append" /\ own[r].todo # <<>>
  BY DEF PutMessage
<1>2. /\ pc[r] \in RecordPcs /\ IsRecord(r) /\ own[r].wrote = <<>> /\ EntriesOf(r) = {}
      /\ Since(r) = own[r].from /\ JudgedBetween(r, "refused", Since(r), Now)
  BY <1>1, AtTheSession
<1>3. Appending(r)
  BY <1>1 DEF RecordsInv, RecordOf
<1>4. CASE Held(r, h) /\ Go(r, "append") /\ UNCHANGED <<store, past>>
  <2>1. call' = call /\ conn' = conn /\ pc' = [pc EXCEPT ![r] = "append"]
    BY <1>4 DEF Go
  <2>2. DOMAIN own[r] = DOMAIN NothingHeld
    BY DEF RecordsInv, HeldInv
  <2>3. /\ DOMAIN h = DOMAIN NothingHeld /\ h.wrote = <<>> /\ h.from = own[r].from /\ h.chat = own[r].chat
        /\ h.todo = Tail(own[r].todo) /\ h.lines = Append(own[r].lines, Head(own[r].todo))
    BY <1>2, <2>2 DEF NothingHeld
  <2>4. Held(r, h)
    BY <1>4
  <2> HIDE DEF h
  <2>5. HeldInv' /\ own'[r] = h
    BY <2>1, <2>3, <2>4, HoldsOn
  <2>6. Effects(r) /\ EntriesOf(r)' = {}
    BY <1>2, <1>4, <2>1, QuietPast DEF Effects, RecordsInv
  <2>7. ChatThere(r)' /\ SessionFound(r, "append")' /\ Order(r)' = Order(r)
    BY <1>1, <1>4, <2>1, <2>3, <2>5, <2>6, SessionStays, SMTT(30)
  <2>8. IsList(h.lines) /\ IsList(h.todo) /\ Order(r).lines = h.lines \o h.todo
    <3>1. IsList(own[r].lines) /\ IsList(own[r].todo) /\ Order(r).lines = own[r].lines \o own[r].todo
      BY <1>3 DEF Appending
    <3>2. IsList(Append(own[r].lines, Head(own[r].todo))) /\ IsList(Tail(own[r].todo))
      BY <1>1, <3>1, ListedAppend, ListedTail
    <3>3. Append(own[r].lines, Head(own[r].todo)) \o Tail(own[r].todo) = own[r].lines \o own[r].todo
      BY <1>1, <3>1, MovedOver
    <3> QED BY <2>3, <3>1, <3>2, <3>3
  <2>9. Appending(r)'
    BY <2>5, <2>7, <2>8 DEF Appending
  <2>10. "append" \in RecordPcs /\ own'[r].from = Since(r)
    BY <1>2, <2>3, <2>5 DEF RecordPcs
  <2> QED BY <1>2, <1>4, <2>5, <2>6, <2>9, <2>10, GoesRecord
<1>5. CASE Refuses(r, "refused")
  BY <1>2, <1>5, RefusesRecord DEF Unserved
<1> QED BY <1>4, <1>5 DEF PutMessage

LEMMA CommitMessagesGoes ==
  ASSUME LifeInv, RecordsInv, NEW r \in Requests, CommitMessages(r)
  PROVE  Effects(r) /\ RecordOf(r)' /\ HeldInv'
<1> DEFINE a == Order(r)
           i == own[r].chat
           L == own[r].lines
<1>1. pc[r] = "append" /\ own[r].todo = <<>>
  BY DEF CommitMessages
<1>2. /\ pc[r] \in RecordPcs /\ IsRecord(r) /\ CountOf(r) = 0 /\ StoreTyped(store) /\ a.op = "append"
      /\ StepsOf(a) = <<a.op>> /\ i \in DOMAIN store.chats
      /\ \E j \in Since(r)..Now : Truly(r, j, "ok")
  BY <1>1, AtTheSession DEF SessionFound, ChatThere
<1>3. IsList(L) /\ a.lines = L
  <2>1. IsList(L) /\ a.lines = L \o <<>>
    BY <1>1 DEF RecordsInv, RecordOf, Appending
  <2> HIDE DEF L
  <2>2. L \in Seq(ToSet(L))
    BY <2>1 DEF IsList
  <2>3. L \o <<>> = L
    BY <2>2
  <2> QED BY <2>1, <2>3
<1>4. store' = [store EXCEPT !.chats[i].log = @ \o L] /\ Enter(r, "append", i) /\ Ends(r, "ok")
  BY SMTT(30) DEF CommitMessages
<1>5. store' = EffectOf(store, Entry(r, "append", i))
  BY <1>3, <1>4, ZenonT(40) DEF EffectOf, Entry
<1>6. /\ StoreTyped(store') /\ Grows(store, store')
      /\ \A j \in DOMAIN store.chats : store'.chats[j].scope = store.chats[j].scope
  <2> DEFINE v == store.chats[i].log \o L
  <2>1. IsList(store.chats[i].log)
    BY <1>2 DEF StoreTyped
  <2>2. IsList(v)
    BY <1>3, <2>1, ListedConcat, SMTT(30)
  <2>3. store' = [store EXCEPT !.chats[i].log = v]
    BY <1>4
  <2> HIDE DEF v
  <2>4. /\ StoreTyped(store') /\ Grows(store, store')
        /\ \A j \in DOMAIN store.chats : j # i => store'.chats[j] = store.chats[j]
    BY <1>2, <2>2, <2>3, SessionSet
  <2>5. store'.chats[i].scope = store.chats[i].scope
    BY <1>2, <2>3 DEF StoreTyped
  <2> QED BY <2>4, <2>5
<1>7. CountOf(r) + 1 = Len(StepsOf(a)) /\ CountOf(r) + 1 \in DOMAIN StepsOf(a) /\ StepsOf(a)[CountOf(r) + 1] = "append"
  <2>1. StepsOf(a) = <<"append">>
    BY <1>2, SMTT(30)
  <2> HIDE DEF a
  <2> QED BY <1>2, <2>1
<1>8. Commits(r, "append", i)
  BY <1>4, <1>5, <1>6, <1>7, ZenonT(40) DEF Commits
<1>9. Ends(r, Success(a))
  BY <1>2, <1>4, SuccessIsWritten
<1> HIDE DEF a, i, L
<1> QED BY <1>2, <1>7, <1>8, <1>9, CommitsRecord DEF a

LEMMA CloseChatGoes ==
  ASSUME LifeInv, RecordsInv, NEW r \in Requests, CloseChat(r)
  PROVE  Effects(r) /\ RecordOf(r)' /\ HeldInv'
<1> DEFINE a == Order(r)
           i == own[r].chat
<1>1. pc[r] = "finalize" /\ "show" \in RecordPcs
  BY DEF CloseChat, RecordPcs
<1>2. /\ pc[r] \in RecordPcs /\ pc[r] # "put" /\ IsRecord(r) /\ CountOf(r) = 0 /\ StoreTyped(store)
      /\ a.op = "finalize" /\ StepsOf(a) = <<a.op>> /\ i \in DOMAIN store.chats
      /\ Since(r) = own[r].from /\ JudgedBetween(r, "refused", Since(r), Now)
  BY <1>1, AtTheSession DEF SessionFound, ChatThere
<1>3. CASE /\ store' = [store EXCEPT !.chats[i].closed = TRUE] /\ Enter(r, "finalize", i)
           /\ Go(r, "show") /\ UNCHANGED own
  <2>1. store' = EffectOf(store, Entry(r, "finalize", i))
    BY <1>3 DEF EffectOf, Entry
  <2>2. /\ StoreTyped(store') /\ Grows(store, store')
        /\ \A j \in DOMAIN store.chats : store'.chats[j].scope = store.chats[j].scope
    <3>1. store' = [store EXCEPT !.chats[i].closed = TRUE]
      BY <1>3
    <3>2. /\ StoreTyped(store') /\ Grows(store, store')
          /\ \A j \in DOMAIN store.chats : j # i => store'.chats[j] = store.chats[j]
      BY <1>2, <3>1, SessionSet, ZenonT(40)
    <3>3. store'.chats[i].scope = store.chats[i].scope
      BY <1>2, <3>1 DEF StoreTyped
    <3> QED BY <3>2, <3>3
  <2>3. CountOf(r) + 1 \in DOMAIN StepsOf(a) /\ StepsOf(a)[CountOf(r) + 1] = "finalize"
    <3>1. StepsOf(a) = <<"finalize">>
      BY <1>2
    <3> HIDE DEF a
    <3> QED BY <1>2, <3>1
  <2>4. Commits(r, "finalize", i)
    BY <1>3, <2>1, <2>2, <2>3 DEF Commits
  <2>5. call' = call /\ conn' = conn /\ pc' = [pc EXCEPT ![r] = "show"]
    BY <1>3 DEF Go
  <2>6. Effects(r)
    BY <1>2, <2>4 DEF Effects
  <2>7. HeldInv'
    BY <1>2, <1>3, <2>5, KeepsOn
  <2>8. CountOf(r)' = 1
    <3>1. CountOf(r)' = CountOf(r) + 1
      BY <1>2, <2>4, <2>5, CommitsPast DEF RecordsInv
    <3> QED BY <1>2, <3>1
  <2>9. ChatThere(r)' /\ SessionFound(r, "finalize")'
    BY <1>1, <1>3, <2>2, <2>5, <2>6, SessionStays DEF Grows
  <2>10. Showing(r)' /\ own'[r].from = Since(r)
    BY <1>2, <1>3, <2>8, <2>9 DEF Showing
  <2> QED BY <1>1, <1>2, <1>3, <2>6, <2>7, <2>10, GoesRecord
<1>4. CASE Refuses(r, "refused")
  BY <1>2, <1>4, RefusesRecord DEF Unserved
<1> QED BY <1>3, <1>4 DEF CloseChat

LEMMA MoveChatGoes ==
  ASSUME LifeInv, RecordsInv, NEW r \in Requests, MoveChat(r)
  PROVE  Effects(r) /\ RecordOf(r)' /\ HeldInv'
<1> DEFINE a == Order(r)
           seen == SeesChat(store, conn[r].as, a.chat)
           may == MayWrite(conn[r].as, a.scope)
<1>1. AtBody(r, "move", "chat")
  BY DEF MoveChat
<1>2. a.op = "move" /\ StoreTyped(store)
  BY <1>1, AtTheBody
<1>3. /\ "engine too old" \in Verdicts(store, r)
      /\ a.bad => "bad request" \in Verdicts(store, r)
      /\ ~a.bad /\ ~seen => "not found" \in Verdicts(store, r)
      /\ ~a.bad /\ seen /\ may => "ok" \in Verdicts(store, r)
      /\ ~a.bad /\ seen /\ ~may => "refused" \in Verdicts(store, r)
  <2>1. Verdicts(store, r) = {"engine too old"} \cup
          {IF a.bad THEN "bad request" ELSE IF ~seen THEN "not found" ELSE IF may THEN "ok" ELSE "refused"}
    BY <1>2, ChatVerdicts
  <2> HIDE DEF seen, may
  <2> QED BY <2>1
<1>4. CASE Refuses(r, "engine too old")
  BY <1>1, <1>3, <1>4, RefusesAtBody DEF Unserved
<1>5. CASE a.bad /\ Refuses(r, "bad request")
  BY <1>1, <1>3, <1>5, RefusesAtBody DEF Unserved
<1>6. CASE ~a.bad /\ ~seen /\ Refuses(r, "not found")
  BY <1>1, <1>3, <1>6, RefusesAtBody DEF Unserved
<1>7. CASE ~a.bad /\ seen /\ ~may /\ Refuses(r, "refused")
  BY <1>1, <1>3, <1>7, RefusesAtBody DEF Unserved
<1>8. CASE ~a.bad /\ seen /\ may /\ Scopes(r, a.chat, a.scope) /\ Ends(r, "ok")
  <2>1. a.chat \in DOMAIN store.chats
    BY <1>8 DEF SeesChat
  <2>2. /\ Enter(r, "scope", a.chat) /\ store' = EffectOf(store, Entry(r, "scope", a.chat))
        /\ StoreTyped(store') /\ Grows(store, store')
        /\ \A j \in DOMAIN store.chats : store'.chats[j].scope = store.chats[j].scope \/ a.chat = j
    BY <1>2, <1>8, <2>1, ScopesEffect
  <2>3. StepsOf(a) = <<"scope">>
    BY <1>2, StepsFacts
  <2>4. "ok" \in Verdicts(store, r)
    BY <1>3, <1>8
  <2>5. PICK i : i = a.chat
    OBVIOUS
  <2>6. \A j \in DOMAIN store.chats : store'.chats[j].scope = store.chats[j].scope \/ ("scope" = "scope" /\ i = j)
    BY <2>2, <2>5
  <2>7. Success(a) = "ok"
    BY <1>2, SuccessIsWritten
  <2> QED BY <1>1, <1>8, <2>2, <2>3, <2>4, <2>5, <2>6, <2>7, CommitsAtBody
<1> QED BY <1>4, <1>5, <1>6, <1>7, <1>8 DEF MoveChat

LEMMA ChatStepGoes ==
  ASSUME LifeInv, RecordsInv, NEW r \in Requests, ChatStep(r)
  PROVE  Effects(r) /\ RecordOf(r)' /\ HeldInv'
<1>1. CASE AppendMessages(r) \/ FinalizeChat(r)
  BY <1>1, LooksForChatGoes DEF AppendMessages, FinalizeChat
<1>2. CASE ~(AppendMessages(r) \/ FinalizeChat(r))
  BY <1>2, StartChatGoes, ScopeChatGoes, ShowChatGoes, PutMessageGoes, CommitMessagesGoes, CloseChatGoes,
     MoveChatGoes DEF ChatStep
<1> QED BY <1>1, <1>2

----------------------------------------------------------------------------
(***************************************************************************)
(* Records: all steps together.                                            *)
(***************************************************************************)

\* A handler of records writes what its own request holds, and no other's.
LEMMA OwnHeld ==
  ASSUME NEW r \in Requests, RecordStep(r)
  PROVE  UNCHANGED own \/ \E h : Held(r, h)
<1> DEFINE Mine == UNCHANGED own \/ \E h : Held(r, h)
<1>1. ASSUME NEW h, Held(r, h) PROVE Mine
  BY <1>1
<1>2. ASSUME NEW a, Ends(r, a) PROVE Mine
  BY <1>1, <1>2 DEF Ends
<1>3. ASSUME NEW a, Refuses(r, a) PROVE Mine
  BY <1>2, <1>3 DEF Refuses
<1>4. ASSUME UNCHANGED recordVars PROVE Mine
  BY <1>4 DEF recordVars
<1> SUFFICES Mine
  OBVIOUS
<1> HIDE DEF Mine
<1>5. CASE RowStep(r)
  <2>1. ASSUME NEW route, CreateRow(r, route) \/ DeleteRow(r, route) PROVE Mine
    BY <1>2, <1>3, <2>1 DEF CreateRow, DeleteRow
  <2>2. ASSUME NEW op, NEW route, NEW fits, Looks(r, op, route, fits) PROVE Mine
    BY <1>1, <1>3, <2>2 DEF Looks
  <2>3. ASSUME UpdateRow(r) \/ ReloadRow(r) \/ PatchEpisode(r) PROVE Mine
    <3>1. CASE UpdateRow(r)
      BY <1>3, <1>4, <3>1 DEF UpdateRow, Mine
    <3>2. CASE ReloadRow(r)
      BY <1>3, <3>2 DEF ReloadRow
    <3>3. CASE PatchEpisode(r)
      BY <1>2, <1>3, <3>3 DEF PatchEpisode
    <3> QED BY <2>3, <3>1, <3>2, <3>3
  <2> QED BY <1>5, <2>1, <2>2, <2>3
          DEF RowStep, CreateNote, CreatePool, CreateDocumentType, CreateEpisodeType, CreateEpisode,
              PatchNote, PatchPool, PatchDocumentType, PatchEpisodeType, CloseIssue, ReopenIssue,
              ArchivePool, DeleteNote, DeleteDocumentType, DeleteEpisodeType, DeleteEpisode
<1>6. CASE FactStep(r)
  <2>1. ASSUME NEW route, Batch(r, route) PROVE Mine
    BY <1>1, <1>3, <2>1 DEF Batch
  <2>2. ASSUME NEW op, NEW route, LooksForFact(r, op, route) PROVE Mine
    BY <1>1, <1>3, <2>2 DEF LooksForFact
  <2>3. CASE PutFact(r)
    BY <1>1, <1>3, <2>3 DEF PutFact
  <2>4. CASE CommitFacts(r)
    BY <1>2, <2>4 DEF CommitFacts
  <2>5. CASE AmendFact(r)
    BY <1>2, <1>3, <2>5 DEF AmendFact
  <2> QED BY <1>6, <2>1, <2>2, <2>3, <2>4, <2>5
          DEF FactStep, CreateAttributes, CreateStatements, CreateEpisodeStatement, CreateObject,
              PatchAttribute, PatchStatement, DeleteAttribute, DeleteStatement
<1>7. CASE ChatStep(r)
  <2>1. ASSUME NEW op, NEW next, LooksForChat(r, op, next) PROVE Mine
    BY <1>1, <1>3, <2>1 DEF LooksForChat
  <2>2. CASE StartChat(r)
    BY <1>1, <1>3, <2>2 DEF StartChat
  <2>3. CASE ScopeChat(r)
    BY <1>3, <1>4, <2>3 DEF ScopeChat, Mine
  <2>4. CASE ShowChat(r)
    BY <1>3, <2>4 DEF ShowChat
  <2>5. CASE PutMessage(r)
    BY <1>1, <1>3, <2>5, SMTT(30) DEF PutMessage
  <2>6. CASE CommitMessages(r)
    BY <1>2, <2>6 DEF CommitMessages
  <2>7. CASE CloseChat(r)
    BY <1>3, <2>7 DEF CloseChat, Mine
  <2>8. CASE MoveChat(r)
    BY <1>2, <1>3, <2>8 DEF MoveChat
  <2> QED BY <1>7, <2>1, <2>2, <2>3, <2>4, <2>5, <2>6, <2>7, <2>8
          DEF ChatStep, AppendMessages, FinalizeChat
<1> QED BY <1>5, <1>6, <1>7 DEF RecordStep

LEMMA RecordStepInv ==
  ASSUME LifeInv, RecordsInv, NEW r \in Requests, RecordStep(r)
  PROVE  RecordsInv'
<1>1. Effects(r) /\ RecordOf(r)' /\ HeldInv'
  BY RowStepGoes, FactStepGoes, ChatStepGoes DEF RecordStep
<1>2. /\ call' = call /\ conn' = conn
      /\ \A q \in Requests \ {r} : pc'[q] = pc[q] /\ reply'[q] = reply[q]
  BY RecordMoves DEF Moves, LifeInv, Types
<1>3. \A q \in Requests \ {r} : own'[q] = own[q]
  BY OwnHeld DEF Held, RecordsInv, HeldInv
<1>4. PastInv'
  BY <1>1, <1>2, PastStays DEF RecordsInv
<1>5. \A q \in Requests \ {r} : RecordOf(q)'
  BY <1>1, <1>2, <1>3, OthersStay
<1> QED BY <1>1, <1>4, <1>5 DEF RecordsInv

\* A request of another kind is never at a step of these handlers.
LEMMA OthersAreOthers ==
  ASSUME RecordsInv, NEW r \in Requests, TableStep(r) \/ AnswerStep(r) \/ GraphStep(r)
  PROVE  ~IsRecord(r)
<1>1. CASE pc[r] = "body"
  <2>1. call[r].kind \in {"table", "memory", "graph"}
    <3>1. CASE TableStep(r)
      BY <1>1, <3>1 DEF TableStep, TableBody, Check, CountRows, SelectRows, Scan, Write, Settle, Render, IsTable
    <3>2. CASE AnswerStep(r)
      BY <1>1, <3>2 DEF AnswerStep, AskBody, EmbedQuery, Search, Rank, ResolveModel, Compose, Judge, Extract,
                        Probe, StoreExtraction, Report, IsAnswer
    <3>3. CASE GraphStep(r)
      BY <1>1, <3>3 DEF GraphStep, GraphBody, CoreImport, RegisterTypes, IngestChunk, StoreGroups, Commit,
                        ChooseSeeds, WalkFrom, ShowGraph, IsGraph
    <3> QED BY <3>1, <3>2, <3>3
  <2> QED BY <2>1 DEF IsRecord
<1>2. CASE pc[r] # "body"
  <2>1. pc[r] \in TablePcs \cup AnswerPcs \cup GraphPcs
    BY <1>2, TableMoves, AnswerMoves, GraphMoves DEF Moves
  <2> QED BY <2>1 DEF RecordsInv, RecordOf, Before, RecordPcs, TablePcs, AnswerPcs, GraphPcs
<1> QED BY <1>1, <1>2

\* A step that changes no record.
LEMMA QuietStepInv ==
  ASSUME LifeInv, RecordsInv, NEW r \in Requests, UNCHANGED <<call, store, past, own>>,
         NEW x, x \notin RecordPcs, pc[r] # "put", pc' = [pc EXCEPT ![r] = x],
         \A q \in Requests \ {r} : reply'[q] = reply[q] /\ conn'[q] = conn[q],
         x \in Before => pc[r] \in Before,
         IsRecord(r) => /\ x \in Before \cup {"close", "done"}
                        /\ x \in {"close", "done"} =>
                             reply'[r] \in Unserved \/ (x = "done" /\ pc[r] = "close" /\ reply'[r] = reply[r])
  PROVE  RecordsInv'
<1>1. /\ PastInv' /\ Now' = Now /\ past' = past
      /\ EntriesOf(r)' = EntriesOf(r) /\ CountOf(r)' = CountOf(r)
  BY QuietPast DEF RecordsInv
<1>2. Order(r)' = Order(r) /\ IsRecord(r)' = IsRecord(r)
  BY OrdersStay
<1>3. HeldInv'
  BY KeepsOn DEF RecordPcs
<1>4. \A q \in Requests \ {r} : pc'[q] = pc[q] /\ own'[q] = own[q]
  BY DEF LifeInv, Types
<1>5. Effects(r)
  BY DEF Effects
<1>6. \A q \in Requests \ {r} : RecordOf(q)'
  BY <1>4, <1>5, OthersStay
<1>7. pc'[r] = x
  BY DEF LifeInv, Types
<1>8. RecordOf(r)
  BY DEF RecordsInv
<1>9. x \in Before => own'[r] = NothingHeld /\ EntriesOf(r)' = {}
  BY <1>1, <1>8 DEF RecordOf
<1>10. Fulfilled(r) => Fulfilled(r)'
  <2>1. MovedByAnother(r)' = MovedByAnother(r)
    BY <1>1 DEF MovedByAnother
  <2> QED BY <1>1, <1>2, <2>1 DEF Fulfilled
<1>11. x \in {"close", "done"} /\ IsRecord(r) /\ Succeeded(r)' => Fulfilled(r)'
  <2>1. reply'[r] \in Unserved => ~Succeeded(r)'
    BY DEF Succeeded, Unserved
  <2>2. reply'[r] = reply[r] => (Succeeded(r)' <=> Succeeded(r))
    BY <1>2 DEF Succeeded
  <2> QED BY <1>8, <1>10, <2>1, <2>2 DEF RecordOf
<1>12. ~(x = "close" /\ IsRecord(r) /\ reply'[r] \notin Unserved)
  OBVIOUS
<1>13. RecordOf(r)'
  BY <1>2, <1>7, <1>9, <1>11, <1>12 DEF RecordOf, RecordPcs, Before
<1> QED BY <1>1, <1>3, <1>6, <1>13 DEF RecordsInv

\* The steps of other handlers, and those before and after a handler.
LEMMA OtherStepInv ==
  ASSUME LifeInv, RecordsInv, NEW r \in Requests,
         Authenticate(r) \/ Bind(r) \/ Close(r) \/ TableStep(r) \/ AnswerStep(r) \/ GraphStep(r),
         UNCHANGED recordVars
  PROVE  RecordsInv'
<1>1. UNCHANGED <<store, past, own>> /\ DOMAIN pc = Requests /\ DOMAIN reply = Requests /\ DOMAIN conn = Requests
  BY DEF recordVars, LifeInv, Types
<1>2. CASE TableStep(r) \/ AnswerStep(r) \/ GraphStep(r)
  <2>1. ~IsRecord(r)
    BY <1>2, OthersAreOthers
  <2>2. PICK S \in {TablePcs, AnswerPcs, GraphPcs} : \E R : Moves(r, S, R)
    BY <1>2, TableMoves, AnswerMoves, GraphMoves
  <2>3. /\ UNCHANGED <<call, conn>> /\ pc[r] # "put"
        /\ \A q \in Requests \ {r} : reply'[q] = reply[q]
        /\ \E x \in S \cup {"close"} : pc' = [pc EXCEPT ![r] = x]
    BY <1>1, <2>2 DEF Moves, TablePcs, AnswerPcs, GraphPcs
  <2>4. PICK x \in S \cup {"close"} : pc' = [pc EXCEPT ![r] = x]
    BY <2>3
  <2>5. x \notin RecordPcs /\ x \notin Before
    BY <2>4 DEF TablePcs, AnswerPcs, GraphPcs, RecordPcs, Before
  <2> QED BY <1>1, <2>1, <2>3, <2>4, <2>5, QuietStepInv
<1>3. CASE Authenticate(r)
  <2>1. CASE \E a \in {"unauthenticated", "unreachable"} : Answer(r, a)
    <3>1. /\ call' = call /\ conn' = conn /\ pc' = [pc EXCEPT ![r] = "close"]
          /\ reply'[r] \in Unserved /\ \A q \in Requests \ {r} : reply'[q] = reply[q]
      BY <1>1, <2>1 DEF Answer, Unserved
    <3> QED BY <1>1, <1>3, <3>1, QuietStepInv DEF Authenticate, RecordPcs, Before
  <2>2. CASE /\ conn' = [conn EXCEPT ![r] = [open |-> TRUE, as |-> Unrestricted]]
             /\ pc' = [pc EXCEPT ![r] = "bind"] /\ UNCHANGED <<engine, call, reply>>
    <3>1. \A q \in Requests \ {r} : conn'[q] = conn[q] /\ reply'[q] = reply[q]
      BY <2>2
    <3> QED BY <1>1, <1>3, <2>2, <3>1, QuietStepInv DEF Authenticate, RecordPcs, Before
  <2> QED BY <1>3, <2>1, <2>2 DEF Authenticate
<1>4. CASE Bind(r)
  <2>1. CASE \E a \in {"bad principal", "principal unsupported"} : Answer(r, a)
    <3>1. /\ call' = call /\ conn' = conn /\ pc' = [pc EXCEPT ![r] = "close"]
          /\ reply'[r] \in Unserved /\ \A q \in Requests \ {r} : reply'[q] = reply[q]
      BY <1>1, <2>1 DEF Answer, Unserved
    <3> QED BY <1>1, <1>4, <3>1, QuietStepInv DEF Bind, RecordPcs, Before
  <2>2. CASE pc' = [pc EXCEPT ![r] = "body"] /\ UNCHANGED <<call, reply>>
             /\ (conn' = conn \/ \E c : conn' = [conn EXCEPT ![r] = c])
    <3>1. \A q \in Requests \ {r} : conn'[q] = conn[q] /\ reply'[q] = reply[q]
      BY <1>1, <2>2
    <3> QED BY <1>1, <1>4, <2>2, <3>1, QuietStepInv DEF Bind, RecordPcs, Before
  <2> QED BY <1>4, <2>1, <2>2 DEF Bind, Go
<1>5. CASE Close(r)
  <2>1. /\ call' = call /\ pc' = [pc EXCEPT ![r] = "done"] /\ pc[r] = "close"
        /\ reply' = reply /\ \A q \in Requests \ {r} : conn'[q] = conn[q]
    BY <1>5 DEF Close
  <2> QED BY <1>1, <2>1, QuietStepInv DEF RecordPcs, Before
<1> QED BY <1>2, <1>3, <1>4, <1>5

\* A worker that dies leaves nothing but what it has committed.
LEMMA CrashInv ==
  ASSUME LifeInv, RecordsInv, NEW r \in Requests, Crash(r)
  PROVE  RecordsInv'
<1>1. /\ UNCHANGED <<call, store, past>> /\ Held(r, NothingHeld) /\ pc' = [pc EXCEPT ![r] = "done"]
      /\ reply' = [reply EXCEPT ![r] = "lost"] /\ conn' = [conn EXCEPT ![r] = Closed]
  BY DEF Crash, Die
<1>2. DOMAIN reply = Requests /\ DOMAIN conn = Requests
  BY DEF LifeInv, Types
<1>3. NothingHeld.wrote = <<>>
  BY DEF NothingHeld
<1>4. HeldInv' /\ pc'[r] = "done" /\ \A q \in Requests \ {r} : own'[q] = own[q] /\ pc'[q] = pc[q]
  BY <1>1, <1>3, HoldsOn
<1>5. PastInv'
  BY <1>1, QuietPast DEF RecordsInv
<1>6. \A q \in Requests \ {r} : RecordOf(q)'
  <2>1. Effects(r)
    BY <1>1 DEF Effects
  <2> QED BY <1>1, <1>2, <1>4, <2>1, OthersStay
<1>7. reply'[r] = "lost"
  BY <1>1, <1>2
<1>8. RecordOf(r)'
  BY <1>4, <1>7 DEF RecordOf, RecordPcs, Before, Succeeded
<1> QED BY <1>4, <1>5, <1>6, <1>8 DEF RecordsInv

LEMMA RestInv ==
  ASSUME RecordsInv, UNCHANGED <<call, pc, reply, conn, store, own, past>>
  PROVE  RecordsInv'
<1>1. PastInv' /\ HeldInv'
  BY QuietPast DEF RecordsInv, HeldInv
<1>2. ASSUME NEW q \in Requests PROVE RecordOf(q)'
  <2>1. Onward(q)
    BY QuietOnward DEF RecordsInv
  <2> QED BY <2>1, OnwardStays
<1> QED BY <1>1, <1>2 DEF RecordsInv

LEMMA NextRecordsInv ==
  ASSUME LifeInv, RecordsInv, [Next]_vars
  PROVE  RecordsInv'
<1>1. ASSUME NEW r \in Requests, Step(r) PROVE RecordsInv'
  <2>1. CASE RecordStep(r)
    BY <2>1, RecordStepInv
  <2>2. CASE Crash(r)
    BY <2>2, CrashInv
  <2> QED BY <1>1, <2>1, <2>2, OtherStepInv DEF Step
<1>2. CASE Outside
  BY <1>2, RestInv DEF Outside, Upgrade, lifeVars, recordVars
<1>3. CASE UNCHANGED vars
  BY <1>3, RestInv DEF vars, lifeVars, recordVars
<1> QED BY <1>1, <1>2, <1>3 DEF Next, Done

LEMMA InitRecordsInv == Init => RecordsInv
<1> SUFFICES ASSUME Init PROVE RecordsInv
  OBVIOUS
<1>1. PICK s \in Starts : /\ call = s.calls /\ store = s.store
                          /\ past = [stores |-> <<s.store>>, done |-> <<>>]
  BY DEF Init
<1>2. \A r \in Requests : /\ pc[r] = IF call[r].kind = "none" THEN "done" ELSE "new"
                          /\ reply[r] = "none"
  BY DEF Init, LifeInit
<1>3. own = [r \in Requests |-> NothingHeld]
  BY DEF Init, RecordsInit
<1>4. past.done = <<>> /\ past.stores = <<store>> /\ past = [done |-> past.done, stores |-> past.stores]
  BY <1>1
<1>5. DOMAIN past.done = {} /\ Now = 0
  BY <1>4 DEF Now
<1>6. \A r : EntriesOf(r) = {}
  BY <1>5 DEF EntriesOf
<1>7. IsList(past.done) /\ IsList(past.stores) /\ Len(past.stores) = Now + 1 /\ store = StoreAt(Now)
  <2>1. IsList(<<>>)
    BY DEF IsList, ToSet
  <2>2. IsList(<<store>>)
    BY DEF IsList, ToSet
  <2>3. Len(<<store>>) = 1 /\ StoreAt(0) = store
    BY <1>4 DEF StoreAt
  <2> QED BY <1>4, <1>5, <2>1, <2>2, <2>3
<1>8. StoreTyped(store)
  BY <1>1, StoresAssumption
<1>9. \A r \in Requests : IsRecord(r) => OrderTyped(Order(r))
  BY <1>1, OrdersAssumption DEF IsRecord, Order
<1>10. PastInv
  BY <1>4, <1>5, <1>7, <1>8, <1>9 DEF PastInv, PastTyped
<1>11. HeldInv
  BY <1>3 DEF HeldInv, NothingHeld
<1>12. \A r \in Requests : RecordOf(r)
  BY <1>2, <1>3, <1>6 DEF RecordOf, RecordPcs, Before, IsRecord, Succeeded
<1> QED BY <1>10, <1>11, <1>12 DEF RecordsInv

\* What the handlers of records know at each of their steps, what they hold and
\* what is committed fit together; no two transactions hold the same fact.
THEOREM RecordsInvariance == Spec => []RecordsInv
BY InitRecordsInv, NextRecordsInv, LifeInvariant, PTL DEF Spec

\* However the calls on notes, pools, types, episodes, facts and chat sessions
\* interleave, wait for each other and die, what is committed is what their
\* steps make of it one after the other: a batch whole or not at all
\* (attributes.py, statements.py, objects.py, chat.py:207), an UPDATE in what it
\* names and nothing else, the steps of a call in order, and all of them where
\* the call has succeeded, whether or not its answer could be written.
THEOREM RecordsAreSerial == Spec => []RecordsAreTheirHistory
<1>1. LifeInv /\ RecordsInv /\ RefusalsCommitNothing => RecordsAreTheirHistory
  <2> SUFFICES ASSUME LifeInv, RecordsInv, RefusalsCommitNothing PROVE RecordsAreTheirHistory
    OBVIOUS
  <2>1. store = StoreAt(Len(past.done)) /\ \A i \in DOMAIN past.done : FollowsAt(i)
    BY DEF RecordsInv, PastInv, PastTyped, Now
  <2>2. ASSUME NEW r \in Requests, IsRecord(r), Succeeded(r) PROVE Fulfilled(r)
    BY <2>2 DEF LifeInv, Told, RecordsInv, RecordOf, Succeeded
  <2> QED BY <2>1, <2>2 DEF RecordsAreTheirHistory, FollowsAt, Fulfilled, CountOf
<1> QED BY <1>1, LifeInvariant, RecordsInvariance, RefusedChangesNothing, PTL

\* Whatever else is committed between the statements of a call on records, its
\* answer is true of what was stored at some moment since its handler began; a
\* row that is deleted before it is read back (notes.py:274, pools.py:223) leaves
\* a PATCH with null and a close, reopen or archive with a failure of the server,
\* and so does every call that was right and whose answer has a timestamp with no
\* form (pools.py:137, types.py:155, 203, attributes.py:174, statements.py:122).
THEOREM RecordsAnswerTheirTime == Spec => []AnswersAreTrueOfAMoment
<1>1. RecordsInv => AnswersAreTrueOfAMoment
  <2> SUFFICES ASSUME RecordsInv, NEW r \in Requests, IsRecord(r), pc[r] = "close", reply[r] \notin Unserved
               PROVE  /\ Succeeded(r) => reply[r] = Success(Order(r))
                      /\ JudgedBetween(r, Outcome(r), own[r].from, own[r].to)
    BY DEF AnswersAreTrueOfAMoment, JudgedBetween, Outcome, Truly, RowAt, Unserved
  <2>1. /\ reply[r] = AnswerTo(Order(r), Outcome(r))
        /\ JudgedBetween(r, Outcome(r), own[r].from, own[r].to)
    BY DEF RecordsInv, RecordOf
  <2> QED BY <2>1 DEF Outcome, AnswerTo
<1> QED BY <1>1, RecordsInvariance, PTL

(* ---------- Imports: what is written and what is still to write ---------- *)

----------------------------------------------------------------------------
(***************************************************************************)
(* Imports: what the graph of a body is, and what its payloads carry.      *)
(***************************************************************************)

\* The elements at some places of a list, picked in order: the number of places
\* before one is an injection of n places into n numbers, and so a surjection.
LEMMA PickedFacts ==
  ASSUME NEW s, NEW I, I \subseteq Int, IsFiniteSet(I)
  PROVE  IsList(Picked(s, I)) /\ ToSet(Picked(s, I)) = {s[i] : i \in I}
<1> DEFINE n == Cardinality(I)
           before(i) == {j \in I : j < i}
           rank == [i \in I |-> Cardinality(before(i))]
           at(k) == CHOOSE i \in I : Cardinality(before(i)) = k - 1
<1>1. n \in Nat /\ IsFiniteSet(0..(n - 1)) /\ Cardinality(0..(n - 1)) = n
  <2>1. n \in Nat
    BY FS_CardinalityType
  <2> HIDE DEF n
  <2>2. n - 1 \in Int /\ 0 \in Int
    BY <2>1
  <2>3. /\ IsFiniteSet(0..(n - 1))
        /\ Cardinality(0..(n - 1)) = IF 0 > n - 1 THEN 0 ELSE (n - 1) - 0 + 1
    BY <2>2, FS_Interval
  <2> QED BY <2>1, <2>3
<1>2. ASSUME NEW i \in I PROVE IsFiniteSet(before(i)) /\ rank[i] \in 0..(n - 1)
  <2>1. before(i) \in SUBSET (I \ {i})
    BY <1>2
  <2>2. IsFiniteSet(I \ {i}) /\ Cardinality(I \ {i}) = n - 1
    BY <1>2, FS_RemoveElement
  <2> HIDE DEF before, n
  <2>3. /\ IsFiniteSet(before(i)) /\ Cardinality(before(i)) <= n - 1
        /\ Cardinality(before(i)) \in Nat
    BY <2>1, <2>2, FS_Subset, FS_CardinalityType
  <2> QED BY <1>1, <1>2, <2>3
<1>3. ASSUME NEW i \in I, NEW j \in I, i < j PROVE rank[i] < rank[j]
  <2>1. before(i) \cup {i} \in SUBSET before(j) /\ i \notin before(i)
    <3>1. \A k \in I : k < i => k < j
      <4> SUFFICES ASSUME NEW k \in I, k < i PROVE k < j
        OBVIOUS
      <4>1. k \in Int /\ i \in Int /\ j \in Int
        OBVIOUS
      <4> HIDE DEF rank, n, before
      <4> QED BY <1>3, <4>1
    <3>2. i \in Int /\ j \in Int /\ ~(i < i)
      OBVIOUS
    <3>3. i \in before(j) /\ i \notin before(i)
      BY <1>3, <3>2
    <3>4. before(i) \subseteq before(j)
      BY <3>1
    <3> HIDE DEF rank, n, before
    <3> QED BY <3>3, <3>4
  <2>2. IsFiniteSet(before(i)) /\ IsFiniteSet(before(j))
    BY <1>2
  <2> HIDE DEF before, n
  <2>3. Cardinality(before(i) \cup {i}) = Cardinality(before(i)) + 1
    BY <2>1, <2>2, FS_AddElement
  <2>4. Cardinality(before(i)) + 1 <= Cardinality(before(j))
    BY <2>1, <2>2, <2>3, FS_Subset
  <2> QED BY <1>2, <2>2, <2>4, FS_CardinalityType
<1>4. rank \in Injection(I, 0..(n - 1))
  <2>1. rank \in [I -> 0..(n - 1)]
    <3>1. rank = [i \in I |-> rank[i]]
      OBVIOUS
    <3> HIDE DEF rank, n, before
    <3> QED BY <1>2, <3>1
  <2>2. ASSUME NEW i \in I, NEW j \in I, rank[i] = rank[j] PROVE i = j
    <3>1. rank[i] \in Int /\ rank[j] \in Int
      BY <1>2
    <3> HIDE DEF rank, n, before
    <3>2. i < j \/ j < i \/ i = j
      OBVIOUS
    <3> QED BY <1>3, <2>2, <3>1, <3>2
  <2> HIDE DEF rank, n, before
  <2> QED BY <2>1, <2>2 DEF Injection, IsInjective
<1>5. rank \in Surjection(I, 0..(n - 1))
  <2> HIDE DEF rank, before
  <2> QED BY <1>1, <1>4, FS_Injection
<1>6. ASSUME NEW k \in 1..n PROVE at(k) \in I /\ Cardinality(before(at(k))) = k - 1
  <2>1. k - 1 \in 0..(n - 1)
    BY <1>1
  <2>2. \E i \in I : rank[i] = k - 1
    <3> HIDE DEF rank, before
    <3> QED BY <1>5, <2>1 DEF Surjection
  <2>3. \E i \in I : Cardinality(before(i)) = k - 1
    BY <2>2
  <2> HIDE DEF before, n
  <2> QED BY <2>3
<1>7. ASSUME NEW i \in I PROVE rank[i] + 1 \in 1..n /\ at(rank[i] + 1) = i
  <2>1. rank[i] + 1 \in 1..n /\ rank[i] \in Int /\ (rank[i] + 1) - 1 = rank[i]
    <3>1. rank[i] \in 0..(n - 1)
      BY <1>2
    <3> HIDE DEF at, rank, before, n
    <3> QED BY <1>1, <3>1
  <2>2. at(rank[i] + 1) \in I /\ Cardinality(before(at(rank[i] + 1))) = rank[i]
    <3> HIDE DEF at, rank, before, n
    <3> QED BY <1>6, <2>1
  <2>3. rank[at(rank[i] + 1)] = rank[i]
    <3>1. \A j \in I : rank[j] = Cardinality(before(j))
      OBVIOUS
    <3> HIDE DEF at, rank, before, n
    <3> QED BY <2>2, <3>1
  <2> HIDE DEF at, rank, before, n
  <2> QED BY <1>4, <2>1, <2>2, <2>3 DEF Injection, IsInjective
<1> DEFINE p == Picked(s, I)
<1>8. DOMAIN p = 1..n /\ \A k \in 1..n : p[k] = s[at(k)]
  BY DEF Picked
<1>9. IsList(p)
  <2> HIDE DEF n
  <2>1. p = [k \in 1..n |-> p[k]]
    BY DEF Picked, n
  <2> HIDE DEF p, at
  <2>2. p \in [1..n -> ToSet(p)]
    BY <1>8, <2>1 DEF ToSet
  <2>3. p \in Seq(ToSet(p))
    BY <1>1, <2>2
  <2> QED BY <2>3 DEF IsList
<1>10. ToSet(p) = {s[i] : i \in I}
  <2> HIDE DEF p, at, rank, before, n
  <2>1. \A k \in 1..n : p[k] \in {s[i] : i \in I}
    BY <1>6, <1>8
  <2>2. \A i \in I : s[i] \in {p[k] : k \in 1..n}
    <3> SUFFICES ASSUME NEW i \in I PROVE s[i] \in {p[k] : k \in 1..n}
      OBVIOUS
    <3> QED BY <1>7, <1>8
  <2> QED BY <1>8, <2>1, <2>2 DEF ToSet
<1> QED BY <1>9, <1>10

\* Every place has its chunk.
LEMMA ChunkOfPlace ==
  ASSUME NEW n \in Nat
  PROVE  LET m == (n + Chunk - 1) \div Chunk IN
         /\ m \in Nat
         /\ \A k \in 1..n : \E i \in 1..m : (i - 1) * Chunk < k /\ k <= i * Chunk
<1> DEFINE C == Chunk
           x == n + C - 1
           m == x \div C
<1>1. C \in Nat /\ C > 0 /\ x \in Nat
  BY GraphAssumption
<1>2. m \in Nat /\ x = C * m + (x % C) /\ x % C \in 0..(C - 1)
  <2> HIDE DEF x
  <2> QED BY <1>1
<1>3. n <= C * m
  BY <1>1, <1>2
<1>4. ASSUME NEW k \in 1..n PROVE \E i \in 1..m : (i - 1) * C < k /\ k <= i * C
  <2> DEFINE y == k - 1
             q == y \div C
             i == q + 1
  <2>1. y \in Nat /\ y = k - 1 /\ k <= n
    OBVIOUS
  <2>2. q \in Nat /\ y = C * q + (y % C) /\ y % C \in 0..(C - 1)
    <3> HIDE DEF y, C
    <3> QED BY <1>1, <2>1
  <2> HIDE DEF y, q, m, x, C
  <2>3. (i - 1) * C = C * q /\ i * C = C * q + C
    BY <1>1, <2>2
  <2>4. (i - 1) * C < k /\ k <= i * C
    BY <1>1, <2>1, <2>2, <2>3
  <2>5. i \in 1..m
    <3>1. C * q < C * m
      BY <1>1, <1>2, <1>3, <2>1, <2>2
    <3>2. C * (m - q) > 0
      BY <1>1, <1>2, <2>2, <3>1
    <3>3. m - q > 0
      <4> SUFFICES ASSUME m - q <= 0 PROVE FALSE
        BY <1>2, <2>2
      <4>1. C * (m - q) <= 0
        BY <1>1, <1>2, <2>2
      <4> QED BY <1>1, <1>2, <2>2, <3>2, <4>1
    <3> QED BY <1>2, <2>2, <3>3
  <2> QED BY <2>4, <2>5
<1> QED BY <1>2, <1>4

LEMMA ChunkedFacts ==
  ASSUME NEW s, IsList(s)
  PROVE  /\ IsList(Chunked(s)) /\ UNION ToSet(Chunked(s)) = ToSet(s)
         /\ \A i \in DOMAIN Chunked(s) : IsFiniteSet(Chunked(s)[i]) /\ Chunked(s)[i] \subseteq ToSet(s)
<1> DEFINE m == (Len(s) + Chunk - 1) \div Chunk
           places(i) == {k \in DOMAIN s : (i - 1) * Chunk < k /\ k <= i * Chunk}
           c == Chunked(s)
<1>1. DOMAIN s = 1..Len(s) /\ Len(s) \in Nat
  BY ListedFacts
<1>2. m \in Nat /\ \A k \in 1..Len(s) : \E i \in 1..m : (i - 1) * Chunk < k /\ k <= i * Chunk
  BY <1>1, ChunkOfPlace
<1>3. DOMAIN c = 1..m /\ c = [i \in 1..m |-> c[i]] /\ \A i \in 1..m : c[i] = {s[j] : j \in places(i)}
  BY DEF Chunked
<1>4. IsList(c)
  <2> HIDE DEF c, m
  <2>1. c \in [1..m -> ToSet(c)]
    BY <1>3 DEF ToSet
  <2> QED BY <1>2, <2>1 DEF IsList
<1>5. ASSUME NEW i \in 1..m PROVE IsFiniteSet(c[i]) /\ c[i] \subseteq ToSet(s)
  <2>1. IsFiniteSet(places(i))
    <3>1. IsFiniteSet(1..Len(s)) /\ places(i) \in SUBSET (1..Len(s))
      BY <1>1, FS_Interval
    <3> HIDE DEF places
    <3> QED BY <3>1, FS_Subset
  <2> DEFINE f == [j \in places(i) |-> s[j]]
  <2>2. f \in Surjection(places(i), c[i])
    <3> HIDE DEF places, c, m
    <3> QED BY <1>3, <1>5 DEF Surjection
  <2>3. IsFiniteSet(c[i])
    <3> HIDE DEF f, places, c
    <3> QED BY <2>1, <2>2, FS_Surjection
  <2>4. c[i] \subseteq ToSet(s)
    <3> HIDE DEF c, m
    <3> QED BY <1>3, <1>5 DEF ToSet
  <2> QED BY <2>3, <2>4
<1>6. UNION ToSet(c) = ToSet(s)
  <2>1. ASSUME NEW k \in DOMAIN s PROVE \E i \in 1..m : s[k] \in c[i]
    <3>1. PICK i \in 1..m : (i - 1) * Chunk < k /\ k <= i * Chunk
      BY <1>1, <1>2, <2>1
    <3>2. k \in places(i)
      BY <2>1, <3>1
    <3> HIDE DEF c, m, places
    <3> QED BY <1>3, <3>1, <3>2
  <2> HIDE DEF c, m, places
  <2>2. ToSet(s) \subseteq UNION ToSet(c)
    BY <1>3, <2>1 DEF ToSet
  <2>3. UNION ToSet(c) \subseteq ToSet(s)
    BY <1>3, <1>5, SMTT(30) DEF ToSet
  <2> QED BY <2>2, <2>3
<1> HIDE DEF c, m
<1> QED BY <1>3, <1>4, <1>5, <1>6 DEF c

\* The nodes of a body that are imported, and its links between them.
IdsOf(ask) == {n.id : n \in ToSet(ask.nodes)} \ {NoId}
BetweenOf(ask) == {l \in ToSet(ask.links) : {l.from, l.to} \subseteq IdsOf(ask)}

LEMMA NodesAndLinks ==
  ASSUME NEW ask, IsList(ask.nodes), IsList(ask.links)
  PROVE  /\ IsList(NodesOf(ask)) /\ {n.id : n \in ToSet(NodesOf(ask))} = IdsOf(ask)
         /\ IsList(LinksOf(ask)) /\ ToSet(LinksOf(ask)) = BetweenOf(ask)
<1> DEFINE n == ask.nodes
           l == ask.links
           I == {i \in DOMAIN n : n[i].id # NoId /\ \A j \in 1..i-1 : n[j].id # n[i].id}
           ids == {x.id : x \in ToSet(NodesOf(ask))}
           J == {i \in DOMAIN l : l[i].from \in ids /\ l[i].to \in ids}
<1>1. /\ DOMAIN n = 1..Len(n) /\ Len(n) \in Nat /\ IsFiniteSet(1..Len(n))
      /\ DOMAIN l = 1..Len(l) /\ Len(l) \in Nat /\ IsFiniteSet(1..Len(l))
  <2>1. /\ DOMAIN n = 1..Len(n) /\ Len(n) \in Nat
        /\ DOMAIN l = 1..Len(l) /\ Len(l) \in Nat
    BY ListedFacts
  <2>2. \A k \in Nat : IsFiniteSet(1..k)
    BY FS_Interval
  <2> QED BY <2>1, <2>2
<1>2. I \subseteq Int /\ IsFiniteSet(I) /\ J \subseteq Int /\ IsFiniteSet(J)
  <2>1. I \in SUBSET (1..Len(n)) /\ J \in SUBSET (1..Len(l))
    BY <1>1
  <2> HIDE DEF I, J, n, l, ids
  <2>2. I \subseteq Int /\ J \subseteq Int
    BY <1>1, <2>1
  <2>3. IsFiniteSet(I)
    BY <1>1, <2>1, FS_Subset
  <2>4. IsFiniteSet(J)
    BY <1>1, <2>1, FS_Subset
  <2> QED BY <2>2, <2>3, <2>4
<1>3. NodesOf(ask) = Picked(n, I) /\ LinksOf(ask) = Picked(l, J)
  BY DEF NodesOf, LinksOf
<1>4. /\ IsList(NodesOf(ask)) /\ ToSet(NodesOf(ask)) = {n[i] : i \in I}
      /\ IsList(LinksOf(ask)) /\ ToSet(LinksOf(ask)) = {l[i] : i \in J}
  <2> HIDE DEF I, J, n, l
  <2> QED BY <1>2, <1>3, PickedFacts
<1>5. ASSUME NEW k \in DOMAIN n, n[k].id # NoId PROVE \E i \in I : n[i].id = n[k].id
  <2> DEFINE same == {i \in 1..Len(n) : n[i].id = n[k].id}
             minus == {0 - i : i \in same}
  <2>1. minus \subseteq Int /\ minus # {} /\ IsFiniteSet(minus)
    <3> HIDE DEF n
    <3>1. IsFiniteSet((0 - Len(n))..0)
      <4>1. 0 - Len(n) \in Int /\ 0 \in Int
        BY <1>1
      <4> QED BY <4>1, FS_Interval
    <3>2. minus \in SUBSET ((0 - Len(n))..0) /\ minus \subseteq Int
      BY <1>1
    <3>3. k \in same
      BY <1>1, <1>5
    <3>4. minus # {}
      BY <3>3
    <3> HIDE DEF minus
    <3> QED BY <3>1, <3>2, <3>4, FS_Subset
  <2>2. PICK m \in minus : \A i \in minus : i <= m
    <3> HIDE DEF minus
    <3> QED BY <2>1, FiniteSetHasMax
  <2>3. PICK i \in same : m = 0 - i
    BY <2>2
  <2>4. \A j \in same : i <= j
    <3> SUFFICES ASSUME NEW j \in same PROVE i <= j
      OBVIOUS
    <3>1. 0 - j \in minus /\ i \in Nat /\ j \in Nat
      BY <1>1, <2>3
    <3>2. 0 - j <= 0 - i
      <4> HIDE DEF minus
      <4> QED BY <2>2, <2>3, <3>1
    <3> QED BY <3>1, <3>2
  <2>5. i \in DOMAIN n /\ n[i].id = n[k].id
    BY <1>1, <2>3
  <2>6. \A j \in 1..i-1 : n[j].id # n[i].id
    <3> SUFFICES ASSUME NEW j \in 1..i-1, n[j].id = n[i].id PROVE FALSE
      OBVIOUS
    <3>1. j \in same /\ j < i
      BY <1>1, <2>3, <2>5
    <3> QED BY <1>1, <2>3, <2>4, <3>1
  <2> QED BY <1>5, <2>5, <2>6
<1>6. ids = IdsOf(ask)
  <2>1. ids = {n[i].id : i \in I}
    <3> HIDE DEF I
    <3> QED BY <1>4
  <2>2. IdsOf(ask) = {n[i].id : i \in DOMAIN n} \ {NoId}
    BY DEF IdsOf, ToSet
  <2>3. \A i \in I : i \in DOMAIN n /\ n[i].id # NoId
    OBVIOUS
  <2> HIDE DEF I, n, ids
  <2> QED BY <1>5, <2>1, <2>2, <2>3
<1>7. {l[i] : i \in J} = BetweenOf(ask)
  <2> HIDE DEF ids
  <2> QED BY <1>6 DEF BetweenOf, ToSet
<1> QED BY <1>4, <1>6, <1>7

\* What a payload lists, and the edges the engine makes of it once its types are known.
IdsIn(p) == {m.id : m \in p.subjects}
EdgesIn(p) == {EdgeOf(l) : l \in {k \in p.links : k.from \in IdsIn(p) /\ k.to \in IdsIn(p)}}
WholeIds(ask) == IdsOf(ask) \cup {Root}
WholeEdges(ask) == {EdgeOf(l) : l \in BetweenOf(ask)}

\* What is left of the payloads of a body, its types being T, when the subjects S
\* and the edges E have been written.  One whose subjects are not counted comes
\* after those that bring them.
Carries(todo, S, E, ask, T) ==
  /\ IsList(todo)
  /\ \A i \in DOMAIN todo : /\ IsFiniteSet(todo[i].subjects)
                            /\ \A m \in todo[i].subjects : m.type \in T
                            /\ todo[i].counts \in BOOLEAN
  /\ S \cup UNION {IdsIn(todo[i]) : i \in DOMAIN todo} = WholeIds(ask)
  /\ E \cup UNION {EdgesIn(todo[i]) : i \in DOMAIN todo} = WholeEdges(ask)
  /\ \A i \in DOMAIN todo : ~todo[i].counts =>
       IdsIn(todo[i]) \subseteq S \cup UNION {IdsIn(todo[j]) : j \in 1..(i - 1)}

LEMMA ListFinite ==
  ASSUME NEW s, IsList(s)
  PROVE  IsFiniteSet(ToSet(s))
<1>1. DOMAIN s = 1..Len(s) /\ Len(s) \in Nat /\ IsFiniteSet(1..Len(s))
  BY ListedFacts, FS_Interval
<1> DEFINE f == [i \in 1..Len(s) |-> s[i]]
<1>2. f \in Surjection(1..Len(s), ToSet(s))
  BY <1>1 DEF Surjection, ToSet
<1> HIDE DEF f
<1> QED BY <1>1, <1>2, FS_Surjection

LEMMA ThreeListed ==
  ASSUME NEW s, NEW t, NEW u, IsList(s), IsList(t), IsList(u)
  PROVE  LET w == (s \o t) \o u IN
         /\ IsList(w) /\ DOMAIN w = 1..(Len(s) + Len(t) + Len(u))
         /\ \A i \in 1..Len(s) : w[i] = s[i]
         /\ \A i \in 1..Len(t) : w[Len(s) + i] = t[i]
         /\ \A i \in 1..Len(u) : w[Len(s) + Len(t) + i] = u[i]
<1> DEFINE d == s \o t
<1>1. Len(s) \in Nat /\ Len(t) \in Nat /\ Len(u) \in Nat
  BY ListedFacts
<1>2. /\ IsList(d) /\ Len(d) = Len(s) + Len(t)
      /\ \A i \in 1..Len(s) : d[i] = s[i]
      /\ \A i \in 1..Len(t) : d[Len(s) + i] = t[i]
  BY ListedConcat
<1> HIDE DEF d
<1>3. /\ IsList(d \o u) /\ DOMAIN (d \o u) = 1..(Len(d) + Len(u))
      /\ \A i \in 1..Len(d) : (d \o u)[i] = d[i]
      /\ \A i \in 1..Len(u) : (d \o u)[Len(d) + i] = u[i]
  BY <1>2, ListedConcat, SMTT(30)
<1>4. /\ \A i \in 1..Len(s) : i \in 1..Len(d)
      /\ \A i \in 1..Len(t) : Len(s) + i \in 1..Len(d)
  BY <1>1, <1>2
<1> DEFINE w == d \o u
<1>5. /\ IsList(w) /\ DOMAIN w = 1..(Len(s) + Len(t) + Len(u))
      /\ \A i \in 1..Len(s) : w[i] = s[i]
      /\ \A i \in 1..Len(t) : w[Len(s) + i] = t[i]
      /\ \A i \in 1..Len(u) : w[Len(s) + Len(t) + i] = u[i]
  <2>1. w = d \o u
    OBVIOUS
  <2> HIDE DEF w
  <2> QED BY <1>1, <1>2, <1>3, <1>4, <2>1
<1> QED BY <1>5 DEF d

\* A call that has the root, chunks of nodes and chunks of links to write.
LEMMA PayloadsCarry ==
  ASSUME NEW ask, IsList(ask.nodes), IsList(ask.links), NEW root, root.id = Root,
         NEW nodes, IsList(nodes), {n.id : n \in ToSet(nodes)} = IdsOf(ask),
         NEW T, root.type \in T, \A n \in ToSet(nodes) : n.type \in T
  PROVE  Payloads(ask, root, nodes) # <<>> /\ Carries(Payloads(ask, root, nodes), {}, {}, ask, T)
<1> DEFINE counted(S) == [subjects |-> S, links |-> {}, counts |-> TRUE]
           linking(L) == [subjects |-> {n \in ToSet(nodes) : n.id \in Endpoints(L)},
                          links |-> L, counts |-> FALSE]
           N == Chunked(nodes)
           L == Chunked(LinksOf(ask))
           B == [i \in DOMAIN N |-> counted(N[i])]
           C == [i \in DOMAIN L |-> linking(L[i])]
           A == <<counted({root})>>
           P == Payloads(ask, root, nodes)
           ids == IdsOf(ask)
<1>1. P = (A \o B) \o C
  BY DEF Payloads
<1>2. /\ IsList(N) /\ UNION {N[i] : i \in DOMAIN N} = ToSet(nodes)
      /\ \A i \in DOMAIN N : IsFiniteSet(N[i]) /\ N[i] \subseteq ToSet(nodes)
  <2> HIDE DEF N
  <2>1. ToSet(N) = {N[i] : i \in DOMAIN N}
    BY DEF ToSet
  <2> QED BY <2>1, ChunkedFacts DEF N
<1>3. /\ IsList(L) /\ UNION {L[i] : i \in DOMAIN L} = BetweenOf(ask)
      /\ \A i \in DOMAIN L : L[i] \subseteq BetweenOf(ask)
  <2>1. IsList(LinksOf(ask)) /\ ToSet(LinksOf(ask)) = BetweenOf(ask)
    BY NodesAndLinks
  <2> HIDE DEF L
  <2>2. ToSet(L) = {L[i] : i \in DOMAIN L}
    BY DEF ToSet
  <2> QED BY <2>1, <2>2, ChunkedFacts DEF L
<1>4. IsList(A) /\ Len(A) = 1 /\ A[1] = counted({root})
  <2> HIDE DEF counted
  <2> QED BY OneListed
<1>5. IsList(B) /\ DOMAIN B = DOMAIN N /\ Len(B) = Len(N)
  <2>1. DOMAIN B = DOMAIN N /\ B = [i \in DOMAIN N |-> B[i]]
    OBVIOUS
  <2> HIDE DEF N, B
  <2>2. IsList(B)
    BY <1>2, <2>1, MappedListed
  <2> QED BY <1>2, <2>1, <2>2, ListedFacts
<1>6. IsList(C) /\ DOMAIN C = DOMAIN L /\ Len(C) = Len(L)
  <2>1. DOMAIN C = DOMAIN L /\ C = [i \in DOMAIN L |-> C[i]]
    OBVIOUS
  <2> HIDE DEF L, C
  <2>2. IsList(C)
    BY <1>3, <2>1, MappedListed
  <2> QED BY <1>3, <2>1, <2>2, ListedFacts
<1>7. /\ DOMAIN B = 1..Len(B) /\ DOMAIN C = 1..Len(C) /\ Len(B) \in Nat /\ Len(C) \in Nat
      /\ \A i \in DOMAIN B : B[i] = counted(N[i])
      /\ \A i \in DOMAIN C : C[i] = linking(L[i])
  <2>1. /\ \A i \in DOMAIN B : B[i] = counted(N[i])
        /\ \A i \in DOMAIN C : C[i] = linking(L[i])
    OBVIOUS
  <2> HIDE DEF N, L, B, C, counted, linking
  <2> QED BY <1>5, <1>6, <2>1, ListedFacts
<1>8. /\ IdsIn(counted({root})) = {Root} /\ EdgesIn(counted({root})) = {}
      /\ \A S : IdsIn(counted(S)) = {n.id : n \in S} /\ EdgesIn(counted(S)) = {}
  BY DEF IdsIn, EdgesIn
<1>9. ASSUME NEW i \in DOMAIN L
      PROVE  /\ IdsIn(linking(L[i])) = Endpoints(L[i]) /\ Endpoints(L[i]) \subseteq ids
             /\ EdgesIn(linking(L[i])) = {EdgeOf(l) : l \in L[i]}
  <2>1. \A l \in L[i] : l.from \in ids /\ l.to \in ids
    <3> HIDE DEF L, ids
    <3> QED BY <1>3, <1>9 DEF BetweenOf, ids
  <2> HIDE DEF L
  <2>2. Endpoints(L[i]) \subseteq ids
    <3> HIDE DEF ids
    <3> QED BY <2>1 DEF Endpoints
  <2>3. IdsIn(linking(L[i])) = Endpoints(L[i])
    <3>1. IdsIn(linking(L[i])) = {n.id : n \in {m \in ToSet(nodes) : m.id \in Endpoints(L[i])}}
      BY DEF IdsIn
    <3> HIDE DEF linking, ids
    <3> QED BY <2>2, <3>1 DEF ids
  <2>4. {k \in linking(L[i]).links : k.from \in IdsIn(linking(L[i])) /\ k.to \in IdsIn(linking(L[i]))} = L[i]
    <3>1. linking(L[i]).links = L[i]
      OBVIOUS
    <3> HIDE DEF linking, ids
    <3> QED BY <2>3, <3>1 DEF Endpoints
  <2> HIDE DEF linking, ids
  <2> QED BY <2>2, <2>3, <2>4 DEF EdgesIn
<1>10. /\ IsList(P) /\ DOMAIN P = 1..(1 + Len(B) + Len(C)) /\ P[1] = counted({root})
       /\ \A i \in DOMAIN B : P[1 + i] = counted(N[i])
       /\ \A i \in DOMAIN C : P[1 + Len(B) + i] = linking(L[i])
  <2> HIDE DEF A, B, C, N, L, counted, linking, P
  <2>1. /\ IsList(P) /\ DOMAIN P = 1..(Len(A) + Len(B) + Len(C))
        /\ \A i \in 1..Len(A) : P[i] = A[i]
        /\ \A i \in 1..Len(B) : P[Len(A) + i] = B[i]
        /\ \A i \in 1..Len(C) : P[Len(A) + Len(B) + i] = C[i]
    <3>1. IsList(A) /\ IsList(B) /\ IsList(C)
      BY <1>4, <1>5, <1>6
    <3>2. P = (A \o B) \o C
      BY <1>1
    <3> HIDE DEF ids
    <3> QED BY <3>1, <3>2, ThreeListed
  <2>2. 1 \in 1..Len(A)
    BY <1>4
  <2> QED BY <1>4, <1>7, <2>1, <2>2
<1>11. \A k \in DOMAIN P : \/ k = 1
                           \/ \E i \in DOMAIN B : k = 1 + i
                           \/ \E i \in DOMAIN C : k = 1 + Len(B) + i
  <2> HIDE DEF B, C, P, L, N
  <2> SUFFICES ASSUME NEW k \in 1..(1 + Len(B) + Len(C))
               PROVE  \/ k = 1
                      \/ \E i \in 1..Len(B) : k = 1 + i
                      \/ \E i \in 1..Len(C) : k = 1 + Len(B) + i
    BY <1>7, <1>10
  <2>1. \/ k = 1
        \/ k - 1 \in 1..Len(B) /\ k = 1 + (k - 1)
        \/ k - 1 - Len(B) \in 1..Len(C) /\ k = 1 + Len(B) + (k - 1 - Len(B))
    BY <1>7
  <2> QED BY <2>1
<1>12. /\ 1 \in DOMAIN P
       /\ \A i \in DOMAIN B : 1 + i \in DOMAIN P
       /\ \A i \in DOMAIN C : 1 + Len(B) + i \in DOMAIN P
  <2> HIDE DEF B, C, P, L, N
  <2> QED BY <1>7, <1>10
<1>13. UNION {IdsIn(P[k]) : k \in DOMAIN P} = WholeIds(ask)
  <2>1. UNION {IdsIn(counted(N[i])) : i \in DOMAIN N} = ids
    <3>1. \A i \in DOMAIN N : IdsIn(counted(N[i])) = {n.id : n \in N[i]}
      BY <1>8
    <3>2. \A x \in ids : \E i \in DOMAIN N : x \in {n.id : n \in N[i]}
      <4> HIDE DEF N
      <4> QED BY <1>2
    <3> HIDE DEF N, counted
    <3>3. \A i \in DOMAIN N : IdsIn(counted(N[i])) \subseteq ids
      BY <1>2, <3>1
    <3> HIDE DEF ids
    <3> QED BY <3>1, <3>2, <3>3
  <2> HIDE DEF B, C, P, L, N, counted, linking, ids
  <2>2. \A k \in DOMAIN P : IdsIn(P[k]) \subseteq ids \cup {Root}
    <3> SUFFICES ASSUME NEW k \in DOMAIN P PROVE IdsIn(P[k]) \subseteq ids \cup {Root}
      OBVIOUS
    <3>1. CASE k = 1
      BY <1>8, <1>10, <3>1
    <3>2. CASE \E i \in DOMAIN B : k = 1 + i
      BY <1>5, <1>10, <2>1, <3>2
    <3>3. CASE \E i \in DOMAIN C : k = 1 + Len(B) + i
      BY <1>6, <1>9, <1>10, <3>3
    <3> QED BY <1>11, <3>1, <3>2, <3>3
  <2>3. Root \in IdsIn(P[1])
    BY <1>8, <1>10
  <2>4. \A x \in ids : \E k \in DOMAIN P : x \in IdsIn(P[k])
    <3> SUFFICES ASSUME NEW x \in ids PROVE \E k \in DOMAIN P : x \in IdsIn(P[k])
      OBVIOUS
    <3>1. PICK i \in DOMAIN N : x \in IdsIn(counted(N[i]))
      BY <2>1
    <3> QED BY <1>5, <1>10, <1>12, <3>1
  <2> QED BY <1>12, <2>2, <2>3, <2>4 DEF WholeIds, ids
<1>14. UNION {EdgesIn(P[k]) : k \in DOMAIN P} = WholeEdges(ask)
  <2>1. \A i \in DOMAIN L : EdgesIn(linking(L[i])) = {EdgeOf(l) : l \in L[i]}
    BY <1>9
  <2> HIDE DEF B, C, P, L, N, counted, linking, ids
  <2>2. \A i \in DOMAIN L : EdgesIn(linking(L[i])) \subseteq WholeEdges(ask)
    BY <1>3, <2>1 DEF WholeEdges
  <2>3. \A k \in DOMAIN P : EdgesIn(P[k]) \subseteq WholeEdges(ask)
    <3> SUFFICES ASSUME NEW k \in DOMAIN P PROVE EdgesIn(P[k]) \subseteq WholeEdges(ask)
      OBVIOUS
    <3>1. CASE k = 1
      BY <1>8, <1>10, <3>1
    <3>2. CASE \E i \in DOMAIN B : k = 1 + i
      BY <1>8, <1>10, <3>2
    <3>3. CASE \E i \in DOMAIN C : k = 1 + Len(B) + i
      BY <1>6, <1>10, <2>2, <3>3
    <3> QED BY <1>11, <3>1, <3>2, <3>3
  <2>4. \A e \in WholeEdges(ask) : \E k \in DOMAIN P : e \in EdgesIn(P[k])
    <3> SUFFICES ASSUME NEW l \in BetweenOf(ask) PROVE \E k \in DOMAIN P : EdgeOf(l) \in EdgesIn(P[k])
      BY DEF WholeEdges
    <3>1. PICK i \in DOMAIN L : l \in L[i]
      BY <1>3
    <3>2. EdgeOf(l) \in EdgesIn(linking(L[i]))
      BY <2>1, <3>1
    <3> QED BY <1>6, <1>10, <1>12, <3>2
  <2> QED BY <2>3, <2>4
<1>15. ASSUME NEW k \in DOMAIN P
       PROVE  IsFiniteSet(P[k].subjects) /\ (\A m \in P[k].subjects : m.type \in T) /\ P[k].counts \in BOOLEAN
  <2>1. CASE k = 1
    <3>1. P[k].subjects = {root} /\ P[k].counts
      <4> HIDE DEF P
      <4> QED BY <1>10, <2>1
    <3> HIDE DEF P
    <3> QED BY <3>1, FS_Singleton
  <2>2. CASE \E i \in DOMAIN B : k = 1 + i
    <3>1. PICK i \in DOMAIN B : k = 1 + i
      BY <2>2
    <3>2. P[k].subjects = N[i] /\ P[k].counts
      <4>1. P[k] = counted(N[i])
        <5> HIDE DEF P, N, B, C, counted, linking
        <5> QED BY <1>10, <3>1
      <4> HIDE DEF P, N
      <4> QED BY <4>1
    <3> HIDE DEF P, N, B
    <3> QED BY <1>2, <1>5, <3>1, <3>2
  <2>3. CASE \E i \in DOMAIN C : k = 1 + Len(B) + i
    <3>1. PICK i \in DOMAIN C : k = 1 + Len(B) + i
      BY <2>3
    <3>2. P[k].subjects \in SUBSET ToSet(nodes) /\ P[k].counts = FALSE
      <4>1. P[k] = linking(L[i])
        <5> HIDE DEF P, N, L, B, C, counted, linking
        <5> QED BY <1>6, <1>10, <3>1
      <4>2. linking(L[i]).subjects \in SUBSET ToSet(nodes) /\ linking(L[i]).counts = FALSE
        OBVIOUS
      <4> HIDE DEF P, linking
      <4> QED BY <4>1, <4>2
    <3> HIDE DEF P
    <3> QED BY <3>2, ListFinite, FS_Subset
  <2> HIDE DEF P, L, N, C, B
  <2> QED BY <1>11, <2>1, <2>2, <2>3
<1>16. ASSUME NEW k \in DOMAIN P, ~P[k].counts
       PROVE  IdsIn(P[k]) \subseteq UNION {IdsIn(P[j]) : j \in 1..(k - 1)}
  <2>1. PICK i \in DOMAIN C : k = 1 + Len(B) + i
    <3>1. counted({root}).counts /\ \A j \in DOMAIN B : counted(N[j]).counts
      OBVIOUS
    <3> HIDE DEF P, L, N, C, B, counted, linking
    <3> QED BY <1>10, <1>11, <1>16, <3>1
  <2>2. IdsIn(P[k]) \subseteq ids
    <3> HIDE DEF P, L, N, C, B, counted, linking, ids
    <3> QED BY <1>6, <1>9, <1>10, <2>1
  <2>3. ASSUME NEW x \in ids PROVE \E j \in 1..(k - 1) : x \in IdsIn(P[j])
    <3>1. PICK j \in DOMAIN N : x \in {n.id : n \in N[j]}
      <4> HIDE DEF N
      <4> QED BY <1>2, <2>3
    <3>2. x \in IdsIn(counted(N[j]))
      <4> HIDE DEF N
      <4> QED BY <1>8, <3>1
    <3> HIDE DEF P, L, N, C, B, counted, linking, ids
    <3>3. 1 + j \in 1..(k - 1)
      BY <1>5, <1>7, <2>1
    <3> QED BY <1>5, <1>10, <3>2, <3>3
  <2> HIDE DEF P, ids
  <2> QED BY <2>2, <2>3
<1> HIDE DEF P
<1>17. P # <<>>
  BY <1>12
<1> QED BY <1>10, <1>13, <1>14, <1>15, <1>16, <1>17 DEF Carries, P

\* One payload after the other.
LEMMA CarriesOn ==
  ASSUME NEW todo, NEW S, NEW E, NEW ask, NEW T, Carries(todo, S, E, ask, T), todo # <<>>,
         NEW p, p = Head(todo)
  PROVE  /\ Carries(Tail(todo), S \cup IdsIn(p), E \cup EdgesIn(p), ask, T)
         /\ IsFiniteSet(IdsIn(p)) /\ p.counts \in BOOLEAN
         /\ \A m \in p.subjects : m.type \in T
         /\ ~p.counts => IdsIn(p) \subseteq S
         /\ Tail(todo) = <<>> => /\ S \cup IdsIn(p) = WholeIds(ask)
                                 /\ E \cup EdgesIn(p) = WholeEdges(ask)
<1> DEFINE t == Tail(todo)
           n == Len(todo)
<1>1. /\ IsList(todo) /\ n \in Nat /\ DOMAIN todo = 1..n /\ n > 0
      /\ IsList(t) /\ DOMAIN t = 1..(n - 1) /\ p = todo[1] /\ 1 \in DOMAIN todo
      /\ \A i \in 1..(n - 1) : t[i] = todo[i + 1]
  BY ListedFacts, ListedTail DEF Carries
<1>2. \A i \in 1..(n - 1) : i + 1 \in DOMAIN todo /\ i + 1 # 1
  BY <1>1
<1>3. \A i \in DOMAIN todo : i # 1 => i - 1 \in 1..(n - 1) /\ t[i - 1] = todo[i]
  <2> SUFFICES ASSUME NEW i \in 1..n, i # 1 PROVE i - 1 \in 1..(n - 1) /\ t[i - 1] = todo[i]
    BY <1>1
  <2>1. i - 1 \in 1..(n - 1) /\ (i - 1) + 1 = i
    BY <1>1
  <2> HIDE DEF t, n
  <2>2. t[i - 1] = todo[(i - 1) + 1]
    BY <1>1, <2>1
  <2> QED BY <2>1, <2>2
<1> HIDE DEF t, n
<1>4. /\ \A i \in DOMAIN todo : todo[i] = p \/ \E j \in DOMAIN t : todo[i] = t[j]
      /\ \E i \in DOMAIN todo : todo[i] = p
      /\ \A j \in DOMAIN t : \E i \in DOMAIN todo : t[j] = todo[i]
  BY <1>1, <1>2, <1>3
<1>5. UNION {IdsIn(todo[i]) : i \in DOMAIN todo} = IdsIn(p) \cup UNION {IdsIn(t[i]) : i \in DOMAIN t}
  BY <1>4
<1>6. UNION {EdgesIn(todo[i]) : i \in DOMAIN todo} = EdgesIn(p) \cup UNION {EdgesIn(t[i]) : i \in DOMAIN t}
  BY <1>4
<1>7. IsFiniteSet(IdsIn(p))
  <2> DEFINE f == [m \in p.subjects |-> m.id]
  <2>1. f \in Surjection(p.subjects, IdsIn(p))
    BY DEF Surjection, IdsIn
  <2>2. IsFiniteSet(p.subjects)
    BY <1>1 DEF Carries
  <2> HIDE DEF f
  <2> QED BY <2>1, <2>2, FS_Surjection
<1>8. ~p.counts => IdsIn(p) \subseteq S
  <2>1. 1..(1 - 1) = {}
    OBVIOUS
  <2>2. UNION {IdsIn(todo[j]) : j \in 1..(1 - 1)} = {}
    BY <2>1
  <2> QED BY <1>1, <2>2 DEF Carries
<1>9. ASSUME NEW i \in DOMAIN t, ~t[i].counts
      PROVE  IdsIn(t[i]) \subseteq (S \cup IdsIn(p)) \cup UNION {IdsIn(t[j]) : j \in 1..(i - 1)}
  <2>1. t[i] = todo[i + 1] /\ i + 1 \in DOMAIN todo /\ (i + 1) - 1 = i
    BY <1>1, <1>2
  <2>2. IdsIn(t[i]) \subseteq S \cup UNION {IdsIn(todo[j]) : j \in 1..i}
    BY <1>9, <2>1 DEF Carries
  <2>3. ASSUME NEW j \in 1..i PROVE IdsIn(todo[j]) \subseteq IdsIn(p) \cup UNION {IdsIn(t[k]) : k \in 1..(i - 1)}
    <3>1. CASE j = 1
      BY <1>1, <3>1
    <3>2. CASE j # 1
      <4>1. j \in DOMAIN todo /\ j - 1 \in 1..(i - 1)
        BY <1>1, <3>2
      <4> QED BY <1>3, <3>2, <4>1
    <3> QED BY <3>1, <3>2
  <2> QED BY <2>2, <2>3
<1>10. \A i \in DOMAIN t : /\ IsFiniteSet(t[i].subjects) /\ \A m \in t[i].subjects : m.type \in T
                           /\ t[i].counts \in BOOLEAN
  BY <1>1, <1>2 DEF Carries
<1>11. /\ (S \cup IdsIn(p)) \cup UNION {IdsIn(t[i]) : i \in DOMAIN t} = WholeIds(ask)
       /\ (E \cup EdgesIn(p)) \cup UNION {EdgesIn(t[i]) : i \in DOMAIN t} = WholeEdges(ask)
  BY <1>5, <1>6 DEF Carries
<1>12. t = <<>> => DOMAIN t = {}
  OBVIOUS
<1>13. Carries(t, S \cup IdsIn(p), E \cup EdgesIn(p), ask, T)
  BY <1>1, <1>9, <1>10, <1>11 DEF Carries
<1>14. t = <<>> => S \cup IdsIn(p) = WholeIds(ask) /\ E \cup EdgesIn(p) = WholeEdges(ask)
  BY <1>11, <1>12
<1>15. (\A m \in p.subjects : m.type \in T) /\ p.counts \in BOOLEAN
  BY <1>1 DEF Carries
<1> QED BY <1>7, <1>8, <1>13, <1>14, <1>15 DEF t

\* What a transaction has written, and what a handler holds, are records.
TxTyped(t) == DOMAIN t = {"types", "subjects", "edges", "groups"}
PlanTyped(p) == DOMAIN p = {"todo", "created", "put", "had", "seeds", "left", "depth", "shown",
                            "first", "last"}

IsImport(r) == IsGraph(r) /\ Wanted(r).op = "import"
Writing == {"ingest", "groups", "commit"}
Querying == {"seeds", "walk", "edges"}
Whole(t, ask) == t.subjects = WholeIds(ask) /\ t.edges = WholeEdges(ask)

\* What an import has written and has still to write is the graph of its body;
\* what it has counted are the new subjects it has written.
ImportOf(r) ==
  LET t == tx[r]
      p == plan[r]
  IN
  /\ TxTyped(t) /\ PlanTyped(p)
  /\ pc[r] \in Writing \cup {"core", "types"} => IsImport(r) /\ p.put = NoTx
  /\ pc[r] \in Querying => ~IsImport(r)
  /\ pc[r] \notin Writing => t = NoTx
  /\ pc[r] \in {"new", "bind", "body"} => p.put = NoTx
  /\ pc[r] \in {"new", "bind", "body", "core", "types"} => p.created = 0
  /\ pc[r] = "ingest" =>
       p.todo # <<>> /\ Carries(p.todo, t.subjects, t.edges, Wanted(r), graph.types \cup t.types)
  /\ pc[r] \in {"groups", "commit"} => Whole(t, Wanted(r))
  /\ pc[r] \in Writing => /\ IsFiniteSet(t.subjects)
                          /\ p.created = Cardinality(t.subjects \ graph.subjects)
  /\ IsImport(r) /\ p.put # NoTx =>
       /\ pc[r] \in {"close", "done"} /\ reply[r] \in {"imported", "lost"}
       /\ Whole(p.put, Wanted(r)) /\ p.created = Cardinality(p.put.subjects \ p.had)
       /\ p.put.subjects \subseteq graph.subjects /\ p.put.edges \subseteq graph.edges
  /\ IsImport(r) /\ reply[r] = "imported" => p.put # NoTx

\* No two transactions are to add the same subject.
Apart == \A q, s \in Requests : q # s => tx[q].subjects \cap tx[s].subjects \subseteq graph.subjects

ImportsInv ==
  /\ DOMAIN tx = Requests /\ DOMAIN plan = Requests
  /\ \A r \in Requests : IsImport(r) => IsList(Wanted(r).nodes) /\ IsList(Wanted(r).links)
  /\ Apart
  /\ \A r \in Requests : ImportOf(r)

\* The committed graph only grows, and not by what another one is to add.
Spares(q) ==
  /\ graph.types \subseteq graph'.types /\ graph.subjects \subseteq graph'.subjects
  /\ graph.edges \subseteq graph'.edges
  /\ tx[q].subjects \cap graph'.subjects \subseteq graph.subjects

LEMMA CarriesMore ==
  ASSUME NEW todo, NEW S, NEW E, NEW ask, NEW T, NEW U, Carries(todo, S, E, ask, T), T \subseteq U
  PROVE  Carries(todo, S, E, ask, U)
BY DEF Carries

LEMMA ImportStays ==
  ASSUME NEW r, ImportOf(r), Spares(r), call' = call, pc'[r] = pc[r], reply'[r] = reply[r],
         tx'[r] = tx[r], plan'[r] = plan[r]
  PROVE  ImportOf(r)'
<1>1. IsImport(r)' = IsImport(r) /\ Wanted(r)' = Wanted(r)
  BY DEF IsImport, IsGraph, Wanted
<1>2. tx[r].subjects \ graph'.subjects = tx[r].subjects \ graph.subjects
  BY DEF Spares
<1>3. graph.types \cup tx[r].types \subseteq graph'.types \cup tx[r].types
  BY DEF Spares
<1>4. pc[r] = "ingest" =>
        Carries(plan[r].todo, tx[r].subjects, tx[r].edges, Wanted(r), graph'.types \cup tx[r].types)
  BY <1>3, CarriesMore DEF ImportOf
<1> DEFINE ask == Wanted(r)
<1>5. /\ (Carries(plan[r].todo, tx[r].subjects, tx[r].edges, Wanted(r), graph.types \cup tx[r].types))'
           = Carries(plan[r].todo, tx[r].subjects, tx[r].edges, Wanted(r), graph'.types \cup tx[r].types)
      /\ Whole(tx[r], Wanted(r))' = Whole(tx[r], Wanted(r))
      /\ Whole(plan[r].put, Wanted(r))' = Whole(plan[r].put, Wanted(r))
      /\ TxTyped(tx[r])' = TxTyped(tx[r]) /\ PlanTyped(plan[r])' = PlanTyped(plan[r])
  BY <1>1 DEF Carries, Whole, TxTyped, PlanTyped, WholeIds, WholeEdges, IdsOf, BetweenOf
<1> HIDE DEF ask
<1> QED BY <1>1, <1>2, <1>4, <1>5 DEF ImportOf, Spares

\* What a step of r does to the others, and what is left of it to show.
LEMMA StepImports ==
  ASSUME ImportsInv, NEW r \in Requests, call' = call,
         DOMAIN tx' = Requests, DOMAIN plan' = Requests,
         \A q \in Requests \ {r} : /\ pc'[q] = pc[q] /\ reply'[q] = reply[q]
                                   /\ tx'[q] = tx[q] /\ plan'[q] = plan[q]
                                   /\ Spares(q) /\ tx'[r].subjects \cap tx[q].subjects \subseteq graph'.subjects,
         ImportOf(r)'
  PROVE  ImportsInv'
<1>1. \A q \in Requests : ImportOf(q)'
  <2> SUFFICES ASSUME NEW q \in Requests, q # r PROVE ImportOf(q)'
    OBVIOUS
  <2> QED BY ImportStays DEF ImportsInv
<1>2. Apart'
  <2> SUFFICES ASSUME NEW q \in Requests, NEW s \in Requests, q # s
               PROVE  tx'[q].subjects \cap tx'[s].subjects \subseteq graph'.subjects
    BY DEF Apart
  <2>1. CASE q = r
    BY <2>1
  <2>2. CASE s = r
    BY <2>2
  <2>3. CASE q # r /\ s # r
    BY <2>3 DEF ImportsInv, Apart, Spares
  <2> QED BY <2>1, <2>2, <2>3
<1>3. \A q \in Requests : IsImport(q)' => IsList(Wanted(q).nodes)' /\ IsList(Wanted(q).links)'
  BY DEF ImportsInv, IsImport, IsGraph, Wanted, IsList
<1> QED BY <1>1, <1>2, <1>3 DEF ImportsInv

\* A step that leaves no transaction, and that imports nothing.
LEMMA EndsImports ==
  ASSUME LifeInv, ImportsInv, NEW r \in Requests, UNCHANGED <<call, graph>>,
         DOMAIN tx' = Requests, tx'[r] = NoTx, \A q \in Requests \ {r} : tx'[q] = tx[q],
         \/ plan' = plan
         \/ /\ ~IsImport(r)
            /\ \E p : plan' = [plan EXCEPT ![r] = p] /\ PlanTyped(p) /\ p.put = plan[r].put,
         NEW x, pc' = [pc EXCEPT ![r] = x], x \notin Writing \cup {"core", "types"},
         x \in Querying => ~IsImport(r),
         x \in {"new", "bind", "body"} => pc[r] \in {"new", "bind", "body"} /\ plan' = plan,
         \A q \in Requests \ {r} : reply'[q] = reply[q],
         pc[r] \in {"close", "done"} => x \in {"close", "done"} /\ reply'[r] \in {reply[r], "lost"},
         reply'[r] = "imported" => reply[r] = "imported"
  PROVE  ImportsInv'
<1>1. ImportOf(r) /\ DOMAIN plan = Requests /\ DOMAIN tx = Requests
  BY DEF ImportsInv
<1>2. pc'[r] = x /\ \A q \in Requests \ {r} : pc'[q] = pc[q]
  BY DEF LifeInv, Types
<1>3. IsImport(r)' = IsImport(r) /\ Wanted(r)' = Wanted(r)
  BY DEF IsImport, IsGraph, Wanted
<1>4. /\ DOMAIN plan' = Requests /\ \A q \in Requests \ {r} : plan'[q] = plan[q]
      /\ PlanTyped(plan'[r]) /\ plan'[r].put = plan[r].put /\ (IsImport(r) => plan'[r] = plan[r])
  <2>1. CASE plan' = plan
    BY <1>1, <2>1 DEF ImportOf
  <2>2. CASE /\ ~IsImport(r)
             /\ \E p : plan' = [plan EXCEPT ![r] = p] /\ PlanTyped(p) /\ p.put = plan[r].put
    BY <1>1, <2>2
  <2> QED BY <2>1, <2>2
<1>5. TxTyped(NoTx) /\ NoTx.subjects = {}
  BY DEF TxTyped, NoTx
<1>6. TxTyped(tx[r])' /\ PlanTyped(plan[r])'
  BY <1>4, <1>5 DEF TxTyped, PlanTyped
<1>7. Whole(plan[r].put, Wanted(r))' = Whole(plan[r].put, Wanted(r))
  BY <1>3, <1>4 DEF Whole, WholeIds, WholeEdges, IdsOf, BetweenOf
<1>8. ImportOf(r)'
  BY <1>1, <1>2, <1>3, <1>4, <1>6, <1>7 DEF ImportOf, Writing, Querying
<1>9. \A q \in Requests : Spares(q)
  BY DEF Spares
<1> QED BY <1>2, <1>4, <1>5, <1>8, <1>9, StepImports

----------------------------------------------------------------------------
\* A commit.
LEMMA CommitsImport ==
  ASSUME LifeInv, ImportsInv, NEW r \in Requests, NEW t, NEW created, Committed(r, t, created),
         IsImport(r), TxTyped(t), Whole(t, Wanted(r)),
         created = Cardinality(t.subjects \ graph.subjects),
         \A q \in Requests \ {r} : tx[q].subjects \cap t.subjects \subseteq graph.subjects
  PROVE  ImportsInv'
<1>1. PlanTyped(plan[r]) /\ DOMAIN plan = Requests /\ DOMAIN tx = Requests
  BY DEF ImportsInv, ImportOf
<1>2. /\ pc'[r] = "close" /\ reply'[r] = "imported" /\ call' = call
      /\ \A q \in Requests \ {r} : pc'[q] = pc[q] /\ reply'[q] = reply[q]
  BY DEF Committed, Answer, LifeInv, Types
<1>3. IsImport(r)' = IsImport(r) /\ Wanted(r)' = Wanted(r)
  BY <1>2 DEF IsImport, IsGraph, Wanted
<1>4. /\ DOMAIN tx' = Requests /\ tx'[r] = NoTx /\ \A q \in Requests \ {r} : tx'[q] = tx[q]
  BY <1>1 DEF Committed
<1>5. /\ plan' = [plan EXCEPT ![r] = [plan[r] EXCEPT !.put = t, !.had = graph.subjects, !.created = created]]
      /\ graph' = Merged(graph, t)
  BY DEF Committed, Hold
<1>6. /\ DOMAIN plan' = Requests /\ \A q \in Requests \ {r} : plan'[q] = plan[q]
      /\ PlanTyped(plan'[r]) /\ plan'[r].put = t /\ plan'[r].had = graph.subjects
      /\ plan'[r].created = created
  <2> DEFINE p == [plan[r] EXCEPT !.put = t, !.had = graph.subjects, !.created = created]
  <2>1. PlanTyped(p) /\ p.put = t /\ p.had = graph.subjects /\ p.created = created
    BY <1>1 DEF PlanTyped
  <2> HIDE DEF p
  <2>2. plan' = [plan EXCEPT ![r] = p]
    BY <1>5 DEF p
  <2> QED BY <1>1, <2>1, <2>2
<1>7. /\ graph'.types = graph.types \cup t.types /\ graph'.subjects = graph.subjects \cup t.subjects
      /\ graph'.edges = graph.edges \cup t.edges
  BY <1>5 DEF Merged
<1>8. t # NoTx
  BY DEF Whole, WholeIds, NoTx
<1>9. TxTyped(NoTx) /\ NoTx.subjects = {}
  BY DEF TxTyped, NoTx
<1>10. TxTyped(tx[r])' /\ PlanTyped(plan[r])'
  BY <1>4, <1>6, <1>9 DEF TxTyped, PlanTyped
<1>11. Whole(plan[r].put, Wanted(r))'
  BY <1>3, <1>6 DEF Whole, WholeIds, WholeEdges, IdsOf, BetweenOf
<1>12. ImportOf(r)'
  BY <1>2, <1>3, <1>4, <1>6, <1>7, <1>8, <1>10, <1>11 DEF ImportOf, Writing, Querying
<1>13. \A q \in Requests \ {r} : Spares(q)
  BY <1>7 DEF Spares
<1> QED BY <1>2, <1>4, <1>6, <1>9, <1>12, <1>13, StepImports

\* A step from one step of an import to another, in what it writes and holds.
LEMMA GoesImport ==
  ASSUME LifeInv, ImportsInv, NEW r \in Requests, UNCHANGED <<call, graph, reply>>,
         NEW x, pc' = [pc EXCEPT ![r] = x],
         DOMAIN tx' = Requests, \A q \in Requests \ {r} : tx'[q] = tx[q],
         DOMAIN plan' = Requests, \A q \in Requests \ {r} : plan'[q] = plan[q],
         \A q \in Requests \ {r} : tx'[r].subjects \cap tx[q].subjects \subseteq graph.subjects,
         pc'[r] = x => ImportOf(r)'
  PROVE  ImportsInv'
<1>1. pc'[r] = x /\ \A q \in Requests \ {r} : pc'[q] = pc[q]
  BY DEF LifeInv, Types
<1>2. \A q \in Requests : Spares(q)
  BY DEF Spares
<1> QED BY <1>1, <1>2, StepImports

LEMMA GraphBodyImports ==
  ASSUME LifeInv, ImportsInv, NEW r \in Requests, GraphBody(r)
  PROVE  ImportsInv'
<1>1. /\ pc[r] = "body" /\ IsGraph(r) /\ UNCHANGED <<call, graph, tx, plan>> /\ ImportOf(r)
      /\ DOMAIN tx = Requests /\ DOMAIN plan = Requests /\ reply[r] = "none"
  BY DEF GraphBody, graphVars, Answer, Go, ImportsInv, LifeInv, Told
<1>2. tx[r] = NoTx /\ NoTx.subjects = {}
  BY <1>1 DEF ImportOf, Writing, Querying, NoTx
<1>3. CASE Answer(r, "bad request")
  <2>1. pc' = [pc EXCEPT ![r] = "close"] /\ reply' = [reply EXCEPT ![r] = "bad request"]
    BY <1>3 DEF Answer
  <2>2. reply'[r] = "bad request" /\ \A q \in Requests \ {r} : reply'[q] = reply[q]
    BY <2>1 DEF LifeInv, Types
  <2> QED BY <1>1, <1>2, <2>1, <2>2, EndsImports DEF Writing, Querying
<1>4. CASE Wanted(r).op = "import" /\ Go(r, "core")
  <2>1. pc' = [pc EXCEPT ![r] = "core"] /\ reply' = reply
    BY <1>4 DEF Go
  <2>2. IsImport(r)'
    BY <1>1, <1>4 DEF IsImport, IsGraph, Wanted
  <2>3. TxTyped(tx[r])' /\ PlanTyped(plan[r])'
    BY <1>1 DEF ImportOf, TxTyped, PlanTyped
  <2>4. pc'[r] = "core" => ImportOf(r)'
    BY <1>1, <1>2, <2>1, <2>2, <2>3 DEF ImportOf, Writing, Querying
  <2> QED BY <1>1, <1>2, <2>1, <2>4, GoesImport
<1>5. CASE Wanted(r).op # "import" /\ Go(r, "seeds")
  <2>1. pc' = [pc EXCEPT ![r] = "seeds"] /\ reply' = reply
    BY <1>5 DEF Go
  <2> QED BY <1>1, <1>2, <1>5, <2>1, EndsImports DEF Writing, Querying, IsImport
<1> QED BY <1>3, <1>4, <1>5 DEF GraphBody

\* An exception in the transaction.
LEMMA RollbackImports ==
  ASSUME LifeInv, ImportsInv, NEW r \in Requests, NEW why, Rollback(r, why),
         pc[r] \notin {"close", "done"}, why # "imported"
  PROVE  ImportsInv'
<1>1. /\ UNCHANGED <<call, graph>> /\ plan' = plan /\ tx' = [tx EXCEPT ![r] = NoTx]
      /\ pc' = [pc EXCEPT ![r] = "close"] /\ reply' = [reply EXCEPT ![r] = why]
      /\ DOMAIN tx = Requests /\ DOMAIN reply = Requests
  BY DEF Rollback, Answer, ImportsInv, LifeInv, Types
<1>2. /\ DOMAIN tx' = Requests /\ tx'[r] = NoTx
      /\ \A q \in Requests \ {r} : tx'[q] = tx[q] /\ reply'[q] = reply[q]
  BY <1>1
<1>3. reply'[r] = why
  BY <1>1
<1> QED BY <1>1, <1>2, <1>3, EndsImports DEF Writing, Querying

\* The graph a body asks for, as the handler computes it.
LEMMA AskedGraph ==
  ASSUME ImportsInv, NEW r \in Requests, IsImport(r)
  PROVE  LET a == Wanted(r) IN
         /\ IsList(a.nodes) /\ IsList(a.links)
         /\ IsList(NodesOf(a)) /\ {n.id : n \in ToSet(NodesOf(a))} = IdsOf(a)
         /\ {EdgeOf(l) : l \in ToSet(LinksOf(a))} = WholeEdges(a)
BY NodesAndLinks DEF ImportsInv, WholeEdges

\* What no other transaction is to add.
LEMMA SparesOthers ==
  ASSUME NEW r \in Requests, NEW ids, ids \cap Uncommitted(r) = {}
  PROVE  \A q \in Requests \ {r} : tx[q].subjects \cap ids \subseteq graph.subjects
<1> DEFINE others == {tx[q].subjects : q \in Requests \ {r}}
<1>1. ids \cap ((UNION others) \ graph.subjects) = {}
  BY DEF Uncommitted
<1>2. \A q \in Requests \ {r} : tx[q].subjects \in others
  OBVIOUS
<1> HIDE DEF others
<1>3. ASSUME NEW q \in Requests \ {r}, NEW i \in tx[q].subjects, i \in ids, i \notin graph.subjects
      PROVE  FALSE
  <2>1. i \in UNION others
    BY <1>2, <1>3
  <2> QED BY <1>1, <1>3, <2>1
<1> QED BY <1>3

LEMMA CoreImports ==
  ASSUME LifeInv, ImportsInv, NEW r \in Requests, CoreImport(r)
  PROVE  ImportsInv'
<1> DEFINE a == Wanted(r)
           ids == {Root} \cup {n.id : n \in ToSet(NodesOf(a))}
           t == [types |-> {}, subjects |-> ids, edges |-> {EdgeOf(l) : l \in ToSet(LinksOf(a))},
                 groups |-> Replacing(a)]
           created == Cardinality(ids \ graph.subjects)
<1>1. /\ pc[r] = "core" /\ ImportOf(r) /\ IsImport(r) /\ tx[r] = NoTx
      /\ DOMAIN tx = Requests /\ DOMAIN plan = Requests
  BY DEF CoreImport, ImportsInv, ImportOf, Writing
<1>2. CASE Go(r, "types") /\ UNCHANGED graphVars
  <2>1. pc' = [pc EXCEPT ![r] = "types"] /\ UNCHANGED <<call, reply, graph, tx, plan>>
    BY <1>2 DEF Go, graphVars
  <2>2. IsImport(r)' /\ TxTyped(tx[r])' /\ PlanTyped(plan[r])'
    BY <1>1, <2>1 DEF IsImport, IsGraph, Wanted, ImportOf, TxTyped, PlanTyped
  <2>3. pc'[r] = "types" => ImportOf(r)'
    BY <1>1, <2>1, <2>2 DEF ImportOf, Writing, Querying
  <2>4. NoTx.subjects = {}
    BY DEF NoTx
  <2> QED BY <1>1, <2>1, <2>3, <2>4, GoesImport
<1>3. CASE ids \cap Uncommitted(r) = {} /\ Committed(r, t, created)
  <2>1. ids = WholeIds(a) /\ t.edges = WholeEdges(a) /\ t.subjects = ids /\ TxTyped(t)
    <3>1. {n.id : n \in ToSet(NodesOf(a))} = IdsOf(a) /\ {EdgeOf(l) : l \in ToSet(LinksOf(a))} = WholeEdges(a)
      BY <1>1, AskedGraph
    <3> QED BY <3>1 DEF WholeIds, TxTyped
  <2>2. \A q \in Requests \ {r} : tx[q].subjects \cap ids \subseteq graph.subjects
    <3>1. ids \cap Uncommitted(r) = {}
      BY <1>3
    <3> HIDE DEF ids
    <3> QED BY <3>1, SparesOthers
  <2>3. Whole(t, Wanted(r)) /\ created = Cardinality(t.subjects \ graph.subjects)
    <3> HIDE DEF ids, t
    <3> QED BY <2>1 DEF Whole
  <2> HIDE DEF ids, t, created
  <2> QED BY <1>1, <1>3, <2>1, <2>2, <2>3, CommitsImport
<1>4. CASE Rollback(r, "refused")
  BY <1>1, <1>4, RollbackImports
<1> QED BY <1>2, <1>3, <1>4 DEF CoreImport

\* Nothing left to write: all of it is written.
LEMMA CarriesAll ==
  ASSUME NEW todo, NEW S, NEW E, NEW ask, NEW T, Carries(todo, S, E, ask, T), todo = <<>>
  PROVE  S = WholeIds(ask) /\ E = WholeEdges(ask)
<1>1. DOMAIN todo = {}
  OBVIOUS
<1> QED BY <1>1 DEF Carries

LEMMA TypesImports ==
  ASSUME LifeInv, ImportsInv, NEW r \in Requests, RegisterTypes(r)
  PROVE  ImportsInv'
<1>1. /\ pc[r] = "types" /\ ImportOf(r) /\ IsImport(r) /\ tx[r] = NoTx /\ plan[r].created = 0
      /\ DOMAIN tx = Requests /\ DOMAIN plan = Requests /\ TxTyped(tx[r]) /\ PlanTyped(plan[r])
      /\ plan[r].put = NoTx
  BY DEF RegisterTypes, ImportsInv, ImportOf, Writing
<1>2. CASE \E why \in {"bad request", "refused"} : Rollback(r, why)
  BY <1>1, <1>2, RollbackImports
<1>3. CASE ~\E why \in {"bad request", "refused"} : Rollback(r, why)
  <2> DEFINE a == Wanted(r)
             catalog == graph.types
             generic == IF "concept" \in catalog THEN "concept" ELSE "other"
             canRegister == engine >= 102
             named(type) == IF type \in catalog THEN type
                            ELSE IF canRegister /\ Slugs[type] # "" THEN Slugs[type] ELSE generic
             typed(n) == [id |-> n.id, type |-> named(n.type)]
             root == typed([id |-> Root, type |-> "graph_namespace"])
             nodes == [i \in DOMAIN NodesOf(a) |-> typed(NodesOf(a)[i])]
             types == ({root.type} \cup {n.type : n \in ToSet(nodes)}) \ catalog
             todo == Payloads(a, root, nodes)
  <2>1. /\ tx' = [tx EXCEPT ![r].types = types]
        /\ Hold(r, [plan[r] EXCEPT !.todo = todo])
        /\ Go(r, "ingest") /\ UNCHANGED graph
    BY <1>3 DEF RegisterTypes
  <2>2. root.id = Root
    OBVIOUS
  <2>3. IsList(nodes) /\ {n.id : n \in ToSet(nodes)} = IdsOf(a)
    <3> DEFINE l == NodesOf(a)
    <3>1. IsList(l) /\ {n.id : n \in ToSet(l)} = IdsOf(a)
      BY <1>1, AskedGraph
    <3>2. DOMAIN nodes = DOMAIN l /\ nodes = [i \in DOMAIN l |-> nodes[i]] /\ \A i \in DOMAIN l : nodes[i].id = l[i].id
      OBVIOUS
    <3> HIDE DEF nodes, l
    <3>3. IsList(nodes)
      BY <3>1, <3>2, MappedListed
    <3>4. {n.id : n \in ToSet(nodes)} = {n.id : n \in ToSet(l)}
      BY <3>2 DEF ToSet
    <3> QED BY <3>1, <3>3, <3>4
  <2> HIDE DEF root, nodes
  <2> DEFINE T == graph.types \cup types
  <2>4. root.type \in T /\ \A n \in ToSet(nodes) : n.type \in T
    OBVIOUS
  <2>5. todo # <<>> /\ Carries(todo, {}, {}, a, T)
    <3> HIDE DEF T, types
    <3>1. IsList(a.nodes) /\ IsList(a.links)
      BY <1>1 DEF ImportsInv
    <3> HIDE DEF a
    <3> QED BY <2>2, <2>3, <2>4, <3>1, PayloadsCarry
  <2>6. UNCHANGED <<call, graph, reply>> /\ pc' = [pc EXCEPT ![r] = "ingest"]
    BY <2>1 DEF Go
  <2> HIDE DEF T, types, todo
  <2>7. /\ DOMAIN tx' = Requests /\ \A q \in Requests \ {r} : tx'[q] = tx[q]
        /\ TxTyped(tx'[r]) /\ tx'[r].types = types /\ tx'[r].subjects = {} /\ tx'[r].edges = {}
    <3> DEFINE t == [tx[r] EXCEPT !.types = types]
    <3>1. tx' = [tx EXCEPT ![r] = t]
      BY <2>1
    <3>2. TxTyped(t) /\ t.types = types /\ t.subjects = {} /\ t.edges = {}
      BY <1>1 DEF TxTyped, NoTx
    <3> HIDE DEF t
    <3> QED BY <1>1, <3>1, <3>2
  <2>8. /\ DOMAIN plan' = Requests /\ \A q \in Requests \ {r} : plan'[q] = plan[q]
        /\ PlanTyped(plan'[r]) /\ plan'[r].todo = todo /\ plan'[r].created = 0 /\ plan'[r].put = NoTx
    <3> DEFINE p == [plan[r] EXCEPT !.todo = todo]
    <3>1. plan' = [plan EXCEPT ![r] = p]
      BY <2>1 DEF Hold
    <3>2. PlanTyped(p) /\ p.todo = todo /\ p.created = 0 /\ p.put = NoTx
      BY <1>1 DEF PlanTyped
    <3> HIDE DEF p
    <3> QED BY <1>1, <3>1, <3>2
  <2>9. IsImport(r)' /\ Wanted(r)' = a
    BY <1>1, <2>6 DEF IsImport, IsGraph, Wanted
  <2>10. /\ Carries(plan[r].todo, tx[r].subjects, tx[r].edges, Wanted(r), graph.types \cup tx[r].types)'
         /\ TxTyped(tx[r])' /\ PlanTyped(plan[r])'
    <3>1. /\ plan'[r].todo = todo /\ tx'[r].subjects = {} /\ tx'[r].edges = {}
          /\ Wanted(r)' = a /\ (graph.types \cup tx[r].types)' = T
      BY <2>6, <2>7, <2>8, <2>9 DEF T
    <3> HIDE DEF a
    <3>2. Carries(plan'[r].todo, tx'[r].subjects, tx'[r].edges, a, T)
      BY <2>5, <3>1
    <3>3. TxTyped(tx[r])' /\ PlanTyped(plan[r])'
      BY <2>7, <2>8 DEF TxTyped, PlanTyped
    <3> QED BY <3>1, <3>2, <3>3
  <2>11. IsFiniteSet({}) /\ Cardinality({} \ graph'.subjects) = 0
    BY FS_EmptySet
  <2>12. pc'[r] = "ingest" => ImportOf(r)'
    <3>1. reply[r] = "none"
      BY <1>1 DEF LifeInv, Told
    <3> QED BY <2>5, <2>6, <2>7, <2>8, <2>9, <2>10, <2>11, <3>1 DEF ImportOf, Writing, Querying
  <2> QED BY <2>6, <2>7, <2>8, <2>12, GoesImport
<1> QED BY <1>2, <1>3

\* Adding to a finite set, and counting what is outside of another one.
LEMMA CountedOnce ==
  ASSUME NEW S, NEW I, NEW G, IsFiniteSet(S), IsFiniteSet(I)
  PROVE  /\ IsFiniteSet(S \cup I)
         /\ Cardinality((S \cup I) \ G) = Cardinality(S \ G) + Cardinality(I \ (G \cup S))
<1> DEFINE A == S \ G
           B == I \ (G \cup S)
<1>1. IsFiniteSet(A) /\ IsFiniteSet(B) /\ IsFiniteSet(S \cup I)
  BY FS_Difference, FS_Union
<1>2. A \cap B = {} /\ (S \cup I) \ G = A \cup B
  OBVIOUS
<1> HIDE DEF A, B
<1>3. Cardinality(A \cup B) = Cardinality(A) + Cardinality(B) - Cardinality(A \cap B)
  BY <1>1, FS_Union
<1>4. Cardinality(A) \in Nat /\ Cardinality(B) \in Nat /\ Cardinality(A \cap B) = 0
  BY <1>1, <1>2, FS_CardinalityType, FS_EmptySet
<1>5. Cardinality((S \cup I) \ G) = Cardinality(A) + Cardinality(B)
  BY <1>2, <1>3, <1>4
<1> QED BY <1>1, <1>5 DEF A, B

LEMMA IngestImports ==
  ASSUME LifeInv, ImportsInv, NEW r \in Requests, IngestChunk(r)
  PROVE  ImportsInv'
<1>1. /\ pc[r] = "ingest" /\ ImportOf(r) /\ IsImport(r)
      /\ DOMAIN tx = Requests /\ DOMAIN plan = Requests /\ TxTyped(tx[r]) /\ PlanTyped(plan[r])
      /\ plan[r].put = NoTx /\ reply[r] = "none"
  BY DEF IngestChunk, ImportsInv, ImportOf, Writing, LifeInv, Told
<1>2. CASE Rollback(r, "refused")
  BY <1>1, <1>2, RollbackImports
<1>3. CASE ~Rollback(r, "refused")
  <2> DEFINE load == Head(plan[r].todo)
             ids == {n.id : n \in {m \in load.subjects : m.type \in graph.types \cup tx[r].types}}
             new == ids \ (graph.subjects \cup tx[r].subjects)
             edges == {EdgeOf(l) : l \in {k \in load.links : k.from \in ids /\ k.to \in ids}}
             mine == tx[r].subjects
             drawn == tx[r].edges
             known == graph.types \cup tx[r].types
             rest == plan[r].todo
             a == Wanted(r)
             created == IF load.counts THEN plan[r].created + Cardinality(new) ELSE plan[r].created
             x == IF Tail(rest) = <<>> THEN "groups" ELSE "ingest"
  <2>1. /\ ids \cap Uncommitted(r) = {}
        /\ tx' = [tx EXCEPT ![r].subjects = @ \cup ids, ![r].edges = @ \cup edges]
        /\ Hold(r, [plan[r] EXCEPT !.todo = Tail(@), !.created = IF load.counts THEN @ + Cardinality(new) ELSE @])
        /\ Go(r, x) /\ UNCHANGED graph
    BY <1>3, ZenonT(40) DEF IngestChunk
  <2>2. /\ rest # <<>> /\ Carries(rest, mine, drawn, a, known) /\ IsFiniteSet(mine)
        /\ plan[r].created = Cardinality(mine \ graph.subjects)
    BY <1>1 DEF ImportOf, Writing, Querying
  <2>3. /\ Carries(Tail(rest), mine \cup IdsIn(load), drawn \cup EdgesIn(load), a, known)
        /\ IsFiniteSet(IdsIn(load)) /\ load.counts \in BOOLEAN /\ \A m \in load.subjects : m.type \in known
        /\ ~load.counts => IdsIn(load) \subseteq mine
        /\ Tail(rest) = <<>> => /\ mine \cup IdsIn(load) = WholeIds(a)
                                /\ drawn \cup EdgesIn(load) = WholeEdges(a)
    <3>1. Carries(rest, mine, drawn, a, known) /\ rest # <<>>
      BY <2>2
    <3>2. load = Head(rest)
      OBVIOUS
    <3> HIDE DEF rest, mine, drawn, a, known, load, ids, edges, new, created, x
    <3>3. Carries(Tail(rest), mine \cup IdsIn(load), drawn \cup EdgesIn(load), a, known)
      BY <3>1, <3>2, CarriesOn
    <3>4. /\ IsFiniteSet(IdsIn(load)) /\ load.counts \in BOOLEAN
          /\ \A m \in load.subjects : m.type \in known
          /\ ~load.counts => IdsIn(load) \subseteq mine
      <4>1. IsFiniteSet(IdsIn(load)) /\ \A m \in load.subjects : m.type \in known
        BY <3>1, <3>2, CarriesOn
      <4>2. load.counts \in BOOLEAN
        BY <3>1, <3>2, CarriesOn
      <4>3. ~load.counts => IdsIn(load) \subseteq mine
        BY <3>1, <3>2, CarriesOn
      <4> QED BY <4>1, <4>2, <4>3
    <3>5. Tail(rest) = <<>> => /\ mine \cup IdsIn(load) = WholeIds(a)
                                /\ drawn \cup EdgesIn(load) = WholeEdges(a)
      <4> SUFFICES ASSUME Tail(rest) = <<>>
                   PROVE  mine \cup IdsIn(load) = WholeIds(a) /\ drawn \cup EdgesIn(load) = WholeEdges(a)
        OBVIOUS
      <4> QED BY <3>3, CarriesAll
    <3> QED BY <3>3, <3>4, <3>5
  <2>4. ids = IdsIn(load) /\ edges = EdgesIn(load)
    <3>1. {m \in load.subjects : m.type \in known} = load.subjects
      <4> HIDE DEF load, known
      <4> QED BY <2>3
    <3>2. ids = IdsIn(load)
      <4>1. ids = {n.id : n \in {m \in load.subjects : m.type \in known}}
        OBVIOUS
      <4> HIDE DEF load, known, ids
      <4> QED BY <3>1, <4>1 DEF IdsIn
    <3> HIDE DEF load, ids
    <3> QED BY <3>2 DEF EdgesIn
  <2> HIDE DEF load, ids, edges, new
  <2>5. created = Cardinality((mine \cup ids) \ graph.subjects) /\ IsFiniteSet(mine \cup ids)
    <3> HIDE DEF mine
    <3>1. /\ IsFiniteSet(mine \cup ids)
          /\ Cardinality((mine \cup ids) \ graph.subjects)
               = Cardinality(mine \ graph.subjects) + Cardinality(ids \ (graph.subjects \cup mine))
      <4>1. IsFiniteSet(mine) /\ IsFiniteSet(ids)
        BY <2>2, <2>3, <2>4
      <4> DEFINE there == graph.subjects
      <4> HIDE DEF there
      <4>2. /\ IsFiniteSet(mine \cup ids)
            /\ Cardinality((mine \cup ids) \ there)
                 = Cardinality(mine \ there) + Cardinality(ids \ (there \cup mine))
        BY <4>1, CountedOnce
      <4> QED BY <4>2 DEF there
    <3>2. new = ids \ (graph.subjects \cup mine)
      BY DEF new, mine
    <3>3. CASE load.counts
      BY <2>2, <3>1, <3>2, <3>3
    <3>4. CASE ~load.counts
      <4>1. mine \cup ids = mine
        BY <2>3, <2>4, <3>4
      <4> QED BY <2>2, <3>1, <3>4, <4>1
    <3> QED BY <2>3, <3>3, <3>4, <3>1
  <2> HIDE DEF created, x
  <2>6. UNCHANGED <<call, graph, reply>> /\ pc' = [pc EXCEPT ![r] = x]
    BY <2>1 DEF Go
  <2>7. /\ DOMAIN tx' = Requests /\ \A q \in Requests \ {r} : tx'[q] = tx[q]
        /\ TxTyped(tx'[r]) /\ tx'[r].types = tx[r].types
        /\ tx'[r].subjects = mine \cup ids /\ tx'[r].edges = drawn \cup edges
    <3> DEFINE t == [tx[r] EXCEPT !.subjects = @ \cup ids, !.edges = @ \cup edges]
    <3>1. tx' = [tx EXCEPT ![r] = t]
      BY <2>1
    <3>2. TxTyped(t) /\ t.types = tx[r].types /\ t.subjects = mine \cup ids /\ t.edges = drawn \cup edges
      BY <1>1 DEF TxTyped
    <3> HIDE DEF t
    <3> QED BY <1>1, <3>1, <3>2
  <2>8. /\ DOMAIN plan' = Requests /\ \A q \in Requests \ {r} : plan'[q] = plan[q]
        /\ PlanTyped(plan'[r]) /\ plan'[r].todo = Tail(rest) /\ plan'[r].created = created
        /\ plan'[r].put = NoTx
    <3> DEFINE h == [plan[r] EXCEPT !.todo = Tail(@), !.created = IF load.counts THEN @ + Cardinality(new) ELSE @]
    <3>1. plan' = [plan EXCEPT ![r] = h]
      BY <2>1 DEF Hold
    <3>2. PlanTyped(h) /\ h.todo = Tail(rest) /\ h.created = created /\ h.put = NoTx
      BY <1>1 DEF PlanTyped, created
    <3> HIDE DEF h
    <3> QED BY <1>1, <3>1, <3>2
  <2>9. IsImport(r)' /\ Wanted(r)' = a
    BY <1>1, <2>6 DEF IsImport, IsGraph, Wanted
  <2>10. /\ Carries(plan[r].todo, tx[r].subjects, tx[r].edges, Wanted(r), graph.types \cup tx[r].types)'
         /\ TxTyped(tx[r])' /\ PlanTyped(plan[r])'
         /\ Tail(rest) = <<>> => Whole(tx[r], Wanted(r))'
    <3>1. /\ plan'[r].todo = Tail(rest) /\ tx'[r].subjects = mine \cup IdsIn(load)
          /\ tx'[r].edges = drawn \cup EdgesIn(load)
          /\ Wanted(r)' = a /\ (graph.types \cup tx[r].types)' = known
      BY <2>4, <2>6, <2>7, <2>8, <2>9 DEF known
    <3> HIDE DEF a, rest, mine, drawn, known
    <3>2. Carries(plan'[r].todo, tx'[r].subjects, tx'[r].edges, a, known)
      BY <2>3, <3>1
    <3>3. Tail(rest) = <<>> => Whole(tx'[r], a)
      BY <2>3, <3>1 DEF Whole
    <3>4. TxTyped(tx[r])' /\ PlanTyped(plan[r])'
      BY <2>7, <2>8, SMTT(30) DEF TxTyped, PlanTyped
    <3> QED BY <3>1, <3>2, <3>3, <3>4
  <2>11. pc'[r] = x => ImportOf(r)'
    <3>1. /\ IsFiniteSet(tx'[r].subjects)
          /\ plan'[r].created = Cardinality(tx'[r].subjects \ graph'.subjects)
      BY <2>5, <2>6, <2>7, <2>8
    <3>2. \/ x = "groups" /\ Tail(rest) = <<>>
          \/ x = "ingest" /\ Tail(rest) # <<>>
      BY DEF x
    <3> QED BY <1>1, <2>6, <2>7, <2>8, <2>9, <2>10, <3>1, <3>2 DEF ImportOf, Writing, Querying
  <2>12. \A q \in Requests \ {r} : tx'[r].subjects \cap tx[q].subjects \subseteq graph.subjects
    <3>1. \A q \in Requests \ {r} : ids \cap tx[q].subjects \subseteq graph.subjects
      BY <2>1, SparesOthers
    <3>2. \A q \in Requests \ {r} : mine \cap tx[q].subjects \subseteq graph.subjects
      BY DEF ImportsInv, Apart
    <3> HIDE DEF mine
    <3> QED BY <2>7, <3>1, <3>2
  <2> QED BY <2>6, <2>7, <2>8, <2>11, <2>12, GoesImport, ZenonT(40)
<1> QED BY <1>2, <1>3, SMTT(30)

LEMMA GroupsImports ==
  ASSUME LifeInv, ImportsInv, NEW r \in Requests, StoreGroups(r)
  PROVE  ImportsInv'
<1>1. /\ pc[r] = "groups" /\ ImportOf(r) /\ IsImport(r)
      /\ DOMAIN tx = Requests /\ DOMAIN plan = Requests /\ TxTyped(tx[r]) /\ PlanTyped(plan[r])
      /\ plan[r].put = NoTx /\ reply[r] = "none"
  BY DEF StoreGroups, ImportsInv, ImportOf, Writing, LifeInv, Told
<1>2. CASE Rollback(r, "refused")
  BY <1>1, <1>2, RollbackImports
<1>3. CASE ~Rollback(r, "refused")
  <2>1. PICK g : tx' = [tx EXCEPT ![r].groups = g] /\ Go(r, "commit") /\ UNCHANGED <<graph, plan>>
    BY <1>3 DEF StoreGroups
  <2>2. UNCHANGED <<call, graph, reply, plan>> /\ pc' = [pc EXCEPT ![r] = "commit"]
    BY <2>1 DEF Go
  <2>3. /\ DOMAIN tx' = Requests /\ \A q \in Requests \ {r} : tx'[q] = tx[q]
        /\ TxTyped(tx'[r]) /\ tx'[r].subjects = tx[r].subjects /\ tx'[r].edges = tx[r].edges
    <3> DEFINE t == [tx[r] EXCEPT !.groups = g]
    <3>1. tx' = [tx EXCEPT ![r] = t]
      BY <2>1
    <3>2. TxTyped(t) /\ t.subjects = tx[r].subjects /\ t.edges = tx[r].edges
      BY <1>1 DEF TxTyped
    <3> HIDE DEF t
    <3> QED BY <1>1, <3>1, <3>2
  <2>4. IsImport(r)' /\ Wanted(r)' = Wanted(r)
    BY <1>1, <2>2 DEF IsImport, IsGraph, Wanted
  <2>5. Whole(tx[r], Wanted(r))' /\ TxTyped(tx[r])' /\ PlanTyped(plan[r])'
    BY <1>1, <2>2, <2>3, <2>4
       DEF ImportOf, TxTyped, PlanTyped, Whole, WholeIds, WholeEdges, IdsOf, BetweenOf
  <2>6. pc'[r] = "commit" => ImportOf(r)'
    BY <1>1, <2>2, <2>3, <2>4, <2>5 DEF ImportOf, Writing, Querying
  <2>7. \A q \in Requests \ {r} : tx'[r].subjects \cap tx[q].subjects \subseteq graph.subjects
    BY <2>3 DEF ImportsInv, Apart
  <2> QED BY <1>1, <2>2, <2>3, <2>6, <2>7, GoesImport
<1> QED BY <1>2, <1>3

LEMMA CommitImports ==
  ASSUME LifeInv, ImportsInv, NEW r \in Requests, Commit(r)
  PROVE  ImportsInv'
<1>1. pc[r] = "commit" /\ Committed(r, tx[r], plan[r].created)
  BY DEF Commit
<1>2. /\ IsImport(r) /\ TxTyped(tx[r]) /\ Whole(tx[r], Wanted(r))
      /\ plan[r].created = Cardinality(tx[r].subjects \ graph.subjects)
  BY <1>1 DEF ImportsInv, ImportOf, Writing
<1>3. \A q \in Requests \ {r} : tx[q].subjects \cap tx[r].subjects \subseteq graph.subjects
  BY DEF ImportsInv, Apart
<1> DEFINE t == tx[r]
           created == plan[r].created
<1>4. Committed(r, t, created)
  BY <1>1
<1> HIDE DEF t, created
<1> QED BY <1>2, <1>3, <1>4, CommitsImport DEF t, created

\* The steps of a query.
LEMMA QueryImports ==
  ASSUME LifeInv, ImportsInv, NEW r \in Requests, ChooseSeeds(r) \/ WalkFrom(r) \/ ShowGraph(r)
  PROVE  ImportsInv'
<1>1. /\ pc[r] \in Querying /\ ImportOf(r) /\ ~IsImport(r) /\ UNCHANGED <<graph, tx>>
      /\ DOMAIN tx = Requests /\ DOMAIN plan = Requests /\ PlanTyped(plan[r])
      /\ tx[r] = NoTx
  BY DEF ImportsInv, ImportOf, Querying, Writing, ChooseSeeds, WalkFrom, ShowGraph
<1>2. \E p : plan' = [plan EXCEPT ![r] = p] /\ PlanTyped(p) /\ p.put = plan[r].put
  <2>1. CASE ChooseSeeds(r)
    <3>1. PICK s, f : Hold(r, [plan[r] EXCEPT !.seeds = s, !.left = s, !.first = f])
      BY <2>1 DEF ChooseSeeds
    <3> DEFINE p == [plan[r] EXCEPT !.seeds = s, !.left = s, !.first = f]
    <3>2. PlanTyped(p) /\ p.put = plan[r].put
      BY <1>1 DEF PlanTyped
    <3> QED BY <3>1, <3>2 DEF Hold
  <2>2. CASE WalkFrom(r)
    <3>1. PICK l, d : Hold(r, [plan[r] EXCEPT !.left = l, !.depth = d])
      BY <2>2 DEF WalkFrom
    <3> DEFINE p == [plan[r] EXCEPT !.left = l, !.depth = d]
    <3>2. PlanTyped(p) /\ p.put = plan[r].put
      BY <1>1 DEF PlanTyped
    <3> QED BY <3>1, <3>2 DEF Hold
  <2>3. CASE ShowGraph(r)
    <3>1. PICK l, s : Hold(r, [plan[r] EXCEPT !.last = l, !.shown = s])
      BY <2>3 DEF ShowGraph
    <3> DEFINE p == [plan[r] EXCEPT !.last = l, !.shown = s]
    <3>2. PlanTyped(p) /\ p.put = plan[r].put
      BY <1>1, SMTT(30) DEF PlanTyped
    <3> QED BY <3>1, <3>2 DEF Hold
  <2> QED BY <2>1, <2>2, <2>3
<1>3. /\ call' = call
      /\ \/ \E x \in Querying : pc' = [pc EXCEPT ![r] = x] /\ reply' = reply
         \/ \E b \in {"nothing", "shown"} : pc' = [pc EXCEPT ![r] = "close"] /\ reply' = [reply EXCEPT ![r] = b]
  BY DEF ChooseSeeds, WalkFrom, ShowGraph, Go, Answer, Querying
<1>4. PICK x \in Querying \cup {"close"} : pc' = [pc EXCEPT ![r] = x]
  BY <1>3
<1>5. /\ \A q \in Requests \ {r} : reply'[q] = reply[q]
      /\ reply'[r] = "imported" => reply[r] = "imported"
  BY <1>3 DEF LifeInv, Types
<1> QED BY <1>1, <1>2, <1>3, <1>4, <1>5, EndsImports DEF Writing, Querying

LEMMA GraphStepImports ==
  ASSUME LifeInv, ImportsInv, NEW r \in Requests, GraphStep(r)
  PROVE  ImportsInv'
BY GraphBodyImports, CoreImports, TypesImports, IngestImports, GroupsImports, CommitImports, QueryImports
   DEF GraphStep

\* The steps of other handlers, those before and after a handler, and a crash.
LEMMA OtherStepImports ==
  ASSUME LifeInv, ImportsInv, NEW r \in Requests, Step(r), ~GraphStep(r)
  PROVE  ImportsInv'
<1>1. DOMAIN tx = Requests /\ DOMAIN plan = Requests /\ ImportOf(r) /\ DOMAIN reply = Requests
  BY DEF ImportsInv, LifeInv, Types
<1>2. NoTx.subjects = {}
  BY DEF NoTx
<1>3. CASE Crash(r)
  <2>1. /\ UNCHANGED <<call, graph, plan>> /\ tx' = [tx EXCEPT ![r] = NoTx]
        /\ pc' = [pc EXCEPT ![r] = "done"] /\ reply' = [reply EXCEPT ![r] = "lost"]
    BY <1>3 DEF Crash, Die
  <2>2. /\ DOMAIN tx' = Requests /\ tx'[r] = NoTx /\ reply'[r] = "lost"
        /\ \A q \in Requests \ {r} : tx'[q] = tx[q] /\ reply'[q] = reply[q]
    BY <1>1, <2>1
  <2> QED BY <2>1, <2>2, EndsImports DEF Writing, Querying
<1>4. CASE (TableStep(r) \/ AnswerStep(r) \/ RecordStep(r)) /\ UNCHANGED graphVars
  <2>1. PICK S \in {TablePcs, AnswerPcs, RecordPcs}, R \in {TableReplies, AnswerReplies, RecordReplies} :
          Moves(r, S, R)
    BY <1>4, TableMoves, AnswerMoves, RecordMoves
  <2>2. /\ "imported" \notin R /\ pc[r] \notin Writing \cup {"close", "done"}
        /\ \A x \in S \cup {"close"} : x \notin Writing \cup Querying \cup {"core", "types", "new", "bind", "body"}
    BY <2>1 DEF Moves, TableReplies, AnswerReplies, RecordReplies, TablePcs, AnswerPcs, RecordPcs, Writing, Querying
  <2>3. PICK x \in S \cup {"close"} : pc' = [pc EXCEPT ![r] = x]
    BY <2>1 DEF Moves
  <2>4. /\ call' = call /\ \A q \in Requests \ {r} : reply'[q] = reply[q]
        /\ reply'[r] = "imported" => reply[r] = "imported"
    BY <1>1, <2>1, <2>2 DEF Moves
  <2>5. tx[r] = NoTx
    BY <1>1, <2>2 DEF ImportOf
  <2> QED BY <1>1, <1>4, <2>2, <2>3, <2>4, <2>5, EndsImports DEF graphVars
<1>5. CASE (Authenticate(r) \/ Bind(r) \/ Close(r)) /\ UNCHANGED graphVars
  <2>1. pc[r] \in {"new", "bind", "close"} /\ call' = call
    BY <1>5 DEF Authenticate, Bind, Close, Answer, Go
  <2>2. tx[r] = NoTx
    BY <1>1, <2>1 DEF ImportOf, Writing
  <2>3. \E x \in {"bind", "body", "close", "done"} :
          /\ pc' = [pc EXCEPT ![r] = x]
          /\ x \in {"bind", "body"} => pc[r] \in {"new", "bind"}
          /\ pc[r] = "close" => x = "done" /\ reply' = reply
    BY <1>5 DEF Authenticate, Bind, Close, Answer, Go
  <2>4. \/ reply' = reply
        \/ \E a \in {"unauthenticated", "unreachable", "bad principal", "principal unsupported"} :
             reply' = [reply EXCEPT ![r] = a]
    BY <1>5 DEF Authenticate, Bind, Close, Answer, Go
  <2>5. /\ \A q \in Requests \ {r} : reply'[q] = reply[q]
        /\ reply'[r] = "imported" => reply[r] = "imported"
    BY <1>1, <2>4
  <2>6. PICK x \in {"bind", "body", "close", "done"} :
          /\ pc' = [pc EXCEPT ![r] = x]
          /\ x \in {"bind", "body"} => pc[r] \in {"new", "bind"}
          /\ pc[r] = "close" => x = "done" /\ reply' = reply
    BY <2>3
  <2>7. UNCHANGED <<graph, tx, plan>>
    BY <1>5 DEF graphVars
  <2>8. x \notin Writing \cup {"core", "types"} /\ x \notin Querying
    BY DEF Writing, Querying
  <2>9. pc[r] \in {"close", "done"} => x \in {"close", "done"} /\ reply'[r] \in {reply[r], "lost"}
    BY <2>1, <2>6
  <2> QED BY <1>1, <2>1, <2>2, <2>5, <2>6, <2>7, <2>8, <2>9, EndsImports
<1> QED BY <1>3, <1>4, <1>5 DEF Step

LEMMA RestImports ==
  ASSUME ImportsInv, UNCHANGED <<call, pc, reply, graph, tx, plan>>
  PROVE  ImportsInv'
<1>1. \A q \in Requests : Spares(q)
  BY DEF Spares
<1>2. \A q \in Requests : ImportOf(q)'
  BY <1>1, ImportStays DEF ImportsInv
<1>3. Apart'
  BY DEF ImportsInv, Apart
<1>4. \A q \in Requests : IsImport(q)' => IsList(Wanted(q).nodes)' /\ IsList(Wanted(q).links)'
  BY DEF ImportsInv, IsImport, IsGraph, Wanted, IsList
<1> QED BY <1>2, <1>3, <1>4 DEF ImportsInv

LEMMA NextImportsInv ==
  ASSUME LifeInv, ImportsInv, [Next]_vars
  PROVE  ImportsInv'
<1>1. ASSUME NEW r \in Requests, Step(r) PROVE ImportsInv'
  BY <1>1, GraphStepImports, OtherStepImports
<1>2. CASE Outside
  BY <1>2, RestImports DEF Outside, Upgrade, lifeVars, graphVars
<1>3. CASE UNCHANGED vars
  BY <1>3, RestImports DEF vars, lifeVars, graphVars
<1> QED BY <1>1, <1>2, <1>3 DEF Next, Done

LEMMA InitImportsInv == Init => ImportsInv
<1> SUFFICES ASSUME Init PROVE ImportsInv
  OBVIOUS
<1>1. /\ tx = [r \in Requests |-> NoTx] /\ plan = [r \in Requests |-> NoPlan]
      /\ \A r \in Requests : pc[r] \in {"new", "done"} /\ reply[r] = "none"
  BY DEF Init, GraphInit, LifeInit
<1>2. \A r \in Requests : IsImport(r) => IsList(Wanted(r).nodes) /\ IsList(Wanted(r).links)
  BY ImportsAssumption DEF Init, IsImport, IsGraph, Wanted
<1>3. Apart
  BY <1>1 DEF Apart, NoTx
<1>4. TxTyped(NoTx) /\ PlanTyped(NoPlan) /\ NoPlan.put = NoTx /\ NoPlan.created = 0
  BY DEF TxTyped, NoTx, PlanTyped, NoPlan
<1>5. \A r \in Requests : ImportOf(r)
  BY <1>1, <1>4 DEF ImportOf, Writing, Querying
<1> QED BY <1>1, <1>2, <1>3, <1>5 DEF ImportsInv

\* What every import has written, holds and has committed, at each of its steps.
THEOREM ImportsInvariance == Spec => []ImportsInv
BY InitImportsInv, NextImportsInv, LifeInvariant, PTL DEF Spec

\* An import puts all of the graph of its body there or nothing, and counts the
\* subjects it has added (graph.py:600), whatever the size of its chunks, and
\* whoever else imports the same nodes meanwhile.
THEOREM ImportsAreWhole == Spec => []ImportIsWhole
<1>1. LifeInv /\ ImportsInv => ImportIsWhole
  <2> SUFFICES ASSUME LifeInv, ImportsInv, NEW r \in Requests, IsImport(r)
               PROVE  LET put == plan[r].put
                          ids == {n.id : n \in ToSet(Wanted(r).nodes)} \ {NoId}
                          links == {l \in ToSet(Wanted(r).links) : {l.from, l.to} \subseteq ids}
                      IN  /\ reply[r] = "imported" => put # NoTx
                          /\ reply[r] \notin {"none", "imported", "lost"} => put = NoTx
                          /\ put # NoTx =>
                               /\ put.subjects = ids \cup {Root}
                               /\ put.edges = {EdgeOf(l) : l \in links}
                               /\ plan[r].created = Cardinality(put.subjects \ plan[r].had)
                               /\ put.subjects \subseteq graph.subjects /\ put.edges \subseteq graph.edges
    BY DEF ImportIsWhole, IsImport
  <2>1. ImportOf(r)
    BY DEF ImportsInv
  <2> QED BY <2>1 DEF ImportOf, Whole, WholeIds, WholeEdges, IdsOf, BetweenOf
<1> QED BY <1>1, LifeInvariant, ImportsInvariance, PTL

----------------------------------------------------------------------------
(***************************************************************************)
(* Inserts: which rows a merge may make of those that are there.           *)
(***************************************************************************)

\* The value c that the items for the key k give.
GivenTo(ask, k, c) ==
  {ask.body[i][c] : i \in {j \in {i \in DOMAIN ask.body : ask.body[i]["id"] = <<Digits[k]>>} :
                             c \in DOMAIN ask.body[j]}}

\* An insert may make the row new of the row old with the key k.
MayMake(ask, k, old, new) ==
  IF old = NoRow THEN \A c \in {"a", "b"} : new[c] \in GivenTo(ask, k, c) \cup {Default}
  ELSE /\ ask.resolution = "merge"
       /\ \A c \in {"a", "b"} : new[c] # old[c] =>
            new[c] \in GivenTo(ask, k, c) \/ ask.sent.columns # <<>>
MayInsert(ask, rows, t) == \A k \in DOMAIN rows : MayMake(ask, k, t[k], rows[k])

\* What Check has made sure of.
Insertable(ask) ==
  /\ IsList(ask.body) /\ ask.resolution \in {"none", "ignore", "merge"}
  /\ SameKeys(ask, InsertColumns(ask)[1])

LEMMA PlacedRow ==
  ASSUME NEW ask, Insertable(ask), NEW cols, cols = InsertColumns(ask)[1],
         NEW i \in DOMAIN ask.body, NEW k, "id" \in DOMAIN ask.body[i],
         ask.body[i]["id"] = <<Digits[k]>>,
         NEW st, DOMAIN st = {"ok", "rows"}, MayInsert(ask, st.rows, table),
         NEW w, w = Placed(ask, cols, st, ask.body[i], k)
  PROVE  DOMAIN w = {"ok", "rows"} /\ MayInsert(ask, w.rows, table)
<1> DEFINE item == ask.body[i]
           given == [c \in {"a", "b"} |-> IF c \in cols /\ c \in DOMAIN item THEN item[c] ELSE Default]
           sets == cols \ Target(ask)
           merged == [c \in {"a", "b"} |-> IF c \in sets THEN given[c] ELSE table[k][c]]
           puts(row) == [st EXCEPT !.rows = Overlaid(@, [j \in {k} |-> row])]
<1>1. ASSUME NEW c, c \in DOMAIN item PROVE item[c] \in GivenTo(ask, k, c)
  BY <1>1 DEF GivenTo
<1>2. ASSUME NEW row, MayMake(ask, k, table[k], row)
      PROVE  DOMAIN puts(row) = {"ok", "rows"} /\ MayInsert(ask, puts(row).rows, table)
  <2>1. DOMAIN puts(row) = {"ok", "rows"} /\ puts(row).rows = Overlaid(st.rows, [j \in {k} |-> row])
    OBVIOUS
  <2>2. \A j \in DOMAIN puts(row).rows :
          \/ j = k /\ puts(row).rows[j] = row
          \/ j \in DOMAIN st.rows /\ puts(row).rows[j] = st.rows[j]
    BY <2>1 DEF Overlaid
  <2> HIDE DEF puts
  <2> QED BY <1>2, <2>1, <2>2 DEF MayInsert
<1>3. CASE k \notin DOMAIN st.rows /\ table[k] = NoRow
  <2>1. \A c \in {"a", "b"} : given[c] \in GivenTo(ask, k, c) \cup {Default}
    BY <1>1
  <2>2. MayMake(ask, k, table[k], given)
    <3> HIDE DEF given
    <3> QED BY <1>3, <2>1 DEF MayMake
  <2>3. w = puts(given)
    BY <1>3 DEF Placed
  <2> HIDE DEF puts, given
  <2> QED BY <1>2, <2>2, <2>3
<1>4. CASE /\ ~(k \notin DOMAIN st.rows /\ table[k] = NoRow)
           /\ ~(ask.resolution = "none" \/ Target(ask) # {"id"})
           /\ ~(ask.resolution = "ignore" \/ sets = {}) /\ k \notin DOMAIN st.rows
  <2>1. ask.resolution = "merge" /\ table[k] # NoRow
    BY <1>4 DEF Insertable
  <2>2. ask.sent.columns = <<>> => DOMAIN item = cols
    BY <2>1 DEF Insertable, SameKeys
  <2>3. ASSUME NEW c \in {"a", "b"}, merged[c] # table[k][c], ask.sent.columns = <<>>
        PROVE  merged[c] \in GivenTo(ask, k, c)
    <3>1. c \in sets /\ merged[c] = given[c]
      BY <2>3
    <3>2. c \in DOMAIN item /\ given[c] = item[c]
      BY <2>2, <2>3, <3>1
    <3> QED BY <1>1, <3>1, <3>2
  <2>4. MayMake(ask, k, table[k], merged)
    <3> HIDE DEF merged
    <3> QED BY <2>1, <2>3 DEF MayMake
  <2>5. w = puts(merged)
    BY <1>4 DEF Placed
  <2> HIDE DEF puts, merged
  <2> QED BY <1>2, <2>4, <2>5
<1>5. CASE ~(k \notin DOMAIN st.rows /\ table[k] = NoRow)
           /\ \/ ask.resolution = "none" \/ Target(ask) # {"id"} \/ ask.resolution = "ignore"
              \/ sets = {} \/ k \in DOMAIN st.rows
  <2>1. w = st \/ w = [st EXCEPT !.ok = FALSE]
    BY <1>5 DEF Placed
  <2>2. DOMAIN w = {"ok", "rows"} /\ w.rows = st.rows
    BY <2>1
  <2> QED BY <2>2 DEF MayInsert
<1> HIDE DEF sets
<1> QED BY <1>3, <1>4, <1>5

LEMMA InsertStepRow ==
  ASSUME NEW ask, Insertable(ask), NEW cols, cols = InsertColumns(ask)[1],
         NEW i \in DOMAIN ask.body,
         NEW st, DOMAIN st = {"ok", "rows"}, MayInsert(ask, st.rows, table),
         NEW w, w = InsertStep(ask, cols, st, ask.body[i])
  PROVE  DOMAIN w = {"ok", "rows"} /\ MayInsert(ask, w.rows, table)
<1> DEFINE item == ask.body[i]
           ids == {k \in Keys : "id" \in cols \cap DOMAIN item /\ item["id"] = <<Digits[k]>>}
           k == CHOOSE k \in ids : TRUE
<1>1. CASE ~st.ok \/ ids = {}
  <2>1. w = [st EXCEPT !.ok = FALSE]
    BY <1>1 DEF InsertStep
  <2>2. DOMAIN w = {"ok", "rows"} /\ w.rows = st.rows
    BY <2>1
  <2> QED BY <2>2 DEF MayInsert
<1>2. CASE st.ok /\ ids # {}
  <2>1. w = Placed(ask, cols, st, item, k)
    BY <1>2 DEF InsertStep
  <2>2. k \in ids
    BY <1>2, SMTT(30)
  <2>3. "id" \in DOMAIN item /\ item["id"] = <<Digits[k]>>
    BY <2>2
  <2> DEFINE q == k
  <2> HIDE DEF q, ids
  <2>4. w = Placed(ask, cols, st, ask.body[i], q) /\ "id" \in DOMAIN ask.body[i] /\ ask.body[i]["id"] = <<Digits[q]>>
    BY <2>1, <2>3 DEF q
  <2> QED BY <2>4, PlacedRow
<1> HIDE DEF ids
<1> QED BY <1>1, <1>2

\* f lists the rows after each of the first n items.
Runs(f, n, ask, cols) ==
  f = [i \in 0..n |-> IF i = 0 THEN [ok |-> TRUE, rows |-> Nothing]
                      ELSE InsertStep(ask, cols, f[i - 1], ask.body[i])]

\* There are such lists of any length.
LEMMA RunExists ==
  ASSUME NEW ask, NEW cols, NEW N \in Nat
  PROVE  \E f : Runs(f, N, ask, cols)
<1> DEFINE D == {n \in 0..N : \E f : Runs(f, n, ask, cols)}
<1>1. 0 \in D
  <2> DEFINE f == [i \in 0..0 |-> [ok |-> TRUE, rows |-> Nothing]]
  <2>1. Runs(f, 0, ask, cols)
    BY DEF Runs
  <2> QED BY <2>1
<1>2. D \subseteq Int /\ IsFiniteSet(D)
  <2>1. IsFiniteSet(0..N) /\ D \subseteq 0..N /\ 0..N \subseteq Int
    BY FS_Interval
  <2> HIDE DEF D
  <2> QED BY <2>1, FS_Subset
<1>3. PICK m \in D : \A n \in D : n <= m
  <2> HIDE DEF D
  <2> QED BY <1>1, <1>2, FiniteSetHasMax
<1>4. PICK f : Runs(f, m, ask, cols)
  BY <1>3
<1>5. CASE m = N
  BY <1>4, <1>5
<1>6. CASE m # N
  <2> DEFINE g == [i \in 0..(m + 1) |->
                     IF i = 0 THEN [ok |-> TRUE, rows |-> Nothing]
                     ELSE InsertStep(ask, cols, f[i - 1], ask.body[i])]
  <2>1. m \in Nat /\ m + 1 \in 0..N /\ ~(m + 1 <= m)
    BY <1>3, <1>6
  <2>2. \A i \in 0..m : g[i] = f[i]
    <3> SUFFICES ASSUME NEW i \in 0..m PROVE g[i] = f[i]
      OBVIOUS
    <3>1. i \in 0..(m + 1)
      BY <2>1
    <3>2. g[i] = IF i = 0 THEN [ok |-> TRUE, rows |-> Nothing]
                 ELSE InsertStep(ask, cols, f[i - 1], ask.body[i])
      BY <3>1
    <3> HIDE DEF g
    <3>3. f[i] = IF i = 0 THEN [ok |-> TRUE, rows |-> Nothing]
                 ELSE InsertStep(ask, cols, f[i - 1], ask.body[i])
      BY <1>4 DEF Runs
    <3> QED BY <3>2, <3>3
  <2>3. \A i \in 0..(m + 1) : i # 0 => g[i - 1] = f[i - 1]
    <3>1. \A i \in 0..(m + 1) : i # 0 => i - 1 \in 0..m
      BY <2>1
    <3> HIDE DEF g
    <3> QED BY <2>2, <3>1
  <2>4. g = [i \in 0..(m + 1) |-> IF i = 0 THEN [ok |-> TRUE, rows |-> Nothing]
                                  ELSE InsertStep(ask, cols, g[i - 1], ask.body[i])]
    <3> DEFINE h == g
    <3>1. \A i \in 0..(m + 1) : i # 0 => h[i - 1] = f[i - 1]
      BY <2>3
    <3>2. g = [i \in 0..(m + 1) |-> IF i = 0 THEN [ok |-> TRUE, rows |-> Nothing]
                                  ELSE InsertStep(ask, cols, h[i - 1], ask.body[i])]
      <4> HIDE DEF h
      <4> QED BY <3>1
    <3> QED BY <3>2 DEF h
  <2>5. Runs(g, m + 1, ask, cols)
    <3> HIDE DEF g
    <3> QED BY <2>4 DEF Runs
  <2> QED BY <1>3, <2>1, <2>5
<1> QED BY <1>5, <1>6

\* All that a run does the call may do.
LEMMA RunMayInsert ==
  ASSUME NEW ask, Insertable(ask), NEW cols, cols = InsertColumns(ask)[1],
         NEW N \in Nat, N = Len(ask.body), NEW f, Runs(f, N, ask, cols)
  PROVE  DOMAIN f[N] = {"ok", "rows"} /\ MayInsert(ask, f[N].rows, table)
<1> DEFINE Good(n) == DOMAIN f[n] = {"ok", "rows"} /\ MayInsert(ask, f[n].rows, table)
           D == {n \in 0..N : Good(n)}
<1>1. f[0] = [ok |-> TRUE, rows |-> Nothing]
  BY DEF Runs
<1>2. Good(0)
  <2>1. DOMAIN f[0] = {"ok", "rows"} /\ f[0].rows = Nothing
    BY <1>1
  <2>2. DOMAIN Nothing = {}
    BY DEF Nothing
  <2> QED BY <2>1, <2>2 DEF MayInsert
<1>3. \A n \in 1..N : n - 1 \in 0..N /\ n \in DOMAIN ask.body /\ f[n] = InsertStep(ask, cols, f[n - 1], ask.body[n])
  <2>1. DOMAIN ask.body = 1..N
    BY ListedFacts DEF Insertable
  <2> SUFFICES ASSUME NEW n \in 1..N
               PROVE  n - 1 \in 0..N /\ n \in DOMAIN ask.body /\ f[n] = InsertStep(ask, cols, f[n - 1], ask.body[n])
    OBVIOUS
  <2>2. n - 1 \in 0..N /\ n \in 0..N /\ n # 0
    OBVIOUS
  <2> QED BY <2>1, <2>2 DEF Runs
<1>4. ASSUME NEW n \in 1..N, Good(n - 1) PROVE Good(n)
  <2> DEFINE st == f[n - 1]
  <2>1. DOMAIN st = {"ok", "rows"} /\ MayInsert(ask, st.rows, table)
    BY <1>4
  <2>2. f[n] = InsertStep(ask, cols, st, ask.body[n]) /\ n \in DOMAIN ask.body
    BY <1>3
  <2> HIDE DEF st
  <2>3. DOMAIN InsertStep(ask, cols, st, ask.body[n]) = {"ok", "rows"}
        /\ MayInsert(ask, InsertStep(ask, cols, st, ask.body[n]).rows, table)
    BY <2>1, <2>2, InsertStepRow
  <2> QED BY <2>2, <2>3
<1> HIDE DEF Good
<1> DEFINE C == {n \in 0..N : \A i \in 0..n : Good(i)}
<1>5. 0 \in C /\ C \subseteq Int /\ IsFiniteSet(C)
  <2>1. 0 \in C
    BY <1>2
  <2>2. IsFiniteSet(0..N) /\ C \subseteq 0..N /\ 0..N \subseteq Int
    BY FS_Interval
  <2> HIDE DEF C
  <2> QED BY <2>1, <2>2, FS_Subset
<1>6. PICK m \in C : \A n \in C : n <= m
  <2> HIDE DEF C
  <2> QED BY <1>5, FiniteSetHasMax
<1>7. m \in 0..N /\ \A i \in 0..m : Good(i)
  BY <1>6
<1>8. m = N
  <2> SUFFICES ASSUME m # N PROVE FALSE
    OBVIOUS
  <2> DEFINE n == m + 1
  <2>1. n \in 1..N /\ n - 1 = m /\ n \in 0..N /\ ~(n <= m)
    BY <1>7
  <2> HIDE DEF n
  <2>2. Good(n)
    BY <1>4, <1>7, <2>1
  <2>3. \A i \in 0..n : i = n \/ i \in 0..m
    BY <1>7, <2>1
  <2>4. n \in C
    BY <1>7, <2>1, <2>2, <2>3
  <2> QED BY <1>6, <2>1, <2>4
<1>9. Good(N)
  BY <1>7, <1>8
<1> QED BY <1>9 DEF Good

LEMMA InsertedMayBe ==
  ASSUME NEW ask, Insertable(ask)
  PROVE  MayInsert(ask, Inserted(ask).rows, table)
<1> DEFINE cols == InsertColumns(ask)[1]
           N == Len(ask.body)
           f == CHOOSE f : Runs(f, N, ask, cols)
<1>1. N \in Nat
  BY ListedFacts DEF Insertable
<1>2. Inserted(ask) = f[N]
  BY DEF Inserted, InsertedIn, Runs
<1>3. \E g : Runs(g, N, ask, cols)
  <2> DEFINE a == ask
             c == cols
             M == N
  <2>1. M \in Nat
    BY <1>1
  <2> HIDE DEF a, c, M
  <2>2. \E g : Runs(g, M, a, c)
    BY <2>1, RunExists
  <2> QED BY <2>2 DEF a, c, M
<1>4. Runs(f, N, ask, cols)
  BY <1>3
<1> HIDE DEF f, N, cols
<1>5. N = Len(ask.body) /\ cols = InsertColumns(ask)[1]
  BY DEF N, cols
<1> QED BY <1>1, <1>2, <1>4, <1>5, RunMayInsert

Inserting(r) == IsTable(r) /\ Ask(r).op = "insert"

\* An insert has been checked when it is written; what it has changed, and what
\* it has committed, it may make of the rows its statement found.
MergeOf(r) ==
  Inserting(r) =>
    /\ IsList(Ask(r).body) /\ Ask(r).resolution \in {"none", "ignore", "merge"}
    /\ pc[r] \in {"scan", "write"} => Insertable(Ask(r))
    /\ pc[r] = "settle" => MayInsert(Ask(r), pend[r], did[r].found)
    /\ MayInsert(Ask(r), did[r].wrote, did[r].found)
MergeInv == DOMAIN pend = Requests /\ \A r \in Requests : MergeOf(r)

LEMMA NothingMayBe == \A ask, t : MayInsert(ask, Nothing, t)
<1>1. DOMAIN Nothing = {}
  BY DEF Nothing
<1> QED BY <1>1 DEF MayInsert

LEMMA InitMergeInv == Init => MergeInv
<1> SUFFICES ASSUME Init PROVE MergeInv
  OBVIOUS
<1>1. DOMAIN pend = Requests /\ \A r \in Requests : did[r].wrote = Nothing /\ pc[r] \in {"new", "done"}
  <2>1. TablesInit /\ LifeInit
    BY DEF Init
  <2>2. \A r \in Requests : did[r].wrote = Nothing
    BY <2>1 DEF TablesInit, NoDeed
  <2>3. DOMAIN pend = Requests /\ \A r \in Requests : pc[r] \in {"new", "done"}
    BY <2>1 DEF TablesInit, LifeInit
  <2> QED BY <2>2, <2>3
<1>2. ASSUME NEW r \in Requests, Inserting(r)
      PROVE  IsList(Ask(r).body) /\ Ask(r).resolution \in {"none", "ignore", "merge"}
  BY <1>2, InsertsAssumption DEF Init, Inserting, IsTable, Ask
<1> QED BY <1>1, <1>2, NothingMayBe DEF MergeInv, MergeOf

\* What Check lets through.
LEMMA CheckedInsertable ==
  ASSUME NEW ask, ask.op = "insert", IsList(ask.body), ask.resolution \in {"none", "ignore", "merge"},
         ask.body # <<>>, ~Refused(ask)
  PROVE  Insertable(ask)
BY DEF Refused, BadInsert, BadColumns, Insertable, SameKeys

\* What the handler of tables does to what this is about.
LEMMA TableStepMerges ==
  ASSUME LifeInv, Kept, MergeInv, NEW r \in Requests, TableStep(r)
  PROVE  MergeInv'
<1>1. Moves(r, TablePcs, TableReplies)
  BY TableMoves
<1>2. /\ pc \in [Requests -> Pcs] /\ call' = call /\ KeptOf(r) /\ MergeOf(r)
      /\ DOMAIN did[r] = DOMAIN NoDeed /\ did = [q \in Requests |-> did[q]] /\ DOMAIN pend = Requests
  BY <1>1 DEF Moves, LifeInv, Types, Kept, DidTyped, MergeInv
<1> USE DEF Go, Answer
<1>3. ASSUME \A q \in Requests \ {r} : did'[q] = did[q] /\ pend'[q] = pend[q],
             DOMAIN pend' = Requests, MergeOf(r)'
      PROVE  MergeInv'
  <2>1. ASSUME NEW q \in Requests \ {r} PROVE MergeOf(q)'
    <3>1. pc'[q] = pc[q] /\ did'[q] = did[q] /\ pend'[q] = pend[q]
      BY <1>1, <1>2, <1>3 DEF Moves
    <3>2. MergeOf(q)
      BY DEF MergeInv
    <3> QED BY <1>2, <3>1, <3>2 DEF MergeOf, Inserting, IsTable, Ask
  <2> QED BY <1>3, <2>1 DEF MergeInv
<1>4. ASSUME did' = did, pend' = pend, pc'[r] \notin {"scan", "settle"}, pc'[r] = "write" => pc[r] = "scan"
      PROVE  MergeInv'
  <2>1. MergeOf(r)'
    BY <1>2, <1>4 DEF MergeOf, Inserting, IsTable, Ask
  <2> QED BY <1>2, <1>3, <1>4, <2>1
<1>5. CASE TableBody(r) \/ Scan(r) \/ Render(r)
  <2>1. did' = did /\ pend' = pend
    BY <1>5 DEF TableBody, Scan, Render, tableVars
  <2>2. pc'[r] \notin {"scan", "settle"} /\ (pc'[r] = "write" => pc[r] = "scan")
    BY <1>2, <1>5 DEF TableBody, Scan, Render
  <2> QED BY <1>4, <2>1, <2>2
<1>6. CASE Check(r)
  <2>1. did' = did /\ pend' = pend
    BY <1>6 DEF Check, tableVars
  <2>2. pc'[r] # "settle" /\ pc'[r] # "write"
    BY <1>2, <1>6 DEF Check
  <2>3. Inserting(r) /\ pc'[r] = "scan" => Insertable(Ask(r))
    <3>1. Inserting(r) /\ pc'[r] = "scan" => ~Refused(Ask(r)) /\ Ask(r).body # <<>>
      BY <1>2, <1>6 DEF Check, Inserting
    <3> QED BY <1>2, <3>1, CheckedInsertable DEF MergeOf, Inserting
  <2>4. MergeOf(r)'
    BY <1>2, <2>1, <2>2, <2>3 DEF MergeOf, Inserting, IsTable, Ask
  <2> QED BY <1>2, <1>3, <2>1, <2>4
<1>7. ASSUME NEW D, did' = [did EXCEPT ![r] = D], D.wrote = did[r].wrote, pend' = pend,
             pc'[r] \notin {"scan", "write", "settle"}, pc[r] \in {"count", "select"}
      PROVE  MergeInv'
  <2>1. did[r].wrote = Nothing
    BY <1>2, <1>7 DEF KeptOf, Persisted
  <2>2. did'[r] = D /\ \A q \in Requests \ {r} : did'[q] = did[q]
    BY <1>2, <1>7
  <2>3. MergeOf(r)'
    BY <1>2, <1>7, <2>1, <2>2, NothingMayBe DEF MergeOf, Inserting, IsTable, Ask
  <2> QED BY <1>2, <1>3, <1>7, <2>2, <2>3
<1>8. CASE CountRows(r)
  <2>1. PICK n : did' = [did EXCEPT ![r] = [did[r] EXCEPT !.count = n, !.scanned = table]]
    BY <1>8 DEF CountRows
  <2> DEFINE D == [did[r] EXCEPT !.count = n, !.scanned = table]
  <2>2. D.wrote = did[r].wrote
    OBVIOUS
  <2>3. pend' = pend /\ pc'[r] \notin {"scan", "write", "settle"} /\ pc[r] \in {"count", "select"}
    BY <1>2, <1>8 DEF CountRows
  <2> HIDE DEF D
  <2>4. did' = [did EXCEPT ![r] = D]
    BY <2>1 DEF D
  <2> QED BY <1>7, <2>2, <2>3, <2>4
<1>9. CASE SelectRows(r)
  <2>1. PICK R : did' = [did EXCEPT ![r] = [did[r] EXCEPT !.read = R, !.found = table]]
    BY <1>9 DEF SelectRows
  <2> DEFINE D == [did[r] EXCEPT !.read = R, !.found = table]
  <2>2. D.wrote = did[r].wrote
    OBVIOUS
  <2>3. pend' = pend /\ pc'[r] \notin {"scan", "write", "settle"} /\ pc[r] \in {"count", "select"}
    BY <1>2, <1>9 DEF SelectRows
  <2> HIDE DEF D
  <2>4. did' = [did EXCEPT ![r] = D]
    BY <2>1 DEF D
  <2> QED BY <1>7, <2>2, <2>3, <2>4
<1>10. CASE Write(r)
  <2>1. CASE pend' = pend /\ did' = did /\ pc'[r] = "close"
    BY <1>4, <2>1
  <2>2. CASE ~(pend' = pend /\ did' = did /\ pc'[r] = "close")
    <3>1. PICK w : /\ pend' = [pend EXCEPT ![r] = w.rows]
                   /\ did' = [did EXCEPT ![r].scanned = scan[r], ![r].found = table]
                   /\ pc' = [pc EXCEPT ![r] = "settle"]
                   /\ Ask(r).op = "insert" => w = Inserted(Ask(r))
      BY <1>2, <1>10, <2>2 DEF Write
    <3>2. pc[r] = "write" /\ pc'[r] = "settle" /\ pend'[r] = w.rows
      BY <1>2, <1>10, <3>1 DEF Write
    <3>3. did[r].wrote = Nothing
      BY <1>2, <3>2 DEF KeptOf, Persisted
    <3>4. did'[r].wrote = Nothing /\ did'[r].found = table
      BY <1>2, <3>1, <3>3 DEF NoDeed
    <3>5. Inserting(r) => MayInsert(Ask(r), w.rows, table)
      BY <1>2, <3>1, <3>2, InsertedMayBe DEF MergeOf, Inserting
    <3>6. MergeOf(r)'
      BY <1>2, <3>2, <3>4, <3>5, NothingMayBe DEF MergeOf, Inserting, IsTable, Ask
    <3>7. DOMAIN pend' = Requests /\ \A q \in Requests \ {r} : did'[q] = did[q] /\ pend'[q] = pend[q]
      BY <1>2, <3>1
    <3> QED BY <1>3, <3>6, <3>7
  <2> QED BY <2>1, <2>2
<1>11. CASE Settle(r)
  <2>1. pc[r] = "settle" /\ pend' = [pend EXCEPT ![r] = Nothing] /\ pc'[r] \notin {"scan", "write", "settle"}
    BY <1>2, <1>11 DEF Settle
  <2>2. DOMAIN pend' = Requests /\ \A q \in Requests \ {r} : did'[q] = did[q] /\ pend'[q] = pend[q]
    BY <1>2, <1>11, <2>1 DEF Settle
  <2>3. /\ did'[r].found = did[r].found
        /\ did'[r].wrote = did[r].wrote \/ did'[r].wrote = pend[r]
    BY <1>2, <1>11 DEF Settle, NoDeed
  <2>4. MergeOf(r)'
    BY <1>2, <2>1, <2>3 DEF MergeOf, Inserting, IsTable, Ask
  <2> QED BY <1>3, <2>2, <2>4
<1> QED BY <1>5, <1>6, <1>8, <1>9, <1>10, <1>11 DEF TableStep

\* Other steps are of requests that are not at a statement, or end them.
LEMMA OtherStepMerges ==
  ASSUME LifeInv, MergeInv, NEW r \in Requests, Step(r), ~TableStep(r)
  PROVE  MergeInv'
<1>1. call' = call /\ did' = did
  BY AnswerMoves, GraphMoves, RecordMoves
     DEF Step, Moves, tableVars, Authenticate, Bind, Close, Go, Answer, Crash, Die
<1>2. pc \in [Requests -> Pcs] /\ DOMAIN pend = Requests
  BY DEF LifeInv, Types, MergeInv
<1>3. DOMAIN pend' = Requests /\ \A q \in Requests \ {r} : pend'[q] = pend[q]
  BY <1>2 DEF Step, tableVars, Crash
<1>4. (\A q \in Requests \ {r} : pc'[q] = pc[q]) /\ pc'[r] \notin {"scan", "write", "settle"}
  <2>1. CASE AnswerStep(r) \/ GraphStep(r) \/ RecordStep(r)
    BY <1>2, <2>1, AnswerMoves, GraphMoves, RecordMoves DEF Moves, AnswerPcs, GraphPcs, RecordPcs
  <2>2. CASE Authenticate(r)
    BY <1>2, <2>2 DEF Authenticate, Answer
  <2>3. CASE Bind(r)
    BY <1>2, <2>3 DEF Bind, Answer, Go
  <2>4. CASE Close(r) \/ Crash(r)
    BY <1>2, <2>4 DEF Close, Crash, Die
  <2> QED BY <2>1, <2>2, <2>3, <2>4 DEF Step
<1>5. ASSUME NEW q \in Requests PROVE MergeOf(q)'
  <2>1. MergeOf(q)
    BY DEF MergeInv
  <2>2. pc'[q] \notin {"scan", "write", "settle"} \/ (pc'[q] = pc[q] /\ pend'[q] = pend[q])
    BY <1>3, <1>4
  <2> QED BY <1>1, <2>1, <2>2 DEF MergeOf, Inserting, IsTable, Ask
<1> QED BY <1>3, <1>5 DEF MergeInv

LEMMA NextMergeInv ==
  ASSUME LifeInv, Kept, MergeInv, [Next]_vars
  PROVE  MergeInv'
<1>1. CASE UNCHANGED <<call, pc, did, pend>>
  BY <1>1 DEF MergeInv, MergeOf, Inserting, IsTable, Ask
<1>2. CASE Outside
  BY <1>1, <1>2 DEF Outside, Upgrade, lifeVars, tableVars
<1> QED BY <1>1, <1>2, TableStepMerges, OtherStepMerges DEF Next, Done, vars, lifeVars, tableVars

\* An insert changes a row that is there only as a merge, and of it only what
\* its items or ?columns= name.
THEOREM UpsertsKeepTheRest == Spec => []UpsertKeepsTheRest
<1>1. MergeInv => UpsertKeepsTheRest
  BY ZenonT(40) DEF MergeInv, MergeOf, Inserting, UpsertKeepsTheRest, MayInsert, MayMake, GivenTo
<1> QED BY <1>1, InitMergeInv, NextMergeInv, InitKept, NextKept, LifeInvariant, PTL DEF Spec

----------------------------------------------------------------------------
(***************************************************************************)
(* Queries: what the walks of a query have found.                          *)
(***************************************************************************)

\* An object is at depth 0 if it is a seed, or as near to another seed in E.
SoundIn(depth, S, E) ==
  \A n \in DOMAIN depth :
    depth[n] \in Nat /\ ((depth[n] = 0 /\ n \in S) \/ WithinReach(E, S, n, depth[n]))

\* All that is around the seed a in F has been found.
Around(depth, a, F, d) ==
  /\ a \in DOMAIN depth
  /\ \A k \in 1..d : \A n : n # a /\ Path(F, a, n, k) => n \in DOMAIN depth /\ depth[n] <= k

\* What is known with the walk from the seed a.
WithWalk(D, E, a, d) == Shallowest(Overlaid([n \in {a} |-> 0], D), Walk(E, a, d))

LEMMA WalkAdds ==
  ASSUME NEW D, NEW S, NEW E, NEW F, F \subseteq E, NEW d \in Nat, NEW a \in S, SoundIn(D, S, E)
  PROVE  LET M == WithWalk(D, E, a, d) IN
         /\ DOMAIN M \subseteq DOMAIN D \cup {a} \cup Objects(E)
         /\ SoundIn(M, S, E) /\ Around(M, a, F, d)
         /\ \A b : Around(D, b, F, d) => Around(M, b, F, d)
<1> DEFINE M == WithWalk(D, E, a, d)
           zero == [n \in {a} |-> 0]
           N == Overlaid(zero, D)
           W == Walk(E, a, d)
<1>1. /\ DOMAIN W \subseteq Objects(E)
      /\ \A n \in DOMAIN W : n # a /\ W[n] \in 1..d /\ Path(E, a, n, W[n])
      /\ \A k \in 1..d : \A n : n # a /\ Path(E, a, n, k) => n \in DOMAIN W /\ W[n] <= k
  BY WalkFacts
<1>2. DOMAIN N = DOMAIN D \cup {a} /\ \A n \in DOMAIN N : N[n] = IF n \in DOMAIN D THEN D[n] ELSE 0
  <2>1. DOMAIN zero = {a} /\ zero[a] = 0
    OBVIOUS
  <2> HIDE DEF zero
  <2> QED BY <2>1 DEF Overlaid
<1>3. M = Shallowest(N, W)
  BY DEF WithWalk
<1> HIDE DEF M, N, W
<1>4. /\ DOMAIN M = DOMAIN N \cup DOMAIN W
      /\ \A n \in DOMAIN M : M[n] = IF n \notin DOMAIN N THEN W[n]
                                    ELSE IF n \in DOMAIN W /\ W[n] < N[n] THEN W[n] ELSE N[n]
  BY <1>3 DEF Shallowest
<1>5. \A n \in DOMAIN N : N[n] \in Nat /\ ((N[n] = 0 /\ n \in S) \/ WithinReach(E, S, n, N[n]))
  BY <1>2 DEF SoundIn
<1>6. \A n \in DOMAIN W : W[n] \in Nat /\ WithinReach(E, S, n, W[n])
  <2> SUFFICES ASSUME NEW n \in DOMAIN W PROVE W[n] \in Nat /\ WithinReach(E, S, n, W[n])
    OBVIOUS
  <2>1. W[n] \in 1..W[n] /\ W[n] \in Nat /\ a \in S \ {n} /\ Path(E, a, n, W[n])
    BY <1>1
  <2> QED BY <2>1 DEF WithinReach
<1>7. SoundIn(M, S, E)
  BY <1>4, <1>5, <1>6 DEF SoundIn
<1>8. \A n \in DOMAIN M : /\ n \in DOMAIN N => M[n] <= N[n]
                          /\ n \in DOMAIN W => M[n] <= W[n]
  BY <1>4, <1>5, <1>6
<1>9. Around(M, a, F, d)
  <2>1. a \in DOMAIN M
    BY <1>2, <1>4
  <2>2. ASSUME NEW k \in 1..d, NEW n, n # a, Path(F, a, n, k) PROVE n \in DOMAIN M /\ M[n] <= k
    <3>1. Path(E, a, n, k)
      BY <2>2, ReachGrows
    <3>2. n \in DOMAIN W /\ W[n] <= k /\ W[n] \in Nat
      BY <1>1, <1>6, <2>2, <3>1
    <3>3. n \in DOMAIN M /\ M[n] <= W[n] /\ M[n] \in Nat
      BY <1>4, <1>7, <1>8, <3>2 DEF SoundIn
    <3> QED BY <3>2, <3>3
  <2> QED BY <2>1, <2>2 DEF Around
<1>10. ASSUME NEW b, Around(D, b, F, d) PROVE Around(M, b, F, d)
  <2>1. b \in DOMAIN M
    BY <1>2, <1>4, <1>10 DEF Around
  <2>2. ASSUME NEW k \in 1..d, NEW n, n # b, Path(F, b, n, k) PROVE n \in DOMAIN M /\ M[n] <= k
    <3>1. n \in DOMAIN D /\ D[n] <= k
      BY <1>10, <2>2 DEF Around
    <3>2. n \in DOMAIN N /\ N[n] = D[n] /\ N[n] \in Nat
      BY <1>2, <1>5, <3>1
    <3>3. n \in DOMAIN M /\ M[n] <= N[n] /\ M[n] \in Nat
      BY <1>4, <1>7, <1>8, <3>2 DEF SoundIn
    <3> QED BY <3>1, <3>2, <3>3
  <2> QED BY <2>1, <2>2 DEF Around
<1> QED BY <1>1, <1>2, <1>4, <1>7, <1>9, <1>10 DEF M

\* K holds the nearest objects, as far as there is room.
Nearest(K, D, max) ==
  /\ K \subseteq DOMAIN D /\ Cardinality(K) = Min({max, Cardinality(DOMAIN D)})
  /\ \A a \in K, b \in DOMAIN D \ K : ~(D[b] < D[a])

\* They are shown truly.
LEMMA NearestShown ==
  ASSUME NEW D, NEW S, NEW E, NEW F, NEW d \in Nat, NEW max \in Nat, IsFiniteSet(DOMAIN D),
         SoundIn(D, S, E), \A a \in S : Around(D, a, F, d),
         NEW K, Nearest(K, D, max)
  PROVE  LET full == Cardinality(K) = max IN
         /\ Cardinality(K) <= max /\ (S \subseteq K \/ full)
         /\ \A n \in K : (D[n] = 0 /\ n \in S) \/ WithinReach(E, S, n, D[n])
         /\ \A n : \A k \in 1..d : WithinReach(F, S, n, k) =>
              \/ n \in K /\ D[n] <= k
              \/ n \notin K /\ full /\ \A m \in K : D[m] <= k
<1> DEFINE size == Cardinality(DOMAIN D)
<1>0. /\ K \subseteq DOMAIN D /\ Cardinality(K) = Min({max, size})
      /\ \A a \in K, b \in DOMAIN D \ K : ~(D[b] < D[a])
  BY DEF Nearest
<1>1. size \in Nat /\ IsFiniteSet(K) /\ Cardinality(K) \in Nat
  BY <1>0, FS_CardinalityType, FS_Subset
<1>2. Min({max, size}) = IF max <= size THEN max ELSE size
  <2> HIDE DEF size
  <2> QED BY <1>1 DEF Min
<1>3. Cardinality(K) <= max /\ (K # DOMAIN D => Cardinality(K) = max)
  <2>1. Cardinality(K) = size => K = DOMAIN D
    BY <1>0, FS_Subset
  <2> HIDE DEF size
  <2> QED BY <1>0, <1>1, <1>2, <2>1 DEF size
<1>4. S \subseteq DOMAIN D
  BY DEF Around
<1>5. ASSUME NEW n, NEW k \in 1..d, WithinReach(F, S, n, k)
      PROVE  n \in DOMAIN D /\ D[n] \in Nat /\ D[n] <= k
  <2>1. PICK j \in 1..k, s \in S \ {n} : Path(F, s, n, j)
    BY <1>5 DEF WithinReach
  <2>2. j \in 1..d /\ s \in S /\ n # s
    BY <2>1
  <2>3. n \in DOMAIN D /\ D[n] <= j
    BY <2>1, <2>2 DEF Around
  <2> QED BY <2>3 DEF SoundIn
<1>6. \A n \in K : D[n] \in Nat /\ ((D[n] = 0 /\ n \in S) \/ WithinReach(E, S, n, D[n]))
  BY <1>0 DEF SoundIn
<1>7. ASSUME NEW n, NEW k \in 1..d, WithinReach(F, S, n, k)
      PROVE  \/ n \in K /\ D[n] <= k
             \/ n \notin K /\ Cardinality(K) = max /\ \A m \in K : D[m] <= k
  <2>1. CASE n \in K
    BY <1>5, <1>7, <2>1
  <2>2. CASE n \notin K
    <3>1. n \in DOMAIN D \ K /\ D[n] \in Nat /\ D[n] <= k
      BY <1>5, <1>7, <2>2
    <3>2. \A m \in K : D[m] \in Nat /\ ~(D[n] < D[m])
      BY <1>0, <1>6, <3>1
    <3>3. \A m \in K : D[m] <= k
      BY <3>1, <3>2
    <3> QED BY <1>3, <2>2, <3>1, <3>3
  <2> QED BY <2>1, <2>2
<1> QED BY <1>3, <1>4, <1>6, <1>7

IsQuery(r) == IsGraph(r) /\ Wanted(r).op # "import" /\ ~Wanted(r).bad
SeedsOf(p) == {Subject(s) : s \in ToSet(p.seeds)}

\* What a query has found in the graph E, while seeds are left to walk from.
Found(p, E, d) ==
  /\ IsList(p.seeds) /\ IsList(p.left) /\ p.first \subseteq E
  /\ IsFiniteSet(DOMAIN p.depth) /\ SoundIn(p.depth, SeedsOf(p), E)
  /\ \A s \in ToSet(p.seeds) : s \in ToSet(p.left) \/ Around(p.depth, Subject(s), p.first, d)
  /\ ToSet(p.left) \subseteq ToSet(p.seeds)

\* What it shows.
Shows(p, ask) ==
  LET K == DOMAIN p.shown.depth
      S == SeedsOf(p)
      full == Cardinality(K) = ask.max
  IN  /\ p.shown.edges = {e \in p.last : e.from \in K /\ e.to \in K}
      /\ Cardinality(K) <= ask.max
      /\ S \subseteq K \/ full
      /\ \A n \in K : \/ p.shown.depth[n] = 0 /\ n \in S
                      \/ WithinReach(p.last, S, n, p.shown.depth[n])
      /\ \A n \in Objects(p.first) : \A k \in 1..ask.depth : WithinReach(p.first, S, n, k) =>
           \/ n \in K /\ p.shown.depth[n] <= k
           \/ n \notin K /\ full /\ \A m \in K : p.shown.depth[m] <= k

QueryOf(r) ==
  LET p == plan[r] IN
  /\ IsQuery(r) => Wanted(r).depth \in Nat /\ Wanted(r).max \in Nat
  /\ pc[r] \in Querying => IsQuery(r)
  /\ pc[r] \in {"new", "bind", "body", "seeds"} => DOMAIN p.depth = {}
  /\ pc[r] \in {"walk", "edges"} => Found(p, graph.edges, Wanted(r).depth)
  /\ pc[r] = "walk" => p.left # <<>>
  /\ pc[r] = "edges" => p.left = <<>>
  /\ IsGraph(r) /\ reply[r] = "shown" => Shows(p, Wanted(r))

FiniteGraph(G) == IsFiniteSet(G.subjects) /\ IsFiniteSet(G.edges)

QueriesInv == FiniteGraph(graph) /\ \A r \in Requests : QueryOf(r)

LEMMA FoundGrows ==
  ASSUME NEW p, NEW E, NEW F, E \subseteq F, NEW d, Found(p, E, d)
  PROVE  Found(p, F, d)
<1>1. SoundIn(p.depth, SeedsOf(p), F)
  <2> SUFFICES ASSUME NEW n \in DOMAIN p.depth
               PROVE  /\ p.depth[n] \in Nat
                      /\ (p.depth[n] = 0 /\ n \in SeedsOf(p)) \/ WithinReach(F, SeedsOf(p), n, p.depth[n])
    BY DEF SoundIn
  <2>1. /\ p.depth[n] \in Nat
        /\ (p.depth[n] = 0 /\ n \in SeedsOf(p)) \/ WithinReach(E, SeedsOf(p), n, p.depth[n])
    BY DEF Found, SoundIn
  <2> QED BY <2>1, ReachGrows
<1> QED BY <1>1 DEF Found

\* A query goes on, whatever others commit.
LEMMA QueryStays ==
  ASSUME NEW r, QueryOf(r), call' = call, pc'[r] = pc[r], reply'[r] = reply[r], plan'[r] = plan[r],
         graph.edges \subseteq graph'.edges
  PROVE  QueryOf(r)'
<1>1. /\ IsGraph(r)' = IsGraph(r) /\ Wanted(r)' = Wanted(r) /\ IsQuery(r)' = IsQuery(r)
  BY DEF IsGraph, Wanted, IsQuery
<1>2. /\ Shows(plan[r], Wanted(r))' = Shows(plan[r], Wanted(r))
      /\ Found(plan[r], graph.edges, Wanted(r).depth)' = Found(plan[r], graph'.edges, Wanted(r).depth)
  BY <1>1 DEF Shows, Found, SeedsOf, Subject, SoundIn, Around, IsList
<1>3. pc[r] \in {"walk", "edges"} => Found(plan[r], graph'.edges, Wanted(r).depth)
  BY FoundGrows DEF QueryOf
<1> QED BY <1>1, <1>2, <1>3 DEF QueryOf

\* So does a step of r outside of its walks.
LEMMA QueryAside ==
  ASSUME NEW r, QueryOf(r), call' = call, pc'[r] \notin {"walk", "edges"},
         pc'[r] = "seeds" => IsQuery(r),
         pc'[r] \in {"new", "bind", "body", "seeds"} => DOMAIN plan'[r].depth = {},
         IsGraph(r) /\ reply'[r] = "shown" => reply[r] = "shown" /\ plan'[r] = plan[r]
  PROVE  QueryOf(r)'
<1>1. /\ IsGraph(r)' = IsGraph(r) /\ Wanted(r)' = Wanted(r) /\ IsQuery(r)' = IsQuery(r)
  BY DEF IsGraph, Wanted, IsQuery
<1>2. plan'[r] = plan[r] => Shows(plan[r], Wanted(r))' = Shows(plan[r], Wanted(r))
  BY <1>1 DEF Shows, SeedsOf, Subject
<1> QED BY <1>1, <1>2 DEF QueryOf, Querying

\* What an import commits is finite.
LEMMA WholeFinite ==
  ASSUME NEW t, NEW ask, Whole(t, ask), IsList(ask.nodes), IsList(ask.links)
  PROVE  FiniteGraph(t)
<1>1. IsFiniteSet(ToSet(ask.nodes)) /\ IsFiniteSet(ToSet(ask.links))
  BY ListFinite
<1>2. IsFiniteSet(WholeIds(ask))
  <2> DEFINE N == ToSet(ask.nodes)
             ids == [n \in N |-> n.id]
  <2>1. DOMAIN ids = N /\ {ids[n] : n \in N} = {n.id : n \in N}
    OBVIOUS
  <2>2. IsFiniteSet({ids[n] : n \in N})
    <3> HIDE DEF N, ids
    <3> QED BY <1>1, <2>1, ImageFinite DEF N
  <2>3. IsFiniteSet(IdsOf(ask))
    <3>1. IdsOf(ask) \subseteq {ids[n] : n \in N}
      BY DEF IdsOf
    <3> HIDE DEF N, ids
    <3> QED BY <2>2, <3>1, FS_Subset
  <2> QED BY <2>3, FS_Singleton, FS_Union DEF WholeIds
<1>3. IsFiniteSet(WholeEdges(ask))
  <2> DEFINE L == BetweenOf(ask)
             edges == [l \in L |-> EdgeOf(l)]
  <2>1. DOMAIN edges = L /\ {edges[l] : l \in L} = WholeEdges(ask)
    BY DEF WholeEdges
  <2>2. L \subseteq ToSet(ask.links)
    BY DEF BetweenOf
  <2> HIDE DEF L, edges
  <2>3. IsFiniteSet(L)
    BY <1>1, <2>2, FS_Subset
  <2> QED BY <2>1, <2>3, ImageFinite
<1> QED BY <1>2, <1>3 DEF Whole, FiniteGraph

\* A commit leaves the graph finite.
LEMMA CommitGrows ==
  ASSUME FiniteGraph(graph), NEW r, NEW t, NEW created, Committed(r, t, created), FiniteGraph(t)
  PROVE  FiniteGraph(graph)' /\ graph.edges \subseteq graph'.edges
<1>1. graph'.subjects = graph.subjects \cup t.subjects /\ graph'.edges = graph.edges \cup t.edges
  BY DEF Committed, Merged
<1>2. \A A, B : IsFiniteSet(A) /\ IsFiniteSet(B) => IsFiniteSet(A \cup B)
  BY FS_Union
<1>3. IsFiniteSet(graph'.subjects) /\ IsFiniteSet(graph'.edges)
  BY <1>1, <1>2 DEF FiniteGraph
<1> QED BY <1>1, <1>3 DEF FiniteGraph

LEMMA GraphGrows ==
  ASSUME LifeInv, ImportsInv, FiniteGraph(graph), [Next]_vars
  PROVE  FiniteGraph(graph)' /\ graph.edges \subseteq graph'.edges
<1> DEFINE Grown == FiniteGraph(graph)' /\ graph.edges \subseteq graph'.edges
<1>1. ASSUME graph' = graph PROVE Grown
  BY <1>1 DEF FiniteGraph
<1>2. ASSUME NEW r \in Requests, CoreImport(r) PROVE Grown
  <2> DEFINE a == Wanted(r)
             t == [types |-> {}, subjects |-> {Root} \cup {n.id : n \in ToSet(NodesOf(a))},
                   edges |-> {EdgeOf(l) : l \in ToSet(LinksOf(a))}, groups |-> Replacing(a)]
  <2>1. IsImport(r)
    BY <1>2 DEF CoreImport, ImportsInv, ImportOf, Writing
  <2>2. IsList(a.nodes) /\ IsList(a.links) /\ t.subjects = WholeIds(a) /\ t.edges = WholeEdges(a)
    BY <2>1, AskedGraph DEF WholeIds
  <2>3. \/ graph' = graph
        \/ \E created : Committed(r, t, created)
    BY <1>2 DEF CoreImport, graphVars, Rollback
  <2> HIDE DEF t, a, Grown
  <2>4. FiniteGraph(t)
    BY <2>2, WholeFinite DEF Whole
  <2> QED BY <1>1, <2>3, <2>4, CommitGrows DEF Grown
<1>3. ASSUME NEW r \in Requests, Commit(r) PROVE Grown
  <2>1. pc[r] = "commit" /\ Committed(r, tx[r], plan[r].created)
    BY <1>3 DEF Commit
  <2>2. Whole(tx[r], Wanted(r)) /\ IsImport(r)
    BY <2>1 DEF ImportsInv, ImportOf, Writing
  <2>3. IsList(Wanted(r).nodes) /\ IsList(Wanted(r).links)
    BY <2>2 DEF ImportsInv
  <2> DEFINE t == tx[r]
             created == plan[r].created
  <2>4. Committed(r, t, created) /\ FiniteGraph(t)
    BY <2>1, <2>2, <2>3, WholeFinite
  <2> HIDE DEF t, created
  <2> QED BY <2>4, CommitGrows
<1>4. ASSUME NEW r \in Requests, GraphStep(r), ~CoreImport(r), ~Commit(r) PROVE graph' = graph
  BY <1>4, ZenonT(40) DEF GraphStep, GraphBody, RegisterTypes, IngestChunk, StoreGroups,
      ChooseSeeds, WalkFrom, ShowGraph,
              Rollback, graphVars
<1>5. ASSUME NEW r \in Requests, Step(r), ~GraphStep(r) PROVE graph' = graph
  BY <1>5 DEF Step, Crash, graphVars
<1>6. CASE Outside \/ UNCHANGED vars
  BY <1>1, <1>6 DEF Outside, Upgrade, vars, graphVars
<1> HIDE DEF Grown
<1>7. ASSUME NEW r \in Requests, Step(r) PROVE Grown
  BY <1>1, <1>2, <1>3, <1>4, <1>5, <1>7
<1> QED BY <1>1, <1>6, <1>7 DEF Next, Done, Grown

\* The steps of a query: its seeds, its walks and its answer.
LEMMA SeedsQuery ==
  ASSUME LifeInv, ImportsInv, QueriesInv, NEW r \in Requests, ChooseSeeds(r)
  PROVE  QueryOf(r)'
<1>1. /\ QueryOf(r) /\ DOMAIN plan = Requests /\ PlanTyped(plan[r]) /\ FiniteGraph(graph)
      /\ pc[r] = "seeds" /\ IsQuery(r) /\ DOMAIN plan[r].depth = {} /\ reply[r] = "none"
  BY DEF QueriesInv, QueryOf, ImportsInv, ImportOf, ChooseSeeds, Querying, LifeInv, Told
<1> DEFINE score == Wanted(r).scores
           C == {s \in graph.subjects : s \in DOMAIN score /\ score[s] > 0}
           before(s, t) == score[s] > score[t] \/ (score[s] = score[t] /\ s < t)
           S == {s \in C : Cardinality({t \in C : before(t, s)}) < Wanted(r).seeds}
           n == Cardinality(S)
           s == [k \in 1..n |-> CHOOSE x \in S : Cardinality({t \in S : before(t, x)}) = k - 1]
           p == [plan[r] EXCEPT !.seeds = s, !.left = s, !.first = graph.edges]
<1>2. /\ plan' = [plan EXCEPT ![r] = p] /\ graph' = graph
      /\ IF S = {} THEN Answer(r, "nothing") ELSE Go(r, "walk")
  BY DEF ChooseSeeds, Hold
<1>3. IsFiniteSet(S) /\ n \in Nat /\ (S # {} => n # 0)
  <2>1. S \subseteq graph.subjects /\ IsFiniteSet(graph.subjects)
    BY <1>1 DEF FiniteGraph
  <2> HIDE DEF S
  <2> QED BY <2>1, FS_Subset, FS_CardinalityType, FS_EmptySet
<1>4. IsList(s) /\ (S # {} => s # <<>>)
  <2>1. DOMAIN s = 1..n /\ s \in [1..n -> ToSet(s)]
    BY ZenonT(40) DEF ToSet
  <2> HIDE DEF s, S, n
  <2>2. s \in Seq(ToSet(s))
    BY <1>3, <2>1
  <2>3. s = <<>> => n = 0
    BY <1>3, <2>1
  <2> QED BY <1>3, <2>2, <2>3, SMTT(30) DEF IsList
<1>5. /\ p.seeds = s /\ p.left = s /\ p.first = graph.edges /\ p.depth = plan[r].depth
  BY <1>1 DEF PlanTyped
<1> HIDE DEF p, s
<1>6. plan'[r] = p
  BY <1>1, <1>2
<1>7. CASE S = {}
  <2>1. pc'[r] = "close" /\ reply'[r] = "nothing" /\ call' = call
    BY <1>2, <1>7 DEF Answer, LifeInv, Types
  <2> QED BY <1>1, <2>1, QueryAside
<1>8. CASE S # {}
  <2>1. pc'[r] = "walk" /\ reply'[r] = "none" /\ call' = call
    BY <1>1, <1>2, <1>8 DEF Go, LifeInv, Types
  <2>2. Found(p, graph.edges, Wanted(r).depth)
    BY <1>1, <1>4, <1>5, FS_EmptySet DEF Found, SoundIn
  <2>3. IsGraph(r)' = IsGraph(r) /\ Wanted(r)' = Wanted(r) /\ IsQuery(r)' = IsQuery(r)
    BY <2>1 DEF IsGraph, Wanted, IsQuery
  <2>4. Found(plan[r], graph.edges, Wanted(r).depth)'
    BY <1>2, <1>6, <2>2, <2>3 DEF Found, SeedsOf, Subject, SoundIn, Around, IsList
  <2> QED BY <1>1, <1>4, <1>5, <1>6, <1>8, <2>1, <2>3, <2>4 DEF QueryOf
<1> QED BY <1>7, <1>8

LEMMA WalkQuery ==
  ASSUME LifeInv, ImportsInv, QueriesInv, NEW r \in Requests, WalkFrom(r)
  PROVE  QueryOf(r)'
<1> DEFINE p == plan[r]
           E == graph.edges
           d == Wanted(r).depth
           a == Subject(Head(p.left))
           M == WithWalk(p.depth, E, a, d)
           q == [p EXCEPT !.left = Tail(@), !.depth = M]
<1>1. /\ QueryOf(r) /\ DOMAIN plan = Requests /\ PlanTyped(p) /\ FiniteGraph(graph)
      /\ pc[r] = "walk" /\ IsQuery(r) /\ reply[r] = "none" /\ Found(p, E, d) /\ d \in Nat /\ p.left # <<>>
  BY DEF QueriesInv, QueryOf, ImportsInv, ImportOf, WalkFrom, Querying, LifeInv, Told
<1>2. /\ plan' = [plan EXCEPT ![r] = q] /\ graph' = graph
      /\ Go(r, IF Tail(p.left) = <<>> THEN "edges" ELSE "walk")
  BY DEF WalkFrom, Hold, WithWalk
<1>3. /\ IsList(Tail(p.left)) /\ Head(p.left) \in ToSet(p.left)
      /\ ToSet(p.left) = {Head(p.left)} \cup ToSet(Tail(p.left))
  BY <1>1, HeadAndTail DEF Found, IsList
<1>4. a \in SeedsOf(p) /\ SoundIn(p.depth, SeedsOf(p), E) /\ p.first \subseteq E
  BY <1>1, <1>3 DEF Found, SeedsOf
<1>5. /\ q.seeds = p.seeds /\ q.left = Tail(p.left) /\ q.first = p.first /\ q.depth = M
      /\ SeedsOf(q) = SeedsOf(p)
  BY <1>1 DEF PlanTyped, SeedsOf
<1>6. /\ DOMAIN M \subseteq DOMAIN p.depth \cup {a} \cup Objects(E)
      /\ SoundIn(M, SeedsOf(p), E) /\ Around(M, a, p.first, d)
      /\ \A b : Around(p.depth, b, p.first, d) => Around(M, b, p.first, d)
  <2> DEFINE D == p.depth
             S == SeedsOf(p)
             F == p.first
  <2>1. F \subseteq E /\ d \in Nat /\ a \in S /\ SoundIn(D, S, E)
    BY <1>1, <1>4
  <2> HIDE DEF D, S, F, E, d, a, p
  <2>2. LET N == WithWalk(D, E, a, d) IN
        /\ DOMAIN N \subseteq DOMAIN D \cup {a} \cup Objects(E)
        /\ SoundIn(N, S, E) /\ Around(N, a, F, d)
        /\ \A b : Around(D, b, F, d) => Around(N, b, F, d)
    BY <2>1, WalkAdds
  <2> QED BY <2>2 DEF D, S, F
<1> HIDE DEF M
<1>7. IsFiniteSet(DOMAIN M)
  <2> DEFINE T == DOMAIN p.depth \cup {a} \cup Objects(E)
  <2>1. IsFiniteSet(DOMAIN p.depth) /\ IsFiniteSet({a}) /\ IsFiniteSet(Objects(E))
    BY <1>1, ObjectsFinite, FS_Singleton DEF Found, FiniteGraph
  <2>2. IsFiniteSet(T)
    BY <2>1, FS_Union
  <2> HIDE DEF T
  <2>3. DOMAIN M \subseteq T
    BY <1>6 DEF T
  <2> QED BY <2>2, <2>3, FS_Subset
<1>8. \A s \in ToSet(q.seeds) : s \in ToSet(q.left) \/ Around(q.depth, Subject(s), q.first, d)
  <2> SUFFICES ASSUME NEW s \in ToSet(p.seeds), s \notin ToSet(Tail(p.left))
               PROVE  Around(M, Subject(s), p.first, d)
    BY <1>5
  <2>1. CASE s = Head(p.left)
    BY <1>6, <2>1
  <2>2. CASE s # Head(p.left)
    <3>1. Around(p.depth, Subject(s), p.first, d)
      BY <1>1, <1>3, <2>2 DEF Found
    <3> QED BY <1>6, <3>1
  <2> QED BY <2>1, <2>2
<1> HIDE DEF q
<1>9. Found(q, E, d)
  BY <1>1, <1>3, <1>5, <1>6, <1>7, <1>8 DEF Found
<1>10. /\ plan'[r] = q /\ call' = call /\ reply'[r] = "none"
       /\ pc'[r] = IF Tail(p.left) = <<>> THEN "edges" ELSE "walk"
  BY <1>1, <1>2 DEF Go, LifeInv, Types
<1>11. IsGraph(r)' = IsGraph(r) /\ Wanted(r)' = Wanted(r) /\ IsQuery(r)' = IsQuery(r)
  BY <1>10 DEF IsGraph, Wanted, IsQuery
<1>12. Found(plan[r], graph.edges, Wanted(r).depth)'
  BY <1>2, <1>9, <1>10, <1>11 DEF Found, SeedsOf, Subject, SoundIn, Around, IsList
<1> QED BY <1>1, <1>5, <1>10, <1>11, <1>12 DEF QueryOf

LEMMA ShowQuery ==
  ASSUME LifeInv, ImportsInv, QueriesInv, NEW r \in Requests, ShowGraph(r)
  PROVE  QueryOf(r)'
<1> DEFINE p == plan[r]
           D == p.depth
           E == graph.edges
           d == Wanted(r).depth
           max == Wanted(r).max
           S == SeedsOf(p)
<1>1. /\ QueryOf(r) /\ DOMAIN plan = Requests /\ PlanTyped(p)
      /\ pc[r] = "edges" /\ IsQuery(r) /\ Found(p, E, d) /\ d \in Nat /\ max \in Nat /\ p.left = <<>>
  BY DEF QueriesInv, QueryOf, ImportsInv, ImportOf, ShowGraph, Querying
<1>2. PICK K \in SUBSET DOMAIN D :
        /\ Cardinality(K) = Min({max, Cardinality(DOMAIN D)})
        /\ \A a \in K, b \in DOMAIN D \ K : ~(D[b] < D[a])
        /\ Hold(r, [p EXCEPT !.last = E,
                      !.shown = [depth |-> [n \in K |-> D[n]],
                                 edges |-> {e \in E : e.from \in K /\ e.to \in K}]])
  BY DEF ShowGraph
<1> DEFINE shown == [depth |-> [n \in K |-> D[n]], edges |-> {e \in E : e.from \in K /\ e.to \in K}]
           q == [p EXCEPT !.last = E, !.shown = shown]
<1>3. /\ q.seeds = p.seeds /\ q.first = p.first /\ q.last = E /\ q.shown = shown /\ SeedsOf(q) = S
  BY <1>1 DEF PlanTyped, SeedsOf
<1>4. /\ DOMAIN shown.depth = K /\ \A n \in K : shown.depth[n] = D[n]
      /\ shown.edges = {e \in E : e.from \in K /\ e.to \in K}
  OBVIOUS
<1>5. \A a \in S : Around(D, a, p.first, d)
  <2>1. ToSet(p.left) = {}
    BY <1>1 DEF ToSet
  <2> QED BY <1>1, <2>1 DEF Found, SeedsOf
<1>6. LET full == Cardinality(K) = max IN
      /\ Cardinality(K) <= max /\ (S \subseteq K \/ full)
      /\ \A n \in K : (D[n] = 0 /\ n \in S) \/ WithinReach(E, S, n, D[n])
      /\ \A n : \A k \in 1..d : WithinReach(p.first, S, n, k) =>
           \/ n \in K /\ D[n] <= k
           \/ n \notin K /\ full /\ \A m \in K : D[m] <= k
  <2>1. IsFiniteSet(DOMAIN D) /\ SoundIn(D, S, E) /\ Nearest(K, D, max)
    BY <1>1, <1>2 DEF Found, Nearest
  <2> DEFINE F == p.first
  <2>2. d \in Nat /\ max \in Nat /\ \A a \in S : Around(D, a, F, d)
    BY <1>1, <1>5
  <2> HIDE DEF D, E, d, max, S, F, q, shown
  <2>3. LET full == Cardinality(K) = max IN
        /\ Cardinality(K) <= max /\ (S \subseteq K \/ full)
        /\ \A n \in K : (D[n] = 0 /\ n \in S) \/ WithinReach(E, S, n, D[n])
        /\ \A n : \A k \in 1..d : WithinReach(F, S, n, k) =>
             \/ n \in K /\ D[n] <= k
             \/ n \notin K /\ full /\ \A m \in K : D[m] <= k
    BY <2>1, <2>2, NearestShown, ZenonT(40)
  <2> QED BY <2>3 DEF F
<1>7. plan' = [plan EXCEPT ![r] = q] /\ graph' = graph /\ Answer(r, "shown")
  BY <1>2 DEF ShowGraph, Hold
<1> HIDE DEF q, shown
<1>8. Shows(q, Wanted(r))
  <2> HIDE DEF D, E, S
  <2> QED BY <1>3, <1>4, <1>6 DEF Shows
<1>9. plan'[r] = q /\ pc'[r] = "close" /\ call' = call
  BY <1>1, <1>7 DEF Answer, LifeInv, Types
<1>10. IsGraph(r)' = IsGraph(r) /\ Wanted(r)' = Wanted(r) /\ IsQuery(r)' = IsQuery(r)
  BY <1>9 DEF IsGraph, Wanted, IsQuery
<1>11. Shows(plan[r], Wanted(r))'
  BY <1>8, <1>9, <1>10 DEF Shows, SeedsOf, Subject
<1> QED BY <1>1, <1>9, <1>10, <1>11 DEF QueryOf, Querying

\* The other steps of the graph's handlers.
LEMMA ImportQuery ==
  ASSUME LifeInv, ImportsInv, QueriesInv, NEW r \in Requests, GraphStep(r),
         ~ChooseSeeds(r), ~WalkFrom(r), ~ShowGraph(r)
  PROVE  QueryOf(r)'
<1>1. QueryOf(r) /\ ImportOf(r)
  BY DEF QueriesInv, ImportsInv
<1>2. CASE GraphBody(r)
  <2>1. /\ pc[r] = "body" /\ UNCHANGED <<call, plan>> /\ reply[r] = "none"
        /\ DOMAIN pc = Requests /\ DOMAIN reply = Requests /\ IsGraph(r)
    BY <1>2 DEF GraphBody, graphVars, Answer, Go, LifeInv, Told, Types
  <2>2. IF Wanted(r).bad THEN Answer(r, "bad request")
        ELSE Go(r, IF Wanted(r).op = "import" THEN "core" ELSE "seeds")
    BY <1>2 DEF GraphBody
  <2>3. /\ pc'[r] \in {"close", "core", "seeds"} /\ reply'[r] \in {"none", "bad request"}
        /\ pc'[r] = "seeds" => IsQuery(r)
    BY <2>1, <2>2 DEF Answer, Go, IsQuery
  <2> QED BY <1>1, <2>1, <2>3, QueryAside DEF QueryOf
<1>3. CASE CoreImport(r) \/ RegisterTypes(r) \/ IngestChunk(r) \/ StoreGroups(r) \/ Commit(r)
  <2>1. pc[r] \in {"core", "types"} \cup Writing /\ reply[r] = "none" /\ call' = call
    BY <1>3, ZenonT(40) DEF CoreImport, RegisterTypes, IngestChunk, StoreGroups, Commit, Writing,
        LifeInv, Told,
                Rollback, Committed, Answer, Go
  <2>2. /\ pc'[r] \in {"types", "close"} \cup Writing
        /\ reply'[r] \in {"none", "refused", "bad request", "imported"}
    <3>1. DOMAIN pc = Requests /\ DOMAIN reply = Requests
      BY SMTT(30) DEF LifeInv, Types
    <3>2. \/ \E x \in {"types"} \cup Writing : Go(r, x)
          \/ \E a \in {"refused", "bad request", "imported"} : Answer(r, a)
      BY <1>3, ZenonT(40) DEF CoreImport, RegisterTypes, IngestChunk, StoreGroups, Commit, Writing,
          Rollback, Committed
    <3> QED BY <2>1, <3>1, <3>2 DEF Answer, Go
  <2> QED BY <1>1, <2>1, <2>2, QueryAside, ZenonT(40) DEF Writing
<1> QED BY <1>2, <1>3 DEF GraphStep

\* The steps of others and of other handlers, those before and after a handler,
\* and a crash.
LEMMA OtherQuery ==
  ASSUME LifeInv, ImportsInv, QueriesInv, NEW r \in Requests, Step(r), ~GraphStep(r)
  PROVE  QueryOf(r)'
<1>1. QueryOf(r) /\ DOMAIN pc = Requests /\ DOMAIN reply = Requests
  BY DEF QueriesInv, LifeInv, Types
<1>2. CASE Crash(r)
  <2>1. pc'[r] = "done" /\ reply'[r] = "lost" /\ call' = call /\ plan' = plan
    BY <1>1, <1>2 DEF Crash, Die
  <2> QED BY <1>1, <2>1, QueryAside
<1>3. CASE (TableStep(r) \/ AnswerStep(r) \/ RecordStep(r)) /\ UNCHANGED graphVars
  <2>1. PICK S \in {TablePcs, AnswerPcs, RecordPcs}, R \in {TableReplies, AnswerReplies, RecordReplies} :
          Moves(r, S, R)
    BY <1>3, TableMoves, AnswerMoves, RecordMoves
  <2>2. /\ call' = call /\ pc'[r] \in S \cup {"close"} /\ reply'[r] \in R \cup {reply[r]}
    BY <1>1, <2>1 DEF Moves
  <2>3. /\ "shown" \notin R
        /\ \A x \in S \cup {"close"} : x \notin {"walk", "edges", "seeds", "new", "bind", "body"}
    BY <2>1 DEF TableReplies, AnswerReplies, RecordReplies, TablePcs, AnswerPcs, RecordPcs
  <2>4. plan' = plan
    BY <1>3 DEF graphVars
  <2> QED BY <1>1, <2>2, <2>3, <2>4, QueryAside
<1>4. CASE (Authenticate(r) \/ Bind(r) \/ Close(r)) /\ UNCHANGED graphVars
  <2>1. /\ call' = call /\ pc[r] \in {"new", "bind", "close"}
        /\ pc'[r] \in {"bind", "body", "close", "done"} /\ (pc[r] = "close" => pc'[r] = "done")
    BY <1>1, <1>4 DEF Authenticate, Bind, Close, Answer, Go
  <2>2. reply'[r] \in {reply[r], "unauthenticated", "unreachable", "bad principal", "principal unsupported"}
    BY <1>1, <1>4 DEF Authenticate, Bind, Close, Answer, Go
  <2>3. plan' = plan
    BY <1>4 DEF graphVars
  <2> QED BY <1>1, <2>1, <2>2, <2>3, QueryAside DEF QueryOf
<1> QED BY <1>2, <1>3, <1>4 DEF Step

LEMMA StepQueries ==
  ASSUME LifeInv, ImportsInv, QueriesInv, NEW r \in Requests, Step(r), graph.edges \subseteq graph'.edges
  PROVE  \A q \in Requests : QueryOf(q)'
<1>1. QueryOf(r)'
  BY SeedsQuery, WalkQuery, ShowQuery, ImportQuery, OtherQuery
<1>2. ASSUME NEW q \in Requests, q # r PROVE QueryOf(q)'
  <2>1. call' = call /\ pc'[q] = pc[q] /\ reply'[q] = reply[q]
    <3>1. /\ call' = call /\ \E x : pc' = [pc EXCEPT ![r] = x]
          /\ reply' = reply \/ \E a : reply' = [reply EXCEPT ![r] = a]
      BY OtherSteps, AnswerMoves DEF Moves
    <3> QED BY <1>2, <3>1 DEF LifeInv, Types
  <2>2. plan'[q] = plan[q]
    <3>1. \/ plan' = plan
          \/ \E p : plan' = [plan EXCEPT ![r] = p]
      BY ZenonT(40) DEF Step, GraphStep, GraphBody, CoreImport, RegisterTypes, IngestChunk,
          StoreGroups, Commit,
             ChooseSeeds, WalkFrom, ShowGraph, Committed, Rollback, Hold, Crash, graphVars
    <3> QED BY <1>2, <3>1, SMTT(30) DEF ImportsInv
  <2> QED BY <2>1, <2>2, QueryStays DEF QueriesInv
<1> QED BY <1>1, <1>2

LEMMA NextQueriesInv ==
  ASSUME LifeInv, ImportsInv, QueriesInv, [Next]_vars
  PROVE  QueriesInv'
<1>1. FiniteGraph(graph)' /\ graph.edges \subseteq graph'.edges
  BY GraphGrows DEF QueriesInv
<1>2. ASSUME NEW r \in Requests, Step(r) PROVE QueriesInv'
  BY <1>1, <1>2, StepQueries DEF QueriesInv
<1>3. CASE Outside \/ UNCHANGED vars
  <2>1. UNCHANGED <<call, pc, reply, plan>>
    BY <1>3 DEF Outside, Upgrade, vars, lifeVars, graphVars
  <2> QED BY <1>1, <2>1, QueryStays DEF QueriesInv
<1> QED BY <1>2, <1>3 DEF Next, Done

LEMMA InitQueriesInv == Init => QueriesInv
<1> SUFFICES ASSUME Init PROVE QueriesInv
  OBVIOUS
<1>1. PICK b \in Starts : call = b.calls /\ graph = b.graph
  BY DEF Init
<1>2. /\ plan = [r \in Requests |-> NoPlan]
      /\ \A r \in Requests : pc[r] \in {"new", "done"} /\ reply[r] = "none"
  BY DEF Init, GraphInit, LifeInit
<1>3. \A r \in Requests : IsQuery(r) => Wanted(r).depth \in Nat /\ Wanted(r).max \in Nat
  BY <1>1, QueriesAssumption DEF IsQuery, IsGraph, Wanted
<1>4. DOMAIN NoPlan.depth = {}
  BY DEF NoPlan
<1>5. FiniteGraph(graph)
  BY <1>1, GraphsAssumption DEF FiniteGraph
<1> QED BY <1>2, <1>3, <1>4, <1>5 DEF QueriesInv, QueryOf, Querying

\* What a query has found at each of its steps, and that the graph is finite.
THEOREM QueriesInvariance == Spec => []QueriesInv
BY InitQueriesInv, NextQueriesInv, LifeInvariant, ImportsInvariance, PTL DEF Spec

\* An object is shown no nearer to the other seeds than it is when the answer is
\* made and no farther than it was when the seeds were chosen; what is left out
\* had no room (graph.py:354, 385).  So it is for any graph, seeds, depth and
\* limit, and whatever is imported between the walks.
THEOREM QueriesShowTheGraph == Spec => []QueryShowsTheGraph
<1>1. QueriesInv => QueryShowsTheGraph
  BY DEF QueriesInv, QueryOf, Shows, SeedsOf, QueryShowsTheGraph
<1> QED BY <1>1, QueriesInvariance, PTL

==============================================================================
