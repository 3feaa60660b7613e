------------------------------- MODULE Answers -------------------------------
(***************************************************************************)
(* What a tenant asks of its memory: POST /v1/memory/recall                *)
(* (agent_memory.py), POST /v1/memory/answer (memory_answer.py) and        *)
(* POST /v1/memory/ingest (memory.py).  Each is a chain of statements and  *)
(* of calls to models, with other requests deleting documents and the      *)
(* operator upgrading the engine in between.                               *)
(*                                                                         *)
(* A chunk of memory has a namespace, the subjects it is filed under, a    *)
(* similarity to the question and a text, a sequence of phrases.  What a   *)
(* language model says is any of Outputs.                                  *)
(***************************************************************************)
EXTENDS RequestLife, Integers, SequencesExt

CONSTANTS
  Memory,       \* [chunk -> [place, subjects, sim, text]]; no two alike in sim
  Phrases,      \* of texts and quotes
  Short,        \* the phrases below MIN_QUOTE_CHARS
  Brief,        \* the phrases below QUOTED_SPAN_CHARS
  Outputs,      \* of a model: [json, sufficient, answer, cites, spans]
  Overfetch,    \* SEARCH_OVERFETCH
  EvidenceSize, \* EVIDENCE_CHARS, in phrases
  MaxSubjects,  \* MAX_SUBJECTS, of a recall and of those proposed
  MaxTried      \* MAX_SUBJECTS_TRIED

Chunks == DOMAIN Memory

ASSUME AnswersAssumption ==
  /\ IsFiniteSet(Chunks)
  /\ \A c \in Chunks : /\ Memory[c].place \in Namespaces /\ Memory[c].sim \in Int
                       /\ Memory[c].text \in Seq(Phrases)
  /\ \A c, d \in Chunks : Memory[c].sim = Memory[d].sim => c = d
  /\ Short \subseteq Brief /\ Brief \subseteq Phrases
  /\ {Overfetch, EvidenceSize, MaxSubjects, MaxTried} \subseteq Nat \ {0}
  /\ MaxSubjects <= MaxTried

VARIABLES
  dead,   \* the chunks whose document is deleted; they outlive it
  home,   \* home[r]: the namespace of what r has stored, or "none"
  work    \* work[r]: what the handler of r holds, see Blank

answerVars == <<dead, home, work>>

\* todo: the searches to come, as [place, subject]; found: the chunks they gave;
\* evidence: the best of them, as they are numbered; calls of the model and its last
\* output; takes: the engine's ingest takes a namespace; report: the one that is
\* reported.  gone, a history: the chunks that were dead when r came.
Blank == [todo |-> <<>>, found |-> {}, evidence |-> <<>>, calls |-> 0, out |-> <<>>,
          takes |-> FALSE, report |-> "none", gone |-> {}]

AnswersInit ==
  /\ dead = {}
  /\ home = [r \in Requests |-> "none"]
  /\ work = [r \in Requests |-> Blank]

IsAnswer(r) == call[r].kind = "memory"
Asked(r) == call[r].ask

Keep(r, w) == work' = [work EXCEPT ![r] = w] /\ UNCHANGED <<dead, home>>

\* A deletion of a document by another request (DELETE /v1/documents/{id}).
Forget(c) == c \notin dead /\ dead' = dead \cup {c} /\ UNCHANGED <<home, work>>

----------------------------------------------------------------------------
(***************************************************************************)
(* Retrieval.                                                              *)
(***************************************************************************)

\* The n chunks of C that are most like the question, and C in that order.
Best(C, n) == {c \in C : Cardinality({d \in C : Memory[d].sim > Memory[c].sim}) < n}
Rankings(C) == {s \in [1..Cardinality(C) -> C] :
                  \A i, j \in DOMAIN s : i < j => Memory[s[i]].sim > Memory[s[j]].sim}
ByLikeness(C) == CHOOSE s \in Rankings(C) : TRUE
Cut(s, n) == SubSeq(s, 1, IF n < Len(s) THEN n ELSE Len(s))

\* project_subject_names, else _candidate_subjects; recall takes the caller's.
SubjectsOf(a) ==
  LET all == IF a.project = "known" /\ a.projectSubjects # <<>> THEN a.projectSubjects
             ELSE IF a.op = "recall" /\ a.named # <<>> THEN a.named
             ELSE Cut(a.candidates, MaxSubjects)
      first(i) == \A j \in 1..i-1 : all[j] # all[i]
  IN  Cut([k \in 1..Cardinality({i \in DOMAIN all : first(i)}) |->
             all[CHOOSE i \in DOMAIN all : first(i) /\ Cardinality({j \in 1..i : first(j)}) = k]],
          MaxTried)

\* _names: a recall names too many subjects.
TooMany(a) == a.op = "recall" /\ Cardinality(ToSet(a.named)) > MaxSubjects

\* Every namespace of the call with every subject, in the order of the loops.
SearchesOf(a) ==
  LET S == SubjectsOf(a) IN
  [k \in 1..(Len(a.namespaces) * Len(S)) |->
     [place |-> a.namespaces[((k - 1) \div Len(S)) + 1], subject |-> S[((k - 1) % Len(S)) + 1]]]

\* parse_request, and what the handlers look up before they search.
AskBody(r) ==
  LET a == Asked(r)
      blank == [Blank EXCEPT !.gone = dead]
  IN
  /\ pc[r] = "body" /\ IsAnswer(r)
  /\ IF a.bad \/ TooMany(a) THEN Answer(r, "bad request") /\ Keep(r, blank)
     ELSE IF a.op = "ingest" THEN Go(r, "resolve") /\ Keep(r, blank)
     ELSE IF a.project = "unknown" THEN Answer(r, "not found") /\ Keep(r, blank)
     ELSE IF SubjectsOf(a) = <<>>
          THEN Answer(r, IF a.op = "recall" THEN "recalled" ELSE "no evidence") /\ Keep(r, blank)
          ELSE Go(r, "embed") /\ Keep(r, [blank EXCEPT !.todo = SearchesOf(a)])

\* resolve_query_vector: once for an answer, for each search of a recall.
EmbedQuery(r) ==
  /\ pc[r] = "embed"
  /\ Go(r, "search") \/ Answer(r, "upstream error")
  /\ UNCHANGED answerVars

\* search_core: the hits, more than were asked for, without the dead ones.
HitsOf(r, s) ==
  LET C == {c \in Chunks : /\ Memory[c].place = s.place /\ s.subject \in Memory[c].subjects
                           /\ Sees(conn[r].as, s.place)}
  IN  Best(Best(C, Overfetch * Asked(r).max) \ dead, Asked(r).max)

\* Fault: the loop ends once it has as many chunks as were asked for.
MoreUntilFull(r, new) ==
  Tail(work[r].todo) # <<>> /\ Cardinality(work[r].found \cup new) < Asked(r).max

\* Whether another search follows the one that gave these.
More(r, new) == Tail(work[r].todo) # <<>>

\* One search, in one transaction.  A chunk found before is found once.
Search(r) ==
  LET w == work[r]
      new == {c \in HitsOf(r, Head(w.todo)) : Memory[c].sim >= Asked(r).least}
  IN
  /\ pc[r] = "search"
  /\ Keep(r, [w EXCEPT !.todo = Tail(@), !.found = @ \cup new])
  /\ Go(r, IF ~More(r, new) THEN "rank" ELSE IF Asked(r).op = "recall" THEN "embed" ELSE "search")

\* merge_recall, or the end of retrieve_evidence: the best of all the searches.
Rank(r) ==
  LET best == ByLikeness(Best(work[r].found, Asked(r).max)) IN
  /\ pc[r] = "rank"
  /\ Keep(r, [work[r] EXCEPT !.evidence = best])
  /\ IF Asked(r).op = "recall" THEN Answer(r, "recalled")
     ELSE IF best = <<>> THEN Answer(r, "no evidence") ELSE Go(r, "resolve")

----------------------------------------------------------------------------
(***************************************************************************)
(* Composing and verifying.                                                *)
(***************************************************************************)

\* resolve_answer_model, and the choice of a connection in ingest_core; a
\* preview of an ingest ends before the key is looked at.
ResolveModel(r) ==
  LET a == Asked(r) IN
  /\ pc[r] = "resolve"
  /\ \/ a.model = "unset" /\ Answer(r, "model not configured")
     \/ a.model # "unset" /\ a.preview /\ Answer(r, "preview")
     \/ a.model = "keyless" /\ ~a.preview /\ Answer(r, "key missing")
     \/ a.model = "keyed" /\ ~a.preview /\ Go(r, IF a.op = "ingest" THEN "extract" ELSE "compose")
  /\ UNCHANGED answerVars

Shown(c) == ToSet(Cut(Memory[c].text, EvidenceSize))

\* verify: a quote is long enough and in the item it cites; a quoted span of
\* the answer, if it is long enough to be looked at, is in one of them.
Verified(evidence, c) ==
  c.n \in DOMAIN evidence /\ c.quote \notin Short /\ c.quote \in Shown(evidence[c.n])
BadCites(evidence, out) == {c \in out.cites : ~Verified(evidence, c)}
BadSpans(evidence, out) ==
  {s \in out.spans \ Brief : \A i \in DOMAIN evidence : s \notin Shown(evidence[i])}

\* Fault: after the repair its output is taken as it is.
SoundOrRepaired(evidence, out, calls) ==
  calls = 2 \/ (BadCites(evidence, out) = {} /\ BadSpans(evidence, out) = {})

\* Every quote of the output is verified.
Sound(evidence, out, calls) == BadCites(evidence, out) = {} /\ BadSpans(evidence, out) = {}

\* One call of the model; when a quote fails, one more that names it.
Compose(r) ==
  LET w == work[r] IN
  /\ pc[r] = "compose"
  /\ \/ Answer(r, "upstream error") /\ UNCHANGED answerVars
     \/ \E out \in Outputs :
          LET v == [w EXCEPT !.calls = @ + 1, !.out = <<out>>] IN
          /\ Keep(r, v)
          /\ IF ~out.json THEN Answer(r, "upstream error")
             ELSE Go(r, IF Sound(w.evidence, out, v.calls) \/ v.calls = 2 THEN "judge"
                        ELSE "compose")

\* The end of answer_core.
Judge(r) ==
  LET w == work[r]
      out == w.out[1]
  IN
  /\ pc[r] = "judge"
  /\ Answer(r, IF ~Sound(w.evidence, out, w.calls) THEN "unverified"
               ELSE IF ~out.sufficient \/ ~out.answer \/ out.cites = {} THEN "no evidence"
               ELSE "answered")
  /\ UNCHANGED answerVars

----------------------------------------------------------------------------
(***************************************************************************)
(* Ingest.                                                                 *)
(***************************************************************************)

\* llm_complete, llm_json_from_text
Extract(r) ==
  /\ pc[r] = "extract"
  /\ Go(r, "probe") \/ Answer(r, "upstream error")
  /\ UNCHANGED answerVars

\* ingest_takes_namespace: before the transaction.
Probe(r) ==
  /\ pc[r] = "probe"
  /\ Keep(r, [work[r] EXCEPT !.takes = engine >= 106])
  /\ Go(r, "store")

\* _ingest: the document and the extraction, unless the engine refuses them.
StoreExtraction(r) ==
  LET place == IF work[r].takes THEN Asked(r).namespaces[1] ELSE "default" IN
  /\ pc[r] = "store"
  /\ \/ /\ MayWrite(conn[r].as, place)
        /\ home' = [home EXCEPT ![r] = place]
        /\ Go(r, "report")
     \/ Answer(r, "refused") /\ UNCHANGED home
  /\ UNCHANGED <<dead, work>>

\* Fault: the engine is asked again for the report.
AppliedNow(r) == engine >= 106

\* Whether the namespace of the call was passed on.
Applied(r) == work[r].takes

\* ingest_namespace_report
Report(r) ==
  LET asked == Asked(r).namespaces[1] IN
  /\ pc[r] = "report"
  /\ Keep(r, [work[r] EXCEPT !.report = IF Applied(r) THEN asked ELSE "default"])
  /\ Answer(r, "stored")

AnswerStep(r) ==
  \/ AskBody(r) \/ EmbedQuery(r) \/ Search(r) \/ Rank(r)
  \/ ResolveModel(r) \/ Compose(r) \/ Judge(r)
  \/ Extract(r) \/ Probe(r) \/ StoreExtraction(r) \/ Report(r)

----------------------------------------------------------------------------
(***************************************************************************)
(* What the caller may rely on.                                            *)
(***************************************************************************)

Answering(r) == IsAnswer(r) /\ Asked(r).op \in {"answer", "recall"}

\* An answer is given only with at least one citation; every cited quote is in
\* the item it cites and every quoted passage that is long enough to be looked
\* at is in what the caller is shown: never after a repair that failed, and
\* never from no evidence at all (memory_answer.py:23, "only ever "answered" with
\* at least one verified citation").  The comment says so of every quoted span
\* (19); the code looks at those of QUOTED_SPAN_CHARS and more only (64, 82).
AnsweredIsCited ==
  \A r \in Requests : IsAnswer(r) =>
    LET w == work[r] IN
    /\ reply[r] = "answered" =>
         /\ w.out[1].cites # {}
         /\ \A c \in w.out[1].cites :
              /\ c.n \in DOMAIN w.evidence
              /\ c.quote \in ToSet(Memory[w.evidence[c.n]].text) \ Short
         /\ \A s \in w.out[1].spans \ Brief : \E c \in ToSet(w.evidence) : s \in ToSet(Memory[c].text)
    /\ w.calls > 0 => w.evidence # <<>>

\* The memories a call is about, whichever search finds them.
About(r, c) ==
  /\ Memory[c].place \in ToSet(Asked(r).namespaces)
  /\ Memory[c].subjects \cap ToSet(SubjectsOf(Asked(r))) # {}
  /\ Memory[c].sim >= Asked(r).least

\* The principal of a call, by its headers alone, may see a namespace.
Allowed(h, n) ==
  \/ h.ref = "none"
  \/ n \in Grants /\ (h.scopes = "commas" => FALSE) /\ (h.scopes = "dept" => n = "dept")

\* However many subjects and namespaces are searched, and whatever is deleted
\* meanwhile, what is returned is the best that is there: a memory that is
\* left out is dead, or the list is full of better ones; and nothing of it was
\* deleted before the question came.  (As long as the dead fit into what a
\* search fetches beyond its limit.)
BestOfAll ==
  \A r \in Requests : Answering(r) =>
    LET E == ToSet(work[r].evidence) IN
    /\ E \cap work[r].gone = {}
    /\ (reply[r] \in {"answered", "unverified", "recalled", "no evidence"}
       /\ Cardinality(dead) <= (Overfetch - 1) * Asked(r).max) =>
      /\ \A c \in E : About(r, c)
      /\ \A c \in Chunks \ (E \cup dead) : About(r, c) /\ Allowed(call[r].head, Memory[c].place) =>
           Cardinality(E) = Asked(r).max /\ \A e \in E : Memory[e].sim > Memory[c].sim

\* A call that names a principal is served as that principal or not at all:
\* it reads from, and stores into, no namespace outside of the engine's grants
\* and of its own list, an empty list included, and stores nothing when it is
\* read-only (principal.py: "fails closed").
NeverServedUnrestricted ==
  \A r \in Requests : IsAnswer(r) /\ call[r].head # [ref |-> "none", scopes |-> "absent",
                                                     readonly |-> FALSE] =>
    /\ \A c \in work[r].found : Allowed(call[r].head, Memory[c].place)
    /\ home[r] # "none" => Allowed(call[r].head, home[r]) /\ ~call[r].head.readonly

\* The namespace that an ingest reports is the one its document is in, even if
\* the engine is upgraded between the probe and the answer (memory.py:691).
NamespaceIsTruthful ==
  \A r \in Requests : IsAnswer(r) /\ reply[r] = "stored" => work[r].report = home[r]
=============================================================================
