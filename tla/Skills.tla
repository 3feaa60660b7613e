------------------------------- MODULE Skills -------------------------------
(***************************************************************************)
(* Agent skills (routers/skills.py, helpers/skills.py, skills_fleet.py and *)
(* the review of routers/scoping.py): bundles are registered as immutable  *)
(* versions, plain skills are created, changed, forked and deleted,        *)
(* proposals wait for a review.                                            *)
(*                                                                         *)
(* Every statement outside of db_tx_core commits on its own.  An ingest    *)
(* reads whether the bundle is known, then its parent, then the parent's   *)
(* content, calls a model, and registers in one transaction: between these *)
(* steps the handlers of other workers and of the threads run.  What the   *)
(* engine does inside maludb_skill_register, _fork and _review is modelled *)
(* from what the handlers give it and expect of it.                        *)
(***************************************************************************)
EXTENDS Naturals, FiniteSets

CONSTANTS
  Requests,    \* the requests served in a behaviour
  NoRequest,   \* no request: the writer of the rows of InitRows
  Workers,     \* the number of worker processes
  Calls,       \* the calls clients may make, a subset of CallType
  Engines,     \* the versions of maludb_core a tenant may have
  InitRows,    \* the skills at the start: ids 1 .. N to rows
  MaxId,       \* bound: the ids the sequence ever gives
  NoRow        \* no row under an id

\* What a version is made of: frontmatter, files beside SKILL.md (0: none),
\* the words of SKILL.md and the white space between them.
Content == [fm: 1..2, files: 0..2, text: 1..2, ws: 1..2]
Names == {"n", "m"}
Ids == 1..MaxId

RowType ==
  [name: Names, content: Content, bundle: BOOLEAN, enabled: BOOLEAN,
   review: {"approved", "proposed", "rejected"},
   over: 0..MaxId,                    \* the version that supersedes it, or 0
   by: Requests \cup {NoRequest}]     \* the request that wrote it

\* id is the skill of the path, or the explicit parent of an ingest.
CallType ==
  [op: {"ingest", "create", "patch", "delete", "duplicate", "review"},
   name: Names, id: 0..MaxId, content: Content,
   set: {"all", "markdown", "name", "enabled", "none"},
   differs: {"unset", "yes", "no"},
   review: {"unset", "approved", "proposed", "rejected"},
   enabled: BOOLEAN,
   model: {"none", "unknown", "keyless", "ready"},
   preview: BOOLEAN]

ASSUME SkillsAssumption ==
  /\ NoRequest \notin Requests /\ Calls \subseteq CallType
  /\ MaxId \in Nat /\ Workers \in Nat \ {0} /\ Engines \subseteq {96, 97, 106}
  /\ DOMAIN InitRows \subseteq Ids /\ InitRows \in [DOMAIN InitRows -> RowType]
  /\ DOMAIN InitRows = 1..Cardinality(DOMAIN InitRows)
  /\ \A i \in DOMAIN InitRows : InitRows[i].by = NoRequest
  /\ NoRow \notin RowType

VARIABLES
  row,      \* maludb_skill: row[i] is the skill with id i, or NoRow
  seq,      \* the last id of the sequence
  engine,   \* the version of the tenant's schema
  call, pc, reply,   \* each request: its call, step, answer
  got,      \* what the handler has read: see NoMemo
  seen      \* history: the ids in view when an ingest looked for its bundle

reqVars == <<call, pc, reply, got, seen>>
vars == <<row, seq, engine, reqVars>>

\* bundle: PATCH, the skill has a bundle_hash; parent, read, material: an
\* ingest's parent, the content it read of it, and the materiality.
NoMemo == [bundle |-> FALSE, parent |-> 0, read |-> NoRow, material |-> TRUE]

Init ==
  /\ row = [i \in Ids |-> IF i \in DOMAIN InitRows THEN InitRows[i] ELSE NoRow]
  /\ seq = Cardinality(DOMAIN InitRows)
  /\ engine \in Engines
  /\ call \in [Requests -> Calls]
  /\ pc = [r \in Requests |-> "idle"]
  /\ reply = [r \in Requests |-> "none"]
  /\ got = [r \in Requests |-> NoMemo]
  /\ seen = [r \in Requests |-> {}]

----------------------------------------------------------------------------
(***************************************************************************)
(* Scheduling and answers.                                                 *)
(***************************************************************************)

\* delete_skill is the one def handler, and runs on a thread.
IsAsync(r) == call[r].op # "delete"

\* An async handler holds its worker's event loop from one await to the next.
Holding == {r \in Requests : pc[r] \in {"parent", "compare", "register", "reread"}}
MayRun(r) == IsAsync(r) /\ r \notin Holding => Cardinality(Holding) < Workers

Goto(r, step, memo) ==
  /\ pc' = [pc EXCEPT ![r] = step]
  /\ got' = [got EXCEPT ![r] = memo]
  /\ UNCHANGED <<call, reply>>
Answer(r, a) ==
  /\ pc' = [pc EXCEPT ![r] = "done"]
  /\ reply' = [reply EXCEPT ![r] = a]
  /\ UNCHANGED <<call, got>>

Rows == {i \in Ids : row[i] # NoRow}

\* The view maludb_skill, through which the handlers read and write: it shows no
\* proposal and nothing rejected.  The engine's functions, and the look at a
\* parent's content, go to the table behind it.
Visible == {i \in Rows : row[i].review = "approved"}

Newest(I) == IF I = {} THEN 0 ELSE CHOOSE i \in I : \A j \in I : j <= i

\* The versions with one name and one bundle_hash.
SameBundle(c) ==
  {i \in Rows : row[i].bundle /\ row[i].name = c.name /\ row[i].content = c.content}

----------------------------------------------------------------------------
(***************************************************************************)
(* POST /v1/skills/ingest                                                  *)
(***************************************************************************)

\* The engine can register, and review when the call proposes.
Serves(c) == engine >= IF c.review = "proposed" THEN 106 ELSE 97

\* Fault: only a push that does not propose looks for its bundle.
KnownUnlessProposed(c) ==
  SameBundle(c) \cap Visible # {} /\ ~c.preview /\ c.review # "proposed"

\* The bundle is registered already and in view; a preview does not ask.
Known(c) == SameBundle(c) \cap Visible # {} /\ ~c.preview

\* A known bundle is answered at once, whatever else the call says.
IngestCheck(r) ==
  LET c == call[r] IN
  /\ pc[r] = "idle" /\ c.op = "ingest" /\ MayRun(r)
  /\ \/ engine < 97 /\ Answer(r, "unavailable")
     \/ engine >= 97 /\ Known(c) /\ Answer(r, "reused")
     \/ engine >= 97 /\ ~Known(c)
          /\ IF Serves(c) THEN Goto(r, "parent", NoMemo) ELSE Answer(r, "unavailable")
  /\ seen' = [seen EXCEPT ![r] = Visible]
  /\ UNCHANGED <<row, seq, engine>>

\* The explicit parent, or the newest enabled version of the name in view.
IngestParent(r) ==
  LET c == call[r] IN
  /\ pc[r] = "parent"
  /\ Goto(r, "compare",
          [got[r] EXCEPT !.parent =
             IF c.id # 0 THEN c.id
             ELSE Newest({i \in Visible : row[i].name = c.name /\ row[i].enabled})])
  /\ UNCHANGED <<row, seq, engine, seen>>

\* Fault: screens that compare SKILL.md alone.
MarkdownScreens(old, new) == IF old.text = new.text THEN "non_material" ELSE "gray"

\* materiality_screens: what changed decides, or leaves it to a judge.
Screens(old, new) ==
  IF old.fm # new.fm \/ old.files # new.files THEN "material"
  ELSE IF old.text = new.text THEN "non_material" ELSE "gray"

\* What the revision may be taken for: the caller's word before the screens,
\* the screens before the judge, and without a model a gray one is material.
Verdicts(c, old) ==
  IF c.differs # "unset" THEN {c.differs = "yes"}
  ELSE CASE Screens(old, c.content) = "material" -> {TRUE}
         [] Screens(old, c.content) = "non_material" -> {FALSE}
         [] OTHER -> IF c.model = "ready" THEN BOOLEAN ELSE {TRUE}

\* What comes of the extraction of tags: an answer, or ok to go on.
Extractions(c) ==
  CASE c.model = "unknown" -> {"unconfigured"}
    [] c.model # "unknown" /\ c.preview -> {"preview"}
    [] c.model = "keyless" /\ ~c.preview -> {"keyless"}
    [] c.model = "none" /\ ~c.preview -> {"ok"}
    [] c.model = "ready" /\ ~c.preview -> {"ok", "upstream"}

IngestCompare(r) ==
  LET c == call[r]
      p == got[r].parent
      old == IF p = 0 THEN NoRow ELSE row[p]
  IN
  /\ pc[r] = "compare"
  /\ IF p # 0 /\ old = NoRow THEN Answer(r, "missing")
     ELSE \E x \in Extractions(c), v \in IF p = 0 THEN {TRUE} ELSE Verdicts(c, old.content) :
            IF x # "ok" THEN Answer(r, x)
            ELSE Goto(r, "register",
                      [got[r] EXCEPT !.read = IF p = 0 THEN NoRow ELSE old.content,
                                     !.material = v])
  /\ UNCHANGED <<row, seq, engine, seen>>

\* maludb_skill_register: a bundle of that name is used again, else a row is
\* written, which supersedes a parent that it does not differ from.
Registered(r, i) ==
  LET c == call[r]
      p == got[r].parent
      new == [name |-> c.name, content |-> c.content, bundle |-> TRUE,
              enabled |-> c.enabled, review |-> "approved", over |-> 0, by |-> r]
  IN  IF i \in SameBundle(c) THEN row
      ELSE [j \in Ids |->
              IF j = i THEN new
              ELSE IF j = p /\ j \in Rows /\ ~got[r].material
                   THEN [row[j] EXCEPT !.over = i] ELSE row[j]]

\* maludb_skill_review
Reviewed(rows, i, decision) == [rows EXCEPT ![i].review = decision]

\* The row a register ends with: the one it finds, or a new one.
RegisteredId(r) == IF SameBundle(call[r]) # {} THEN Newest(SameBundle(call[r]))
                   ELSE seq + 1

\* Fault: the review in a transaction of its own, after the registration.
RegisterThenReview(r) ==
  LET i == RegisteredId(r) IN
  \/ /\ pc[r] = "register" /\ i <= MaxId
     /\ row' = Registered(r, i) /\ seq' = IF i > seq THEN i ELSE seq
     /\ IF call[r].review = "proposed" THEN Goto(r, "reread", [got[r] EXCEPT !.parent = i])
        ELSE Answer(r, "ok")
     /\ UNCHANGED <<engine, seen>>
  \/ /\ pc[r] = "reread" /\ call[r].op = "ingest"
     /\ row' = IF got[r].parent \in Rows THEN Reviewed(row, got[r].parent, "proposed") ELSE row
     /\ Answer(r, "ok")
     /\ UNCHANGED <<seq, engine, seen>>

\* One transaction: registration and review commit, or nothing does.
IngestRegister(r) ==
  LET c == call[r]
      i == RegisteredId(r)
      written == Registered(r, i)
  IN
  /\ pc[r] = "register"
  /\ \/ /\ i <= MaxId
        /\ row' = IF c.review = "proposed" THEN Reviewed(written, i, "proposed")
                  ELSE written
        /\ seq' = IF i > seq THEN i ELSE seq
        /\ Answer(r, IF i <= seq THEN "reused" ELSE "ok")
     \/ \* the database refuses: rolled back (the sequence's gap is left out)
        UNCHANGED <<row, seq>> /\ Answer(r, "error")
  /\ UNCHANGED <<engine, seen>>

----------------------------------------------------------------------------
(***************************************************************************)
(* The other handlers.                                                     *)
(***************************************************************************)

\* POST /v1/skills: a plain skill, without a bundle_hash.  The created_at that the
\* INSERT returns is no JSON: the answer is a failure, and the row stays.
Create(r) ==
  LET c == call[r] IN
  /\ pc[r] = "idle" /\ c.op = "create" /\ MayRun(r)
  /\ \/ /\ seq < MaxId /\ seq' = seq + 1
        /\ row' = [row EXCEPT ![seq + 1] =
             [name |-> c.name, content |-> [c.content EXCEPT !.files = 0],
              bundle |-> FALSE, enabled |-> c.enabled, review |-> "approved",
              over |-> 0, by |-> r]]
     \/ UNCHANGED <<row, seq>>
  /\ Answer(r, "error")
  /\ UNCHANGED <<engine, seen>>

\* PATCH looks for the bundle_hash before it awaits the body.
PatchRead(r) ==
  LET i == call[r].id IN
  /\ pc[r] = "idle" /\ call[r].op = "patch" /\ MayRun(r)
  /\ IF i \in Visible THEN Goto(r, "patch", [NoMemo EXCEPT !.bundle = row[i].bundle])
     ELSE Answer(r, "missing")
  /\ UNCHANGED <<row, seq, engine, seen>>

\* Fault: the name is left out of _IMMUTABLE_FIELDS.
ImmutableButName(bundle, set) == bundle /\ set \in {"all", "markdown"}

\* _IMMUTABLE_FIELDS of a registered skill, among those the call sets.
Immutable(bundle, set) == bundle /\ set \in {"all", "markdown", "name"}

Patched(old, c) ==
  [old EXCEPT !.name = IF c.set \in {"all", "name"} THEN c.name ELSE @,
              !.content.text = IF c.set \in {"all", "markdown"} THEN c.content.text ELSE @,
              !.content.ws = IF c.set \in {"all", "markdown"} THEN c.content.ws ELSE @,
              !.enabled = IF c.set \in {"all", "enabled"} THEN c.enabled ELSE @]

\* The UPDATE, and the row read back: null when it is gone or out of view.
PatchWrite(r) ==
  LET c == call[r] IN
  /\ pc[r] = "patch" /\ MayRun(r)
  /\ \/ Immutable(got[r].bundle, c.set) /\ Answer(r, "immutable") /\ UNCHANGED row
     \/ c.set = "none" /\ Answer(r, "invalid") /\ UNCHANGED row
     \/ /\ ~Immutable(got[r].bundle, c.set) /\ c.set # "none"
        /\ IF c.id \in Visible
           THEN row' = [row EXCEPT ![c.id] = Patched(@, c)] /\ Answer(r, "ok")
           ELSE UNCHANGED row /\ Answer(r, "null")
  /\ UNCHANGED <<seq, engine, seen>>

Delete(r) ==
  LET i == call[r].id IN
  /\ pc[r] = "idle" /\ call[r].op = "delete"
  /\ IF i \in Visible THEN row' = [row EXCEPT ![i] = NoRow] /\ Answer(r, "ok")
     ELSE UNCHANGED row /\ Answer(r, "missing")
  /\ UNCHANGED <<seq, engine, seen>>

\* POST /v1/skills/{id}/duplicate looks the source up, awaits the body, forks
\* it in a transaction and reads the new row.
DuplicateRead(r) ==
  /\ pc[r] = "idle" /\ call[r].op = "duplicate" /\ MayRun(r)
  /\ IF call[r].id \in Visible THEN Goto(r, "fork", NoMemo) ELSE Answer(r, "missing")
  /\ UNCHANGED <<row, seq, engine, seen>>

\* maludb_skill_fork: whether the copy keeps the bundle_hash under its new
\* name, and whether a copy of a proposal is one, is the engine's to say.
DuplicateFork(r) ==
  LET c == call[r] IN
  /\ pc[r] = "fork" /\ MayRun(r)
  /\ \/ /\ c.id \in Rows /\ seq < MaxId /\ seq' = seq + 1
        /\ \E b \in {FALSE, row[c.id].bundle}, v \in {"approved", row[c.id].review} :
             LET copy == [row[c.id] EXCEPT !.name = c.name, !.bundle = b,
                                           !.review = v, !.over = 0, !.by = r]
             IN  /\ b => \A i \in Rows : row[i].bundle /\ row[i].name = c.name
                                           => row[i].content # copy.content
                 /\ row' = [row EXCEPT ![seq + 1] = copy]
        /\ Goto(r, "reread", [NoMemo EXCEPT !.parent = seq + 1])
     \/ UNCHANGED <<row, seq>> /\ Answer(r, "error")
  /\ UNCHANGED <<engine, seen>>

\* The new row: None, which has no "id", when it is gone or out of view, else a
\* created_at that is no JSON.  The copy stays.
DuplicateReread(r) ==
  /\ pc[r] = "reread" /\ call[r].op = "duplicate"
  /\ Answer(r, "error")
  /\ UNCHANGED <<row, seq, engine, seen>>

\* POST /v1/skills/{id}/review: a decision of the three; the engine refuses an
\* author's own.
Review(r) ==
  LET c == call[r] IN
  /\ pc[r] = "idle" /\ c.op = "review" /\ MayRun(r)
  /\ \/ engine < 106 /\ Answer(r, "unavailable") /\ UNCHANGED row
     \/ engine >= 106 /\ c.review = "unset" /\ Answer(r, "invalid") /\ UNCHANGED row
     \/ /\ engine >= 106 /\ c.review # "unset" /\ c.id \notin Rows
        /\ Answer(r, "error") /\ UNCHANGED row
     \/ /\ engine >= 106 /\ c.review # "unset" /\ c.id \in Rows
        /\ Answer(r, "forbidden") /\ UNCHANGED row
     \/ /\ engine >= 106 /\ c.review # "unset" /\ c.id \in Rows
        /\ row' = Reviewed(row, c.id, c.review) /\ Answer(r, "ok")
  /\ UNCHANGED <<seq, engine, seen>>

Terminating == (\A r \in Requests : pc[r] = "done") /\ UNCHANGED vars

Next ==
  \/ \E r \in Requests :
       \/ IngestCheck(r) \/ IngestParent(r) \/ IngestCompare(r) \/ IngestRegister(r)
       \/ Create(r) \/ PatchRead(r) \/ PatchWrite(r) \/ Delete(r)
       \/ DuplicateRead(r) \/ DuplicateFork(r) \/ DuplicateReread(r) \/ Review(r)
  \/ Terminating

Spec == Init /\ [][Next]_vars

----------------------------------------------------------------------------
(***************************************************************************)
(* Resolution, which is the engine's view and the route's WHERE.           *)
(***************************************************************************)

\* GET /v1/skills/resolve: the newest enabled version, or 0.
Resolve(name) ==
  Newest({i \in Visible : row[i].name = name /\ row[i].enabled})

\* Pinned by bundle_hash: enabled or not.
ResolvePin(name, content) ==
  Newest({i \in Visible : row[i].name = name /\ row[i].bundle /\ row[i].content = content})

----------------------------------------------------------------------------
(***************************************************************************)
(* Properties.                                                             *)
(***************************************************************************)

\* The README says that a proposal never resolves until approved: what a
\* proposing ingest has written is seen by no resolve, by name or by pin, at
\* any moment, unless a review has approved it.
ProposedNeverLive ==
  \A i \in Rows :
    /\ row[i].by \in Requests
    /\ call[row[i].by].op = "ingest" /\ call[row[i].by].review = "proposed"
    /\ i = Resolve(row[i].name) \/ i = ResolvePin(row[i].name, row[i].content)
    => \E q \in Requests : /\ call[q].op = "review" /\ call[q].id = i
                           /\ call[q].review = "approved" /\ reply[q] = "ok"

\* An approved version is withdrawn by a reviewer only; an ingest that proposes
\* the same bundle withdraws it only if the version was not in view when that
\* ingest looked for the bundle: it was registered later, or it was a proposal,
\* which the view hides, and has been approved since (skills.py:572-577, 848-856).
ReviewWithdraws ==
  \A i \in Visible :
    i \in Rows' /\ row'[i].review # "approved" =>
      \E r \in Requests :
        /\ pc[r] # "done" /\ pc'[r] = "done"
        /\ \/ call[r].op = "review" /\ call[r].id = i
           \/ call[r].op = "ingest" /\ i \notin seen[r]
WithdrawnByReview == [][ReviewWithdraws]_vars

\* Docstring of skills.py: a registered version is immutable.  What a name and
\* a bundle_hash resolve to keeps its content, and an id is never given again.
PinsStay ==
  \A i \in Ids : i <= seq =>
    /\ i \in Rows' => i \in Rows
    /\ i \in Rows /\ row[i].bundle /\ i \in Rows' =>
         /\ row'[i].bundle /\ row'[i].name = row[i].name
         /\ row'[i].content = row[i].content
PinsNeverChange == [][PinsStay]_vars

\* A revision hides its parent only when nothing but SKILL.md has changed,
\* and if its words have, only when a model has judged it; the caller may
\* decide otherwise, and a plain parent may be changed after it is read.
SameIsHidden ==
  \A i \in Rows \cap Rows' :
    row[i].over = 0 /\ row'[i].over # 0 =>
      LET new == row'[row'[i].over]
          c == call[new.by]
      IN  \/ c.differs = "no"
          \/ ~row[i].bundle /\ row[i].content # got[new.by].read
          \/ /\ new.content.fm = row[i].content.fm
             /\ new.content.files = row[i].content.files
             /\ new.content.text = row[i].content.text \/ c.model = "ready"
HiddenOnlyIfSame == [][SameIsHidden]_vars
=============================================================================
