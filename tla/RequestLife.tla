----------------------------- MODULE RequestLife -----------------------------
(***************************************************************************)
(* What every request goes through (auth.py, principal.py, database.py,    *)
(* errors.py): its token is looked up, a connection to the tenant's        *)
(* database is opened for it alone, the connection is bound to the         *)
(* principal the headers name, the handler runs, the connection is closed. *)
(* The handlers are in Tables, Answers, TenantGraph and Records, which     *)
(* extend this module.                                                     *)
(***************************************************************************)
EXTENDS Naturals, FiniteSets

CONSTANTS
  Requests,   \* the requests served in a behaviour
  Grants      \* the namespaces the engine grants to the principal of a call

Namespaces == {"default", "dept", "hr"}

\* The three headers.  scopes: no header, a blank one, separators only, the
\* name "dept", or text that is not a list of scopes.
Headers == [ref: {"none", "bad", "agent"},
         scopes: {"absent", "blank", "commas", "dept", "bad"}, readonly: BOOLEAN]

\* What a session is set to: scopes is <<>>, or the one list that narrows.
Session == [ref: {"none", "agent"}, scopes: {<<>>} \cup {<<s>> : s \in SUBSET Namespaces},
            readonly: BOOLEAN]
Unrestricted == [ref |-> "none", scopes |-> <<>>, readonly |-> FALSE]

ASSUME LifeAssumption == Grants \subseteq Namespaces /\ IsFiniteSet(Requests)

\* f, but for what g says.
Overlaid(f, g) == [x \in DOMAIN f \cup DOMAIN g |-> IF x \in DOMAIN g THEN g[x] ELSE f[x]]

VARIABLES
  engine,   \* the version of the tenant's schema; it may be upgraded
  call,     \* call[r]: [kind, token, head, ask], ask as the handler's module says
  pc,       \* the step of each request
  reply,    \* its answer
  conn      \* its connection: [open, as]

lifeVars == <<engine, call, pc, reply, conn>>

Closed == [open |-> FALSE, as |-> Unrestricted]

\* A behaviour may have fewer requests: those of the kind "none" never come.
LifeInit ==
  /\ pc = [r \in Requests |-> IF call[r].kind = "none" THEN "done" ELSE "new"]
  /\ reply = [r \in Requests |-> "none"]
  /\ conn = [r \in Requests |-> Closed]

Go(r, step) == pc' = [pc EXCEPT ![r] = step] /\ UNCHANGED <<engine, call, reply, conn>>

\* A handler returns or raises; what is left is to close the connection.
Answer(r, a) ==
  /\ pc' = [pc EXCEPT ![r] = "close"]
  /\ reply' = [reply EXCEPT ![r] = a]
  /\ UNCHANGED <<engine, call, conn>>

\* authenticate_bearer: the header, the prefix, the look-up, the connection.
Authenticate(r) ==
  /\ pc[r] = "new"
  /\ \/ call[r].token \in {"absent", "malformed", "unknown"}
        /\ Answer(r, "unauthenticated")
     \/ call[r].token = "known" /\ Answer(r, "unreachable")
     \/ /\ call[r].token = "known"
        /\ conn' = [conn EXCEPT ![r] = [open |-> TRUE, as |-> Unrestricted]]
        /\ pc' = [pc EXCEPT ![r] = "bind"] /\ UNCHANGED <<engine, call, reply>>

\* Fault: an empty list is taken for none, as by `json.dumps(s) if s else ""`.
ParseNonEmpty(raw) == IF raw = "dept" THEN <<{"dept"}>> ELSE <<>>

\* parse_scopes: no list, or the list, which may be empty.  ("bad" is refused.)
ParseScopes(raw) ==
  CASE raw \in {"absent", "blank", "bad"} -> <<>>
    [] raw = "commas" -> <<{}>>
    [] raw = "dept" -> <<{"dept"}>>

\* The headers are no list, name no principal or one that cannot be.
BadHead(h) ==
  \/ h.scopes = "bad"
  \/ h.ref = "none" /\ (ParseScopes(h.scopes) # <<>> \/ h.readonly)
  \/ h.ref = "bad"

\* principal_enforced
Enforced == engine >= 106

\* apply_principal: three settings, which live as long as the connection.
Bind(r) ==
  LET h == call[r].head IN
  /\ pc[r] = "bind"
  /\ \/ BadHead(h) /\ Answer(r, "bad principal")
     \/ ~BadHead(h) /\ h.ref = "none" /\ Go(r, "body")
     \/ ~BadHead(h) /\ h.ref # "none" /\ ~Enforced /\ Answer(r, "principal unsupported")
     \/ /\ ~BadHead(h) /\ h.ref # "none" /\ Enforced
        /\ conn' = [conn EXCEPT ![r] = [open |-> TRUE,
             as |-> [ref |-> h.ref, scopes |-> ParseScopes(h.scopes), readonly |-> h.readonly]]]
        /\ pc' = [pc EXCEPT ![r] = "body"] /\ UNCHANGED <<engine, call, reply>>

\* The finally of require_auth.
Close(r) ==
  /\ pc[r] = "close"
  /\ conn' = [conn EXCEPT ![r] = Closed]
  /\ pc' = [pc EXCEPT ![r] = "done"]
  /\ UNCHANGED <<engine, call, reply>>

\* The worker dies: PostgreSQL closes its side of the connection.
Die(r) ==
  /\ pc[r] \notin {"new", "done"}
  /\ conn' = [conn EXCEPT ![r] = Closed]
  /\ pc' = [pc EXCEPT ![r] = "done"]
  /\ reply' = [reply EXCEPT ![r] = "lost"]
  /\ UNCHANGED <<engine, call>>

\* The operator upgrades maludb_core and re-runs enable_memory_schema.
Upgrade == engine' = 106 /\ engine # 106 /\ UNCHANGED <<call, pc, reply, conn>>

\* What the engine lets a session see and write, by namespace.
Sees(as, n) ==
  \/ as.ref = "none"
  \/ n \in Grants /\ \A i \in DOMAIN as.scopes : n \in as.scopes[i]
MayWrite(as, n) == Sees(as, n) /\ ~as.readonly
=============================================================================
