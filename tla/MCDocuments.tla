---------------------------- MODULE MCDocuments ----------------------------
(***************************************************************************)
(* An instance of Documents for TLC: d1 has two projects and a chunk, d2 has  *)
(* a chunk, and one more chunk is of a document that is gone.              *)
(***************************************************************************)
EXTENDS Documents, TLC

CONSTANTS d0, d1, d2

L(kind, name) == [act |-> "link", link |-> [kind |-> kind, name |-> name]]
U(kind, name) == [act |-> "unlink", link |-> [kind |-> kind, name |-> name]]
C(op, doc, jobs) == [op |-> op, doc |-> doc, jobs |-> jobs,
                     n |-> IF op = "ingest" THEN 1 ELSE 0]

DocumentCalls ==
  {C("patch", d1, <<U("project", "p"), L("subject", "n")>>),
   C("patch", d1, <<U("project", "q"), L("subject", "n")>>),
   C("patch", d1, <<U("subject", "n"), L("project", "q")>>),
   C("upload", d1, <<L("project", "n"), L("subject", "p")>>),
   C("ingest", d1, <<>>), C("search", d1, <<>>), C("delete", d1, <<>>)}
    \cup {C("delete", r, <<>>) : r \in Requests}

T(kind, name) == [doc |-> d1, kind |-> kind, name |-> name, by |-> NoRequest]
TwoProjects == {T("project", "p"), T("project", "q")}
FewChunks == {<<d0, 1>>, <<d1, 1>>, <<d2, 1>>}
OnePrimary == (d1 :> "p") @@ (d2 :> "")

\* Only a DELETE asks what the engine can do, and it deletes a document that is
\* there at the start or that another request makes.  A search and an ingest
\* are of interest beside a DELETE and not beside a PATCH: they touch no tag and
\* no edge.  Two uploads make documents, tags and edges of their own; a PATCH and
\* an upload share the subjects, which a DELETE leaves alone.
SomeInit ==
  /\ Init
  /\ \A q, r \in Requests :
       /\ call[q].op = "patch" => call[r].op \notin {"search", "ingest"}
       /\ call[q].op = "upload" /\ call[r].op = "upload" => q = r
       /\ call[q].op = "patch" /\ call[r].op = "upload" =>
            \A s \in Requests : call[s].op # "delete"
  /\ (forgets \/ \E r \in Requests : call[r].op \in {"search", "ingest"})
       => \E r \in Requests : call[r].op = "delete"
  /\ \A r \in Requests : (call[r].op = "delete" /\ call[r].doc \in Requests)
       => call[call[r].doc].op \in {"upload", "ingest"}

SomeSpec == SomeInit /\ [][Next]_vars

DocumentsSymmetry == Permutations(Requests) \cup Permutations(Workers)
=============================================================================
