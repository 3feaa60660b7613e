------------------------------ MODULE Registry ------------------------------
(***************************************************************************)
(* What the registry promises its clients, without locks, transactions,    *)
(* event loops or workers: a request changes the rows in one step and at   *)
(* most once, and its answer says truly whether it has.                    *)
(***************************************************************************)
EXTENDS Naturals

CONSTANTS Requests, InitRows

VARIABLES
  rows,    \* the rows that everybody sees
  call,    \* call[r]: what request r asks for
  stage,   \* stage[r]: "open", then "applied", then "closed"
  reply    \* reply[r]: the answer to r, "none" before there is one

vars == <<rows, call, stage, reply>>

Init ==
  /\ rows = InitRows
  /\ stage = [r \in Requests |-> "open"]
  /\ reply = [r \in Requests |-> "none"]

Apply(r) == /\ stage[r] = "open"
            /\ stage' = [stage EXCEPT ![r] = "applied"]
            /\ UNCHANGED <<call, reply>>

Close(r, answers) == /\ stage' = [stage EXCEPT ![r] = "closed"]
                     /\ \E a \in answers : reply' = [reply EXCEPT ![r] = a]
                     /\ UNCHANGED call

\* The items of r, one row each, with new ids that follow one another.
Batch(r, new) ==
  /\ {x.key : x \in new} = {r} \X (1..call[r].n)
  /\ \A x, y \in new : /\ x.tab = y.tab
                       /\ x.id + y.key[2] = y.id + x.key[2]
                       /\ x.key = y.key => x = y
  /\ \A x \in new, y \in rows : x.tab = y.tab => x.id # y.id

Create(r) ==
  /\ call[r].op = "create" /\ Apply(r)
  /\ rows \subseteq rows'
  /\ Batch(r, rows' \ rows)

\* What a row is, whatever its columns hold.
Identities(S) == {<<x.tab, x.id, x.key>> : x \in S}

\* Only a row with the id that was named may change, and it stays that row.
Change(r) ==
  /\ call[r].op \in {"patch", "archive", "unarchive"} /\ Apply(r)
  /\ Identities(rows') = Identities(rows)
  /\ \A x \in (rows \cup rows') : x.id # call[r].id => x \in rows \cap rows'

Remove(r) ==
  /\ call[r].op = "delete" /\ stage[r] = "open"
  /\ \E x \in rows : x.id = call[r].id /\ rows' = rows \ {x}
  /\ Close(r, {"ok"})

\* Told that it was refused, a client knows that nothing has changed.
Refuse(r) ==
  /\ stage[r] = "open"
  /\ Close(r, {"refused", "not_found", "conflict"})
  /\ UNCHANGED rows

Respond(r) ==
  /\ stage[r] = "applied"
  /\ Close(r, {"ok", "gone", "server_error"})
  /\ UNCHANGED rows

\* Some requests are lost at once, before or after they took effect.
Lose ==
  /\ \A r \in Requests :
       \/ stage'[r] = stage[r] /\ reply'[r] = reply[r]
       \/ stage[r] # "closed" /\ stage'[r] = "closed" /\ reply'[r] = "lost"
  /\ UNCHANGED <<rows, call>>

Next == \/ \E r \in Requests : \/ Create(r) \/ Change(r) \/ Remove(r)
                               \/ Refuse(r) \/ Respond(r)
        \/ Lose

Spec == Init /\ [][Next]_vars
=============================================================================
