--------------------------- MODULE MCSecretStore ---------------------------
(***************************************************************************)
(* Instances of SecretStore for TLC.                                       *)
(***************************************************************************)
EXTENDS SecretStore, TLC

CONSTANTS u1, m1, c1, c2, s1, s2, t1

Call(op, who, secret) == [op |-> op, who |-> who, secret |-> secret]

\* Every operation; a secret that begins with the prefix; a key left out.
AllCalls ==
  {Call("put", u1, s2), Call("put", u1, Null), Call("forget", u1, Null),
   Call("prompt", m1, t1), Call("prompt", m1, Null),
   Call("mint", c2, s2), Call("revoke", c1, 1), Call("revoke", c2, 1)}

\* A provider key is set, kept and removed.
KeyCalls ==
  {Call("put", u1, s2), Call("put", u1, Null), Call("forget", u1, Null)}

\* Tokens are minted and revoked by two logins.
TokenCalls ==
  {Call("mint", c1, s1), Call("mint", c2, s2), Call("revoke", c1, 1),
   Call("revoke", c2, 1)}

PlainRow(who, s) == [rid |-> 1, own |-> who, val |-> [by |-> "plain", text |-> s]]

\* One token, one provider key and one model prompt, all plain.
OneOfEach ==
  [row |-> [c \in Cells |->
              CASE c = <<"users", 1>> -> PlainRow(c1, s1)
                [] c[1] = "provider" -> PlainRow(c[2], s1)
                [] c[1] = "prompt" -> PlainRow(c[2], s1)
                [] OTHER -> NoRow],
   seq |-> 1]

\* One token of the login c1.
OneToken ==
  [row |-> [c \in Cells |->
              IF c = <<"users", 1>> THEN PlainRow(c1, s1) ELSE NoRow],
   seq |-> 1]

\* No token and no model prompt yet.
OneKey ==
  [row |-> [c \in Cells |->
              IF c[1] = "provider" THEN PlainRow(c[2], s1) ELSE NoRow],
   seq |-> 0]

\* Any two calls; or three that mint and revoke tokens, because an id given
\* again takes two revocations and a mint.
SomeStarts ==
  [store : {OneOfEach},
   calls : {f \in [Requests -> AllCalls \cup {NoCall}] :
              Cardinality({r \in Requests : f[r] = NoCall}) = 1}]
  \cup [store : {OneToken}, calls : [Requests -> TokenCalls]]

\* Calls about a provider key, of every request.
SealStarts == [store : {OneKey}, calls : [Requests -> KeyCalls]]

SomeSymmetry == Permutations(Requests) \cup Permutations(Workers)
=============================================================================
