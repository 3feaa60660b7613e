------------------------------- MODULE Upkeep -------------------------------
(***************************************************************************)
(* The background sweeps: POST /v1/skills/reindex/run (routers/skills.py), *)
(* POST /v1/memory/reindex/run and POST /v1/memory/embeddings/run          *)
(* (routers/memory.py), which the timers of deploy/ call.                  *)
(*                                                                         *)
(* A sweep claims a batch and works it off one item after the other: a     *)
(* call of a model, then one transaction.  Between the claim and the       *)
(* transaction clients change the items, other sweeps claim the same ones, *)
(* and the worker may die.  The claims and what a transaction does to the  *)
(* work lists are the engine's, modelled as the handlers and the README    *)
(* describe them: a claim reads the list, the stalest first; applying an   *)
(* item takes it off its list; completing a card does so only if the card  *)
(* still has the generation that was claimed.                              *)
(***************************************************************************)
EXTENDS Naturals, Sequences, SequencesExt, FiniteSets

CONSTANTS
  Sources,     \* skills or documents, which are reindexed
  Cards,       \* entity cards, which are embedded
  CardOf,      \* the card of a subject or verb that a source's text names
  Hopeless,    \* sources and cards for which the model never answers
  Blank,       \* sources without any text
  SweepLimit,  \* ?limit= of a sweep
  MaxVersion,  \* bound: the times a text changes
  MaxFaults,   \* bound: the calls and transactions that fail of other items,
               \* and the times a worker dies in a sweep
  Setups       \* the configurations to check, a subset of SetupType

\* What the sources are, whether the user has a model for their task, where
\* an embedding model is configured: the user's choice with its key or
\* without one, all or some of the variables MALUDB_EMBED_*, or nowhere.
SetupType == [kind: {"skill", "document"}, extract: {"none", "keyless", "ready"},
              embed: {"choice", "keyless", "env", "some_env", "none"}]

\* The timers, one for each list, and a client that calls either sweep.
Sweeps == {"reindex_timer", "embed_timer", "client"}

ASSUME UpkeepAssumption ==
  /\ CardOf \in [Sources -> Cards] /\ Sources \cap Cards = {}
  /\ IsFiniteSet(Sources) /\ IsFiniteSet(Cards)
  /\ Hopeless \subseteq Sources \cup Cards /\ Blank \subseteq Sources
  /\ Setups \subseteq SetupType
  /\ SweepLimit \in Nat \ {0} /\ MaxVersion \in Nat /\ MaxFaults \in Nat

Items == Sources \cup Cards

\* tags: the text an index was made of; None: never; a card's vector may also
\* come of the deterministic fallback.
None == MaxVersion + 1
Fallback == MaxVersion + 2

VARIABLES
  setup,    \* the configuration of this behaviour
  version,  \* version[i]: the text of a source or of a card
  index,    \* index[i]: the version its tags or its vector were made of
  due,      \* the sources to reindex, the stalest first
  dirty,    \* the cards to embed, the oldest first
  gen,      \* gen[c]: the generation of a card on the list
  batch,    \* batch[s]: the items the sweep s still has to work off
  made,     \* made[s]: what the model has made of its item, to be stored
  faults    \* the failures and crashes so far

upkeepVars == <<setup, version, index, due, dirty, gen, batch, made, faults>>

\* A claim is [item, text, gen]: a row, its text and its generation when it was
\* claimed.
NoClaim == [item |-> "none"]

UpkeepInit ==
  /\ setup \in Setups
  /\ version = [i \in Items |-> 0]
  /\ index = [i \in Items |-> None]
  /\ due \in SetToSeqs(Sources)
  /\ dirty \in SetToSeqs(Cards)
  /\ gen = [c \in Cards |-> 0]
  /\ batch = [s \in Sweeps |-> <<>>]
  /\ made = [s \in Sweeps |-> NoClaim]
  /\ faults = 0

----------------------------------------------------------------------------
(***************************************************************************)
(* Which model is there.                                                   *)
(***************************************************************************)

\* resolve_embed_config: a choice without its key is none.
HasEmbedConfig == setup.embed = "choice"

\* _has_real_embedder: a choice, or all three variables.
HasRealEmbedder == HasEmbedConfig \/ setup.embed = "env"

\* mem_embed calls the endpoint only with a URL, a token and a model.
Embeds == setup.embed \in {"choice", "env"}

HasExtractor == setup.extract = "ready"

----------------------------------------------------------------------------
(***************************************************************************)
(* The steps of a sweep.                                                   *)
(***************************************************************************)

Idle(s) == batch[s] = <<>> /\ made[s] = NoClaim

Claimed(list) ==
  LET n == IF Len(list) < SweepLimit THEN Len(list) ELSE SweepLimit
  IN  [k \in 1..n |->
         [item |-> list[k], text |-> version[list[k]],
          gen |-> IF list[k] \in Cards THEN gen[list[k]] ELSE 0]]

\* The claim of a reindex sweep, whether or not there is a model.
ClaimSources(s) ==
  /\ s \in {"reindex_timer", "client"} /\ Idle(s) /\ due # <<>>
  /\ batch' = [batch EXCEPT ![s] = Claimed(due)]
  /\ UNCHANGED <<setup, version, index, due, dirty, gen, made, faults>>

\* The embedding sweep claims nothing without a real embedding model.
ClaimCards(s) ==
  /\ s \in {"embed_timer", "client"} /\ Idle(s) /\ dirty # <<>>
  /\ HasRealEmbedder
  /\ batch' = [batch EXCEPT ![s] = Claimed(dirty)]
  /\ UNCHANGED <<setup, version, index, due, dirty, gen, made, faults>>

Working(s) == made[s] = NoClaim /\ batch[s] # <<>>
Item(s) == Head(batch[s]).item

\* A document without text or without a model is passed over, a skill never.
Skips(i) == i \in Sources /\ setup.kind = "document" /\ (i \in Blank \/ ~HasExtractor)

\* Only an item that needs a model can fail of it: a skill has a fallback.
NeedsModel(i) == i \in Cards \/ HasExtractor

\* A deterministic vector is made where the endpoint is not configured.
Made(claim) == IF claim.item \in Cards /\ ~Embeds
               THEN [claim EXCEPT !.text = Fallback] ELSE claim

Skip(s) ==
  /\ Working(s) /\ Skips(Item(s))
  /\ batch' = [batch EXCEPT ![s] = Tail(@)]
  /\ UNCHANGED <<setup, version, index, due, dirty, gen, made, faults>>

\* The model answers: the result is at hand.
Make(s) ==
  /\ Working(s) /\ ~Skips(Item(s))
  /\ NeedsModel(Item(s)) => Item(s) \notin Hopeless
  /\ made' = [made EXCEPT ![s] = Made(Head(batch[s]))]
  /\ batch' = [batch EXCEPT ![s] = Tail(@)]
  /\ UNCHANGED <<setup, version, index, due, dirty, gen, faults>>

MayFail(i) == (NeedsModel(i) /\ i \in Hopeless) \/ faults < MaxFaults
Count(i) == faults' = IF i \in Hopeless THEN faults ELSE faults + 1

\* Fault: the exception leaves the loop.
FailAbortsBatch(s) ==
  /\ Working(s) /\ ~Skips(Item(s)) /\ MayFail(Item(s)) /\ Count(Item(s))
  /\ batch' = [batch EXCEPT ![s] = <<>>]
  /\ UNCHANGED <<setup, version, index, due, dirty, gen, made>>

\* The call of the model or the lookups after it raise: the error is recorded
\* and the sweep goes on.
Fail(s) ==
  /\ Working(s) /\ ~Skips(Item(s)) /\ MayFail(Item(s)) /\ Count(Item(s))
  /\ batch' = [batch EXCEPT ![s] = Tail(@)]
  /\ UNCHANGED <<setup, version, index, due, dirty, gen, made>>

\* An item is on a list once.
Listed(list, i) == \E k \in DOMAIN list : list[k] = i

Without(list, i) ==
  IF Listed(list, i)
  THEN LET k == CHOOSE k \in DOMAIN list : list[k] = i
       IN  SubSeq(list, 1, k - 1) \o SubSeq(list, k + 1, Len(list))
  ELSE list

With(list, i) == IF Listed(list, i) THEN list ELSE Append(list, i)

\* maludb_skill_reindex_apply, maludb_memory_reindex_apply: the tags replaced
\* in one transaction; triggers put the card on the list when its text changes.
ApplySource(s) ==
  LET i == made[s].item
      c == CardOf[i]
  IN
  /\ made[s] # NoClaim /\ i \in Sources
  /\ index' = [index EXCEPT ![i] = made[s].text]
  /\ due' = Without(due, i)
  /\ IF index[i] # made[s].text /\ version[c] < MaxVersion
     THEN /\ version' = [version EXCEPT ![c] = @ + 1]
          /\ gen' = [gen EXCEPT ![c] = @ + 1]
          /\ dirty' = With(dirty, c)
     ELSE UNCHANGED <<version, gen, dirty>>
  /\ made' = [made EXCEPT ![s] = NoClaim]
  /\ UNCHANGED <<setup, batch, faults>>

\* Fault: the generation is read again when the vector is at hand.
LatestGeneration(claim) == gen[claim.item]

\* The generation the sweep hands to maludb_embedding_complete.
Generation(claim) == claim.gen

\* maludb_embedding_complete
CompleteCard(s) ==
  LET c == made[s].item IN
  /\ made[s] # NoClaim /\ c \in Cards
  /\ IF Listed(dirty, c) /\ Generation(made[s]) = gen[c]
     THEN /\ index' = [index EXCEPT ![c] = made[s].text]
          /\ dirty' = Without(dirty, c)
     ELSE UNCHANGED <<index, dirty>>
  /\ made' = [made EXCEPT ![s] = NoClaim]
  /\ UNCHANGED <<setup, version, due, gen, batch, faults>>

\* The database refuses: rolled back, recorded, and the sweep goes on.
StoreFails(s) ==
  /\ made[s] # NoClaim /\ faults < MaxFaults /\ faults' = faults + 1
  /\ made' = [made EXCEPT ![s] = NoClaim]
  /\ UNCHANGED <<setup, version, index, due, dirty, gen, batch>>

\* The worker dies, and its claims with it.
Crash(s) ==
  /\ ~Idle(s) /\ faults < MaxFaults /\ faults' = faults + 1
  /\ batch' = [batch EXCEPT ![s] = <<>>] /\ made' = [made EXCEPT ![s] = NoClaim]
  /\ UNCHANGED <<setup, version, index, due, dirty, gen>>

----------------------------------------------------------------------------
(***************************************************************************)
(* The environment.                                                        *)
(***************************************************************************)

\* A client changes the text of a source: no list hears of it.
Edit(i) ==
  /\ i \in Sources /\ version[i] < MaxVersion
  /\ version' = [version EXCEPT ![i] = @ + 1]
  /\ UNCHANGED <<setup, index, due, dirty, gen, batch, made, faults>>

\* A source is older than max_age, or than the registry's watermark.
Age(i) ==
  /\ i \in Sources /\ ~Listed(due, i)
  /\ due' = Append(due, i)
  /\ UNCHANGED <<setup, version, index, dirty, gen, batch, made, faults>>

Step(s) == Skip(s) \/ Make(s) \/ Fail(s) \/ ApplySource(s) \/ CompleteCard(s)
             \/ StoreFails(s)

UpkeepNext ==
  \/ \E s \in Sweeps :
       \/ ClaimSources(s) \/ ClaimCards(s) \/ Crash(s)
       \/ Skip(s) \/ Make(s) \/ Fail(s) \/ ApplySource(s) \/ CompleteCard(s)
       \/ StoreFails(s)
  \/ \E i \in Sources : Edit(i) \/ Age(i)

\* The timers fire for ever, a sweep that runs goes on, and every source ages.
\* No client need ever call.
UpkeepFairness ==
  /\ WF_upkeepVars(ClaimSources("reindex_timer"))
  /\ WF_upkeepVars(ClaimCards("embed_timer"))
  /\ \A s \in Sweeps : WF_upkeepVars(Step(s))
  /\ \A i \in Sources : WF_upkeepVars(Age(i))

UpkeepSpec == UpkeepInit /\ [][UpkeepNext]_upkeepVars /\ UpkeepFairness

----------------------------------------------------------------------------
(***************************************************************************)
(* Properties.                                                             *)
(***************************************************************************)

\* A card that is not on the list has the vector of the text it has now,
\* however late a sweep comes with the vector of an older text; and no card
\* ever has a vector of the deterministic fallback (memory.py:1052).
CleanCardIsCurrent ==
  \A c \in Cards : /\ ~Listed(dirty, c) => index[c] = version[c]
                   /\ index[c] # Fallback

\* One item's failure stops no other (memory.py:1033, memory.py:1131): from some
\* moment on the tags of every source that has text and whose model answers come
\* of its present text, and every card whose model answers has its vector.
EverythingCatchesUp ==
  /\ \A i \in Sources \ (Hopeless \cup Blank) :
       setup.kind = "skill" \/ HasExtractor ~> [](index[i] = version[i])
  /\ \A c \in Cards \ Hopeless : HasRealEmbedder ~> [](index[c] = version[c])
=============================================================================
