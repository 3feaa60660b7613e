\* A first request of every kind, a second one that writes meanwhile, and a third
\* that moves a session back.
SPECIFICATION Spec
CONSTANTS
  r1 = r1
  r2 = r2
  r3 = r3
  c1 = c1
  c2 = c2
  c3 = c3
  c4 = c4
  Requests = {r1, r2, r3}
  Grants = {"default", "dept"}
  Keys = {1, 2, 3}
  Default <- Zero
  Unrenderable <- SomeNaN
  MaxRows = 2
  Memory <- SomeMemory
  Phrases = {"p", "q", "ok", "said"}
  Short = {"ok"}
  Brief = {"ok", "said"}
  Outputs <- SomeOutputs
  Overfetch = 3
  EvidenceSize = 2
  MaxSubjects = 2
  MaxTried = 2
  Slugs <- SomeSlugs
  Chunk = 1
  Facts <- SomeFacts
  Home = "dept"
  Starts <- SomeStarts
INVARIANTS
  AsAsked
  RefusedNeverPersists
  UpsertKeepsTheRest
  AnsweredIsCited
  BestOfAll
  NeverServedUnrestricted
  NamespaceIsTruthful
  ImportIsWhole
  QueryShowsTheGraph
  RecordsAreTheirHistory
  AnswersAreTrueOfAMoment
