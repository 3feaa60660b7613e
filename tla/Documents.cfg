\* Three calls on two documents, on two workers.
SPECIFICATION SomeSpec
CONSTANTS
  r1 = r1
  r2 = r2
  r3 = r3
  w1 = w1
  w2 = w2
  d0 = d0
  d1 = d1
  d2 = d2
  Requests = {r1, r2, r3}
  Workers = {w1, w2}
  NoRequest = NoRequest
  NoDoc = NoDoc
  InitDocs = {d1, d2}
  Names = {"p", "q", "n"}
  Calls <- DocumentCalls
  InitTags <- TwoProjects
  InitChunks <- FewChunks
  InitPrimary <- OnePrimary
  Limit = 1
  Overfetch = 2
SYMMETRY DocumentsSymmetry
INVARIANTS
  DeletedNeverRecalled
  SearchFillsItsLimit
  DeletedLeavesNothing
  TagsAreMirrored
PROPERTIES
  TypeIsKept
