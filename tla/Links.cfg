\* Three calls that link, unlink, replace or change, on two workers.
SPECIFICATION GroupSpec
CONSTANTS
  r1 = r1
  r2 = r2
  r3 = r3
  w1 = w1
  w2 = w2
  Requests = {r1, r2, r3}
  Workers = {w1, w2}
  NoRequest = NoRequest
  Calls <- LinkCalls
  Known = {1, 2, 3}
  InitRows <- FewRows
INVARIANTS
  DuplicatesOnlyByOverlap
  RelationshipIdsCollideOnlyByOverlap
  RemovedStaysRemoved
  LinkedUnlessRemoved
PROPERTIES
  EveryCallEnds
