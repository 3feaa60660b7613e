\* Every call of subjects, projects and verbs, by three requests on two workers.
SPECIFICATION Spec
CONSTANTS
  r1 = r1
  r2 = r2
  r3 = r3
  w1 = w1
  w2 = w2
  Requests = {r1, r2, r3}
  Workers = {w1, w2}
  NoRequest = NoRequest
  Calls <- AllCalls
  InitRows <- FewRows
SYMMETRY SomeSymmetry
INVARIANTS
  TypeOK
  UniqueIds
  BatchHolds
PROPERTIES
  OnlyProjectsThroughProjects
  KeepsPromise
