\* Two equal POSTs of a related subject on two workers.
SPECIFICATION Spec
CONSTANTS
  r1 = r1
  r2 = r2
  r3 = r3
  w1 = w1
  w2 = w2
  Requests = {r1, r2}
  Workers = {w1, w2}
  NoRequest = NoRequest
  Calls <- PostCalls
  Known = {1, 2, 3}
  InitRows <- FewRows
INVARIANTS
  NoDuplicateLinks
