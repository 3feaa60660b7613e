\* Three writes of a profile that holds one key, on two workers.
SPECIFICATION Spec
CONSTANTS
  r1 = r1
  r2 = r2
  r3 = r3
  w1 = w1
  w2 = w2
  Requests = {r1, r2, r3}
  Workers = {w1, w2}
  NoRequest = NoRequest
  Keys = {"a", "b", "c"}
  MaxKeys = 1
  Calls <- CallType
  InitRows <- FullProfile
SYMMETRY ProfileSymmetry
INVARIANTS
  HistoryIsAChain
  WrittenIsRead
  LimitNearlyKept
