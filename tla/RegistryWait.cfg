\* Creates that contend for the lock of maludb_subject, under fair scheduling.
SPECIFICATION FairSpec
CONSTANTS
  r1 = r1
  r2 = r2
  r3 = r3
  w1 = w1
  w2 = w2
  Requests = {r1, r2, r3}
  Workers = {w1, w2}
  NoRequest = NoRequest
  Calls <- WaitingCalls
  InitRows <- FewRows
PROPERTIES
  WaitersServed
