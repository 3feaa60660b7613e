\* The seal tool beside a PUT.
SPECIFICATION Spec
CONSTANTS
  r1 = r1
  w1 = w1
  w2 = w2
  u1 = u1
  m1 = m1
  c1 = c1
  c2 = c2
  s1 = s1
  s2 = s2
  t1 = t1
  Requests = {r1}
  Workers = {w1, w2}
  Tool = Tool
  Nobody = Nobody
  Users = {u1}
  Models = {m1}
  Conns = {c1, c2}
  MaxTokens = 2
  Secrets = {s1, s2, t1}
  Tricky = {t1}
  Null = Null
  NoRow = NoRow
  Starts <- SealStarts
PROPERTIES
  SealKeepsSecrets
