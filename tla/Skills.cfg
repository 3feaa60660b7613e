\* Three calls on a registered and a plain skill, on two workers.
SPECIFICATION Spec
CONSTANTS
  r1 = r1
  r2 = r2
  r3 = r3
  Requests = {r1, r2, r3}
  NoRequest = NoRequest
  NoRow = NoRow
  Workers = 2
  Calls <- SkillCalls
  Engines = {96, 97, 106}
  InitRows <- TwoSkills
  MaxId = 5
SYMMETRY SkillSymmetry
INVARIANTS
  ProposedNeverLive
PROPERTIES
  WithdrawnByReview
  PinsNeverChange
  HiddenOnlyIfSame
