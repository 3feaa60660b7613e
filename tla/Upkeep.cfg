\* Two sources and two cards; one source and one card never succeed.
SPECIFICATION UpkeepSpec
CONSTANTS
  s1 = s1
  s2 = s2
  c1 = c1
  c2 = c2
  Sources = {s1, s2}
  Cards = {c1, c2}
  CardOf <- SharedCard
  Hopeless = {s2, c2}
  Blank = {s2}
  SweepLimit = 2
  MaxVersion = 1
  MaxFaults = 1
  Setups <- SomeSetups
INVARIANTS
  CleanCardIsCurrent
PROPERTIES
  EverythingCatchesUp
