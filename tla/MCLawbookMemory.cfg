CONSTANTS
  r1 = r1
  r2 = r2
  t1 = t1
  t2 = t2
  m = m
  Runners = {r1, r2}
  Tasks = {t1, t2}
  Modes = {m}
  Slices <- OneTaskAndBoth
  NumEpisodes <- TwoThenOne
  Strict = {r1}
  MaxArtifacts = 1
  Absent = Absent
SPECIFICATION Spec
INVARIANTS
  TypeOK
  DurableIsEarned
  RecordsAreBacked
  GrowthNeverShrinks
CHECK_DEADLOCK FALSE
