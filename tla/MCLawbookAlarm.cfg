CONSTANTS
  r1 = r1
  r2 = r2
  t1 = t1
  t2 = t2
  m = m
  Runners = {r1}
  Tasks = {t1}
  Modes = {m}
  Slices <- OneTask
  NumEpisodes <- OneEpisode
  Strict = {r1}
  MaxArtifacts = 1
  Absent = Absent
SPECIFICATION Spec
INVARIANT BoundaryReportIsTrue
CHECK_DEADLOCK FALSE
