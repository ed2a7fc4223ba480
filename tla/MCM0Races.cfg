CONSTANTS
  c1 = c1  c2 = c2
  p = p  q = q  w = w
  Caller <- MCCaller
  Pair <- ThreePairs
  Refutable <- TwoPairs
  Warehouse <- CertifiedPairs
  Batches <- KnownAndRepeats
  Nothing = Nothing
  MaxEpisodes = 2
  MaxBusy = 2
SPECIFICATION Spec
INVARIANTS
  TypeOK
  AnswersStand
  ResultsStand
  RememberedIsNotRetried
  ImportedIsCommitted
PROPERTIES
  RemembersOnce
CHECK_DEADLOCK FALSE
