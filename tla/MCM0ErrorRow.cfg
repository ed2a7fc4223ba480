CONSTANTS
  c1 = c1  c2 = c2
  p = p  q = q  w = w
  Caller <- MCCaller
  Pair <- TwoPairs
  Refutable <- TwoPairs
  Warehouse = {}
  Batches <- OneEach
  Nothing = Nothing
  MaxEpisodes = 1
  MaxBusy = 1
SPECIFICATION Spec
INVARIANT ErrorMeansAbsent
CHECK_DEADLOCK FALSE
