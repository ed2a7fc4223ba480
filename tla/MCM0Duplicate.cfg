CONSTANTS
  c1 = c1  c2 = c2
  p = p  q = q  w = w
  Caller <- MCCaller
  Pair <- TwoPairs
  Refutable <- TwoPairs
  Warehouse = {}
  Batches <- OneEach
  Nothing = Nothing
  MaxEpisodes = 2
  MaxBusy = 0
SPECIFICATION Spec
INVARIANT NoDuplicateRow
CHECK_DEADLOCK FALSE
