SPECIFICATION FairSpec
CONSTANTS
  None = None
  f1 = f1  b1 = b1  a1 = a1  a2 = a2  a3 = a3
  Files = {f1}
  Blockers = {b1}
  Asks = {a1, a2, a3}
  Workloads <- AllWorkloads
  MaxTries = 3
  ChunkChars = 6
  ChunkOverlap = 2
  MaxChunks = 4
  Limits <- MCLimits
INVARIANTS RowHasBytes IndexedMeansSearchable ResolvedIsFound TurnsCounted
PROPERTIES UploadSettles
CHECK_DEADLOCK FALSE
