SPECIFICATION FairSpec
CONSTANTS
  None = None
  Seed = p1
  Reports = {p1}
  Calls = {c1, c2, c3}
  Kinds = {"submit", "review"}
  MaxRounds = 2
  MaxTries = 2
PROPERTIES ReviewEnds
CHECK_DEADLOCK FALSE
