SPECIFICATION Spec
CONSTANTS
  None = None
  Seed = p1
  Reports = {p1, p2}
  Calls = {c1, c2, c3, c4}
  Kinds = {"start", "edit", "submit", "review", "override"}
  MaxRounds = 2
  MaxTries = 2
SYMMETRY Symmetry
INVARIANTS TypeOK RowFollowsFlow ApprovalWasDecided OverrideAudited
PROPERTIES Implements
CHECK_DEADLOCK FALSE
