SPECIFICATION FairSpec
CONSTANTS
  None = None
  Blockers = {b1}
  MaxDeliveries = 4
  MaxTries = 3
INVARIANTS TypeOK EndedMeansSettled
PROPERTIES RunsOnce ResolvedIsLeftAlone StartsAreHandled
CHECK_DEADLOCK FALSE
