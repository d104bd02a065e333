SPECIFICATION Spec
CONSTANTS
  None = None
  alice = alice  bob = bob  mia = mia  jordan = jordan
  tabA = tabA  tabB = tabB  tabM = tabM  tabJ = tabJ
  t0 = t0  b0 = b0  b1 = b1
  Users = {alice, bob, mia}
  Socks = {tabA, tabB, tabM}
  RoleOf <- MCRoleOf
  SockUser <- MCSockUser
  Reqs = {r1, r2}
  Messages <- TaskMessages
  SeedTasks = {t0}
  ResolvedTail = 1
  SeedRows <- MCSeedRows
  SeedBlockers = {}
SYMMETRY Symmetry
INVARIANTS TypeOK AppliedOnce AckedIsApplied TasksInSync ReferencesIntact AttentionFresh
PROPERTIES OwnersMoveTasks
CHECK_DEADLOCK FALSE
