SPECIFICATION Spec
CONSTANTS
  None = None
  alice = alice  bob = bob  mia = mia  jordan = jordan
  tabA = tabA  tabB = tabB  tabM = tabM  tabJ = tabJ
  t0 = t0  b0 = b0  b1 = b1
  Users = {alice, mia, jordan}
  Socks = {tabA, tabM, tabJ}
  RoleOf <- MCRoleOf
  SockUser <- MCSockUser
  Reqs = {r1, r2}
  Messages <- BlockerMessages
  SeedTasks = {t0}
  ResolvedTail = 1
  SeedRows <- MCSeedRows
  SeedBlockers = {b0, b1}
SYMMETRY Symmetry
INVARIANTS BlockersKnown MentionsExact PresenceBounds
PROPERTIES BlockerLifecycle
CHECK_DEADLOCK FALSE
