SPECIFICATION Spec
CONSTANTS
  None = None
  alice = alice  bob = bob  mia = mia  jordan = jordan
  tabA = tabA  tabB = tabB  tabM = tabM  tabJ = tabJ
  t0 = t0  b0 = b0  b1 = b1
  Users = {alice, mia}
  Socks = {tabA, tabM}
  RoleOf <- MCRoleOf
  SockUser <- MCSockUser
  Reqs = {r1, r2}
  Messages <- DiscussionMessages
  SeedTasks = {}
  ResolvedTail = 1
  SeedRows <- MCSeedRows
  SeedBlockers = {b0}
SYMMETRY Symmetry
INVARIANTS BlockerStatusConverges
CHECK_DEADLOCK FALSE
