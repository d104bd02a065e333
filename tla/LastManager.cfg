SPECIFICATION Spec
CONSTANTS
  None = None  Earlier = Earlier
  ann = ann  bob = bob  cat = cat
  sAnn = sAnn  sBob = sBob  sBob2 = sBob2  sCat = sCat
  work = work  demo = demo  fresh = fresh
  Emails = {ann, bob, cat}
  Subjects = {sAnn, sBob, sBob2, sCat}
  AdminEmails = {ann}
  Workspaces = {work, demo, fresh}
  Slots = {c1, c2, c3}
  Seeds <- RemovalSeeds
SYMMETRY Symmetry
PROPERTIES LastManagerStays
CHECK_DEADLOCK FALSE
