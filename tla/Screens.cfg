SPECIFICATION FairSpec
CONSTANTS
  None = None
  t1 = t1
  t2 = t2
  Tasks = {t1, t2}
  Sessions <- AllSessions
  MaxReports = 3
  HistoryLimit = 2
INVARIANTS DraftsStayApart ShownIsStored
PROPERTIES PanelHolds BusyEnds
CHECK_DEADLOCK FALSE
