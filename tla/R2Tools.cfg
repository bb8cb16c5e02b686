CONSTANTS
  Callers = {c1, c2}
  Seed = Seed
  MaxAttempts = 3
  Syncs = {y1, y2}
  LastKey = 3
  Uploads = {2}
  FirstFiles = {{1, 2, 3}, {1}}
  FirstSites = {{1, 2, 3}}
  MaxSlots = 1
  MaxBuilds = 1
  MaxStrays = 1
SPECIFICATION Spec
INVARIANT TypeOK
INVARIANT AckedIsKept
INVARIANT MismatchMeansChanged
INVARIANT CleanSyncMirrors
PROPERTY PagesStayUp
PROPERTY SyncsReturn
CHECK_DEADLOCK FALSE
