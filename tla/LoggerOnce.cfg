SPECIFICATION Spec
CONSTANTS
  Threads = {t1, t2}
  DebugBuild = FALSE
  MaxFailures = 0
  MaxProfilers = 1
INVARIANT RunsOnlyOnce
