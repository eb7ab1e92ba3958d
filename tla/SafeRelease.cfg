SPECIFICATION Spec
CONSTANTS
  Threads = {t1, t2}
  Factories = {f1}
  Profilers = {p1}
  None = None
  MaxRefs = 2
  MaxLocks = 1
INVARIANT SafeRelease
