SPECIFICATION Spec
CONSTANTS
  Threads = {t1, t2}
  Factories = {f1}
  Profiler = p1
  None = None
  MaxRefs = 2
  MaxLocks = 1
  Modules = {m1}
  MaxGenerations = 2
INVARIANTS
  CacheInCallback
  UnloadReturnsImports
PROPERTIES
  ServesCache
