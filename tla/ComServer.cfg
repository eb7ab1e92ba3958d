SPECIFICATION FairSpec
CONSTANTS
  Threads = {t1, t2, t3}
  Factories = {f1}
  Profilers = {p1}
  None = None
  MaxRefs = 2
  MaxLocks = 1
INVARIANTS
  TypeOK
  CountsExact
  OneDestroyer
  UnloadSafe
  NoOrphans
  CallbackSafe
PROPERTIES
  KeepsLifetime
  UnownedGoes
