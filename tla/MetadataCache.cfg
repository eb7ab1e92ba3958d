SPECIFICATION Spec
CONSTANTS
  Threads = {t1, t2}
  Modules = {m1, m2}
  None = None
  MaxGenerations = 2
SYMMETRY Symmetry
INVARIANTS
  TypeOK
  SafeWhenSerial
  ImportsBalanced
  TokensResolvable
PROPERTIES
  CacheOnlyGrows
