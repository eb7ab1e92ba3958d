SPECIFICATION MCSpec
CONSTANTS
  root = root
  child = child
  Thread = {t1, t2}
  Category = {root, child}
  Root = root
  Parent <- ParentOf
  Appender = {a1}
  Level = {"DEBUG"}
  Piece = 2
  None = None
  MaxStatements = 2
  MaxChanges = 4
  Names = {n1, n2}
  Numeric = {n1}
  ZeroOnError = TRUE
  MaxChain = 3
  Threads = {t1, t2}
  Main = t1
  Object = {o1, o2}
  Foreign = Foreign
  Null = Null
  Platform = {"msvc", "msvc_stlport_boost", "openvms", "config_pthreads", "config_omni"}
  KeysRunOut = TRUE
  MaxNesting = 2
INVARIANTS
  AllOrNothing
  WrittenAsAllowed
  AppendersSound
  ConfiguredAsGiven
  ThreadingTypeOK
  HolderSound
  MutexSound
PROPERTY StatementEnds
CHECK_DEADLOCK FALSE
