SPECIFICATION ThreadingSpec
CONSTANTS
  Threads = {t1, t2}
  Main = t1
  Object = {o1}
  Foreign = Foreign
  Null = Null
  Platform = {"msvc"}
  KeysRunOut = FALSE
  MaxNesting = 1
INVARIANT DeletedWithThread
CHECK_DEADLOCK FALSE
