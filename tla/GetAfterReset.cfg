SPECIFICATION ThreadingSpec
CONSTANTS
  Threads = {t1, t2}
  Main = t1
  Object = {o1}
  Foreign = Foreign
  Null = Null
  Platform = {"msvc"}
  KeysRunOut = TRUE
  MaxNesting = 1
PROPERTY GetAfterReset
CHECK_DEADLOCK FALSE
