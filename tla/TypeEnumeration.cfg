SPECIFICATION MCSpec
CONSTANTS
  BufferSize = 2
  MaxTypes = 4
  Junk = Junk
  NoEnum = NoEnum
  Threads = {t1, t2}
  MaxStranded = 2
INVARIANTS
  TypeOK
  SuccessIsComplete
  NothingInvented
  EnumeratorsClosed
  HelpersSound
