SPECIFICATION MCSpec
CONSTANTS
  Threads = {t1, t2, t3}
  DebugBuild = FALSE
  MaxFailures = 1
  MaxProfilers = 2
  MAX_PATH = 4
  BufferChars = 5
  MaxPathChars = 4
  SizeBits = 3
  Replacement = "a"
SYMMETRY Symmetry
INVARIANTS
  TypeOK
  FlagMeansLogging
  OneFilePerSetUp
  WrittenAsConfigured
PROPERTIES
  LogFileSound
