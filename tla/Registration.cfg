SPECIFICATION Spec
CONSTANTS
  Processes = {p1, p2}
  PointerChars = 2
  MaxRegistrations = 2
SYMMETRY Symmetry
INVARIANTS
  TypeOK
  RegisteredIsComplete
  UnregisteredIsGone
  ResidueKnown
  HandlesAccounted
