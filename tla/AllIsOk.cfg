SPECIFICATION Spec
CONSTANTS
  Processes = {p1}
  PointerChars = 2
  MaxRegistrations = 1
INVARIANT AllIsOk
