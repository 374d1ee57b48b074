SPECIFICATION Spec
SYMMETRY Symmetry
CONSTANTS
  Requester = {r1, r2}
  Caller = {c1, c2}
  MaxGeneration = 1
PROPERTIES
  KeepsPromise
