SPECIFICATION GSpec
SYMMETRY Symmetry
CONSTANTS
  Requester = {r1, r2}
  Caller = {c1, c2}
  MaxGeneration = 2
INVARIANTS
  GrantsAreDurable
PROPERTIES
  GrantsAreNew
