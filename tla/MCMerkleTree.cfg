CONSTANTS
  Fanout = 2
  Depth = 4
  Leaves <- MCLeaves
SPECIFICATION Spec
INVARIANTS
  Canonical
  NoStaleHash
