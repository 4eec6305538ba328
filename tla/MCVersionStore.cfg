CONSTANTS
  Versions = {1, 2, 3, 4}
  Revisions <- MCRevisions
  MaxLevel = 2
  MaxWrites = 1
SPECIFICATION Spec
INVARIANTS
  Readable
PROPERTIES
  NothingForgotten
