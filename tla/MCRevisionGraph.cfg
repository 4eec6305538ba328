CONSTANTS
  Size = 5
  Revisions <- MCRevisions
  NullRev = 0
  Ancestries <- MCAncestries
  Walks <- MCWalks
SPECIFICATION Spec
INVARIANTS
  AnswerSound
  AnswerComplete
  PathsWhole
  TargetsRight
  DifferenceRight
  SortedRight
PROPERTY
  Ends
CHECK_DEADLOCK FALSE
