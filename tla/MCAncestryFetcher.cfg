CONSTANTS
  Revs = {1, 2, 3, 4}
  Versions = {1, 2, 3}
  NullRev = NullRev
  NullVer = NullVer
  Configs <- AllConfigs
SPECIFICATION Spec
INVARIANTS
  HeadsRight
  EveryVersionAsked
  Constructible
PROPERTY
  Ends
