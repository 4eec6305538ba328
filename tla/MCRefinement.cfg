CONSTANTS
  Fanout = 2
  Depth = 3
  Ids <- MCIds
  Roles <- MCRoles
SPECIFICATION Spec
INVARIANTS
  NoProtocolError
  DoneMeansComplete
  PostState
  NothingCutOff
PROPERTY
  Ends
