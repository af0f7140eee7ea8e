SPECIFICATION FairSpec
CONSTANTS
  Branches = {"main"}
  Codes = {"r1", "r2"}
  Names = {"build", "test"}
  Coordinators = {"k1"}
  Users = {"u1"}
  File <- MCFileOfAll
  Content <- MCContentOfAll
  MaxMoves = 3
  MaxVersions = 1
  MaxLock = 1
PROPERTY
  RepeatedPushesAreHandled
