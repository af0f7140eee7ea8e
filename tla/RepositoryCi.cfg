SPECIFICATION FairSpec
CONSTANTS
  Branches = {"main"}
  Codes = {"r1", "r2"}
  Names = {"build", "test"}
  Coordinators = {"k1"}
  Users = {"u1"}
  File <- MCFileOfAll
  Content <- MCContentOfAll
  MaxMoves = 3
  MaxVersions = 2
  MaxLock = 2
INVARIANTS
  CiTypeOK
  RoutesFollowConfiguration
  DatabasePushKeepsVersion
PROPERTIES
  CursorNeverStale
  PassedHeadsAreQueued
  HeadsAreHandled
