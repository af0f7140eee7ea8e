SPECIFICATION Spec
CONSTANTS
  Repos = {"a", "b"}
  Paths = {"p", "q"}
  Below <- MCBelow
  Ops = {"o1", "o2", "o3"}
  Attempts <- MCAttempts
  Plans <- MCPlans
  Coordinators = {k}
  MaxMoves = 3
  None = None
INVARIANTS
  LinkTypeOK
  
  
PROPERTIES
  PinnedLinksStay
  SuccessStands
