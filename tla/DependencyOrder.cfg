SPECIFICATION OrderSpec
CONSTANTS
  Nodes = {1, 2, 3, 4}
  Unknown = Unknown
  Inputs <- MCInputs
INVARIANTS
  AcceptedOrderIsSound
  ReportedIsOnCycle
CHECK_DEADLOCK FALSE
