SPECIFICATION Spec
CONSTANTS
  Users = {u1, u2}
  Groups = {"g"}
  Resources = {"r"}
  States = {s1, s2}
  Callbacks = {"c1", "c2"}
  Clients = {"k"}
  Polls = {"p1", "p2"}
  Requests = {h1, h2}
  MaxMoves = 4
  None = None
INVARIANTS
  IdentityTypeOK
  AdministratorRemains
  GroupsHaveAdminOwner
  SignInsAreSingleUse

  
SYMMETRY Symmetry
CHECK_DEADLOCK FALSE
