SPECIFICATION Spec
CONSTANTS
  None = None
  u1 = u1
  u2 = u2
  w1 = w1
  p1 = p1
  s1 = s1
  r1 = r1
  r2 = r2
  Users <- MCUsers
  Workspaces <- MCWorkspaces
  Projects <- MCProjects
  Sessions <- MCSessions
  Slots <- MCSlots
  GivenRoles <- MCRoles
  Answers <- MCAnswers
SYMMETRY Interchangeable
INVARIANTS
  OwnerRemainsInSequence
  NothingOutlivesItsWorkspace
  ListsMatchReads
  StrangersSeeNothing
PROPERTIES
  RolesComeFromAbove
CHECK_DEADLOCK FALSE
