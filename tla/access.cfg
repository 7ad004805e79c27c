SPECIFICATION AdminSpec
CONSTANTS
  Subjects = {"admin", "operator"}
  Tokens = {"k1", "k2"}
  Handlers = {h1, h2}
  Roles <- TwoRoles
  SystemRoles <- OnlyAdmin
  PlatformAdmin = "platform_admin"
  Seeded <- AdminIsAdmin
  Lives = 2
  ProfileIds = {"p0", "p1", "p2"}
  Shipped = {"p0"}
  Baseline = "p0"
  Assets = {"a1", "a2"}
  Tags = {"t1", "t2"}
  Plant <- OneTag
  Desks <- ThreeDesks
SYMMETRY Interchangeable
INVARIANTS
  NoInheritedGrants OrphansNeedARace
PROPERTIES
  ChangeControl
