SPECIFICATION Spec
CONSTANTS
  a = a
  b = b
  NoThread = NoThread
  Root = Root
  Other = Other
  Threads = {a, b}
  Spaces = {Root, Other}
  RootSpace = Root
  Watched = {Other}
  Targets <- OneOfEach
  MaxDepth = 2
  MaxPosition = 2
SYMMETRY Symmetric
CHECK_DEADLOCK FALSE
INVARIANTS
  TypeOK
  FlagsAgree
  NoDanglingThread
  RunnersAreToldWhenStraight
PROPERTIES
  TargetsAreKept
  NoneDueIsPassedOver
