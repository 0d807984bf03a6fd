SPECIFICATION Spec
CONSTANTS
  a = a
  b = b
  NoThread = NoThread
  Root = Root
  Other = Other
  Threads = {a, b}
  Spaces = {Root, Other}
  RootSpace = Root
  Watched = {Other}
  Targets = {}
  MaxDepth = 2
  MaxPosition = 2
SYMMETRY Symmetric
CHECK_DEADLOCK FALSE
INVARIANTS
  RunnersAreTold
