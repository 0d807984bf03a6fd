SPECIFICATION Spec
CONSTANTS
  Root = Root
  Disabled = Disabled
  Spaces = {Root, Disabled}
  RootSpace = Root
  DisabledSpace = Disabled
  Callbacks = FALSE
  Reporting = {}
  MaxDepth = 4
  MaxCounter = 2
  MaxOrdinal = 2
  MaxRoot = 3
  MaxSuspended = 0
CHECK_DEADLOCK FALSE
PROPERTY RootOrdinalsAreKept
