SPECIFICATION SpecWithFailures
CONSTANTS
  Root = Root
  Disabled = Disabled
  Spaces = {Root, Disabled}
  RootSpace = Root
  DisabledSpace = Disabled
  Callbacks = FALSE
  Reporting = {Root}
  MaxDepth = 4
  MaxCounter = 2
  MaxOrdinal = 1
  MaxRoot = 1
  MaxSuspended = 0
CHECK_DEADLOCK FALSE
INVARIANT DeltasReconstruct
