SPECIFICATION Spec
CONSTANTS
  Root = Root
  Disabled = Disabled
  Spaces = {Root, Disabled}
  RootSpace = Root
  DisabledSpace = Disabled
  Callbacks = TRUE
  Reporting = {Root}
  MaxDepth = 4
  MaxCounter = 2
  MaxOrdinal = 1
  MaxRoot = 1
  MaxSuspended = 1
CHECK_DEADLOCK FALSE
INVARIANTS
  TypeOK
  SlotsAreLive
  DepthCountsFrames
  AttachesBelowNearestOutsideCallbacks
  DeltasReconstruct
PROPERTIES
  SpacesAreIsolated
  StreamsAdvance
