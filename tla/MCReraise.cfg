SPECIFICATION Spec
CONSTANTS
  Hosts = {"3.12", "3.13"}
  Monitored = FALSE
  Size = 5
  Handlers <- NestedHandlers
  MaxKept = 1
  MaxCounter = 9
CHECK_DEADLOCK FALSE
PROPERTIES
  BoundariesAdvance
