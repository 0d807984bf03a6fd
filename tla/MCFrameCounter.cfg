SPECIFICATION Spec
CONSTANTS
  Hosts = {"3.11", "3.12", "3.13"}
  Monitored = TRUE
  Size = 5
  Handlers <- HandlersOnBothSides
  MaxKept = 2
  MaxCounter = 9
CHECK_DEADLOCK FALSE
INVARIANT TypeOK

  
  
