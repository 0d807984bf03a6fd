\* A thread, one that starts at the same place, and a child of either.
SPECIFICATION Spec
CONSTANTS
  N = 4
  NoThread = NoThread
  Root = Root
  Other = Other
  Alias = Alias
  Spaces = {Root, Other, Alias}
  RootSpace = Root
  Prefix <- PrefixOf
  Cursors <- FewCursors
CHECK_DEADLOCK FALSE
INVARIANTS
  TypeOK
  LivingIdsDiffer
  SteadyIdsAreDeterministic
