SPECIFICATION SpecPointers
CONSTANTS
  p = p
  q = q
  h1 = h1
  h2 = h2
  Objects = {p, q}
  Hashes = {h1, h2}
  NoHash = NoHash
  Mixed <- MixedOf
  MinCapacity = 2
  Saturated = 1
  MaxOpen = 2
SYMMETRY Symmetric
INVARIANTS
  PointersTypeOK
  HashesAreSteady
  NoEntryIsLeft
  NothingLeaks
PROPERTIES
  ImplementsPointerHashes
