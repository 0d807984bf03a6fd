SPECIFICATION Spec
CONSTANTS
  o1 = o1
  o2 = o2
  o3 = o3
  o4 = o4
  o5 = o5
  o6 = o6
  h1 = h1
  h2 = h2
  Objects = {o1, o2, o3, o4, o5, o6}
  Hashes = {h1, h2}
  NoHash = NoHash
  Mixed <- MixedOf
  MinCapacity = 8
  Saturated = 2
SYMMETRY Symmetric
INVARIANTS
  TypeOK
  WellPlaced
  RoomIsLeft
PROPERTIES
  ImplementsIdentityHashes
