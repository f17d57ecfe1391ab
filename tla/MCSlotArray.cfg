CONSTANTS
  v1 = v1
  v2 = v2
  v3 = v3
  Values = {v1, v2, v3}
  NoValue = NoValue
  Mask = 3
  MinCapacity = 2
  Careless = FALSE
  MaxSlots = 4
  MaxDepth = 2
SPECIFICATION Spec
INVARIANTS
  SlotArrayTypeOK
  ListsConsistent
  HandlesFindTheirs
PROPERTY
  ImplementsOrderedMap
