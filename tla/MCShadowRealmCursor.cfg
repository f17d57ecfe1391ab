CONSTANTS
  Realms = {r1, r2}
  NoRealm = NoRealm
  MaxDepth = 4
SPECIFICATION Spec
INVARIANT CursorIsValid
CHECK_DEADLOCK FALSE
