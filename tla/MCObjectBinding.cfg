CONSTANTS
  e1 = e1
  e2 = e2
  r1 = r1
  p1 = p1
  Envs = {e1, e2}
  Threads = {}
  RefCounted = {r1}
  Plain = {p1}
  NoObject = NoObject
  MaxRefs = 3
  MaxCalls = 1
  MaxMail = 1
  MaxEnds = 1
SPECIFICATION Spec
SYMMETRY Symmetry
INVARIANTS
  ObjectTypeOK
  CountsAgree
  EntriesAlive
  DeletedOnce
  HandleFollowsCount
  TokensEnd
CHECK_DEADLOCK FALSE
