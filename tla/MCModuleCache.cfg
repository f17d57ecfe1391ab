CONSTANTS
  f1 = f1
  f2 = f2
  id = id
  lib = lib
  t1 = t1
  t2 = t2
  Blank = Blank
  None = None
  Files = {f1, f2}
  Libs = {lib}
  Names = {id}
  PathOf <- MCPathOf
  Scripts = {f2}
  Texts = {t1, t2}
  EmptiesMarked = FALSE
  MaxEdits = 2
  MaxImports = 1
SPECIFICATION Spec
INVARIANTS
  ModuleTypeOK
  CurrentUnlessMarked
  ExportsAreComplete
  EvaluatedOnce
PROPERTY
  EditsArrive
CHECK_DEADLOCK FALSE
