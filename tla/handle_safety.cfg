SPECIFICATION Spec
CONSTANTS
  Thread = {t1, t2, t3}
  Handle = {h1, h2, h3}
  Ref = {r1, r2, r3, r4}
  Null = Null
  CountMax = 7
  YieldLabels <- OneStream
SYMMETRY Symmetry
INVARIANTS
  NoUseAfterFree
  CountsReferences
  CountsHandles
  HInv
