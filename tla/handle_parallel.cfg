SPECIFICATION Spec
CONSTANTS
  Thread = {t1, t2}
  Handle = {h1, h2}
  Ref = {r1, r2, r3}
  Null = Null
  CountMax = 7
  YieldLabels <- Labels
SYMMETRY Symmetry
INVARIANTS
  CountsReferences
