SPECIFICATION Spec
CONSTANTS
  Id = {i1, i2, i3}
  ULT = {u1, u2}
  Token = {right, wrong}
  NoToken = NoToken
  ProviderToken = right
  BackendType = {dummy, other}
  Dummy = dummy
  MaxIds = 1
  Null = Null
  SizeMax = 4
  MaxConfigured = 1
  YieldLabels <- BlockingYields
  DrainFirst = TRUE
SYMMETRY Symmetry
INVARIANTS
  CountExact
  ContextsOwned
  LossesExplained
  DInv
PROPERTIES
  ImplementsRegistry
