SPECIFICATION Spec
CONSTANTS
  Id = {i1, i2}
  ULT = {u1, u2}
  Token = {right}
  NoToken = NoToken
  ProviderToken = right
  BackendType = {dummy}
  Dummy = dummy
  MaxIds = 1
  Null = Null
  SizeMax = 4
  MaxConfigured = 0
  YieldLabels <- AllLabels
  DrainFirst = TRUE
INVARIANTS
  CountExact
