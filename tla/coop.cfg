SPECIFICATION FairSpec
CONSTANTS
  Id = {i1, i2, i3}
  ULT = {u1, u2}
  Token = {right, wrong}
  NoToken = NoToken
  ProviderToken = right
  BackendType = {dummy}
  Dummy = dummy
  MaxIds = 2
  Null = Null
  SizeMax = 4
  MaxConfigured = 1
  YieldLabels <- BaseYields
  DrainFirst = TRUE
INVARIANTS
  TypeOK
  OnlyNullStrings
  CountExact
  IInv
PROPERTIES
  ImplementsRegistry
  EveryRequestEnds
  ThreadsComplete
