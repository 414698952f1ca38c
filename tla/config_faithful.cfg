SPECIFICATION ConfigSpec
CONSTANTS
  Id = {i1, i2, i3}
  ULT = {u1}
  Token = {right}
  NoToken = NoToken
  ProviderToken = right
  BackendType = {dummy}
  Dummy = dummy
  MaxIds = 1
  Null = Null
  Garbage = Garbage
  SizeMax = 4
  MaxConfigured = 2
  YieldLabels <- BaseYields
  DrainFirst = TRUE
PROPERTIES
  ConfigFaithful
