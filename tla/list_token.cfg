SPECIFICATION SysSpec
CONSTANTS
  Caller = {c1}
  Id = {i1}
  Token = {right, wrong}
  NoToken = NoToken
  ProviderToken = right
  BackendType = {dummy}
  MaxIds = 1
  Null = Null
INVARIANTS
  TokenReported
