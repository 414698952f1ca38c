SPECIFICATION FairSpec
CONSTANTS
  Caller = {c1, c2}
  Id = {i1, i2}
  Token = {}
  NoToken = NoToken
  ProviderToken = NoToken
  BackendType = {dummy}
  MaxIds = 2
  Null = Null
INVARIANTS
  SysTypeOK
  IdsUnique
  OrphansExplained
  RemovedOnce
  GoneStaysGone
  MadeIsThere
  SInv
PROPERTIES
  AllReturn
