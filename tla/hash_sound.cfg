SPECIFICATION Spec
CONSTANTS
  Elem = {e1, e2, e3, e4, e5}
  Null = Null
  HashValue = {0, 1, 4}
  HASH_INITIAL_NUM_BUCKETS = 1
  HASH_BKT_CAPACITY_THRESH = 1
  MaxBuckets = 32
SYMMETRY Symmetry
INVARIANTS
  TypeOK
  ChainsSound
  ListSound
  FindExact
  HashInv
PROPERTIES
  ImplementsTable
