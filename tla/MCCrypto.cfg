SPECIFICATION MCSpec
CONSTANTS
  Programs <- MCPrograms
  Names <- MCNames
  k1 = k1
  k2 = k2
  k3 = k3
  Key = {k1, k2, k3}
  AsnOf <- MCAsnOf
  SkiOf <- MCSkiOf
  hashv <- MChashv
  ID_NUM_MAX = 4
  num_buckets = 2
  IdModulus = 4
  MaxObj = 4
  AS = {1, 2}
  local_as = 1
  MaxPath = 3
  MaxVaried = 2
  SigLists <- MCSigLists
  SigningKey = {1, 2}
  Inputs <- MCInputs
  Configs <- MCConfigs
INVARIANTS
  OwnershipKept
  StoreSound
  
  BindingSound
CHECK_DEADLOCK FALSE
