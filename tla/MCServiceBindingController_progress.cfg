SPECIFICATION SteadySpec
CONSTANTS
  k1 = k1
  i1 = i1
  i2 = i2
  Names = {k1}
  SecretNames = {k1}
  IDs = {i1}
  NoName = NoName
  K8sName = k1
  NoId = NoId
  MaxGen = 2
  MaxLives = 1
  MaxLag = 2
  MaxOps = 2
  MaxInstances = 2
  ApiFaults = FALSE
  ClientFaults = FALSE
  SMFaults = {}
  DropsFailed = FALSE
  Intruders = TRUE
INVARIANTS
  TypeOK
PROPERTIES
  DeletionCompletes
  ReadyInstanceIsBound
CHECK_DEADLOCK FALSE
