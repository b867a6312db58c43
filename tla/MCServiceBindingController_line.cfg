SPECIFICATION Spec
CONSTANTS
  k1 = k1
  i1 = i1
  i2 = i2
  Names = {k1}
  SecretNames = {k1}
  IDs = {i1, i2}
  NoName = NoName
  K8sName = k1
  NoId = NoId
  MaxGen = 1
  MaxLives = 1
  MaxLag = 4
  MaxOps = 2
  MaxInstances = 1
  ApiFaults = FALSE
  ClientFaults = FALSE
  SMFaults = {}
  DropsFailed = FALSE
  Intruders = FALSE
SYMMETRY Symmetry
INVARIANTS
  UpdateLineUnreached
