\* Fair scheduling; operations of SM succeed.
SPECIFICATION FairSpec
CONSTANTS
  n1 = n1
  i1 = i1
  i2 = i2
  Names = {n1}
  IDs = {i1, i2}
  NoName = NoName
  K8sName = n1
  SecretNames = {}
  NoId = NoId
  MaxGen = 2
  MaxLives = 1
  MaxLag = 3
  MaxOps = 3
  ApiFaults = FALSE
  SMFaults = {}
  DropsFailed = FALSE
  ClientFaults = FALSE
PROPERTIES
  DeletionCompletes
  EventuallySettled
