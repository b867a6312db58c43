\* The resource is created, deleted and created again, every failure of SM.
SPECIFICATION Spec
CONSTANTS
  n1 = n1
  i1 = i1
  i2 = i2
  Names = {n1}
  IDs = {i1, i2}
  NoName = NoName
  K8sName = n1
  SecretNames = {}
  NoId = NoId
  MaxGen = 1
  MaxLives = 2
  MaxLag = 2
  MaxOps = 2
  ApiFaults = FALSE
  SMFaults = {"list", "poll", "transient", "refused", "lost", "operation"}
  DropsFailed = FALSE
  ClientFaults = FALSE
SYMMETRY Symmetry
INVARIANTS
  TInv
  AtMostOneInstance
PROPERTIES
  DeleteOnlyWhenAsked
  ImplementsInstanceLife
