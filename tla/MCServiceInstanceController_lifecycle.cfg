\* Two generations of one resource, every failure of SM.
SPECIFICATION PromptSpec
CONSTANTS
  n1 = n1
  i1 = i1
  i2 = i2
  Names = {n1}
  IDs = {i1, i2}
  NoName = NoName
  K8sName = n1
  SecretNames = {}
  NoId = NoId
  MaxGen = 2
  MaxLives = 1
  MaxLag = 3
  MaxOps = 3
  ApiFaults = FALSE
  SMFaults = {"list", "poll", "transient", "refused", "lost", "operation"}
  DropsFailed = FALSE
  ClientFaults = FALSE
SYMMETRY Symmetry
INVARIANTS
  TypeOK
  ReadyMeansSynced
  NoLostWakeup
