\* SM fails temporarily only.
SPECIFICATION PromptSpec
CONSTANTS
  n1 = n1
  i1 = i1
  i2 = i2
  Names = {n1}
  IDs = {i1, i2}
  NoName = NoName
  K8sName = n1
  SecretNames = {}
  NoId = NoId
  MaxGen = 1
  MaxLives = 1
  MaxLag = 3
  MaxOps = 2
  ApiFaults = FALSE
  SMFaults = {"poll", "transient"}
  DropsFailed = FALSE
  ClientFaults = FALSE
SYMMETRY Symmetry
INVARIANTS
  FailedIsFinal
  InstanceIDFilled
