\* The external name is edited; violated.
SPECIFICATION Spec
CONSTANTS
  n1 = n1
  n2 = n2
  i1 = i1
  i2 = i2
  Names = {n1, n2}
  IDs = {i1, i2}
  NoName = NoName
  K8sName = n1
  SecretNames = {}
  NoId = NoId
  MaxGen = 2
  MaxLives = 1
  MaxLag = 1
  MaxOps = 2
  ApiFaults = FALSE
  SMFaults = {"list", "poll", "transient", "refused", "lost", "operation"}
  DropsFailed = FALSE
  ClientFaults = FALSE
SYMMETRY Symmetry
INVARIANTS
  FinalizerGuardsInstance
