\* Everything fails: SM, writes to the API server, the credentials secret.
SPECIFICATION Spec
CONSTANTS
  n1 = n1
  i1 = i1
  i2 = i2
  Names = {n1}
  IDs = {i1, i2}
  NoName = NoName
  K8sName = n1
  SecretNames = {}
  NoId = NoId
  MaxGen = 1
  MaxLives = 1
  MaxLag = 3
  MaxOps = 2
  ApiFaults = TRUE
  SMFaults = {"list", "poll", "transient", "refused", "lost", "operation"}
  DropsFailed = FALSE
  ClientFaults = TRUE
SYMMETRY Symmetry
INVARIANTS
  GInv
  FinalizerGuardsInstance
  FinalizerBeforeProvision
PROPERTIES
  ImplementsManagedResource
