SPECIFICATION Spec
CONSTANTS
  t1 = t1
  t2 = t2
  i1 = i1
  i2 = i2
  o1 = o1
  o2 = o2
  p1 = p1
  p2 = p2
  NoTenant = NoTenant
  NoPlan = NoPlan
  Incomplete = Incomplete
  NoId = NoId
  NoName = NoName
  Tenants = {t1, t2}
  IDs = {i1, i2}
  Names = {}
  Offerings = {o1, o2}
  Plans = {p1, p2}
  TenantOf <- MCTenantOf
  OfferingOf <- MCOfferingOf
  CredentialSets <- MCCredentialSets
  EnableNamespaceSecrets = TRUE
  ReadFaults = TRUE
  SMFaults = {"list", "transient", "lost"}
  DropsFailed = FALSE
  MaxOps = 2
  MaxChanges = 1
  MaxPlanned = 0
INVARIANTS
  TypeOK
  MostSpecificWins
  PlanIsDetermined
  DeletedIsGone
  KnownIsReachable
  CredentialsArrive
PROPERTIES
  ImplementsSMRequest
