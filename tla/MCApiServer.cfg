SPECIFICATION Spec
CONSTANTS
  hub = hub
  alice = alice
  ALICE = ALICE
  bob = bob
  Root = hub
  Name <- MCName
  Fold <- MCFold
  Target = {t1, t2}
  Client = {c1, c2}
  None = None
  Https = TRUE
  MaxBacklog = 2
INVARIANTS
  TypeOK
  OneRoutePerUser
PROPERTIES
  ImplementsRouteTable
