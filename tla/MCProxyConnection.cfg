\* The process ends when the connection does: no deadlock check.
SPECIFICATION Spec
CONSTANTS
  hub = hub
  alice = alice
  ALICE = ALICE
  bob = bob
  Root = hub
  Name <- MCName
  Fold <- MCFold
  Target = {t1, t2}
  None = None
  HostUrl = t1
  MaxMessages = 2
  MaxRoutes = 2
CHECK_DEADLOCK FALSE
INVARIANTS
  TypeOK
  WebsocketIsUnique
PROPERTIES
  RequestReachesItsUser
  RequestIsResolved
