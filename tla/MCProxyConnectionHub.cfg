\* A request for "/" when the API server knows no route for "/".
SPECIFICATION Spec
CONSTANTS
  hub = hub
  alice = alice
  ALICE = ALICE
  bob = bob
  Root = hub
  Name <- MCName
  Fold <- MCFold
  Target = {t1, t2}
  None = None
  HostUrl = None
  MaxMessages = 1
  MaxRoutes = 2
CHECK_DEADLOCK FALSE
INVARIANT HubRouteIsTheHubs
