SPECIFICATION SupervisorSpec
CONSTANTS
  database = database
  worker = worker
  caddy = caddy
  Instances = {1, 2}
  Services = {database, worker, caddy}
  Dependencies <- MCDependencies
  NameRank <- MCNameRank
  Listening = {database, caddy}
  Caddy = caddy
  MaximumRestarts = 1
  WindowSeconds = 3
  BackoffSeconds <- MCBackoff
  MaxPid = 6
  MaxFaults = 3
  None = None
INVARIANTS
  DependencyOrder
  ListenerIsOwned
  ChildrenWithinReign
PROPERTY UpOrOut
CHECK_DEADLOCK FALSE
