SPECIFICATION FairSpec
CONSTANTS
  Accounts = {1, 2, 3}
  Priority <- MCPriority
  Codex = {1}
  Tracked = {1, 2}
  Native = {1, 2}
  Exact = {1, 2}
  Relay = {3}
  Scopes = {s1}
  Allowed <- MCAllowed
  Sessions = {c1}
  ResponseIds = {"i1", "i2"}
  NoSession = NoSession
  NoId = NoId
  Requests = {r1, r2}
  Cooldown <- MCCooldown
  AffinityTTL = 2
  CleanupInterval = 1
  BindingTTL = 1
  MaxBindings = 1
  Menu <- MCMenu
CHECK_DEADLOCK FALSE
INVARIANTS ContinuationAtHome BindingsSound RoundRobinFair
PROPERTY PlansEnd
