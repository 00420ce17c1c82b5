SPECIFICATION Spec
CONSTANTS
  h1 = h1
  h2 = h2
  m1 = m1
  c1 = c1
  c2 = c2
  Handlers <- MCHandlers
  Models <- MCModels
  Configs <- MCConfigs
  Menus <- MCMenus
  Kinds <- FlowKinds
  OnboardAttempts = 2
  StaleTime = 1
CHECK_DEADLOCK FALSE
INVARIANTS RuntimeFollowsRow QuotaIsCurrent LoginLeavesOneEffect
PROPERTY LoginEnds
