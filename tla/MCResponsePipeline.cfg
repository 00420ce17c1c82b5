SPECIFICATION FairSpec
CONSTANTS
  CustomTools <- MCCustomTools
  NamespaceTools <- MCNamespaceTools
  ToolTargets <- MCToolTargets
  Routes <- MCRoutes
  Answers <- MCAnswers
  Faults <- MCFaults
  LiveRoutes <- MCIdleRoutes
  LiveAnswers <- MCIdleAnswers
CHECK_DEADLOCK FALSE
INVARIANTS WellFormed VerdictAgrees CleanEndIsTold
PROPERTIES RelaysAnswer IdleStreamEnds
