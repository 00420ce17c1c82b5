SPECIFICATION Spec
CONSTANTS
  NameLimit = 3
  LongIds = {"c2"}
  ToolLists <- MCToolLists
  MaxParts <- MCMaxParts
  MaxAsides = 1
CHECK_DEADLOCK FALSE
INVARIANTS TranscriptKept OutputsPaired ReasoningKept ToolsRoundTrip
