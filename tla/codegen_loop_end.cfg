SPECIFICATION Spec
CONSTANTS
  Kinds = {"loop", "try", "break"}
  AnyDepth = TRUE
  Budget = 4
  MaxDefers = 4
  MaxScopes = 12
  MaxLoops = 4
INVARIANT LoopLeftByBreakOnly
CHECK_DEADLOCK FALSE
