SPECIFICATION ExecSpec
CONSTANTS
  Kinds = {"defer", "if", "returnTry"}
  AnyDepth = FALSE
  Budget = 3
  MaxDefers = 4
  MaxScopes = 12
  MaxLoops = 4
INVARIANT RunsAreDue
