SPECIFICATION ExecSpec
CONSTANTS
  Kinds = {"return", "defer", "if", "while", "break", "continue"}
  AnyDepth = TRUE
  Budget = 4
  MaxDefers = 4
  MaxScopes = 8
  MaxLoops = 4
INVARIANT RunsAreDue
PROPERTIES JumpsRunOwnBlock ReturnsRunAll
