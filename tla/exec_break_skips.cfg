SPECIFICATION ExecSpec
CONSTANTS
  Kinds = {"defer", "if", "while", "break"}
  AnyDepth = TRUE
  Budget = 4
  MaxDefers = 4
  MaxScopes = 12
  MaxLoops = 4
PROPERTY LeftScopesAreDone
