SPECIFICATION ExecSpec
CONSTANTS
  Kinds = {"try", "return", "defer", "if", "while", "loop", "for", "break", "continue"}
  AnyDepth = FALSE
  Budget = 4
  MaxDefers = 4
  MaxScopes = 10
  MaxLoops = 4
PROPERTY ImplementsScopes
