SPECIFICATION Spec
CONSTANTS
  Kinds = {"try", "return", "returnTry", "defer", "if", "while", "loop", "unsafe", "for", "break", "continue"}
  AnyDepth = TRUE
  Budget = 4
  MaxDefers = 1
  MaxScopes = 3
  MaxLoops = 3
INVARIANTS TypeOK FunctionTerminated CleanAtEnd
PROPERTIES TerminatorsFinal 
CHECK_DEADLOCK FALSE
