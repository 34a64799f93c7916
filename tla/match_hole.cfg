SPECIFICATION Spec
CONSTANTS
  Inputs <- MCInputs
  Program <- MCProgram
  Coercion <- MCCoercion
  Symbol <- MCSymbol
  MaxDecls = 1
INVARIANT EnumMatchesExhaustive
CHECK_DEADLOCK FALSE
