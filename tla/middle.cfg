SPECIFICATION Spec
CONSTANTS
  Inputs <- MCInputs
  Program <- MCProgram
  Coercion <- MCCoercion
  Symbol <- MCSymbol
  MaxDecls = 3
INVARIANTS
  TypeOK
  OrderFree
  NamesDistinct
  Resolved
  MatchesCover
  UnionInUnsafe
  ConstUnassigned
  PrivateStaysPrivate
  CrashNeedsCycle
  CallsBindByName
CHECK_DEADLOCK FALSE
