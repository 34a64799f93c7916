SPECIFICATION Spec
CONSTANTS
  Texts <- MCTexts
  Letters <- MCLetters
  HexLetters = {"a", "b", "f", "e"}
  Digits = {"0", "1"}
  MaxString = 2
  Intruders = {"{", ";"}
  MaxComment = 7
  MaxNumber = 4
  MaxOther = 4
INVARIANTS
  TypeOK
  ReadsInside
  TokensInOrder
  MaximalMunch
  CursorInside
  
  
PROPERTY Terminates
CHECK_DEADLOCK FALSE
