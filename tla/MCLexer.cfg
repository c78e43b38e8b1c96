SPECIFICATION LexerSpec
CONSTANTS
  Texts <- MCTexts
  NonASCII = "byte"
  MaxPieces = 4
INVARIANTS LongBracketsMatch StringsClose
PROPERTIES ReadsToEnd
CHECK_DEADLOCK FALSE
