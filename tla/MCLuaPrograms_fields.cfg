SPECIFICATION ProgramSpec
CONSTANTS
  MaxRest <- MCMaxRest
  MaxSlips = 0
  Typed = {}
  Forms = {"field operators"}
INVARIANT NoSpuriousError
