SPECIFICATION ProgramSpec
CONSTANTS
  MaxRest <- MCMaxRest
  MaxSlips = 1
  Typed = {"end", "do", "="}
  Forms = {}
INVARIANTS
  NoSpuriousError
  BlocksInStep
  AllRead
  AcceptedIsBalanced
PROPERTY KeepsReading
