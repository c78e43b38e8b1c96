SPECIFICATION Spec
CONSTANTS
  NoPath = NoPath
  Found <- MCFound
  Stacks <- MCStacks
  Members <- MCMembers
  Groups = {"group"}
  MaxStops = 2
  MaxRequests = 4
  MaxDepth = 2
INVARIANTS FramesOfStop VariablesOfFrame
PROPERTIES AnswersArrive
CHECK_DEADLOCK FALSE
