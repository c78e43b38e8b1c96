SPECIFICATION Spec
CONSTANTS
  Conns = {c1, c2}
  Paths = {p1}
  Spots = {s1}
  NoConn = NoConn
  MaxRequests = 2
  MaxSaid = 2
INVARIANTS BreakpointsInForce GreetingFirst LinesInPhase EveryoneHeard
PROPERTIES AnswersOwn LossNoticed
CHECK_DEADLOCK FALSE
