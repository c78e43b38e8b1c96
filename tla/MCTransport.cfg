SPECIFICATION Spec
CONSTANTS
  Streams <- OneStart
  Notices = 2
INVARIANTS FifoDelivery
PROPERTIES FramesWhole RefinesService RequestsAnswered ExitAndCloseEnds
CHECK_DEADLOCK FALSE
