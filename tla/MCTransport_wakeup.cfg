SPECIFICATION Spec
CONSTANTS
  Streams <- PoliteStreams
  Notices = 0
PROPERTY ReceiveReturnsIfStopped
CHECK_DEADLOCK FALSE
