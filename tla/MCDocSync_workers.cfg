SPECIFICATION Spec
CONSTANTS
  Uris = {1}
  Texts = {"e", "a", "b"}
  Empty = "e"
  None = None
  Fingerprint <- FingerprintOf
  Calls <- CallsOf
  Discovered = {1}
  MaxEdits = 1
INVARIANTS OpenBuffersWin
CHECK_DEADLOCK FALSE
