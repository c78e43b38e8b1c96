SPECIFICATION Spec
CONSTANTS
  Uris = {1, 2}
  Texts = {"e", "a", "i"}
  Empty = "e"
  None = None
  Fingerprint <- FingerprintOf
  Calls <- CallsOf
  Discovered = {2}
  MaxEdits = 3
INVARIANTS LastWordIndexed DiagnosticsCurrent
PROPERTIES ComesToRest
CHECK_DEADLOCK FALSE
