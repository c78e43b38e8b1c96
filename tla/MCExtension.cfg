SPECIFICATION Spec
CONSTANTS
  ConfigFiles = {"f"}
  MaxStarts = 2
  MaxCrashes = 1
  MaxChanges = 2
  Scenes = {{"reports"}, {"changes"}}
INVARIANTS OneServer ConfigFilesKnown
PROPERTIES StartsEnd BarHides
CHECK_DEADLOCK FALSE
