SPECIFICATION Spec
CONSTANTS
  Names = {"f", "F", "x", "M", "N"}
  NoName = NoName
  NoSymbol = NoSymbol
  NoDoc = NoDoc
  Uris = {"a", "b"}
  LowerCase <- MCLowerCase
  Resolve <- MCResolve
  RequireLikeFunctions = {"require"}
  Lines <- MCLines
  Openers <- MCOpeners
  Fresh = {"N"}
  Settings <- MCSettings
  Unnormalized = {"b"}
  MaxResults = 2
  MaxLines = 4
INVARIANTS NamesInPlace CursorOnWord HoverDescribesTarget DefinitionReferencesAgree SignatureAgreesWithHints RangesNest
PROPERTIES RenameKeepsBindings
