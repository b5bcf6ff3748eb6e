SPECIFICATION Spec
CONSTANTS
  Artifacts <- MCArtifacts
  Big = TRUE
INVARIANTS
  TablesAgree
  SymbolsPlaced
  DefinitionsAligned
  PartsFit
  DefinitionsFound
  LinksFound
  PanicsOnlyOnUnsupported
