SPECIFICATION Spec
CONSTANTS
  Artifacts <- MCArtifacts2
  Big = FALSE
  SHN_LORESERVE = 6
INVARIANTS
  DefinitionsFound
  LinksFound
  PartsFit
  PanicsOnlyOnUnsupported
