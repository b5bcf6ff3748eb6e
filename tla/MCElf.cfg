SPECIFICATION Spec
CONSTANTS
  Artifacts <- MCArtifacts
  Big = TRUE
  SHN_LORESERVE = 5
INVARIANTS
  IndicesAgree
  DefinitionsFound
  LinksFound
  LocalsBelowShInfo
  PartsFit
  PanicsOnlyOnUnsupported
