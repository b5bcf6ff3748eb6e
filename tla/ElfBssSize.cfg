SPECIFICATION Spec
CONSTANTS
  Artifacts <- ZeroArtifacts
  Big = TRUE
  SHN_LORESERVE = 65280
INVARIANT
  ZeroInitSized
