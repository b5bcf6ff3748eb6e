SPECIFICATION Spec
CONSTANTS
  Artifacts <- WeakArtifacts
  Big = TRUE
  SHN_LORESERVE = 65280
INVARIANT
  LocalsBelowShInfo
