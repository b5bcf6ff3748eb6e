SPECIFICATION Spec
CONSTANTS
  Artifacts <- ClashingSections
  Big = TRUE
  SHN_LORESERVE = 65280
INVARIANT
  PanicsOnlyOnUnsupported
