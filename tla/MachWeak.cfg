SPECIFICATION Spec
CONSTANTS
  Artifacts <- WeakAlone
  Big = TRUE
INVARIANT
  WeakIsExternal
