SPECIFICATION Spec
CONSTANTS
  Artifacts <- AlignedAlone
  Big = TRUE
INVARIANT
  AlignmentKept
