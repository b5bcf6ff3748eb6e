SPECIFICATION Spec
CONSTANTS
  Artifacts <- StringLinks
  Big = TRUE
INVARIANT
  LinksFound
