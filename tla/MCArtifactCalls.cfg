\* Whole calls on three names: the imports list reorders itself, and a batch
\* fails half way, on an artifact that has definitions and a link.
SPECIFICATION CallSpec
CONSTANTS
  a = a
  b = b
  c = c
  Names = {a, b, c}
  Decls <- MCDecls
  Datas <- MCDatas
  SymbolMaps <- MCSymbolMaps
  Ats = {0}
  Relocs = {"Auto"}
  Formats = {"Macho"}
  MaxLinks = 1
  MaxBatch = 2
SYMMETRY NameSymmetry
INVARIANTS
  ImportsListed
  RetryChangesNothing
PROPERTIES
  FailureLeavesOnlyDeclarations
