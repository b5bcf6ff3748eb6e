\* Every operation on two names, with all kinds of declarations.
SPECIFICATION Spec
CONSTANTS
  a = a
  b = b
  Names = {a, b}
  Decls <- MCDecls
  Datas <- MCDatas
  SymbolMaps <- MCSymbolMaps
  Ats = {0}
  Relocs = {"Auto"}
  Formats = {"Elf", "Coff"}
  MaxLinks = 2
  MaxBatch = 1
INVARIANTS
  TypeOK
  DefinitionsCurrent
  LinksResolve
  EmitFindsLinkEnds
PROPERTIES
  DeclarationsOnlyUpgrade
  ImplementsLife
