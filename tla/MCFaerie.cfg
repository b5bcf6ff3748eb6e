SPECIFICATION FaerieSpec
CONSTANTS
  Names = {"f", "g"}
  Decls <- MCDecls
  Datas <- MCDatas
  SymbolMaps <- MCSymbolMaps
  Ats = {0}
  Relocs <- MCRelocs
  Formats = {"Coff"}
  MaxLinks = 2
  MaxBatch = 0
  ArtifactName = "f"
  Big = TRUE
  SHN_LORESERVE = 65280
INVARIANTS
  SnapshotEmittable
  SymtabShowsDeclarations
  NlistShowsDeclarations
  LinksFollowUpgrades
