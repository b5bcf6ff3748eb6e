------------------------- MODULE ArtifactRefinement -------------------------
(***************************************************************************)
(* Artifact implements SymbolLife.  The phase of a name is read from the   *)
(* structure that is specific to it (a definition, an entry of `imports',  *)
(* an entry of `declarations'), so the mapping is a behaviour of           *)
(* SymbolLife only as long as the three agree after every call.            *)
(***************************************************************************)
EXTENDS Artifact

Definition(n) == CHOOSE def \in AllDefinitions : def.name = n

LifeOf(n) ==
  IF \E def \in AllDefinitions : def.name = n
  THEN [phase |-> "Defined", decl |-> Definition(n).decl]
  ELSE IF ImportIndices(n) # {}
  THEN [phase |-> "Imported",
        decl |-> ImportDecl(imports[CHOOSE i \in ImportIndices(n) : TRUE].kind)]
  ELSE [phase |-> IF Declared(n) THEN "Declared" ELSE "Unknown",
        decl |-> declarations[n].decl]

Life == INSTANCE SymbolLife
          WITH life <- [n \in Names |-> LifeOf(n)],
               uses <- {<<links[i].from, links[i].to>> : i \in DOMAIN links}

\* Every call of the artifact's API moves names forward through the phases of
\* SymbolLife, or leaves them alone.
ImplementsLife == Life!LifeSpec

=============================================================================
