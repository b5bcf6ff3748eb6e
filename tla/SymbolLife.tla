----------------------------- MODULE SymbolLife -----------------------------
(***************************************************************************)
(* What an artifact promises about names: each moves forward only, from    *)
(* unknown to imported, to declared, to defined, skipping phases but never *)
(* returning, and a reference is recorded only between names it can be     *)
(* resolved for.  Artifact implements it (module ArtifactRefinement).      *)
(***************************************************************************)
EXTENDS Decl

CONSTANTS Names, Decls

VARIABLES
  life,   \* the phase of each name, and the declaration it is held to
  uses    \* the <<from, to>> pairs a relocation was recorded for

Unknown == [phase |-> "Unknown", decl |-> NoDecl]
Phase(phase, decl) == [phase |-> phase, decl |-> decl]

LifeInit == life = [n \in Names |-> Unknown] /\ uses = {}

Introduce(n, d) ==
  /\ life[n] = Unknown
  /\ IsImport(d)
  /\ life' = [life EXCEPT ![n] = Phase("Imported", d)]
  /\ UNCHANGED uses

\* A name is held to one definition for good; an import only to its kind.
Promise(n, d) ==
  /\ ~IsImport(d)
  /\ life[n] = Unknown \/ life[n] = Phase("Imported", ImportDecl(d.tag))
  /\ \E phase \in {"Declared", "Defined"} : life' = [life EXCEPT ![n] = Phase(phase, d)]
  /\ UNCHANGED uses

Fulfil(n) ==
  /\ life[n].phase = "Declared"
  /\ life' = [life EXCEPT ![n].phase = "Defined"]
  /\ UNCHANGED uses

Use(from, to) ==
  /\ life[from].phase \in {"Declared", "Defined"}
  /\ life[to] # Unknown
  /\ uses' = uses \cup {<<from, to>>}
  /\ UNCHANGED life

LifeNext ==
  \/ \E n \in Names, d \in Decls : Introduce(n, d) \/ Promise(n, d)
  \/ \E n \in Names : Fulfil(n)
  \/ \E from, to \in Names : Use(from, to)

LifeSpec == LifeInit /\ [][LifeNext]_<<life, uses>>

=============================================================================
