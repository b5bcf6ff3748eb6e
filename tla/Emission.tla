------------------------------ MODULE Emission ------------------------------
(***************************************************************************)
(* What an artifact hands to a backend (definitions(), imports() and       *)
(* links() of src/src/artifact.rs) and what both backends read of it.      *)
(*                                                                         *)
(* Names are real strings, because the backends derive names from them and *)
(* two derived names may be equal.  The bytes of a definition are their    *)
(* number and the name they were defined under.                            *)
(***************************************************************************)
EXTENDS Decl, Integers

CONSTANTS
  Artifacts,   \* the artifacts that may be emitted
  Big          \* a 64-bit container (make_ctx), otherwise 32-bit

Name == STRING
CustomSymbol == [symbol : Name, offset : Nat]
Definition ==
  [name : Name, decl : DefinedDecls, symbols : Seq(CustomSymbol),
   data : [zero_init : BOOLEAN, size : Nat]]

Import == [name : Name, kind : ImportKinds]
Binding == [name : Name, decl : AllDecls]
Reloc ==
  [kind : {"Auto"}] \cup [kind : {"Raw"}, reloc : STRING, addend : Int]
    \cup [kind : {"Debug"}, size : Nat, addend : Int]
Link == [from : Binding, to : Binding, at : Nat, reloc : Reloc]

\* What an artifact without undefined symbols guarantees (module Faerie checks
\* that it does): definitions() has each name once, locals before globals and
\* each group in order; imports and both ends of links() are as declared.
Emittable(a) ==
  LET defs == a.definitions
      bindings == {[name |-> defs[i].name, decl |-> defs[i].decl] : i \in DOMAIN defs}
      imported == {[name |-> a.imports[i].name, decl |-> ImportDecl(a.imports[i].kind)] :
                     i \in DOMAIN a.imports}
  IN /\ defs \in Seq(Definition)
     /\ a.imports \in Seq(Import)
     /\ \A j \in DOMAIN defs : \A i \in 1 .. j - 1 :
          /\ defs[i].name # defs[j].name
          /\ IsGlobal(defs[i].decl) => IsGlobal(defs[j].decl)
          /\ (IsGlobal(defs[i].decl) <=> IsGlobal(defs[j].decl)) =>
               ~LexLess(DeclKey(defs[j].decl), DeclKey(defs[i].decl))
     /\ \A i \in DOMAIN defs :
          /\ IsSection(defs[i].decl) \/ defs[i].symbols = <<>>
          /\ defs[i].data.zero_init => defs[i].decl.tag = "Data"
     /\ \A x, y \in bindings \cup imported : x.name = y.name => x = y
     /\ \A i, j \in DOMAIN a.imports : a.imports[i].name = a.imports[j].name => i = j
     /\ a.links \in Seq(Link)
     /\ \A i \in DOMAIN a.links :
          a.links[i].from \in bindings /\ a.links[i].to \in bindings \cup imported

ASSUME BigAssumption == Big \in BOOLEAN
ASSUME ArtifactsAssumption == \A a \in Artifacts : Emittable(a)

NoArtifact == [name |-> "", definitions |-> <<>>, imports |-> <<>>, links |-> <<>>]

\* Mutant: the size in memory.
MemorySize(data) == data.size

FileSize(data) == IF data.zero_init THEN 0 ELSE data.size

=============================================================================
