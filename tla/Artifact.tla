------------------------------ MODULE Artifact ------------------------------
(***************************************************************************)
(* The artifact a client builds (src/src/artifact.rs): declarations,       *)
(* definitions, imports and links, grown by calls that take &mut self and  *)
(* so run one at a time, each to its end.  One action per public method;   *)
(* `result' is what the last call returned.                                *)
(*                                                                         *)
(* Names are compared, never inspected.  The bytes of a definition are     *)
(* abstracted to their number, and `declarations' (an IndexMap) to a       *)
(* function: its order only orders the names in an UndefinedSymbols error. *)
(***************************************************************************)
EXTENDS Decl

CONSTANTS
  Names,        \* the names a client uses
  Decls,        \* the declarations it passes
  Datas,        \* the data it defines names with
  SymbolMaps,   \* the custom symbols it gives a section, each in key order
  Ats, Relocs,  \* offsets and kinds of the links it makes
  Formats,      \* the formats it asks emit_as for
  MaxLinks,     \* bound on the number of links
  MaxBatch      \* bound on the length of a declarations() batch

ASSUME DeclsAssumption == Decls \subseteq AllDecls
ASSUME NoSymbolsAssumption == <<>> \in SymbolMaps
ASSUME BoundsAssumption == MaxLinks \in Nat /\ MaxBatch \in Nat

Imports == [name : Names, kind : ImportKinds]
Links == [from : Names, to : Names, at : Ats, reloc : Relocs]
Definitions ==
  [name : Names, decl : Decls \cap DefinedDecls, symbols : SymbolMaps, data : Datas]
InternalDecls == [decl : Decls \cup {NoDecl}, defined : BOOLEAN]
Batch == [name : Names, decl : Decls]
Errors ==
  {"IncompatibleDeclaration", "Undeclared", "DuplicateDefinition",
   "ImportDefined", "NonSectionCustomSymbols", "InvalidZeroInit",
   "RelocateImport", "UndefinedSymbols", "UnsupportedBinaryFormat"}

VARIABLES
  strings,               \* the interner: names in the order of their ids
  declarations, imports, links,
  local_definitions, nonlocal_definitions,
  todo,                  \* what a declarations() call in progress has left
  result                 \* what the last call returned

vars == <<strings, declarations, imports, links, local_definitions,
          nonlocal_definitions, todo, result>>

Init ==
  /\ strings = <<>>
  /\ declarations = [n \in Names |-> [decl |-> NoDecl, defined |-> FALSE]]
  /\ imports = <<>>
  /\ links = <<>>
  /\ local_definitions = {}
  /\ nonlocal_definitions = {}
  /\ todo = <<>>
  /\ result = "Ok"

-----------------------------------------------------------------------------
(* Interning: a name keeps the id of its first use, failed calls included. *)

\* Mutant: every use takes a new id.
InternAgain(strs, n) == Append(strs, n)

Intern(strs, n) ==
  IF \E i \in DOMAIN strs : strs[i] = n THEN strs ELSE Append(strs, n)

Declared(n) == declarations[n].decl # NoDecl

-----------------------------------------------------------------------------
(* declare *)

Accepts(n, d) == Declared(n) => Absorbs(declarations[n].decl, d)

Declaration(n, d) ==
  IF Declared(n) THEN Absorb(declarations[n].decl, d) ELSE d

DeclarationsWith(n, d) == [declarations EXCEPT ![n].decl = Declaration(n, d)]

ImportIndices(n) == {i \in DOMAIN imports : imports[i].name = n}

SwapRemove(s, i) ==
  [j \in 1..(Len(s) - 1) |-> IF j = i THEN s[Len(s)] ELSE s[j]]

\* Mutant: an upgraded import stays listed.
ImportsWithKept(n, d) ==
  IF IsImport(Declaration(n, d)) /\ ImportIndices(n) = {}
  THEN Append(imports, [name |-> n, kind |-> Declaration(n, d).kind]) ELSE imports

\* The imports once n, declared as d, has been absorbed.  swap_remove panics
\* when an upgraded import is not in the list: ImportsListed excludes it.
ImportsWith(n, d) ==
  LET new == Declaration(n, d)
  IN IF IsImport(new)
     THEN IF ImportIndices(n) = {}
          THEN Append(imports, [name |-> n, kind |-> new.kind])
          ELSE imports
     ELSE IF IsImport(declarations[n].decl)
          THEN SwapRemove(imports, CHOOSE i \in ImportIndices(n) :
                                     \A j \in ImportIndices(n) : j <= i)
          ELSE imports

DeclareOk(n, d) ==
  /\ Accepts(n, d)
  /\ declarations' = DeclarationsWith(n, d)
  /\ imports' = ImportsWith(n, d)
  /\ result' = "Ok"

\* Mutant: a refused declaration makes the entry anew, as not yet defined.
DeclareErrForgets(n, d) ==
  /\ ~Accepts(n, d)
  /\ result' = "IncompatibleDeclaration"
  /\ declarations' = [declarations EXCEPT ![n].defined = FALSE]
  /\ UNCHANGED imports

DeclareErr(n, d) ==
  /\ ~Accepts(n, d)
  /\ result' = "IncompatibleDeclaration"
  /\ UNCHANGED <<declarations, imports>>

Declare(n, d) ==
  /\ todo = <<>>
  /\ strings' = Intern(strings, n)
  /\ DeclareOk(n, d) \/ DeclareErr(n, d)
  /\ UNCHANGED <<links, local_definitions, nonlocal_definitions, todo>>

(* import is declare with an import declaration. *)
Import(n, kind) == Declare(n, ImportDecl(kind))

(* declarations(iter): declare each pair in turn, return the first error. *)
StartDeclarations(batch) ==
  /\ todo = <<>>
  /\ batch # <<>>
  /\ todo' = batch
  /\ UNCHANGED <<strings, declarations, imports, links, local_definitions,
                 nonlocal_definitions, result>>

DeclareNext ==
  /\ todo # <<>>
  /\ LET n == Head(todo).name
         d == Head(todo).decl
     IN /\ strings' = Intern(strings, n)
        /\ \/ DeclareOk(n, d) /\ todo' = Tail(todo)
           \/ DeclareErr(n, d) /\ todo' = <<>>
  /\ UNCHANGED <<links, local_definitions, nonlocal_definitions>>

-----------------------------------------------------------------------------
(* define, define_zero_init, define_with_symbols *)

\* Mutant: a second definition is not refused.
DefineResultTwice(idecl, data, symbols) ==
  IF idecl.decl = NoDecl THEN "Undeclared"
  ELSE IF IsImport(idecl.decl) THEN "ImportDefined"
  ELSE IF ~IsSection(idecl.decl) /\ symbols # <<>> THEN "NonSectionCustomSymbols"
  ELSE IF idecl.decl.tag # "Data" /\ data.zero_init THEN "InvalidZeroInit"
  ELSE "Ok"

\* What defining the entry idecl returns; the tests are made in this order.
DefineResult(idecl, data, symbols) ==
  IF idecl.decl = NoDecl THEN "Undeclared"
  ELSE IF idecl.defined THEN "DuplicateDefinition"
  ELSE IF IsImport(idecl.decl) THEN "ImportDefined"
  ELSE IF ~IsSection(idecl.decl) /\ symbols # <<>> THEN "NonSectionCustomSymbols"
  ELSE IF idecl.decl.tag # "Data" /\ data.zero_init THEN "InvalidZeroInit"
  ELSE "Ok"

\* Define n, whose entry is looked up in decls.
DefineIn(decls, n, data, symbols) ==
  LET decl == decls[n].decl
      def == [name |-> n, decl |-> decl, symbols |-> symbols, data |-> data]
  IN /\ result' = DefineResult(decls[n], data, symbols)
     /\ \/ /\ result' = "Ok"
           /\ declarations' = [decls EXCEPT ![n].defined = TRUE]
           /\ nonlocal_definitions' =
                nonlocal_definitions \cup (IF IsGlobal(decl) THEN {def} ELSE {})
           /\ local_definitions' =
                local_definitions \cup (IF IsGlobal(decl) THEN {} ELSE {def})
        \/ /\ result' # "Ok"
           /\ declarations' = decls
           /\ UNCHANGED <<local_definitions, nonlocal_definitions>>

Define(n, data, symbols) ==
  /\ todo = <<>>
  /\ strings' = Intern(strings, n)
  /\ DefineIn(declarations, n, data, symbols)
  /\ UNCHANGED <<imports, links, todo>>

(* declare_with: declare, then define with bytes; either may fail. *)
DeclareWith(n, d, data) ==
  /\ todo = <<>>
  /\ ~data.zero_init
  /\ strings' = Intern(strings, n)
  /\ \/ /\ DeclareErr(n, d)
        /\ UNCHANGED <<local_definitions, nonlocal_definitions>>
     \/ /\ Accepts(n, d)
        /\ imports' = ImportsWith(n, d)
        /\ DefineIn(DeclarationsWith(n, d), n, data, <<>>)
  /\ UNCHANGED <<links, todo>>

-----------------------------------------------------------------------------
(* link, link_with *)

\* Mutant: a link may start at an import.
LinkResultAnyOrigin(from, to) ==
  IF ~Declared(from) \/ ~Declared(to) THEN "Undeclared" ELSE "Ok"

LinkResult(from, to) ==
  IF ~Declared(from) \/ ~Declared(to) THEN "Undeclared"
  ELSE IF IsImport(declarations[from].decl) THEN "RelocateImport"
  ELSE "Ok"

LinkWith(from, to, at, reloc) ==
  /\ todo = <<>>
  /\ strings' = Intern(Intern(strings, from), to)
  /\ result' = LinkResult(from, to)
  /\ result' = "Ok" => Len(links) < MaxLinks
  /\ links' = IF result' = "Ok"
              THEN Append(links, [from |-> from, to |-> to, at |-> at, reloc |-> reloc])
              ELSE links
  /\ UNCHANGED <<declarations, imports, local_definitions,
                 nonlocal_definitions, todo>>

-----------------------------------------------------------------------------
(* emit, emit_as: reads the artifact, changes nothing of it. *)

\* Mutant: a section need not be defined.
UndefinedNonSections ==
  {n \in Names : /\ Declared(n)
                 /\ ~declarations[n].defined
                 /\ ~IsImport(declarations[n].decl) /\ ~IsSection(declarations[n].decl)}

undefined_symbols ==
  {n \in Names : /\ Declared(n)
                 /\ ~declarations[n].defined
                 /\ ~IsImport(declarations[n].decl)}

EmitResult(format) ==
  IF undefined_symbols # {} THEN "UndefinedSymbols"
  ELSE IF format \in {"Elf", "Macho"} THEN "Ok"
  ELSE "UnsupportedBinaryFormat"

EmitAs(format) ==
  /\ todo = <<>>
  /\ result' = EmitResult(format)
  /\ UNCHANGED <<strings, declarations, imports, links, local_definitions,
                 nonlocal_definitions, todo>>

Next ==
  \/ \E n \in Names, d \in Decls : Declare(n, d)
  \/ \E n \in Names, d \in Decls : IsImport(d) /\ Import(n, d.kind)
  \/ \E batch \in UNION {[1..k -> Batch] : k \in 1..MaxBatch} : StartDeclarations(batch)
  \/ DeclareNext
  \/ \E n \in Names, data \in Datas, symbols \in SymbolMaps : Define(n, data, symbols)
  \/ \E n \in Names, d \in Decls, data \in Datas : DeclareWith(n, d, data)
  \/ \E from, to \in Names, at \in Ats, reloc \in Relocs : LinkWith(from, to, at, reloc)
  \/ \E format \in Formats : EmitAs(format)

Spec == Init /\ [][Next]_vars

-----------------------------------------------------------------------------
(* Properties *)

AllDefinitions == local_definitions \cup nonlocal_definitions

\* Every field of the artifact holds what its Rust type says, and the interner
\* gives each name one id.
TypeOK ==
  /\ strings \in Seq(Names)
  /\ \A i, j \in DOMAIN strings : strings[i] = strings[j] => i = j
  /\ declarations \in [Names -> InternalDecls]
  /\ imports \in Seq(Imports)
  /\ links \in Seq(Links)
  /\ local_definitions \in SUBSET Definitions
  /\ nonlocal_definitions \in SUBSET Definitions
  /\ todo \in Seq(Batch)
  /\ result \in Errors \cup {"Ok"}

\* The imports list and the declarations tell the same story: a name is listed
\* exactly once, with its kind, when its declaration is an import, and never
\* when it is not.  It is what the expect in declare ("previous import was not
\* in the imports array") and the symbol tables of both backends rely on.
ImportsListed ==
  /\ \A i, j \in DOMAIN imports : imports[i].name = imports[j].name => i = j
  /\ \A i \in DOMAIN imports :
       declarations[imports[i].name].decl = ImportDecl(imports[i].kind)
  /\ \A n \in Names : IsImport(declarations[n].decl) => ImportIndices(n) # {}

\* A definition copies its declaration when it is made, and the copy never goes
\* stale: the redeclarations that declare accepts afterwards leave name,
\* declaration and `defined' flag in agreement, with one definition per name,
\* filed under the set its scope selects.
DefinitionsCurrent ==
  /\ \A def \in AllDefinitions :
       /\ declarations[def.name] = [decl |-> def.decl, defined |-> TRUE]
       /\ def \in nonlocal_definitions <=> IsGlobal(def.decl)
       /\ def \in local_definitions <=> ~IsGlobal(def.decl)
  /\ \A x, y \in AllDefinitions : x.name = y.name => x = y
  /\ \A n \in Names :
       declarations[n].defined => \E def \in AllDefinitions : def.name = n

\* However names are redeclared after link_with accepted a link, both its ends
\* stay declared and its origin never becomes an import: links() may unwrap and
\* the Mach-O backend may call a relocated import unreachable.
LinksResolve ==
  \A i \in DOMAIN links :
    /\ Declared(links[i].from)
    /\ ~IsImport(declarations[links[i].from].decl)
    /\ Declared(links[i].to)

\* Once undefined_symbols is empty, the origin of every link has a definition
\* and its target has one or is a listed import, so a backend that has seen the
\* definitions and the imports finds both ends in its tables.
EmitFindsLinkEnds ==
  undefined_symbols = {} =>
    \A i \in DOMAIN links :
      /\ \E def \in AllDefinitions : def.name = links[i].from
      /\ \/ \E def \in AllDefinitions : def.name = links[i].to
         \/ ImportIndices(links[i].to) # {}

UpgradeStep ==
  \A n \in Names :
    /\ Declared(n) => \/ declarations'[n].decl = declarations[n].decl
                      \/ Upgrades(declarations[n].decl, declarations'[n].decl)
    /\ declarations[n].defined => declarations'[n].defined

\* absorb never takes anything back: a declaration stays as it is, except that
\* an import may be upgraded to a definition of its kind ("forever after"), and
\* a defined name stays defined.
DeclarationsOnlyUpgrade == [][UpgradeStep]_vars

=============================================================================
