------------------------------- MODULE Faerie -------------------------------
(***************************************************************************)
(* An artifact and both backends together: the client builds, redeclares   *)
(* and links as in module Artifact, and may emit in either format whenever *)
(* it likes; emit borrows the artifact, so no other call runs until it     *)
(* returns, and the client may go on building after it.                    *)
(***************************************************************************)
EXTENDS Artifact
LOCAL INSTANCE SequencesExt

CONSTANTS ArtifactName, Big, SHN_LORESERVE

VARIABLES artifact, status, pos, strtab, symbols, sections, code, relocations,
          nsections, nlocals, sizeof_bits, file

elfVars == <<artifact, status, pos, strtab, symbols, sections, code, relocations,
             nsections, nlocals, sizeof_bits, file>>

E == INSTANCE ElfFile WITH Artifacts <- {}

VARIABLES machArtifact, machStatus, stage, machPos, groups, bss_size, machSymbols, strtable,
          indexes, strtable_size, machSections, offset, size, symbol_offset, align_pad_map,
          open, machFile

machVars == <<machArtifact, machStatus, stage, machPos, groups, bss_size, machSymbols, strtable,
              indexes, strtable_size, machSections, offset, size, symbol_offset, align_pad_map,
              open, machFile>>

M == INSTANCE MachFile WITH
       Artifacts <- {}, artifact <- machArtifact, status <- machStatus, pos <- machPos,
       symbols <- machSymbols, sections <- machSections, file <- machFile

allVars == <<vars, elfVars, machVars>>

-----------------------------------------------------------------------------
(* What the backends read: definitions() chains the local set before the   *)
(* nonlocal one, each in the derived order (declaration, then name id);    *)
(* links() resolves both ends to the declarations as they are now.         *)

NameId(n) == CHOOSE i \in DOMAIN strings : strings[i] = n

DefLess(x, y) ==
  LexLess(Append(DeclKey(x.decl), NameId(x.name)),
          Append(DeclKey(y.decl), NameId(y.name)))

\* Mutant: the nonlocal set first.
NonlocalFirst ==
  SetToSortSeq(nonlocal_definitions, DefLess) \o SetToSortSeq(local_definitions, DefLess)

definitions ==
  SetToSortSeq(local_definitions, DefLess) \o SetToSortSeq(nonlocal_definitions, DefLess)

LinksAndDecls ==
  [i \in DOMAIN links |->
     [from |-> [name |-> links[i].from, decl |-> declarations[links[i].from].decl],
      to |-> [name |-> links[i].to, decl |-> declarations[links[i].to].decl],
      at |-> links[i].at, reloc |-> links[i].reloc]]

\* What to_bytes reads of the artifact.
Snapshot == [name |-> ArtifactName, definitions |-> definitions,
             imports |-> imports, links |-> LinksAndDecls]

-----------------------------------------------------------------------------
(* Calls of the client and the steps of an emission *)

FaerieInit == Init /\ E!Init /\ M!Init

Idle == status = "idle" /\ machStatus = "idle"

\* emit_as(Elf): the check for undefined symbols, then Elf::new.
EmitElf ==
  /\ Idle /\ EmitAs("Elf")
  /\ IF result' = "Ok" THEN E!New(Snapshot) /\ UNCHANGED file ELSE UNCHANGED elfVars
  /\ UNCHANGED machVars

\* emit_as(Macho): the same check, then Mach::new.
EmitMach ==
  /\ Idle /\ EmitAs("Macho")
  /\ IF result' = "Ok" THEN M!New(Snapshot) /\ UNCHANGED machFile ELSE UNCHANGED machVars
  /\ UNCHANGED elfVars

\* The rest of the two to_bytes.
ElfStep ==
  /\ (E!BuildStep /\ UNCHANGED file) \/ E!Write \/ E!Return
  /\ UNCHANGED <<vars, machVars>>

MachStep ==
  /\ (M!BuildStep /\ UNCHANGED machFile) \/ M!Write \/ M!Return
  /\ UNCHANGED <<vars, elfVars>>

FaerieNext ==
  \/ Idle /\ Next /\ UNCHANGED <<elfVars, machVars>>
  \/ EmitElf \/ EmitMach
  \/ ElfStep \/ MachStep

FaerieSpec == FaerieInit /\ [][FaerieNext]_allVars

-----------------------------------------------------------------------------
(* Properties *)

\* Whatever was declared, upgraded and linked in whatever order, an artifact
\* without undefined symbols gives the backend what it counts on.
SnapshotEmittable == undefined_symbols = {} => E!Emittable(Snapshot)

\* The symbol table of the file is the artifact's, name for name: one symbol
\* for each declared function, object and import, with the scope it has now (an
\* upgraded import is no longer undefined), and no other.
SymtabShowsDeclarations ==
  status = "written" =>
    /\ \A n \in Names : Declared(n) /\ ~IsSection(declarations[n].decl) =>
         \E k \in E!SymbolIndices :
           /\ E!SymbolsNamed(n) = {k}
           /\ IF IsImport(declarations[n].decl)
              THEN E!IndexOf(k) = 0 /\ file.symtab[k].bind = "Global"
              ELSE E!IndexOf(k) # 0 /\ file.symtab[k].bind = declarations[n].decl.scope
    /\ \A k \in E!SymbolIndices :
         file.symtab[k].type \in {"FUNC", "OBJECT"} \/ file.symtab[k].bind = "Global" =>
           \E n \in Names : Declared(n) /\ k \in E!SymbolsNamed(n)

\* The same of the Mach-O symbol table: a symbol is undefined exactly if its
\* name is an import now, external if it is that or global, and private if it
\* is local.  Weak ones, which run mach_weak is about, may be either.
NlistShowsDeclarations ==
  machStatus = "written" =>
    /\ \A n \in Names : Declared(n) /\ ~IsSection(declarations[n].decl) =>
         \E k \in M!SymbolIndices :
           /\ M!SymbolsNamed(n) = {k}
           /\ machFile.symtab[k].sect = 0 <=> IsImport(declarations[n].decl)
           /\ IsImport(declarations[n].decl) \/ IsGlobal(declarations[n].decl) =>
                "EXT" \in machFile.symtab[k].type
           /\ ~IsImport(declarations[n].decl) /\ declarations[n].decl.scope = "Local" =>
                "EXT" \notin machFile.symtab[k].type
    /\ \A k \in M!SymbolIndices : \E n \in Names : Declared(n) /\ k \in M!SymbolsNamed(n)

\* Relocations follow redeclarations: each link made so far, and none else, is
\* in the file against what its target is now, even if it was an import when
\* the link was made.
LinksFollowUpgrades == E!LinksFound /\ M!LinksFound

=============================================================================
