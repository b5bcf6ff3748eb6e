-------------------------------- MODULE Elf ---------------------------------
(***************************************************************************)
(* The ELF backend (src/src/elf.rs) up to the point where it writes: new,  *)
(* then add_definition, import and link for each item of the artifact, as  *)
(* to_bytes calls them.  Module ElfFile adds write.                        *)
(*                                                                         *)
(* An interned string stands for its id.                                   *)
(***************************************************************************)
EXTENDS Emission, IndexMap
LOCAL INSTANCE SequencesExt

VARIABLES
  artifact,       \* what is being emitted: name, definitions, imports, links
  status,         \* "idle", "building", "written" or "panic"
  pos,            \* how many items of the artifact have been added
  strtab,         \* strings, their offsets, and sizeof_strtab
  symbols, sections, code, relocations,
  nsections, nlocals, sizeof_bits

elf == <<strtab, symbols, sections, code, relocations, nsections, nlocals, sizeof_bits>>
buildVars == <<artifact, status, pos, elf>>

-----------------------------------------------------------------------------
(* Sizes of the structures goblin writes. *)

HeaderSize == IF Big THEN 64 ELSE 52
SymSize == IF Big THEN 24 ELSE 16
RelaSize == IF Big THEN 24 ELSE 12
WordSize == IF Big THEN 8 ELSE 4

-----------------------------------------------------------------------------
(* String table *)

PutOffset(offsets, s, offset) ==
  [t \in DOMAIN offsets \cup {s} |-> IF t = s THEN offset ELSE offsets[t]]

\* The closure push_strtab of new: always takes room for the string.
PushString(tab, s) ==
  [strings |-> GetOrIntern(tab.strings, s),
   offsets |-> PutOffset(tab.offsets, s, tab.size),
   size |-> tab.size + Len(s) + 1]

\* new_string: takes room only for a string that has no offset yet.
NewString(tab, s) ==
  IF s \in DOMAIN tab.offsets THEN [tab EXCEPT !.strings = GetOrIntern(tab.strings, s)]
  ELSE PushString(tab, s)

NewStrings(tab, names) == FoldLeft(NewString, tab, names)

EmptyStrtab == [strings |-> <<>>, offsets |-> [s \in {} |-> 0], size |-> 1]

-----------------------------------------------------------------------------
(* SymbolBuilder::create and SectionBuilder::create *)

Symbol(name, type, bind, shndx, value, size) ==
  [name |-> name, type |-> type, bind |-> bind, other |-> "Default",
   shndx |-> shndx, value |-> value, size |-> size]

DeclSymbol(name, decl, shndx, size) ==
  [Symbol(name, IF decl.tag = "Function" THEN "FUNC" ELSE "OBJECT", decl.scope, shndx, 0, size)
     EXCEPT !.other = decl.visibility]

SHN_ABS == -1   \* 0xfff1, kept apart from every real index

SpecialSymbols(name) ==
  <<Symbol(0, "NOTYPE", "Local", 0, 0, 0), Symbol(name, "FILE", "Local", SHN_ABS, 0, 0)>>
NSpecial == 2

DefaultAlign(flags) ==
  IF "EXEC" \in flags THEN 16 ELSE IF "WRITE" \in flags THEN 8 ELSE 1

Shdr(name, type, flags, size, align, entsize) ==
  [name |-> name, type |-> type, flags |-> flags, size |-> size, addralign |-> align,
   entsize |-> entsize, offset |-> 0, link |-> 0, info |-> 0]

\* A header of SectionType typ; flags are the ones asked of the builder.
SectionHeader(name, typ, flags, size, align) ==
  LET asked == IF align = 0 THEN DefaultAlign(flags) ELSE align
  IN CASE typ \in {"Bits", "Data"} -> Shdr(name, "PROGBITS", flags, size, asked, 0)
       [] typ = "String" ->
            Shdr(name, "PROGBITS", flags \cup {"MERGE", "STRINGS"}, size, asked, 0)
       [] typ = "NoBits" -> Shdr(name, "NOBITS", flags \cup {"WRITE", "ALLOC"}, size, 0, 0)
       [] typ = "StrTab" -> Shdr(name, "STRTAB", flags, size, 1, 0)
       [] typ = "SymTab" -> Shdr(name, "SYMTAB", flags, size, 8, SymSize)
       [] typ = "Relocation" -> Shdr(name, "RELA", {}, size, 8, RelaSize)
       [] typ = "SymTabShndx" -> Shdr(name, "SYMTAB_SHNDX", flags, size, 4, 4)

-----------------------------------------------------------------------------
(* add_definition *)

SectionName(def) ==
  CASE def.decl.tag = "Function" -> ".text." \o def.name
    [] def.decl.tag = "Data" ->
         (IF def.data.zero_init THEN ".bss."
          ELSE IF def.decl.writable THEN ".data." ELSE ".rodata.") \o def.name
    [] def.decl.tag = "Section" -> def.name

SectionTypeForData(def) ==
  IF def.data.zero_init THEN "NoBits"
  ELSE IF def.decl.datatype = "Bytes" THEN "Data" ELSE "String"

DefinitionHeader(name, def) ==
  CASE def.decl.tag = "Function" ->
         SectionHeader(name, "Bits", {"ALLOC", "EXEC"}, FileSize(def.data), def.decl.align)
    [] def.decl.tag = "Data" ->
         SectionHeader(name, SectionTypeForData(def),
                       {"ALLOC"} \cup (IF def.decl.writable THEN {"WRITE"} ELSE {}),
                       FileSize(def.data), def.decl.align)
    [] def.decl.tag = "Section" ->
         SectionHeader(name,
                       IF def.name \in {".debug_str", ".debug_line_str"} THEN "String"
                       ELSE SectionTypeForData(def),
                       {}, FileSize(def.data), def.decl.align)

\* Mutant: counts the stack note too, which comes last.
NextShndxAfterNote == Len(sections) + 4

\* The section index a new section is given: null, strtab and symtab precede.
NextShndx == Len(sections) + 3

\* Mutant: a custom symbol loses its offset.
DefinitionSymbolsAtStart(def, offsets) ==
  IF IsSection(def.decl)
  THEN [i \in DOMAIN def.symbols |->
          [key |-> def.symbols[i].symbol,
           val |-> Symbol(offsets[def.symbols[i].symbol], "NOTYPE", "Local", NextShndx, 0, 0)]]
  ELSE <<[key |-> def.name,
          val |-> DeclSymbol(offsets[def.name], def.decl, NextShndx, FileSize(def.data))]>>

\* The symbols of a definition, each with the name it is filed under.
DefinitionSymbols(def, offsets) ==
  IF IsSection(def.decl)
  THEN [i \in DOMAIN def.symbols |->
          [key |-> def.symbols[i].symbol,
           val |-> Symbol(offsets[def.symbols[i].symbol], "NOTYPE", "Local", NextShndx,
                          def.symbols[i].offset, 0)]]
  ELSE <<[key |-> def.name,
          val |-> DeclSymbol(offsets[def.name], def.decl, NextShndx, FileSize(def.data))]>>

InsertAll(m, entries) == FoldLeft(LAMBDA acc, e : Insert(acc, e.key, e.val), m, entries)

\* add_progbits and add_section included.
AddDefinition(def) ==
  LET name == SectionName(def)
      names == IF IsSection(def.decl)
               THEN [i \in DOMAIN def.symbols |-> def.symbols[i].symbol]
               ELSE <<def.name>>
      tab == NewStrings(NewString(strtab, name), names)
      header == [DefinitionHeader(tab.offsets[name], def) EXCEPT !.offset = sizeof_bits]
  IN /\ strtab' = tab
     /\ sections' = Insert(sections, name, [header |-> header, shndx |-> NextShndx])
     /\ nsections' = nsections + 1
     /\ code' = IF def.data.zero_init THEN code
                ELSE Insert(code, name, [of |-> def.name, size |-> def.data.size])
     /\ sizeof_bits' = sizeof_bits + FileSize(def.data)
     /\ symbols' = InsertAll(symbols, DefinitionSymbols(def, tab.offsets))
     /\ nlocals' = IF IsSection(def.decl) \/ IsGlobal(def.decl) THEN nlocals ELSE nlocals + 1
     /\ UNCHANGED relocations

-----------------------------------------------------------------------------
(* import *)

\* Mutant: an import without its global binding.
AddImportUnbound(import) ==
  LET tab == NewString(strtab, import.name)
  IN /\ strtab' = tab
     /\ symbols' = Insert(symbols, import.name,
                          Symbol(tab.offsets[import.name], "NOTYPE", "Local", 0, 0, 0))
     /\ UNCHANGED <<sections, code, relocations, nsections, nlocals, sizeof_bits>>

AddImport(import) ==
  LET tab == NewString(strtab, import.name)
  IN /\ strtab' = tab
     /\ symbols' = Insert(symbols, import.name,
                          Symbol(tab.offsets[import.name], "NOTYPE", "Global", 0, 0, 0))
     /\ UNCHANGED <<sections, code, relocations, nsections, nlocals, sizeof_bits>>

-----------------------------------------------------------------------------
(* link *)

\* Mutant: sections are looked up among the symbols.
EndFoundAmongSymbols(end) == Has(symbols, end.name)

\* The tables an end of a link is looked up in; a missing one is a panic.
EndFound(end) == Has(IF IsSection(end.decl) THEN sections ELSE symbols, end.name)

EndShndx(end) ==
  IF IsSection(end.decl) THEN Place(sections, end.name) + 2
  ELSE Get(symbols, end.name).shndx

\* Mutant: forgets that section symbols come before the named ones.
EndSymbolUnshifted(end) ==
  IF IsSection(end.decl) THEN Place(sections, end.name) - 1 + NSpecial
  ELSE Place(symbols, end.name) - 1 + NSpecial

EndSymbol(end) ==
  IF IsSection(end.decl) THEN Place(sections, end.name) - 1 + NSpecial
  ELSE Place(symbols, end.name) - 1 + NSpecial + Len(sections)

Supported(l) ==
  CASE l.reloc.kind = "Raw" -> TRUE
    [] l.reloc.kind = "Debug" -> l.reloc.size \in {4, 8}
    [] l.reloc.kind = "Auto" -> \/ l.from.decl.tag = "Data"
                               \/ (l.from.decl.tag = "Function" /\ ~IsSection(l.to.decl))

RelocFor(l) ==
  CASE l.reloc.kind = "Raw" -> [type |-> l.reloc.reloc, addend |-> l.reloc.addend]
    [] l.reloc.kind = "Debug" ->
         [type |-> IF l.reloc.size = 4 THEN "R_X86_64_32" ELSE "R_X86_64_64",
          addend |-> l.reloc.addend]
    [] l.reloc.kind = "Auto" /\ l.from.decl.tag = "Data" ->
         [type |-> IF Big THEN "R_X86_64_64" ELSE "R_X86_64_32", addend |-> 0]
    [] l.reloc.kind = "Auto" /\ l.from.decl.tag = "Function" ->
         [type |-> CASE l.to.decl.tag = "Data" -> "R_X86_64_PC32"
                     [] l.to.decl.tag = "Function" -> "R_X86_64_PLT32"
                     [] IsImport(l.to.decl) -> IF l.to.decl.kind = "Data"
                                               THEN "R_X86_64_GOTPCREL" ELSE "R_X86_64_PLT32",
          addend |-> -4]

\* Mutant: forgets that the special symbols come first.
TargetSymbolUnshifted(to) ==
  IF IsImport(to.decl) THEN EndSymbol(to) ELSE EndShndx(to) - 3

\* A defined target is named by the symbol of its section, an import by its own.
TargetSymbol(to) ==
  IF IsImport(to.decl) THEN EndSymbol(to) ELSE EndShndx(to) - 3 + NSpecial

RelaHeader(name, shndx) ==
  [SectionHeader(name, "Relocation", {}, RelaSize, 0)
     EXCEPT !.link = 2, !.info = shndx, !.flags = {"INFO_LINK"}]

AddReloc(shndx, reloc) ==
  IF Has(relocations, shndx)
  THEN LET old == Get(relocations, shndx)
       IN /\ relocations' = Insert(relocations, shndx,
                [header |-> [old.header EXCEPT !.size = @ + old.header.entsize],
                 relocs |-> Append(old.relocs, reloc)])
          /\ UNCHANGED <<strtab, nsections>>
  ELSE LET name == ".rela" \o sections[shndx - 2].key
           tab == NewString(strtab, name)
       IN /\ strtab' = tab
          /\ relocations' = Insert(relocations, shndx,
                [header |-> RelaHeader(tab.offsets[name], shndx), relocs |-> <<reloc>>])
          /\ nsections' = nsections + 1

AddLink(l) ==
  LET rel == RelocFor(l)
  IN /\ AddReloc(EndShndx(l.from), [offset |-> l.at, sym |-> TargetSymbol(l.to),
                                    type |-> rel.type, addend |-> rel.addend])
     /\ UNCHANGED <<symbols, sections, code, nlocals, sizeof_bits>>

LinkPanics(l) ==
  \/ ~EndFound(l.to) \/ ~EndFound(l.from)
  \/ ~Supported(l)
  \/ ~IsImport(l.to.decl) /\ EndShndx(l.to) < 3
  \/ EndShndx(l.from) - 2 \notin DOMAIN sections

-----------------------------------------------------------------------------
(* new, and the three loops of to_bytes *)

BuildInit ==
  /\ artifact = NoArtifact
  /\ status = "idle" /\ pos = 0
  /\ strtab = EmptyStrtab
  /\ symbols = <<>> /\ sections = <<>> /\ code = <<>> /\ relocations = <<>>
  /\ nsections = 0 /\ nlocals = 0 /\ sizeof_bits = 0

New(a) ==
  /\ status = "idle"
  /\ artifact' = a /\ status' = "building" /\ pos' = 0
  /\ strtab' = FoldLeft(PushString, EmptyStrtab, <<".strtab", ".symtab", a.name>>)
  /\ symbols' = <<>> /\ sections' = <<>> /\ code' = <<>> /\ relocations' = <<>>
  /\ nsections' = 4 /\ nlocals' = 0
  /\ sizeof_bits' = HeaderSize

NDefs == Len(artifact.definitions)
NImports == Len(artifact.imports)
NLinks == Len(artifact.links)
AllAdded == pos = NDefs + NImports + NLinks

Added == status' = status /\ pos' = pos + 1 /\ UNCHANGED artifact
Panic == status' = "panic" /\ UNCHANGED <<artifact, pos, elf>>

DefinitionStep ==
  /\ status = "building" /\ pos < NDefs
  /\ AddDefinition(artifact.definitions[pos + 1]) /\ Added

ImportStep ==
  /\ status = "building" /\ pos \in NDefs .. NDefs + NImports - 1
  /\ AddImport(artifact.imports[pos - NDefs + 1]) /\ Added

LinkStep ==
  /\ status = "building" /\ pos >= NDefs + NImports /\ ~AllAdded
  /\ LET l == artifact.links[pos - NDefs - NImports + 1]
     IN IF LinkPanics(l) THEN Panic ELSE AddLink(l) /\ Added

BuildStep == DefinitionStep \/ ImportStep \/ LinkStep

=============================================================================
