-------------------------------- MODULE Mach --------------------------------
(***************************************************************************)
(* The Mach-O backend (src/src/mach.rs) up to the point where it writes:   *)
(* Mach::new partitions the definitions, lays out the four default         *)
(* sections and the custom ones, fills the symbol table on the way, adds   *)
(* the imports and turns links into relocations.  Each iteration of one of *)
(* its loops is a step.  Module MachFile adds write.                       *)
(*                                                                         *)
(* An interned string stands for its id, so the tables are keyed by name.  *)
(***************************************************************************)
EXTENDS Emission, IndexMap

VARIABLES
  artifact,        \* what is being emitted: name, definitions, imports, links
  status,          \* "idle", "building", "written" or "panic"
  stage,           \* 0 partitioning, 1 to 4 in that default section, 5 after them
  pos,             \* how many items of this stage are done
  groups,          \* code, data, cstrings, bss and sections of Mach::new
  bss_size,
  symbols, strtable, indexes, strtable_size,      \* the SymbolTable
  sections, offset, size, symbol_offset, align_pad_map,   \* the SegmentBuilder
  open             \* locals of the build function that is running

symtab == <<symbols, strtable, indexes, strtable_size>>
segment == <<sections, offset, size, symbol_offset, align_pad_map, open>>
partition == <<groups, bss_size>>
buildVars == <<artifact, status, stage, pos, partition, symtab, segment>>

HeaderSize == IF Big THEN 32 ELSE 28

-----------------------------------------------------------------------------
(* The partition of the definitions *)

GroupNames == {"code", "data", "cstrings", "bss", "sections"}

GroupOf(def) ==
  CASE def.decl.tag = "Function" -> "code"
    [] def.decl.tag = "Data" -> IF def.data.zero_init THEN "bss"
                                ELSE IF def.decl.datatype = "String" THEN "cstrings" ELSE "data"
    [] def.decl.tag = "Section" -> "sections"

Partition(def) ==
  /\ groups' = [groups EXCEPT ![GroupOf(def)] = Append(@, def)]
  /\ bss_size' = IF def.data.zero_init THEN bss_size + def.data.size ELSE bss_size
  /\ UNCHANGED <<symtab, segment>>

-----------------------------------------------------------------------------
(* SymbolTable *)

Undefined ==
  [section |-> -1, absolute_offset |-> 0, relative_offset |-> 0, global |-> TRUE, import |-> TRUE]
Defined(section, absolute, relative, global) ==
  [section |-> section, absolute_offset |-> absolute, relative_offset |-> relative,
   global |-> global, import |-> FALSE]

Interned(name) == \E i \in DOMAIN strtable : strtable[i] = name

\* Mutant: leaves out the underscore that write puts before the name.
NameRoomPlain(name) == Len(name) + 1

\* The underscore, the name and the null byte.
NameRoom(name) == Len(name) + 2

\* insert, for a name that is new to the string table; else it does nothing.
InsertSymbol(name, kind) ==
  IF Interned(name) THEN UNCHANGED symtab
  ELSE /\ symbols' = Append(symbols, [key |-> name, strx |-> strtable_size, sym |-> kind])
       /\ strtable' = Append(strtable, name)
       /\ indexes' = [n \in DOMAIN indexes \cup {name} |->
                        IF n = name THEN Len(symbols') - 1 ELSE indexes[n]]
       /\ strtable_size' = strtable_size + NameRoom(name)

HasSymbol(name) == Has(symbols, name)
RelativeOffset(name) == symbols[Place(symbols, name)].sym.relative_offset   \* SymbolTable::offset

-----------------------------------------------------------------------------
(* build_section, one definition at a time and then the section itself *)

DefaultSections ==
  <<[group |-> "code", sectname |-> "__text", segname |-> "__TEXT", min |-> 4,
     flags |-> {"INSTRUCTIONS"}],
    [group |-> "data", sectname |-> "__data", segname |-> "__DATA", min |-> 3, flags |-> {}],
    [group |-> "cstrings", sectname |-> "__cstring", segname |-> "__TEXT", min |-> 0,
     flags |-> {"CSTRING_LITERALS"}],
    [group |-> "bss", sectname |-> "__bss", segname |-> "__DATA", min |-> 0,
     flags |-> {"ZEROFILL"}]>>
NDefault == 4
InDefault == stage \in 1 .. NDefault
\* The definitions that go into the k-th default section, and into the open one.
DefaultGroup(k) == groups[DefaultSections[k].group]
Group == DefaultGroup(stage)

\* align_to_align_exp(get_align().unwrap_or(1))
AlignExp(decl) ==
  IF decl.align = 0 THEN 0 ELSE CHOOSE e \in 0 .. MaxAlignExponent : 2^e = decl.align

MaxOf(x, y) == IF x >= y THEN x ELSE y

\* Mutant: the alignment of the definition itself, not of the one that follows.
NextExponentOwn ==
  MaxOf(DefaultSections[stage].min, AlignExp(Group[pos + 1].decl))

\* next_def_alignment_exponent
NextExponent ==
  MaxOf(DefaultSections[stage].min,
        IF pos + 2 \in DOMAIN Group THEN AlignExp(Group[pos + 2].decl) ELSE 0)

Pad(at, exponent) == (2^exponent - (at % 2^exponent)) % 2^exponent

\* A local build_section starts with; section_relative_offset and local_size
\* are always equal and kept as one.
Opened(k) == [size |-> 0, exponent |-> IF k \in 1 .. NDefault THEN DefaultSections[k].min ELSE 0,
              inserted |-> 0]

PlaceDefinition(def) ==
  LET end == open.size + FileSize(def.data)
      pad == Pad(end, NextExponent)
  IN /\ InsertSymbol(def.name,
                     Defined(stage - 1, symbol_offset, open.size, IsGlobal(def.decl)))
     /\ symbol_offset' = symbol_offset + FileSize(def.data) + pad
     /\ open' = [open EXCEPT !.size = end + pad, !.exponent = MaxOf(@, NextExponent)]
     /\ align_pad_map' = [n \in DOMAIN align_pad_map \cup {def.name} |->
                            IF n = def.name THEN pad ELSE align_pad_map[n]]
     /\ UNCHANGED <<partition, sections, offset, size>>

\* SectionBuilder::new and its setters, then the insert that ends both build
\* functions.  A section that is keyed like an earlier one takes its place.
AddSection(key, sectname, segname, flags, local_size, exponent) ==
  /\ sections' = Insert(sections, key,
       [sectname |-> sectname, segname |-> segname, flags |-> flags, size |-> local_size,
        addr |-> size, align |-> exponent, relocations |-> <<>>])
  /\ offset' = offset + local_size
  /\ size' = size + local_size

CloseSection ==
  LET d == DefaultSections[stage]
  IN /\ AddSection(d.sectname, d.sectname, d.segname, d.flags, open.size, open.exponent)
     /\ open' = Opened(stage + 1)
     /\ UNCHANGED <<partition, symtab, symbol_offset, align_pad_map>>

-----------------------------------------------------------------------------
(* build_custom_section, one symbol at a time and then the section itself *)

SegName(kind) ==
  CASE kind = "Data" -> "__DATA" [] kind = "Debug" -> "__DWARF" [] kind = "Text" -> "__TEXT"

SectName(name) ==
  IF Len(name) >= 6 /\ SubSeq(name, 1, 6) = ".debug"
  THEN "__debug" \o SubSeq(name, 7, Len(name)) ELSE name

\* Mutant: the symbol's value is relative to its section.
InsertCustomRelative(s) ==
  /\ InsertSymbol(s.symbol, Defined(NDefault + pos, s.offset, s.offset, TRUE))
  /\ open' = [open EXCEPT !.inserted = @ + 1]
  /\ UNCHANGED <<partition, sections, offset, size, symbol_offset, align_pad_map>>

InsertCustom(s) ==
  /\ InsertSymbol(s.symbol, Defined(NDefault + pos, symbol_offset + s.offset, s.offset, TRUE))
  /\ open' = [open EXCEPT !.inserted = @ + 1]
  /\ UNCHANGED <<partition, sections, offset, size, symbol_offset, align_pad_map>>

\* Mutant: the section is filed under its Mach-O name.
CloseCustomBySectName(def) ==
  /\ AddSection(SectName(def.name), SectName(def.name), SegName(def.decl.kind),
                IF def.decl.kind = "Debug" THEN {"DEBUG"} ELSE {},
                FileSize(def.data), AlignExp(def.decl))
  /\ symbol_offset' = symbol_offset + FileSize(def.data)
  /\ open' = Opened(NDefault + 1)
  /\ UNCHANGED <<partition, symtab, align_pad_map>>

CloseCustom(def) ==
  /\ AddSection(def.name, SectName(def.name), SegName(def.decl.kind),
                IF def.decl.kind = "Debug" THEN {"DEBUG"} ELSE {},
                FileSize(def.data), AlignExp(def.decl))
  /\ symbol_offset' = symbol_offset + FileSize(def.data)
  /\ open' = Opened(NDefault + 1)
  /\ UNCHANGED <<partition, symtab, align_pad_map>>

AddImport(import) ==
  /\ InsertSymbol(import.name, Undefined)
  /\ UNCHANGED <<partition, segment>>

-----------------------------------------------------------------------------
(* build_relocations *)

Absolute(l) ==
  CASE l.reloc.kind = "Auto" -> l.from.decl.tag = "Data"
    [] l.reloc.kind = "Raw" -> l.reloc.reloc = "R_ABS"
    [] l.reloc.kind = "Debug" -> TRUE

RelocType(l) ==
  IF l.reloc.kind = "Raw" THEN l.reloc.reloc
  ELSE IF Absolute(l) THEN "UNSIGNED"
  ELSE CASE l.to.decl.tag = "Function" -> "BRANCH"
         [] l.to.decl.tag = "Data" -> "SIGNED"
         [] IsImport(l.to.decl) -> IF l.to.decl.kind = "Function" THEN "BRANCH" ELSE "GOT_LOAD"

\* The section a relocation is filed under.
RelocKey(l) ==
  IF l.reloc.kind = "Debug" THEN l.from.name ELSE IF Absolute(l) THEN "__data" ELSE "__text"

\* The sizes create has a length for; 0 stands for the size of an address.
RelocSizes == {0, 4, 8}
RelocLength(sz, absolute) == IF sz = 8 \/ (sz = 0 /\ absolute) THEN 3 ELSE 2

\* RelocationBuilder::create.  The symbol number has 24 bits; it fits.
Relocation(address, symbolnum, l) ==
  LET sz == IF l.reloc.kind = "Debug" THEN l.reloc.size ELSE 0
  IN [address |-> address, symbolnum |-> symbolnum, pcrel |-> ~Absolute(l),
      length |-> RelocLength(sz, Absolute(l)), type |-> RelocType(l)]

PushRelocation(key, reloc) ==
  sections' = [sections EXCEPT ![Place(sections, key)].val.relocations = Append(@, reloc)]

\* Whether the loop goes on without a relocation: a debug link to a section is
\* left out, and a missing symbol is logged and left out.
Skipped(l) ==
  IF l.reloc.kind = "Debug" THEN IsSection(l.to.decl) \/ ~HasSymbol(l.to.name)
  ELSE ~HasSymbol(l.from.name) \/ ~HasSymbol(l.to.name)

LinkPanics(l) ==
  CASE l.reloc.kind = "Auto" -> IsSection(l.from.decl) \/ IsSection(l.to.decl)
    [] l.reloc.kind = "Raw" -> l.reloc.addend # 0
    [] l.reloc.kind = "Debug" ->
         ~Skipped(l) /\ (l.reloc.size \notin RelocSizes \/ ~Has(sections, l.from.name))

\* Mutant: relative to the definition instead of its section.
LinkAddressLocal(l) == l.at

LinkAddress(l) ==
  IF l.reloc.kind = "Debug" THEN l.at ELSE RelativeOffset(l.from.name) + l.at

AddLink(l) ==
  /\ IF Skipped(l) THEN UNCHANGED sections
     ELSE PushRelocation(RelocKey(l), Relocation(LinkAddress(l), indexes[l.to.name], l))
  /\ UNCHANGED <<partition, symtab, offset, size, symbol_offset, align_pad_map, open>>

-----------------------------------------------------------------------------
(* Mach::new *)

NoGroups == [g \in GroupNames |-> <<>>]

BuildInit ==
  /\ artifact = NoArtifact
  /\ status = "idle" /\ stage = 0 /\ pos = 0
  /\ groups = NoGroups /\ bss_size = 0
  /\ symbols = <<>> /\ strtable = <<>> /\ indexes = [n \in {} |-> 0] /\ strtable_size = 0
  /\ sections = <<>> /\ offset = 0 /\ size = 0 /\ symbol_offset = 0
  /\ align_pad_map = [n \in {} |-> 0] /\ open = Opened(0)

New(a) ==
  /\ status = "idle"
  /\ artifact' = a /\ status' = "building"
  /\ UNCHANGED <<stage, pos, partition, symtab, segment>>

NDefs == Len(artifact.definitions)
NCustom == Len(groups["sections"])
NImports == Len(artifact.imports)
NLinks == Len(artifact.links)
Building == status = "building"
AllAdded == stage = NDefault + 1 /\ pos = NCustom + NImports + NLinks

At(s, p) == stage' = s /\ pos' = p /\ UNCHANGED <<artifact, status>>
Panic == status' = "panic" /\ UNCHANGED <<artifact, stage, pos, partition, symtab, segment>>

PartitionStep ==
  /\ Building /\ stage = 0 /\ pos < NDefs
  /\ Partition(artifact.definitions[pos + 1]) /\ At(0, pos + 1)

\* SymbolTable::new and the start of SegmentBuilder::new.
StartSegment ==
  /\ Building /\ stage = 0 /\ pos = NDefs
  /\ strtable' = <<"">> /\ strtable_size' = 1
  /\ offset' = HeaderSize
  /\ open' = Opened(1)
  /\ UNCHANGED <<partition, symbols, indexes, sections, size, symbol_offset, align_pad_map>>
  /\ At(1, 0)

DefinitionStep ==
  /\ Building /\ InDefault /\ pos < Len(Group)
  /\ PlaceDefinition(Group[pos + 1]) /\ At(stage, pos + 1)

SectionStep ==
  /\ Building /\ InDefault /\ pos = Len(Group)
  /\ CloseSection /\ At(stage + 1, 0)

CustomStep ==
  /\ Building /\ stage = NDefault + 1 /\ pos < NCustom
  /\ LET def == groups["sections"][pos + 1]
     IN IF open.inserted < Len(def.symbols)
        THEN InsertCustom(def.symbols[open.inserted + 1]) /\ At(stage, pos)
        ELSE CloseCustom(def) /\ At(stage, pos + 1)

ImportStep ==
  /\ Building /\ stage = NDefault + 1 /\ pos \in NCustom .. NCustom + NImports - 1
  /\ AddImport(artifact.imports[pos - NCustom + 1]) /\ At(stage, pos + 1)

LinkStep ==
  /\ Building /\ stage = NDefault + 1
  /\ pos \in NCustom + NImports .. NCustom + NImports + NLinks - 1
  /\ LET l == artifact.links[pos - NCustom - NImports + 1]
     IN IF LinkPanics(l) THEN Panic ELSE AddLink(l) /\ At(stage, pos + 1)

BuildStep ==
  \/ PartitionStep \/ StartSegment \/ DefinitionStep \/ SectionStep
  \/ CustomStep \/ ImportStep \/ LinkStep

-----------------------------------------------------------------------------
(* Properties of the tables while they are built *)

\* Where the string after the i-th symbol's begins: the first byte is a null,
\* and each name has an underscore before it and a null after it.
StringEnd(i) == IF i = 0 THEN 1 ELSE symbols[i].strx + Len(symbols[i].key) + 2

\* The four tables of the SymbolTable agree, so that relocations and names made
\* before the file is written are right in it: index() is the place a symbol
\* will be written at, the strings are the symbols' names in the same order, and
\* n_strx is where the string will start.
Coherent ==
  /\ Len(strtable) = Len(symbols) + 1
  /\ DOMAIN indexes = {symbols[i].key : i \in DOMAIN symbols}
  /\ \A i \in DOMAIN symbols :
       /\ strtable[i + 1] = symbols[i].key
       /\ indexes[symbols[i].key] = i - 1
       /\ symbols[i].strx = StringEnd(i - 1)
  /\ strtable_size = StringEnd(Len(symbols))

\* At every step of Mach::new after it made the symbol table, its tables agree.
TablesAgree == Building /\ stage > 0 => Coherent

\* Where the section after the i-th begins.
SectionEnd(i) == IF i = 0 THEN 0 ELSE sections[i].val.addr + sections[i].val.size

\* The value of a symbol of the object is the address of its section plus its
\* offset in the section.
SymbolPlaced(s) ==
  ~s.import => /\ s.section \in 0 .. Len(sections)
               /\ s.absolute_offset = SectionEnd(s.section) + s.relative_offset

\* The running offsets of SegmentBuilder::new agree, so that a symbol's value,
\* taken from one, is the address of its section, taken from another, plus its
\* offset in the section; and sections follow each other without a gap.
Placed ==
  /\ offset = HeaderSize + size
  /\ symbol_offset = size + open.size
  /\ size = SectionEnd(Len(sections))
  /\ \A i \in DOMAIN sections : sections[i].val.addr = SectionEnd(i - 1)
  /\ \A i \in DOMAIN symbols : SymbolPlaced(symbols[i].sym)

\* At every step of Mach::new after it started the segment, offsets agree.
SymbolsPlaced == Building /\ stage > 0 => Placed

\* A symbol named after a definition of the k-th default section, and in that
\* section, is at a multiple of the alignment the declaration asks for, although
\* build_section pads one definition ahead.
OnAlignment(s, k, def) ==
  s.key = def.name /\ s.sym.section = k - 1 =>
    s.sym.relative_offset % 2^AlignExp(def.decl) = 0

\* Every symbol is, for every definition of the default sections.
Aligned ==
  \A k \in 1 .. NDefault : \A j \in DOMAIN DefaultGroup(k) : \A i \in DOMAIN symbols :
    OnAlignment(symbols[i], k, DefaultGroup(k)[j])

\* No definition is placed off its alignment.
DefinitionsAligned == Building /\ stage > 0 => Aligned

=============================================================================
