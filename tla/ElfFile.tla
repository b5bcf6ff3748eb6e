------------------------------ MODULE ElfFile -------------------------------
(***************************************************************************)
(* The ELF backend's write (src/src/elf.rs): where each part of the file   *)
(* goes, the headers and symbols in the order they are written, and the    *)
(* assertions made on the way.  The file is what a linker can read of it.  *)
(***************************************************************************)
EXTENDS Elf, Layout, FiniteSets
LOCAL INSTANCE SequencesExt

CONSTANT SHN_LORESERVE   \* 0xff00 in ELF; runs make it small

ASSUME LoReserveAssumption == SHN_LORESERVE \in Nat \ {0}

VARIABLE file

vars == <<buildVars, file>>

SHN_XINDEX == -2   \* 0xffff, kept apart from every real index
NoPlaces == [strtab |-> 0, symtab |-> 0, shndx |-> 0, reloc |-> 0, sh |-> 0]
NoFile == [shnum |-> 0, at |-> NoPlaces, headers |-> <<>>, symtab |-> <<>>, xindex |-> <<>>,
           strings |-> <<>>, code |-> <<>>, relocs |-> <<>>]

AlignUp(offset, a) == IF offset % a = 0 THEN offset ELSE offset + (a - (offset % a))

-----------------------------------------------------------------------------
(* Compute Offsets *)

NeedShndx == nsections >= SHN_LORESERVE
\* Mutant: the header of .symtab_shndx is not counted.
SectionCountWithoutShndx == nsections

SectionCount == IF NeedShndx THEN nsections + 1 ELSE nsections
SymbolCount == Len(symbols) + NSpecial + Len(sections)

FinalStrtab ==
  NewString(IF NeedShndx THEN NewString(strtab, ".symtab_shndx") ELSE strtab,
            ".note.GNU-stack")

RelocCounts == [i \in DOMAIN relocations |-> Len(relocations[i].val.relocs)]

Offsets(tab) ==
  LET symtab == AlignUp(sizeof_bits + tab.size, WordSize)
      symtab_end == symtab + SymbolCount * SymSize
      shndx == IF NeedShndx THEN AlignUp(symtab_end, 4) ELSE symtab_end
      reloc == AlignUp(shndx + (IF NeedShndx THEN SymbolCount * 4 ELSE 0), WordSize)
  IN [strtab |-> sizeof_bits, symtab |-> symtab, shndx |-> shndx, reloc |-> reloc,
      sh |-> AlignUp(reloc + Total(RelocCounts) * RelaSize, WordSize)]

CodeSizes == [i \in DOMAIN code |-> code[i].val.size]
StringSizes(tab) == [i \in DOMAIN tab.strings |-> Len(tab.strings[i]) + 1]

\* The assertions that compare an offset computed beforehand with the number
\* of bytes really written.  The others compare two equal sums.
AssertionsHold(tab, at) ==
  /\ HeaderSize + Total(CodeSizes) = at.strtab
  /\ AlignUp(at.strtab + 1 + Total(StringSizes(tab)), WordSize) = at.symtab

-----------------------------------------------------------------------------
(* Section headers, in the order they are pushed *)

NullHeader ==
  Shdr(0, "NULL", {}, IF SectionCount >= SHN_LORESERVE THEN SectionCount ELSE 0, 0, 0)

\* The names of strtab and symtab are looked up by the ids 0 and 1.
StrtabHeader(tab, at) ==
  [SectionHeader(tab.offsets[tab.strings[1]], "StrTab", {}, tab.size, 0)
     EXCEPT !.offset = at.strtab]

\* Mutant: sh_info leaves out the local definitions.
SymtabHeaderNoLocals(tab, at) ==
  [SectionHeader(tab.offsets[tab.strings[2]], "SymTab", {}, SymbolCount * SymSize, 0)
     EXCEPT !.offset = at.symtab, !.link = 1, !.info = NSpecial + Len(sections)]

SymtabHeader(tab, at) ==
  [SectionHeader(tab.offsets[tab.strings[2]], "SymTab", {}, SymbolCount * SymSize, 0)
     EXCEPT !.offset = at.symtab, !.link = 1,
            !.info = NSpecial + Len(sections) + nlocals]

ShndxHeader(tab, at) ==
  [SectionHeader(tab.offsets[".symtab_shndx"], "SymTabShndx", {}, SymbolCount * 4, 0)
     EXCEPT !.offset = at.shndx, !.link = 2]

RelaHeaders(at) ==
  LET starts == Starts(at.reloc, [i \in DOMAIN relocations |-> relocations[i].val.header.size])
  IN [i \in DOMAIN relocations |-> [relocations[i].val.header EXCEPT !.offset = starts[i]]]

StackNoteHeader(tab) == SectionHeader(tab.offsets[".note.GNU-stack"], "Bits", {}, 0, 0)

Headers(tab, at) ==
  <<NullHeader, StrtabHeader(tab, at), SymtabHeader(tab, at)>>
    \o [i \in DOMAIN sections |-> sections[i].val.header]
    \o (IF NeedShndx THEN <<ShndxHeader(tab, at)>> ELSE <<>>)
    \o RelaHeaders(at) \o <<StackNoteHeader(tab)>>

-----------------------------------------------------------------------------
(* Symbols: the special ones, one per section, then the named ones *)

SectionSymbol(shndx) == Symbol(0, "SECTION", "Local", shndx, 0, 0)

\* Mutant: the first reserved index is not escaped.
ConvertedAbove(sym) ==
  IF sym.shndx > SHN_LORESERVE THEN [sym EXCEPT !.shndx = SHN_XINDEX] ELSE sym

Converted(sym) ==
  IF sym.shndx >= SHN_LORESERVE THEN [sym EXCEPT !.shndx = SHN_XINDEX] ELSE sym

Specials(tab) == SpecialSymbols(tab.offsets[artifact.name])

OrdinarySymbols ==
  [i \in DOMAIN sections |-> SectionSymbol(sections[i].val.shndx)]
    \o [i \in DOMAIN symbols |-> symbols[i].val]

Symtab(tab) ==
  Specials(tab) \o [i \in DOMAIN OrdinarySymbols |-> Converted(OrdinarySymbols[i])]

SymtabShndx(tab) ==
  IF NeedShndx
  THEN LET syms == Specials(tab) \o OrdinarySymbols IN [i \in DOMAIN syms |-> syms[i].shndx]
  ELSE <<>>

-----------------------------------------------------------------------------
(* The code, string and relocation bytes, each piece with its place *)

WrittenCode ==
  LET starts == Starts(HeaderSize, CodeSizes)
  IN [i \in DOMAIN code |-> [at |-> starts[i], of |-> code[i].val.of, size |-> code[i].val.size]]

\* Mutant: the string table does not start with a null byte.
WrittenStringsNoNull(tab, at) ==
  LET starts == Starts(at.strtab, StringSizes(tab))
  IN [i \in DOMAIN tab.strings |-> [at |-> starts[i], text |-> tab.strings[i]]]

WrittenStrings(tab, at) ==
  LET starts == Starts(at.strtab + 1, StringSizes(tab))
  IN [i \in DOMAIN tab.strings |-> [at |-> starts[i], text |-> tab.strings[i]]]

WrittenRelocs == FlattenSeq([i \in DOMAIN relocations |-> relocations[i].val.relocs])

WriteFile(tab, at) ==
  IF AssertionsHold(tab, at)
  THEN /\ status' = "written"
       /\ file' = [shnum |-> IF SectionCount >= SHN_LORESERVE THEN 0 ELSE SectionCount,
                   at |-> at,   \* e_shoff is at.sh
                   headers |-> Headers(tab, at),
                   symtab |-> Symtab(tab), xindex |-> SymtabShndx(tab),
                   strings |-> WrittenStrings(tab, at),
                   code |-> WrittenCode, relocs |-> WrittenRelocs]
  ELSE status' = "panic" /\ UNCHANGED file

Write ==
  /\ status = "building" /\ AllAdded
  /\ \E tab \in {FinalStrtab} : \E at \in {Offsets(tab)} : WriteFile(tab, at)
  /\ UNCHANGED <<artifact, pos, elf>>

\* to_bytes returns, or unwinds; the builder was consumed by write.
Return ==
  /\ status \in {"written", "panic"}
  /\ artifact' = NoArtifact /\ status' = "idle" /\ pos' = 0
  /\ strtab' = EmptyStrtab
  /\ symbols' = <<>> /\ sections' = <<>> /\ code' = <<>> /\ relocations' = <<>>
  /\ nsections' = 0 /\ nlocals' = 0 /\ sizeof_bits' = 0
  /\ file' = NoFile

Init == BuildInit /\ file = NoFile

Next ==
  \/ \E a \in Artifacts : New(a) /\ UNCHANGED file
  \/ DefinitionStep /\ UNCHANGED file
  \/ ImportStep /\ UNCHANGED file
  \/ LinkStep /\ UNCHANGED file
  \/ Write
  \/ Return

Spec == Init /\ [][Next]_vars

-----------------------------------------------------------------------------
(* Reading the file back, as a linker does: by offsets and indices alone *)

HeaderAt(n) == file.headers[n + 1]
SectionIndices == 0 .. Len(file.headers) - 1
SymbolIndices == DOMAIN file.symtab

NamedAt(offset, s) == [at |-> HeaderAt(1).offset + offset, text |-> s] \in Range(file.strings)

IndexOf(k) ==
  IF file.symtab[k].shndx = SHN_XINDEX THEN file.xindex[k] ELSE file.symtab[k].shndx

Holds(h, def) ==
  IF def.data.zero_init THEN h.type = "NOBITS"
  ELSE /\ h.type = "PROGBITS" /\ h.size = def.data.size
       /\ [at |-> h.offset, of |-> def.name, size |-> h.size] \in Range(file.code)

\* The sections whose header is named after def and holds its bytes.
Homes(def) ==
  {n \in SectionIndices : NamedAt(HeaderAt(n).name, SectionName(def)) /\ Holds(HeaderAt(n), def)}

SymbolsNamed(s) ==
  {k \in SymbolIndices : /\ file.symtab[k].type \notin {"FILE", "SECTION"}
                         /\ NamedAt(file.symtab[k].name, s)}

RelocAt(h, j) == file.relocs[((h.offset - file.at.reloc) \div RelaSize) + j]

DefOf(s) == CHOOSE def \in Range(artifact.definitions) : def.name = s

-----------------------------------------------------------------------------
(* Properties *)

\* The builder's tables agree on section indices: the i-th section has index
\* i + 2, every symbol and every relocation section refers to a section that
\* exists, and nsections counts the headers write will make.
IndicesAgree ==
  status = "building" =>
    /\ \A i \in DOMAIN sections : sections[i].val.shndx = i + 2
    /\ \A i \in DOMAIN symbols :
         symbols[i].val.shndx \in {0} \cup {sections[j].val.shndx : j \in DOMAIN sections}
    /\ \A i \in DOMAIN relocations :
         relocations[i].key \in {sections[j].val.shndx : j \in DOMAIN sections}
    /\ nsections = 4 + Len(sections) + Len(relocations)

\* Every definition of the artifact can be found in the file: one section has
\* its name and its bytes, and its symbol (or each of its section's custom
\* symbols), the only one of that name, points into that section.
DefinitionsFound ==
  status = "written" =>
    \A def \in Range(artifact.definitions) :
      \E n \in SectionIndices :
        /\ Homes(def) = {n}
        /\ IF IsSection(def.decl)
           THEN \A i \in DOMAIN def.symbols :
                  \E k \in SymbolIndices :
                    /\ SymbolsNamed(def.symbols[i].symbol) = {k}
                    /\ IndexOf(k) = n /\ file.symtab[k].value = def.symbols[i].offset
           ELSE \E k \in SymbolIndices :
                  /\ SymbolsNamed(def.name) = {k}
                  /\ IndexOf(k) = n /\ file.symtab[k].value = 0
                  /\ file.symtab[k].bind = def.decl.scope
                  /\ file.symtab[k].other = def.decl.visibility

\* The links are found again, no more and no fewer: the j-th link made from a
\* name is the j-th entry of the relocation section that applies to the name's
\* section, at the link's offset, against the target's section or import.
LinksFound ==
  status = "written" =>
    /\ Len(file.relocs) = NLinks
    /\ \A i \in 1 .. NLinks :
         LET l == artifact.links[i]
             j == Cardinality({m \in 1..i : artifact.links[m].from = l.from})
         IN \E r \in SectionIndices :
              /\ HeaderAt(r).type = "RELA" /\ HeaderAt(r).link = 2
              /\ Homes(DefOf(l.from.name)) = {HeaderAt(r).info}
              /\ j * RelaSize <= HeaderAt(r).size
              /\ LET e == RelocAt(HeaderAt(r), j)
                     k == e.sym + 1
                 IN /\ e.offset = l.at
                    /\ IF IsImport(l.to.decl)
                       THEN SymbolsNamed(l.to.name) = {k} /\ IndexOf(k) = 0
                       ELSE /\ file.symtab[k].type = "SECTION"
                            /\ Homes(DefOf(l.to.name)) = {IndexOf(k)}

\* sh_info of the symbol table is the delimiter the comment on it asks for:
\* the symbols below it are exactly the local ones.
LocalsBelowShInfo ==
  status = "written" =>
    \A k \in SymbolIndices : k - 1 < HeaderAt(2).info <=> file.symtab[k].bind = "Local"

\* The parts of the file do not overlap and end before the section headers,
\* whose number a reader learns from e_shnum or, at SHN_LORESERVE and above,
\* from the null header.  No symbol has a reserved section index, and the
\* escaped ones are resolved, through .symtab_shndx, to sections that exist.
PartsFit ==
  status = "written" =>
    /\ \A n \in SectionIndices \ {0} :
         LET h == HeaderAt(n)
         IN h.type # "NOBITS" /\ h.size > 0 =>
              /\ HeaderSize <= h.offset /\ h.offset + h.size <= file.at.sh
              /\ \A m \in 1 .. n - 1 :
                   LET g == HeaderAt(m)
                   IN g.type # "NOBITS" /\ g.size > 0 =>
                        g.offset + g.size <= h.offset \/ h.offset + h.size <= g.offset
    /\ Len(file.headers) = IF file.shnum = 0 THEN HeaderAt(0).size ELSE file.shnum
    /\ file.shnum < SHN_LORESERVE
    /\ \A k \in SymbolIndices : /\ file.symtab[k].shndx < SHN_LORESERVE
                                /\ IndexOf(k) \in SectionIndices \cup {SHN_ABS}

\* Emitting panics only on a relocation that link calls unsupported: no lookup
\* fails and no assertion of write does.
PanicsOnlyOnUnsupported ==
  status = "panic" => \E i \in 1 .. NLinks : ~Supported(artifact.links[i])

\* Zero-initialised data keeps "a given size" in its .bss section and symbol, as
\* the documentation of Data::ZeroInit says.
ZeroInitSized ==
  status = "written" =>
    \A def \in Range(artifact.definitions) : \A n \in Homes(def) :
      def.data.zero_init =>
        /\ HeaderAt(n).size = def.data.size
        /\ \A k \in SymbolsNamed(def.name) : file.symtab[k].size = def.data.size

=============================================================================
