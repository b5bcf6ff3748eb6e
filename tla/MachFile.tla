------------------------------ MODULE MachFile ------------------------------
(***************************************************************************)
(* The Mach-O backend's write (src/src/mach.rs): the load commands with    *)
(* the offsets they announce, then the bytes in the order they are really  *)
(* written.  The file is what a linker can read of it.                     *)
(***************************************************************************)
EXTENDS Mach, Layout, FiniteSets

VARIABLE file

vars == <<buildVars, file>>

NoFile == [announced |-> [symtab |-> 0, strtab |-> 0, reloc |-> 0, first |-> 0],
           actual |-> [symtab |-> 0, strtab |-> 0, reloc |-> 0],
           segment |-> [fileoff |-> 0, filesize |-> 0, vmsize |-> 0],
           headers |-> <<>>, contents |-> <<>>, symtab |-> <<>>, strings |-> <<>>,
           relocs |-> {}]

-----------------------------------------------------------------------------
(* Sizes of the structures goblin writes. *)

SegmentSize == IF Big THEN 72 ELSE 56
SectionSize == IF Big THEN 80 ELSE 68
SymtabCommandSize == 24
NlistSize == IF Big THEN 16 ELSE 12
RelocInfoSize == 8
SectNameRoom == 16

-----------------------------------------------------------------------------
(* What the load commands announce.  The assertion in write compares two   *)
(* equal sums.                                                             *)

LoadCommandSize == SegmentSize + Len(sections) * SectionSize + SymtabCommandSize

Announced ==
  LET symoff == offset + LoadCommandSize
      stroff == symoff + Len(symbols) * NlistSize
  IN [symtab |-> symoff, strtab |-> stroff, reloc |-> stroff + strtable_size,
      first |-> HeaderSize + LoadCommandSize]

NReloc(i) == Len(sections[i].val.relocations)

\* SectionBuilder::create for each section, with its two running offsets.
Headers(at) ==
  LET starts == Starts(at.first, [i \in DOMAIN sections |-> sections[i].val.size])
      relocs == Starts(at.reloc, [i \in DOMAIN sections |-> NReloc(i) * RelocInfoSize])
  IN [i \in DOMAIN sections |->
        LET s == sections[i].val
        IN [sectname |-> s.sectname, segname |-> s.segname, flags |-> s.flags, addr |-> s.addr,
            size |-> s.size, align |-> s.align, offset |-> starts[i], nreloc |-> NReloc(i),
            reloff |-> IF NReloc(i) = 0 THEN 0 ELSE relocs[i]]]

Segment(at) == [fileoff |-> at.first, filesize |-> size, vmsize |-> size + bss_size]

\* create writes the name into 16 bytes and unwraps.
NamesTooLong == \E i \in DOMAIN sections : Len(sections[i].val.sectname) > SectNameRoom

-----------------------------------------------------------------------------
(* What is written after the load commands *)

\* Mutant: n_sect counts from 0.
NlistFromZero(s) ==
  [strx |-> s.strx,
   type |-> (IF s.sym.global THEN {"EXT"} ELSE {}) \cup (IF s.sym.import THEN {} ELSE {"SECT"}),
   sect |-> IF s.sym.import THEN 0 ELSE s.sym.section,
   value |-> s.sym.absolute_offset]

\* SymbolBuilder::create
Nlist(s) ==
  [strx |-> s.strx,
   type |-> (IF s.sym.global THEN {"EXT"} ELSE {}) \cup (IF s.sym.import THEN {} ELSE {"SECT"}),
   sect |-> s.sym.section + 1,
   value |-> s.sym.absolute_offset]

WrittenDefs == groups["code"] \o groups["data"] \o groups["cstrings"] \o groups["sections"]

PadAfter(def) == IF def.name \in DOMAIN align_pad_map THEN align_pad_map[def.name] ELSE 0

\* Mutant: the padding is not written.
WrittenSizesUnpadded == [i \in DOMAIN WrittenDefs |-> WrittenDefs[i].data.size]

WrittenSizes == [i \in DOMAIN WrittenDefs |-> WrittenDefs[i].data.size + PadAfter(WrittenDefs[i])]

Contents(at) ==
  LET starts == Starts(at.first, WrittenSizes)
  IN [i \in DOMAIN WrittenDefs |->
        [at |-> starts[i], of |-> WrittenDefs[i].name, size |-> WrittenDefs[i].data.size]]

\* The strings but the first, which is the lone null byte.
WrittenNames == SubSeq(strtable, 2, Len(strtable))
NameSizes == [i \in DOMAIN WrittenNames |-> Len(WrittenNames[i]) + 2]

Actual(at) ==
  LET symoff == at.first + Total(WrittenSizes)
      stroff == symoff + Len(symbols) * NlistSize
  IN [symtab |-> symoff, strtab |-> stroff, reloc |-> stroff + 1 + Total(NameSizes)]

Strings(stroff) ==
  LET starts == Starts(stroff + 1, NameSizes)
  IN [i \in DOMAIN WrittenNames |-> [at |-> starts[i], text |-> WrittenNames[i]]]

\* Each with its place in the file, section after section.
Relocations(reloff) ==
  LET starts == Starts(reloff, [i \in DOMAIN sections |-> NReloc(i) * RelocInfoSize])
  IN UNION {{[at |-> starts[i] + (j - 1) * RelocInfoSize,
              info |-> sections[i].val.relocations[j]] : j \in 1 .. NReloc(i)} :
              i \in DOMAIN sections}

WriteFile(at, actual) ==
  file' = [announced |-> at, actual |-> actual, segment |-> Segment(at),
           headers |-> Headers(at), contents |-> Contents(at),
           symtab |-> [i \in DOMAIN symbols |-> Nlist(symbols[i])],
           strings |-> Strings(actual.strtab),
           relocs |-> Relocations(actual.reloc)]

Write ==
  /\ Building /\ AllAdded
  /\ IF NamesTooLong THEN status' = "panic" /\ UNCHANGED file
     ELSE /\ status' = "written"
          /\ \E at \in {Announced} : \E actual \in {Actual(at)} : WriteFile(at, actual)
  /\ UNCHANGED <<artifact, stage, pos, partition, symtab, segment>>

\* to_bytes returns, or unwinds.
Return ==
  /\ status \in {"written", "panic"}
  /\ artifact' = NoArtifact /\ status' = "idle" /\ stage' = 0 /\ pos' = 0
  /\ groups' = NoGroups /\ bss_size' = 0
  /\ symbols' = <<>> /\ strtable' = <<>> /\ indexes' = [n \in {} |-> 0] /\ strtable_size' = 0
  /\ sections' = <<>> /\ offset' = 0 /\ size' = 0 /\ symbol_offset' = 0
  /\ align_pad_map' = [n \in {} |-> 0] /\ open' = Opened(0)
  /\ file' = NoFile

Init == BuildInit /\ file = NoFile

Next ==
  \/ \E a \in Artifacts : New(a) /\ UNCHANGED file
  \/ BuildStep /\ UNCHANGED file
  \/ Write
  \/ Return

Spec == Init /\ [][Next]_vars

-----------------------------------------------------------------------------
(* Reading the file back, as a linker does: by offsets and ordinals alone *)

Sections == DOMAIN file.headers      \* ordinals, from 1
SymbolIndices == DOMAIN file.symtab

\* The symbols whose n_strx leads to the underscore before s.
SymbolsNamed(s) ==
  {k \in SymbolIndices :
     [at |-> file.announced.strtab + file.symtab[k].strx, text |-> s] \in Range(file.strings)}

SymbolSection(k) == file.headers[file.symtab[k].sect]

\* Where the address a symbol stands for lies in the file, by its section.
FilePlace(k) == SymbolSection(k).offset + file.symtab[k].value - SymbolSection(k).addr

Within(place, n, h) == h.offset <= place /\ place + n <= h.offset + h.size

\* The symbol k leads to the bytes of def.
LeadsTo(k, def) ==
  IF def.data.zero_init THEN "ZEROFILL" \in SymbolSection(k).flags
  ELSE /\ [at |-> FilePlace(k), of |-> def.name, size |-> def.data.size] \in Range(file.contents)
       /\ Within(FilePlace(k), def.data.size, SymbolSection(k))

CustomHomes(def) ==
  {n \in Sections : /\ file.headers[n].sectname = SectName(def.name)
                    /\ file.headers[n].segname = SegName(def.decl.kind)
                    /\ file.headers[n].size = def.data.size
                    /\ [at |-> file.headers[n].offset, of |-> def.name, size |-> def.data.size]
                         \in Range(file.contents)}

DefOf(s) == CHOOSE def \in Range(artifact.definitions) : def.name = s

RelocsOf(n) ==
  LET h == file.headers[n]
      inside == {r \in file.relocs : /\ h.nreloc > 0 /\ h.reloff <= r.at
                                     /\ r.at < h.reloff + h.nreloc * RelocInfoSize}
  IN {r.info : r \in inside}

-----------------------------------------------------------------------------
(* Properties *)

\* Every definition can be found in the file: the only symbol of its name leads,
\* through its section's address and file offset, to its bytes, and is external
\* if the definition is global, private if it is local.  A custom section is
\* there under its Mach-O name, and its own symbols point into it.
DefinitionsFound ==
  status = "written" =>
    \A def \in Range(artifact.definitions) :
      IF IsSection(def.decl)
      THEN \E n \in Sections :
             /\ CustomHomes(def) = {n}
             /\ \A i \in DOMAIN def.symbols :
                  \E k \in SymbolIndices :
                    /\ SymbolsNamed(def.symbols[i].symbol) = {k}
                    /\ file.symtab[k].sect = n /\ "EXT" \in file.symtab[k].type
                    /\ file.symtab[k].value = file.headers[n].addr + def.symbols[i].offset
      ELSE \E k \in SymbolIndices :
             /\ SymbolsNamed(def.name) = {k}
             /\ LeadsTo(k, def)
             /\ def.decl.scope # "Weak" =>
                  ("EXT" \in file.symtab[k].type <=> IsGlobal(def.decl))

\* What the load commands announce is where it was written: the symbol table,
\* the strings and the relocations; the sections' contents end where the symbol
\* table begins; and the segment covers them all, in memory the zero-initialised
\* data too.
PartsFit ==
  status = "written" =>
    /\ file.announced.symtab = file.actual.symtab
    /\ file.announced.strtab = file.actual.strtab
    /\ file.announced.reloc = file.actual.reloc
    /\ file.segment.fileoff + file.segment.filesize = file.actual.symtab
    /\ file.segment.vmsize = file.segment.filesize +
         Total([i \in 1 .. NDefs |-> LET d == artifact.definitions[i].data
                                     IN d.size - FileSize(d)])
    /\ \A n \in Sections :
         /\ file.headers[n].offset = file.segment.fileoff + file.headers[n].addr
         /\ file.headers[n].addr + file.headers[n].size <= file.segment.filesize
         /\ file.headers[n].nreloc > 0 =>
              file.headers[n].reloff + file.headers[n].nreloc * RelocInfoSize
                <= file.actual.reloc + Cardinality(file.relocs) * RelocInfoSize

\* Links the backend turns into a relocation.
Kept(l) == l.reloc.kind # "Debug" \/ ~IsSection(l.to.decl)

\* The section and the place in it where a link asks for a relocation.
LinkPlace(l) ==
  IF IsSection(l.from.decl)
  THEN LET n == CHOOSE n \in Sections : CustomHomes(DefOf(l.from.name)) = {n}
       IN <<n, l.at>>
  ELSE LET k == CHOOSE k \in SymbolIndices : SymbolsNamed(l.from.name) = {k}
       IN <<file.symtab[k].sect, file.symtab[k].value - SymbolSection(k).addr + l.at>>

\* A link is a relocation "at link.at from link.from": every link has a
\* relocation in the section that holds its origin, at the link's offset from
\* it, against the only symbol of its target, relative to the program counter
\* exactly if it comes from code; and there is no other relocation.
LinksFound ==
  status = "written" =>
    /\ Cardinality(file.relocs) = Cardinality({i \in 1 .. NLinks : Kept(artifact.links[i])})
    /\ \A i \in 1 .. NLinks :
         LET l == artifact.links[i]
             place == LinkPlace(l)
         IN Kept(l) => \E r \in RelocsOf(place[1]) :
                         /\ r.address = place[2]
                         /\ SymbolsNamed(l.to.name) = {r.symbolnum + 1}
                         /\ r.pcrel <=> l.from.decl.tag = "Function"

\* Inputs the backend says it does not support: the panics of build_relocations
\* and create, and a section name longer than a Mach-O section name.
Unsupported(a) ==
  \/ \E i \in DOMAIN a.links :
       LET l == a.links[i]
       IN \/ l.reloc.kind = "Auto" /\ (IsSection(l.from.decl) \/ IsSection(l.to.decl))
          \/ l.reloc.kind = "Raw" /\ l.reloc.addend # 0
          \/ l.reloc.kind = "Debug" /\ (~IsSection(l.from.decl) \/ l.reloc.size \notin RelocSizes)
  \/ \E i \in DOMAIN a.definitions :
       /\ IsSection(a.definitions[i].decl)
       /\ Len(SectName(a.definitions[i].name)) > SectNameRoom

\* Emitting panics only on what the backend does not support: no lookup of a
\* section or symbol fails.
PanicsOnlyOnUnsupported == status = "panic" => Unsupported(artifact)

\* The section of a definition has at least the alignment its declaration asks
\* for, "the minimal alignment" of DefinedDecl::get_align.
AlignmentKept ==
  status = "written" =>
    \A def \in Range(artifact.definitions) : \A k \in SymbolsNamed(def.name) :
      SymbolSection(k).align >= AlignExp(def.decl)

\* A weak definition, "available to all modules" as a global one is, is an
\* external symbol.
WeakIsExternal ==
  status = "written" =>
    \A def \in Range(artifact.definitions) : \A k \in SymbolsNamed(def.name) :
      ~IsSection(def.decl) /\ def.decl.scope = "Weak" => "EXT" \in file.symtab[k].type

-----------------------------------------------------------------------------
(* What the theorems ask of artifacts.  Each is something the backend does *)
(* not look at, and without which a property above fails.                  *)

DefaultNames == {DefaultSections[k].sectname : k \in 1 .. NDefault}
EmptyName == ""

\* The names of the default sections fit.
DefaultNamesShort == \A s \in DefaultNames : Len(s) <= SectNameRoom

\* No section is declared under the name of one of the default sections, which
\* it would replace.
NoDefaultNames(as) ==
  \A a \in as : \A i \in DOMAIN a.definitions :
    IsSection(a.definitions[i].decl) => a.definitions[i].name \notin DefaultNames

\* The symbols of an artifact have names, and no two the same one; the symbol
\* table ignores a name it has.
SymbolNamesDiffer(as) ==
  \A a \in as :
    /\ \A i \in DOMAIN a.definitions :
         ~IsSection(a.definitions[i].decl) => a.definitions[i].name # EmptyName
    /\ \A i \in DOMAIN a.imports : a.imports[i].name # EmptyName
    /\ \A i \in DOMAIN a.definitions : \A m \in DOMAIN a.definitions[i].symbols :
         LET s == a.definitions[i].symbols[m].symbol
         IN /\ s # EmptyName
            /\ \A j \in DOMAIN a.definitions :
                 ~IsSection(a.definitions[j].decl) => a.definitions[j].name # s
            /\ \A j \in DOMAIN a.imports : a.imports[j].name # s
            /\ \A j \in DOMAIN a.definitions : \A n \in DOMAIN a.definitions[j].symbols :
                 a.definitions[j].symbols[n].symbol = s => i = j /\ m = n

\* Sections without bytes have Mach-O names of their own: no two declared ones
\* have the same, and none has that of a default section.
EmptySectionsDiffer(as) ==
  \A a \in as : \A i \in DOMAIN a.definitions :
    IsSection(a.definitions[i].decl) /\ a.definitions[i].data.size = 0 =>
      /\ SectName(a.definitions[i].name) \notin DefaultNames
      /\ \A j \in DOMAIN a.definitions :
           /\ IsSection(a.definitions[j].decl) /\ a.definitions[j].data.size = 0
           /\ SectName(a.definitions[i].name) = SectName(a.definitions[j].name)
           => i = j

\* The relocation of a link belongs where build_relocations files it: that of an
\* automatic link comes from code or plain data, a raw one is absolute exactly if
\* it comes from data, and a debug link does not come from a definition named
\* like a default section.
LinksFiled(as) ==
  \A a \in as : \A i \in DOMAIN a.links : \A d \in DOMAIN a.definitions :
    LET l == a.links[i]
        from == a.definitions[d]
    IN l.from.name = from.name =>
         /\ l.reloc.kind = "Auto" => GroupOf(from) \notin {"cstrings", "bss"}
         /\ l.reloc.kind = "Raw" => /\ GroupOf(from) = IF Absolute(l) THEN "data" ELSE "code"
                                    /\ ~IsSection(l.to.decl)
         /\ l.reloc.kind = "Debug" => from.name \notin DefaultNames

=============================================================================
