----------------------------- MODULE MachLayout -----------------------------
(***************************************************************************)
(* What the Mach-O backend announces is where it writes it, and it panics  *)
(* on nothing but what it says it does not support, for any set of         *)
(* artifacts. The invariant says of every step how much of the file is     *)
(* laid out, and of the written file that it is made of the tables as they *)
(* were.                                                                   *)
(***************************************************************************)
EXTENDS MachProofs, EmissionLemmas

-----------------------------------------------------------------------------
(* The partition is complete *)

\* What each definition adds to bss_size.
BssSizes == [i \in 1 .. NDefs |-> LET d == artifact.definitions[i].data IN d.size - FileSize(d)]

\* The artifact is one that may be emitted; every definition the partition has
\* passed is in its group, and its zero-initialised bytes are counted.
FilingInv ==
  /\ status # "idle" => artifact \in Artifacts
  /\ \A j \in DOMAIN artifact.definitions :
       LET def == artifact.definitions[j]
       IN stage # 0 \/ j <= pos =>
            \E i \in DOMAIN groups[GroupOf(def)] : groups[GroupOf(def)][i] = def
  /\ bss_size = Ends(BssSizes)[IF stage = 0 THEN pos ELSE NDefs]

\* The sizes in memory alone are sizes.
LEMMA BssSizesType ==
  ASSUME TypeInv
  PROVE  /\ BssSizes \in Seq(Nat) /\ Len(BssSizes) = NDefs /\ NDefs \in Nat
         /\ \A i \in 1 .. NDefs :
              LET d == artifact.definitions[i].data
              IN BssSizes[i] = IF d.zero_init THEN d.size ELSE 0
<1>1. artifact.definitions \in Seq(Definition) /\ NDefs = Len(artifact.definitions)
  BY DEF TypeInv, NDefs
<1>2. NDefs \in Nat /\ \A i \in 1 .. NDefs : artifact.definitions[i] \in Definition
  BY <1>1
<1>3. \A def \in Definition :
        /\ def.data.size - FileSize(def.data) \in Nat
        /\ def.data.size - FileSize(def.data) = IF def.data.zero_init THEN def.data.size ELSE 0
  BY DEF Definition, FileSize
<1>4. \A i \in 1 .. NDefs :
        /\ BssSizes[i] \in Nat
        /\ LET d == artifact.definitions[i].data
           IN BssSizes[i] = IF d.zero_init THEN d.size ELSE 0
  BY <1>2, <1>3 DEF BssSizes
<1>5. BssSizes \in [1 .. NDefs -> Nat]
  BY <1>4 DEF BssSizes
<1>6. BssSizes \in Seq(Nat) /\ Len(BssSizes) = NDefs
  BY <1>2, <1>5
<1> QED BY <1>2, <1>4, <1>6

\* A pass of the partition files one definition and counts its bytes.
LEMMA PartitionFiles ==
  ASSUME IInv, FilingInv, PartitionStep
  PROVE  FilingInv'
<1> DEFINE def == artifact.definitions[pos + 1]
           g == GroupOf(def)
<1>1. /\ stage = 0 /\ stage' = 0 /\ pos' = pos + 1 /\ pos < NDefs
      /\ UNCHANGED <<artifact, status>>
      /\ groups' = [groups EXCEPT ![g] = Append(@, def)]
      /\ bss_size' = IF def.data.zero_init THEN bss_size + def.data.size ELSE bss_size
  BY DEF PartitionStep, Partition, At
<1>2. /\ pos \in Nat /\ artifact.definitions \in Seq(Definition)
      /\ groups \in [GroupNames -> Seq(Definition)]
  BY Zenon DEF IInv, TypeInv
<1>3. /\ NDefs \in Nat /\ DOMAIN artifact.definitions = 1 .. NDefs /\ pos + 1 \in 1 .. NDefs
      /\ \A j \in 1 .. NDefs : artifact.definitions[j] \in Definition
  BY <1>1, <1>2 DEF NDefs
<1>4. g \in GroupNames /\ \A j \in 1 .. NDefs : GroupOf(artifact.definitions[j]) \in GroupNames
  BY <1>3, GroupOfType, Zenon
<1>5. /\ \A h \in GroupNames : h # g => groups'[h] = groups[h]
      /\ groups'[g] = Append(groups[g], def)
  BY <1>1, <1>2, <1>4, Zenon
<1>6. /\ \A i \in DOMAIN groups[g] : i \in DOMAIN groups'[g] /\ groups'[g][i] = groups[g][i]
      /\ \E i \in DOMAIN groups'[g] : groups'[g][i] = def
  <2>1. groups[g] \in Seq(Definition) /\ def \in Definition
    BY <1>2, <1>3, <1>4
  <2> HIDE DEF g, def
  <2>2. /\ Len(groups[g]) \in Nat /\ DOMAIN groups[g] = 1 .. Len(groups[g])
        /\ DOMAIN Append(groups[g], def) = 1 .. Len(groups[g]) + 1
        /\ \A i \in 1 .. Len(groups[g]) : Append(groups[g], def)[i] = groups[g][i]
        /\ Append(groups[g], def)[Len(groups[g]) + 1] = def
    BY <2>1
  <2>3. Len(groups[g]) + 1 \in 1 .. Len(groups[g]) + 1
    BY <2>2
  <2> QED BY <1>5, <2>2, <2>3
<1>7. \A j \in 1 .. NDefs :
        j <= pos + 1 =>
          \E i \in DOMAIN groups'[GroupOf(artifact.definitions[j])] :
            groups'[GroupOf(artifact.definitions[j])][i] = artifact.definitions[j]
  <2> SUFFICES ASSUME NEW j \in 1 .. NDefs, j <= pos + 1
               PROVE  \E i \in DOMAIN groups'[GroupOf(artifact.definitions[j])] :
                        groups'[GroupOf(artifact.definitions[j])][i] = artifact.definitions[j]
    OBVIOUS
  <2>1. CASE j = pos + 1
    BY <1>6, <2>1, Zenon
  <2>2. CASE j <= pos
    <3>1. \E i \in DOMAIN groups[GroupOf(artifact.definitions[j])] :
            groups[GroupOf(artifact.definitions[j])][i] = artifact.definitions[j]
      BY <1>1, <1>3, <2>2, Zenon DEF FilingInv
    <3>2. CASE GroupOf(artifact.definitions[j]) = g
      <4> HIDE DEF g
      <4> QED BY <1>6, <3>1, <3>2, Zenon
    <3>3. CASE GroupOf(artifact.definitions[j]) # g
      <4> HIDE DEF g
      <4> QED BY <1>4, <1>5, <3>1, <3>3, Zenon
    <3> QED BY <3>2, <3>3, Zenon
  <2> QED BY <1>2, <1>3, <2>1, <2>2
<1>8. bss_size' = Ends(BssSizes)[pos + 1]
  <2>1. bss_size = Ends(BssSizes)[pos]
    BY <1>1 DEF FilingInv
  <2>2. /\ BssSizes \in Seq(Nat) /\ Len(BssSizes) = NDefs
        /\ BssSizes[pos + 1] = IF def.data.zero_init THEN def.data.size ELSE 0
    BY <1>3, BssSizesType, Zenon DEF IInv
  <2>3. /\ Ends(BssSizes)[pos + 1] = Ends(BssSizes)[pos] + BssSizes[pos + 1]
        /\ Ends(BssSizes)[pos] \in Nat
    BY <1>1, <1>2, <2>2, EndsStep, Zenon
  <2> QED BY <1>1, <2>1, <2>2, <2>3
<1>9. BssSizes' = BssSizes
  BY <1>1 DEF BssSizes, NDefs
<1>10. status' # "idle" => artifact' \in Artifacts
  BY <1>1 DEF FilingInv
<1>11. bss_size' = Ends(BssSizes)'[IF stage' = 0 THEN pos' ELSE NDefs']
  BY <1>1, <1>8, <1>9, Zenon
<1>12. \A j \in DOMAIN artifact'.definitions :
         LET d == artifact'.definitions[j]
         IN stage' # 0 \/ j <= pos' =>
              \E i \in DOMAIN groups'[GroupOf(d)] : groups'[GroupOf(d)][i] = d
  BY <1>1, <1>3, <1>7
<1> QED BY <1>10, <1>11, <1>12, Zenon DEF FilingInv

\* The steps after the partition leave it alone.
LEMMA FilingStays ==
  ASSUME FilingInv, stage # 0 \/ (stage = 0 /\ pos = NDefs), stage' # 0,
         TypeInv,
         status # "idle", UNCHANGED <<artifact, partition>>
  PROVE  FilingInv'
<1>1. BssSizes' = BssSizes /\ NDefs' = NDefs
  BY DEF BssSizes, NDefs
<1>2. bss_size' = Ends(BssSizes')[NDefs']
  BY <1>1 DEF FilingInv, partition
<1>3. \A j \in DOMAIN artifact.definitions : stage # 0 \/ j <= pos
  BY DEF NDefs, TypeInv
<1> QED BY <1>1, <1>2, <1>3 DEF FilingInv, partition

\* A step of Mach::new files the definitions it has looked at, and nothing else.
LEMMA FilingKeeps ==
  ASSUME IInv, FilingInv, BuildStep
  PROVE  FilingInv'
<1>1. CASE PartitionStep
  BY <1>1, PartitionFiles
<1>2. CASE StartSegment
  <2>1. stage = 0 /\ pos = NDefs /\ stage' = 1 /\ status # "idle" /\ UNCHANGED <<artifact, partition>>
    BY <1>2, Zenon DEF StartSegment, At, Building
  <2> QED BY <2>1, FilingStays DEF IInv
<1>3. CASE DefinitionStep \/ SectionStep \/ CustomStep \/ ImportStep \/ LinkStep
  <2>1. stage # 0 /\ stage' # 0 /\ status # "idle" /\ UNCHANGED <<artifact, partition>>
    <3>1. NDefault = 4
      BY DEF NDefault
    <3>2. CASE DefinitionStep
      BY <3>1, <3>2 DEF DefinitionStep, PlaceDefinition, At, InDefault, Building
    <3>3. CASE SectionStep
      BY <3>1, <3>3 DEF SectionStep, CloseSection, At, InDefault, Building
    <3>4. CASE CustomStep
      <4> DEFINE def == groups["sections"][pos + 1]
      <4>1. stage = NDefault + 1 /\ status = "building"
        BY <3>4, Zenon DEF CustomStep, Building
      <4>2. CASE open.inserted < Len(def.symbols)
        BY <3>1, <3>4, <4>1, <4>2 DEF CustomStep, InsertCustom, At
      <4>3. CASE ~(open.inserted < Len(def.symbols))
        BY <3>1, <3>4, <4>1, <4>3 DEF CustomStep, CloseCustom, At
      <4> QED BY <4>2, <4>3
    <3>5. CASE ImportStep
      BY <3>1, <3>5 DEF ImportStep, AddImport, At, Building
    <3>6. CASE LinkStep
      BY <3>1, <3>6 DEF LinkStep, AddLink, Panic, At, Building
    <3> QED BY <1>3, <3>2, <3>3, <3>4, <3>5, <3>6, Zenon
  <2> QED BY <2>1, FilingStays DEF IInv
<1> QED BY <1>1, <1>2, <1>3, Zenon DEF BuildStep

-----------------------------------------------------------------------------
(* The sections are what they are named after *)

\* What the sections made so far are made of: a custom one is named and sized by its
\* definition.
SectionsMade ==
  \A i \in DOMAIN sections :
    LET s == sections[i].val
    IN IF i \in 1 .. NDefault
       THEN s.sectname = DefaultSections[i].sectname /\ s.flags = DefaultSections[i].flags
       ELSE LET def == groups["sections"][i - NDefault]
            IN /\ s.sectname = SectName(def.name) /\ s.segname = SegName(def.decl.kind)
               /\ s.size = FileSize(def.data)

\* An entry that makes the table longer is its new last one.
LEMMA AddedSection ==
  ASSUME sections \in Seq(SectionEntry), sections' \in Seq(SectionEntry),
         Len(sections') # Len(sections),
         NEW key, NEW val, sections' = Insert(sections, key, val)
  PROVE  /\ Len(sections') = Len(sections) + 1
         /\ \A i \in 1 .. Len(sections) : sections'[i] = sections[i]
         /\ sections'[Len(sections) + 1].key = key
         /\ sections'[Len(sections) + 1].val = val
<1> DEFINE entry == [key |-> key, val |-> val]
           p == Place(sections, key)
<1>1. ~Has(sections, key)
  <2> SUFFICES ASSUME Has(sections, key)
               PROVE  FALSE
    OBVIOUS
  <2>1. sections' = [sections EXCEPT ![p] = [sections[p] EXCEPT !.val = val]]
    BY DEF Insert
  <2> HIDE DEF p
  <2>2. DOMAIN sections' = DOMAIN sections
    BY <2>1
  <2> QED BY <2>2
<1>2. sections' = Append(sections, entry)
  BY <1>1 DEF Insert
<1>3. entry.key = key /\ entry.val = val
  BY Zenon
<1> HIDE DEF entry
<1> QED
  <2>1. /\ Len(sections') = Len(sections) + 1
        /\ \A i \in 1 .. Len(sections) : sections'[i] = sections[i]
        /\ sections'[Len(sections) + 1] = entry
    BY <1>2
  <2> QED BY <1>3, <2>1

\* A relocation changes nothing else of a section.
LEMMA PushedRelocation ==
  ASSUME sections \in Seq(SectionEntry), NEW key, NEW reloc,
         PushRelocation(key, reloc)
  PROVE  /\ DOMAIN sections' = DOMAIN sections
         /\ \A i \in DOMAIN sections :
              /\ sections'[i].key = sections[i].key
              /\ sections'[i].val.sectname = sections[i].val.sectname
              /\ sections'[i].val.segname = sections[i].val.segname
              /\ sections'[i].val.flags = sections[i].val.flags
              /\ sections'[i].val.size = sections[i].val.size
              /\ sections'[i].val.addr = sections[i].val.addr
              /\ sections'[i].val.relocations =
                   IF i = Place(sections, key) THEN Append(sections[i].val.relocations, reloc)
                   ELSE sections[i].val.relocations
<1> DEFINE p == Place(sections, key)
           val == [sections[p].val EXCEPT !.relocations = Append(@, reloc)]
           more == [sections[p] EXCEPT !.val = val]
<1>1. sections' = [sections EXCEPT ![p] = more]
  BY Zenon DEF PushRelocation
<1>2. CASE p \in DOMAIN sections
  <2>1. sections[p] \in SectionEntry
    BY <1>2
  <2>2. sections[p].val \in SectionRecord
    BY <2>1 DEF SectionEntry
  <2>3. /\ val.sectname = sections[p].val.sectname /\ val.segname = sections[p].val.segname
        /\ val.flags = sections[p].val.flags /\ val.size = sections[p].val.size
        /\ val.addr = sections[p].val.addr
        /\ val.relocations = Append(sections[p].val.relocations, reloc)
    BY <2>2, Zenon DEF SectionRecord
  <2> HIDE DEF val
  <2>4. more.key = sections[p].key /\ more.val = val
    BY <2>1 DEF SectionEntry
  <2> HIDE DEF more
  <2>5. DOMAIN sections' = DOMAIN sections /\ sections'[p] = more
    <3> HIDE DEF p
    <3> QED BY <1>1, <1>2
  <2>6. \A i \in DOMAIN sections : i # p => sections'[i] = sections[i]
    <3> HIDE DEF p
    <3> QED BY <1>1
  <2> QED BY <2>3, <2>4, <2>5, <2>6, Zenon
<1>3. CASE p \notin DOMAIN sections
  <2>1. sections' = sections
    <3> HIDE DEF p, val, more
    <3> QED BY <1>1, <1>3
  <2> QED BY <1>3, <2>1
<1> QED BY <1>2, <1>3, Zenon

\* What a link does to the sections.
LEMMA LinkSections ==
  ASSUME IInv, LinkStep
  PROVE  /\ stage = NDefault + 1 /\ stage' = stage
         /\ UNCHANGED <<artifact, partition, symtab, offset, size, symbol_offset, align_pad_map, open>>
         /\ LET l == artifact.links[pos - NCustom - NImports + 1]
            IN \/ LinkPanics(l) /\ status' = "panic" /\ UNCHANGED <<sections, pos>>
               \/ ~LinkPanics(l) /\ Skipped(l) /\ status' = status /\ pos' = pos + 1
                    /\ UNCHANGED sections
               \/ /\ ~LinkPanics(l) /\ ~Skipped(l) /\ status' = status /\ pos' = pos + 1
                  /\ PushRelocation(RelocKey(l), Relocation(LinkAddress(l), indexes[l.to.name], l))
<1> DEFINE l == artifact.links[pos - NCustom - NImports + 1]
<1>1. stage = NDefault + 1 /\ (IF LinkPanics(l) THEN Panic ELSE AddLink(l) /\ At(stage, pos + 1))
  BY Zenon DEF LinkStep
<1>2. CASE LinkPanics(l)
  BY <1>1, <1>2, Zenon DEF Panic, segment
<1>3. CASE ~LinkPanics(l) /\ Skipped(l)
  BY <1>1, <1>3, Zenon DEF AddLink, At
<1>4. CASE ~LinkPanics(l) /\ ~Skipped(l)
  BY <1>1, <1>4, Zenon DEF AddLink, At
<1> QED BY <1>2, <1>3, <1>4, Zenon

\* What a pass through the loop over the custom sections does.
LEMMA CustomCases ==
  ASSUME CustomStep
  PROVE  /\ stage = NDefault + 1 /\ stage' = stage /\ pos < NCustom
         /\ UNCHANGED <<artifact, status, groups, bss_size, align_pad_map>>
         /\ LET def == groups["sections"][pos + 1]
                s == def.symbols[open.inserted + 1]
            IN \/ /\ open.inserted < Len(def.symbols)
                  /\ InsertSymbol(s.symbol,
                                  Defined(NDefault + pos, symbol_offset + s.offset, s.offset, TRUE))
                  /\ open' = [open EXCEPT !.inserted = @ + 1]
                  /\ UNCHANGED <<pos, sections, offset, size, symbol_offset>>
               \/ /\ ~(open.inserted < Len(def.symbols))
                  /\ AddSection(def.name, SectName(def.name), SegName(def.decl.kind),
                                IF def.decl.kind = "Debug" THEN {"DEBUG"} ELSE {},
                                FileSize(def.data), AlignExp(def.decl))
                  /\ symbol_offset' = symbol_offset + FileSize(def.data)
                  /\ open' = Opened(NDefault + 1) /\ pos' = pos + 1
                  /\ UNCHANGED <<symbols, strtable, indexes, strtable_size>>
<1> DEFINE def == groups["sections"][pos + 1]
<1>1. stage = NDefault + 1 /\ pos < NCustom
  BY Zenon DEF CustomStep
<1>2. CASE open.inserted < Len(def.symbols)
  BY <1>1, <1>2, Zenon DEF CustomStep, InsertCustom, At, partition
<1>3. CASE ~(open.inserted < Len(def.symbols))
  BY <1>1, <1>3, Zenon DEF CustomStep, CloseCustom, At, partition, symtab
<1> QED BY <1>2, <1>3, Zenon

\* The lengths of the table of sections around a step that adds one.
LEMMA SectionsGrow ==
  ASSUME IInv, IInv', groups' = groups, pos \in Nat,
         \/ stage \in 1 .. NDefault /\ stage' = stage + 1 /\ pos' = 0
         \/ stage = NDefault + 1 /\ stage' = stage /\ pos' = pos + 1 /\ pos < NCustom
  PROVE  /\ Len(sections') # Len(sections)
         /\ stage \in 1 .. NDefault => Len(sections) + 1 = stage
         /\ stage = NDefault + 1 => Len(sections) + 1 = NDefault + pos + 1
<1>1. Len(sections) = SectionsDone /\ Len(sections') = SectionsDone'
  BY DEF IInv, SectionsInv
<1>2. NCustom \in Nat /\ NCustom' = NCustom
  BY DEF NCustom, IInv, TypeInv, GroupNames
<1>3. CASE stage \in 1 .. NDefault /\ stage' = stage + 1 /\ pos' = 0
  <2>1. SectionsDone = stage - 1
    BY <1>3 DEF SectionsDone, NDefault
  <2>2. SectionsDone' = stage
    BY <1>2, <1>3 DEF SectionsDone, NDefault
  <2> QED BY <1>1, <1>3, <2>1, <2>2 DEF NDefault
<1>4. CASE stage = NDefault + 1 /\ stage' = stage /\ pos' = pos + 1 /\ pos < NCustom
  <2>1. SectionsDone = NDefault + pos /\ SectionsDone' = NDefault + pos + 1
    BY <1>2, <1>4 DEF SectionsDone, NDefault
  <2> QED BY <1>1, <1>4, <2>1 DEF NDefault
<1> QED BY <1>3, <1>4

\* The sections made are left as they are but for their relocations.
LEMMA SectionsMadeKeeps ==
  ASSUME IInv, IInv', SectionsMade, BuildStep
  PROVE  SectionsMade'
<1>1. /\ sections \in Seq(SectionEntry) /\ sections' \in Seq(SectionEntry)
      /\ pos \in Nat /\ NDefault = 4
  BY DEF IInv, TypeInv, NDefault
<1>2. CASE PartitionStep
  <2>1. sections' = sections /\ stage = 0
    BY <1>2 DEF PartitionStep, Partition, segment
  <2>2. DOMAIN sections = {}
    BY <1>1, <2>1 DEF IInv, SectionsInv, SectionsDone
  <2> QED BY <2>1, <2>2, Zenon DEF SectionsMade
<1>3. CASE UNCHANGED <<sections, groups>>
  BY <1>3 DEF SectionsMade
<1>4. CASE StartSegment
  <2>1. UNCHANGED <<sections, groups>>
    BY <1>4, Zenon DEF StartSegment, partition
  <2> QED BY <1>3, <2>1
<1>5. CASE DefinitionStep
  BY <1>3, <1>5, Zenon DEF DefinitionStep, PlaceDefinition, partition
<1>6. CASE SectionStep
  <2> DEFINE d == DefaultSections[stage]
             n == Len(sections)
  <2>1. /\ stage \in 1 .. NDefault /\ stage' = stage + 1 /\ pos' = 0 /\ groups' = groups
        /\ AddSection(d.sectname, d.sectname, d.segname, d.flags, open.size, open.exponent)
    BY <1>6 DEF SectionStep, CloseSection, At, partition, InDefault
  <2>2. Len(sections') # Len(sections) /\ n + 1 = stage
    BY <1>1, <2>1, SectionsGrow, Zenon
  <2>3. /\ Len(sections') = n + 1
        /\ \A i \in 1 .. n : sections'[i] = sections[i]
        /\ sections'[n + 1].val.sectname = d.sectname /\ sections'[n + 1].val.flags = d.flags
    <3> DEFINE val == [sectname |-> d.sectname, segname |-> d.segname, flags |-> d.flags,
                       size |-> open.size, addr |-> size, align |-> open.exponent,
                       relocations |-> <<>>]
    <3>1. sections' = Insert(sections, d.sectname, val)
      BY <2>1 DEF AddSection
    <3>2. val.sectname = d.sectname /\ val.flags = d.flags
      OBVIOUS
    <3> HIDE DEF val, d
    <3> QED BY <1>1, <2>2, <3>1, <3>2, AddedSection, Zenon
  <2>4. n \in Nat /\ DOMAIN sections = 1 .. n /\ DOMAIN sections' = 1 .. n + 1
    BY <1>1, <2>3
  <2> HIDE DEF n
  <2>5. \A i \in 1 .. n + 1 : i \in 1 .. n \/ (i = stage /\ i \in 1 .. NDefault)
    BY <2>1, <2>2, <2>4
  <2> QED BY <2>1, <2>2, <2>3, <2>4, <2>5, Zenon DEF SectionsMade
<1>7. CASE CustomStep
  <2> DEFINE def == groups["sections"][pos + 1]
             n == Len(sections)
  <2>1. stage = NDefault + 1 /\ stage' = stage /\ pos < NCustom /\ groups' = groups
    BY <1>7, CustomCases
  <2>2. CASE UNCHANGED sections
    BY <1>3, <2>1, <2>2, Zenon
  <2>3. CASE /\ pos' = pos + 1
             /\ \E flags :
                  AddSection(def.name, SectName(def.name), SegName(def.decl.kind), flags,
                             FileSize(def.data), AlignExp(def.decl))
    <3>1. Len(sections') # Len(sections) /\ n + 1 = NDefault + pos + 1
      BY <1>1, <2>1, <2>3, SectionsGrow, Zenon
    <3>2. /\ Len(sections') = n + 1
          /\ \A i \in 1 .. n : sections'[i] = sections[i]
          /\ sections'[n + 1].val.sectname = SectName(def.name)
          /\ sections'[n + 1].val.segname = SegName(def.decl.kind)
          /\ sections'[n + 1].val.size = FileSize(def.data)
      <4>1. PICK flags :
              AddSection(def.name, SectName(def.name), SegName(def.decl.kind), flags,
                         FileSize(def.data), AlignExp(def.decl))
        BY <2>3, Zenon
      <4> DEFINE val == [sectname |-> SectName(def.name), segname |-> SegName(def.decl.kind),
                         flags |-> flags, size |-> FileSize(def.data), addr |-> size,
                         align |-> AlignExp(def.decl), relocations |-> <<>>]
      <4>2. sections' = Insert(sections, def.name, val)
        BY <4>1, Zenon DEF AddSection
      <4>3. /\ val.sectname = SectName(def.name) /\ val.segname = SegName(def.decl.kind)
            /\ val.size = FileSize(def.data)
        BY Zenon
      <4> HIDE DEF def, val
      <4> QED BY <1>1, <3>1, <4>2, <4>3, AddedSection, Zenon
    <3>3. n \in Nat /\ DOMAIN sections = 1 .. n /\ DOMAIN sections' = 1 .. n + 1
      BY <1>1, <3>2
    <3> HIDE DEF n
    <3>4. \A i \in 1 .. n + 1 :
            i \in 1 .. n \/ (i = n + 1 /\ i \notin 1 .. NDefault /\ i - NDefault = pos + 1)
      BY <1>1, <3>1, <3>3
    <3> QED BY <2>1, <3>2, <3>3, <3>4, Zenon DEF SectionsMade
  <2> QED BY <1>7, <2>2, <2>3, CustomCases, Zenon
<1>8. CASE ImportStep
  BY <1>3, <1>8, Zenon DEF ImportStep, AddImport, partition, segment
<1>9. CASE LinkStep
  <2>1. groups' = groups
    BY <1>9, LinkSections, Zenon DEF partition
  <2>2. CASE UNCHANGED sections
    BY <1>3, <2>1, <2>2, Zenon
  <2>3. CASE \E key, reloc : PushRelocation(key, reloc)
    BY <1>1, <2>1, <2>3, PushedRelocation DEF SectionsMade
  <2> QED BY <1>9, <2>2, <2>3, LinkSections, Zenon
<1> QED BY <1>2, <1>4, <1>5, <1>6, <1>7, <1>8, <1>9, Zenon DEF BuildStep

-----------------------------------------------------------------------------
(* Panics *)

\* Every custom section is in the table once the loop over them is done.
LEMMA CustomSectionsThere ==
  ASSUME IInv, FilingInv, stage = NDefault + 1, ~(pos < NCustom),
         NEW j \in DOMAIN artifact.definitions, IsSection(artifact.definitions[j].decl)
  PROVE  \E c \in DOMAIN groups["sections"] :
           /\ groups["sections"][c] = artifact.definitions[j]
           /\ NDefault + c \in DOMAIN sections
           /\ sections[NDefault + c].key = artifact.definitions[j].name
<1> DEFINE def == artifact.definitions[j]
<1>1. /\ SectionsInv /\ NCustom \in Nat /\ pos \in Nat
      /\ Len(sections) = NDefault + NCustom
      /\ sections \in Seq(SectionEntry) /\ groups["sections"] \in Seq(Definition)
  BY LateFacts DEF TypeInv, GroupNames
<1>2. GroupOf(def) = "sections"
  BY Zenon DEF GroupOf, IsSection
<1>3. PICK c \in DOMAIN groups["sections"] : groups["sections"][c] = def
  BY <1>2 DEF FilingInv, NDefault
<1>4. /\ c \in 1 .. NCustom /\ NDefault + c \in DOMAIN sections
      /\ ~(NDefault + c <= NDefault) /\ (NDefault + c) - NDefault = c
  BY <1>1 DEF NCustom, NDefault
<1>5. sections[NDefault + c].key = def.name
  <2> DEFINE i == NDefault + c
  <2>1. i \in DOMAIN sections /\ ~(i <= NDefault) /\ i - NDefault = c
    BY <1>4, Zenon
  <2> HIDE DEF i
  <2>2. SectionKey(i) = groups["sections"][c].name
    BY <2>1, Zenon DEF SectionKey
  <2>3. sections[i].key = groups["sections"][c].name
    BY <1>1, <2>1, <2>2, Zenon DEF SectionsInv
  <2> QED BY <1>3, <2>3, Zenon DEF i
<1> QED BY <1>3, <1>4, <1>5, Zenon

\* What the next link is.
LEMMA NextLink ==
  ASSUME IInv, LinkStep
  PROVE  /\ pos - NCustom - NImports + 1 \in DOMAIN artifact.links
         /\ artifact.links[pos - NCustom - NImports + 1] \in Link
         /\ stage = NDefault + 1 /\ ~(pos < NCustom) /\ NImports \in Nat /\ NCustom \in Nat
         /\ pos \in Nat /\ NLinks \in Nat /\ status = "building"
         /\ pos >= NCustom + NImports /\ pos < NCustom + NImports + NLinks
<1>1. /\ stage = NDefault + 1 /\ status = "building"
      /\ pos \in NCustom + NImports .. NCustom + NImports + NLinks - 1
  BY DEF LinkStep, Building
<1>2. /\ pos \in Nat /\ NCustom \in Nat /\ artifact.links \in Seq(Link)
      /\ artifact.imports \in Seq(Import)
  BY <1>1, LateFacts, Zenon DEF TypeInv
<1>3. PICK c \in Nat, i \in Nat, n \in Nat : c = NCustom /\ i = NImports /\ n = NLinks
  BY <1>2 DEF NImports, NLinks
<1>4. pos - c - i + 1 \in 1 .. n /\ ~(pos < c) /\ pos >= c + i /\ pos < c + i + n
  BY <1>1, <1>2, <1>3
<1>5. DOMAIN artifact.links = 1 .. n
  BY <1>2, <1>3 DEF NLinks
<1> QED BY <1>1, <1>2, <1>3, <1>4, <1>5

\* A link panics only if it is of a kind the backend does not support: the
\* section of a debug link's origin is found.
LEMMA LinkPanicsUnsupported ==
  ASSUME IInv, FilingInv, LinkStep,
         LinkPanics(artifact.links[pos - NCustom - NImports + 1])
  PROVE  Unsupported(artifact)
<1> DEFINE i == pos - NCustom - NImports + 1
           l == artifact.links[i]
<1>1. i \in DOMAIN artifact.links /\ l \in Link /\ stage = NDefault + 1 /\ ~(pos < NCustom)
  BY NextLink, Zenon
<1>2. l.reloc.kind = "Auto" \/ l.reloc.kind = "Raw" \/ l.reloc.kind = "Debug"
  BY <1>1, Zenon DEF Link, Reloc
<1>3. artifact \in Artifacts
  BY NextLink, Zenon DEF FilingInv
<1>5. PICK j \in DOMAIN artifact.definitions :
        l.from.name = artifact.definitions[j].name /\ l.from.decl = artifact.definitions[j].decl
  BY <1>1, <1>3, ArtifactsAssumption, EmittableFacts
<1>6. IsSection(l.from.decl) => Has(sections, l.from.name)
  BY <1>1, <1>5, CustomSectionsThere, Zenon DEF Has
<1>7. LinkPanics(l)
  BY Zenon
<1> HIDE DEF i, l
<1>8. CASE l.reloc.kind = "Auto"
  BY <1>1, <1>7, <1>8, Zenon DEF LinkPanics, Unsupported, l
<1>9. CASE l.reloc.kind = "Raw"
  BY <1>1, <1>7, <1>9, Zenon DEF LinkPanics, Unsupported, l
<1>10. CASE l.reloc.kind = "Debug"
  <2>1. l.reloc.size \notin RelocSizes \/ ~IsSection(l.from.decl)
    BY <1>6, <1>7, <1>10, Zenon DEF LinkPanics
  <2> QED BY <1>1, <1>10, <2>1, Zenon DEF Unsupported, l
<1> QED BY <1>2, <1>8, <1>9, <1>10, Zenon

\* A section name is too long only if it is the name of a declared section.
LEMMA LongNamesUnsupported ==
  ASSUME DefaultNamesShort, IInv, SectionsMade, NamesTooLong, AllAdded
  PROVE  Unsupported(artifact)
<1>1. PICK i \in DOMAIN sections : Len(sections[i].val.sectname) > SectNameRoom
  BY DEF NamesTooLong
<1>2. i \notin 1 .. NDefault
  <2> SUFFICES ASSUME i \in 1 .. NDefault
               PROVE  FALSE
    OBVIOUS
  <2>1. sections[i].val.sectname = DefaultSections[i].sectname
    BY DEF SectionsMade
  <2>2. Len(DefaultSections[i].sectname) <= SectNameRoom
    BY DefaultFacts DEF DefaultNamesShort
  <2>3. PICK m : m = Len(DefaultSections[i].sectname)
    BY Zenon
  <2>4. m > SectNameRoom /\ m <= SectNameRoom /\ m \in Nat
    BY <1>1, <2>1, <2>2, <2>3
  <2> QED BY <2>4 DEF SectNameRoom
<1>3. sections[i].val.sectname = SectName(groups["sections"][i - NDefault].name)
  BY <1>2 DEF SectionsMade
<1>4. i - NDefault \in DOMAIN groups["sections"]
  <2>1. stage = NDefault + 1
    BY DEF AllAdded
  <2>2. /\ Len(sections) = NDefault + (IF pos < NCustom THEN pos ELSE NCustom)
        /\ pos \in Nat /\ NCustom \in Nat /\ TypeInv
    BY <2>1, LateFacts, Zenon
  <2>3. sections \in Seq(SectionEntry) /\ groups["sections"] \in Seq(Definition)
    BY <2>2 DEF TypeInv, GroupNames
  <2>4. DOMAIN sections = 1 .. Len(sections) /\ DOMAIN groups["sections"] = 1 .. NCustom
    BY <2>3 DEF NCustom
  <2> QED BY <1>2, <2>2, <2>4 DEF NDefault
<1> "sections" \in GroupNames
  BY DEF GroupNames
<1>5. PICK j \in DOMAIN artifact.definitions :
        groups["sections"][i - NDefault] = artifact.definitions[j]
  BY <1>4, GroupMember, Zenon DEF IInv
<1>6. IsSection(artifact.definitions[j].decl)
  <2>1. GroupOf(groups["sections"][i - NDefault]) = "sections"
    BY <1>4, GroupMember, Zenon DEF IInv
  <2>2. artifact.definitions[j] \in Definition
    BY DEF IInv, TypeInv
  <2> QED BY <1>5, <2>1, <2>2, GroupOfType
<1> QED BY <1>1, <1>3, <1>5, <1>6, Zenon DEF Unsupported

\* A step of Mach::new panics on what is not supported only.
LEMMA BuildPanics ==
  ASSUME IInv, FilingInv, BuildStep, status' = "panic"
  PROVE  Unsupported(artifact')
<1>1. status = "building"
  BY DEF BuildStep, PartitionStep, StartSegment, DefinitionStep, SectionStep, CustomStep,
         ImportStep, LinkStep, Building
<1>2. CASE LinkStep
  <2> DEFINE l == artifact.links[pos - NCustom - NImports + 1]
  <2>1. artifact' = artifact /\ LinkPanics(l)
    BY <1>1, <1>2, LinkSections
  <2> QED BY <1>2, <2>1, LinkPanicsUnsupported
<1>3. CASE PartitionStep \/ StartSegment \/ DefinitionStep \/ SectionStep \/ CustomStep \/ ImportStep
  <2>1. status' = status
    <3>1. CASE CustomStep
      BY <3>1, CustomCases, Zenon
    <3> QED BY <1>3, <3>1 DEF PartitionStep, StartSegment, DefinitionStep, SectionStep, ImportStep, At
  <2> QED BY <1>1, <2>1
<1> QED BY <1>2, <1>3 DEF BuildStep

-----------------------------------------------------------------------------
(* The definitions in the order they are written *)

\* w is s and then t.
Joined(S, w, s, t) ==
  /\ w \in Seq(S) /\ Len(w) = Len(s) + Len(t)
  /\ \A i \in 1 .. Len(s) : w[i] = s[i]
  /\ \A i \in 1 .. Len(t) : w[Len(s) + i] = t[i]

\* What concatenation returns, for sequences over any set.
LEMMA ConcatTwo ==
  ASSUME NEW S, NEW s \in Seq(S), NEW t \in Seq(S)
  PROVE  Joined(S, s \o t, s, t)
BY DEF Joined

\* The definitions of a default section, or after them the custom sections.
NameAt(k) == IF k \in 1 .. NDefault THEN DefaultSections[k].group ELSE "sections"
GroupAt(k) == groups[NameAt(k)]

\* The names of the groups, in the order of the sections.
LEMMA NamesAt ==
  /\ NameAt(1) = "code" /\ NameAt(2) = "data" /\ NameAt(3) = "cstrings" /\ NameAt(4) = "bss"
  /\ NameAt(5) = "sections"
BY DEF NameAt, NDefault, DefaultSections

\* Each name is the name of one group.
LEMMA NameAtFacts ==
  ASSUME NEW k \in 1 .. NDefault + 1
  PROVE  /\ NameAt(k) \in GroupNames
         /\ NameAt(k) = "bss" <=> k = 4
         /\ NameAt(k) = "sections" <=> k = NDefault + 1
<1>1. (k = 1 \/ k = 2 \/ k = 3 \/ k = 4 \/ k = 5) /\ NDefault = 4
  BY DEF NDefault
<1> QED BY <1>1, NamesAt DEF GroupNames

\* The definitions of a section are definitions.
LEMMA GroupAtType ==
  ASSUME TypeInv, NEW k \in 1 .. NDefault + 1
  PROVE  /\ GroupAt(k) \in Seq(Definition)
         /\ \A j \in DOMAIN GroupAt(k) : j \in Nat /\ GroupAt(k)[j] \in Definition
<1>1. groups \in [GroupNames -> Seq(Definition)]
  BY Zenon DEF TypeInv
<1>2. GroupAt(k) \in Seq(Definition)
  BY <1>1, NameAtFacts, Zenon DEF GroupAt
<1> QED BY <1>2

\* The section being built has the definitions of its group.
LEMMA GroupNow ==
  ASSUME TypeInv, stage \in 1 .. NDefault
  PROVE  GroupAt(stage) = Group /\ Group \in Seq(Definition)
<1>1. GroupAt(stage) = Group
  BY Zenon DEF GroupAt, NameAt, Group, DefaultGroup
<1>2. DefaultGroup(stage) \in Seq(Definition)
  BY DefinitionTypes, Zenon
<1> QED BY <1>1, <1>2, Zenon DEF Group

\* How many definitions are written before those; zero-initialised ones are not.
BaseIn(g, k) ==
  (IF k > 1 THEN Len(g["code"]) ELSE 0) + (IF k > 2 THEN Len(g["data"]) ELSE 0)
    + (IF k > 3 THEN Len(g["cstrings"]) ELSE 0)
\* The same for the groups as they are.
Base(k) == BaseIn(groups, k)

\* The groups that are written: all but the zero-initialised one.
Written == {1, 2, 3, 5}

\* Where the definitions of a group are among the written ones.
LEMMA WrittenFacts ==
  ASSUME TypeInv
  PROVE  /\ WrittenDefs \in Seq(Definition)
         /\ Len(WrittenDefs) = Base(5) + Len(groups["sections"])
         /\ \A k \in Written : Base(k) \in Nat /\ GroupAt(k) \in Seq(Definition)
         /\ \A k \in Written : \A j \in DOMAIN GroupAt(k) :
              /\ Base(k) + j \in DOMAIN WrittenDefs
              /\ WrittenDefs[Base(k) + j] = GroupAt(k)[j]
         /\ \A i \in DOMAIN WrittenDefs : \E k \in Written : \E j \in DOMAIN GroupAt(k) : i = Base(k) + j
<1> DEFINE a == groups["code"]
           b == groups["data"]
           c == groups["cstrings"]
           d == groups["sections"]
<1>1. a \in Seq(Definition) /\ b \in Seq(Definition) /\ c \in Seq(Definition) /\ d \in Seq(Definition)
  BY DEF TypeInv, GroupNames
<1>2. GroupAt(1) = a /\ GroupAt(2) = b /\ GroupAt(3) = c /\ GroupAt(5) = d
  BY NamesAt, Zenon DEF GroupAt
<1>3. WrittenDefs = a \o b \o c \o d
  BY DEF WrittenDefs
<1> HIDE DEF a, b, c, d
<1>4. Len(a) \in Nat /\ Len(b) \in Nat /\ Len(c) \in Nat /\ Len(d) \in Nat
  BY <1>1
<1>5. PICK na \in Nat, nb \in Nat, nc \in Nat, nd \in Nat :
        na = Len(a) /\ nb = Len(b) /\ nc = Len(c) /\ nd = Len(d)
  BY <1>4
<1>6. Base(1) = 0 /\ Base(2) = na /\ Base(3) = na + nb /\ Base(5) = na + nb + nc
  BY <1>5 DEF Base, BaseIn, a, b, c
<1> DEFINE W == a \o b \o c \o d
<1>7. /\ W \in Seq(Definition)
      /\ Len(W) = na + nb + nc + nd
      /\ \A i \in 1 .. na : W[i] = a[i]
      /\ \A i \in 1 .. nb : W[na + i] = b[i]
      /\ \A i \in 1 .. nc : W[na + nb + i] = c[i]
      /\ \A i \in 1 .. nd : W[na + nb + nc + i] = d[i]
  <2> DEFINE x == a \o b
             y == x \o c
  <2>1. Joined(Definition, x, a, b)
    BY <1>1, ConcatTwo, Zenon
  <2>2. x \in Seq(Definition)
    BY <2>1 DEF Joined
  <2> HIDE DEF x
  <2>3. Joined(Definition, y, x, c)
    BY <1>1, <2>2, ConcatTwo, Zenon
  <2>4. y \in Seq(Definition)
    BY <2>3, Zenon DEF Joined
  <2> HIDE DEF y
  <2>5. Joined(Definition, y \o d, y, d)
    BY <1>1, <2>4, ConcatTwo, Zenon
  <2>6. Joined(Definition, W, y, d)
    BY <2>5, Zenon DEF W, x, y
  <2> HIDE DEF W
  <2>7. Len(x) = na + nb /\ Len(y) = na + nb + nc /\ Len(W) = na + nb + nc + nd
    BY <1>5, <2>1, <2>3, <2>6, Zenon DEF Joined
  <2>8. \A i \in 1 .. na : i \in 1 .. na + nb /\ i \in 1 .. na + nb + nc
    OBVIOUS
  <2>9. \A i \in 1 .. nb : na + i \in 1 .. na + nb /\ na + i \in 1 .. na + nb + nc
    OBVIOUS
  <2>10. \A i \in 1 .. nc : na + nb + i \in 1 .. na + nb + nc
    OBVIOUS
  <2>11. \A i \in 1 .. na : W[i] = a[i]
    BY <1>5, <2>1, <2>3, <2>6, <2>7, <2>8, Zenon DEF Joined
  <2>12. \A i \in 1 .. nb : W[na + i] = b[i]
    BY <1>5, <2>1, <2>3, <2>6, <2>7, <2>9, Zenon DEF Joined
  <2>13. \A i \in 1 .. nc : W[na + nb + i] = c[i]
    BY <1>5, <2>3, <2>6, <2>7, <2>10 DEF Joined
  <2>14. W \in Seq(Definition) /\ \A i \in 1 .. nd : W[na + nb + nc + i] = d[i]
    BY <1>5, <2>6, <2>7, Zenon DEF Joined
  <2> QED BY <2>7, <2>11, <2>12, <2>13, <2>14, Zenon
<1> HIDE DEF W
<1>8. /\ DOMAIN a = 1 .. na /\ DOMAIN b = 1 .. nb /\ DOMAIN c = 1 .. nc /\ DOMAIN d = 1 .. nd
      /\ DOMAIN W = 1 .. na + nb + nc + nd
  BY <1>1, <1>5, <1>7
<1>9. W = WrittenDefs
  BY <1>3, Zenon DEF W
<1>10. \A k \in Written : Base(k) \in Nat /\ GroupAt(k) \in Seq(Definition)
  BY <1>1, <1>2, <1>6 DEF Written
<1>11. ASSUME NEW k \in Written, NEW j \in DOMAIN GroupAt(k)
       PROVE  Base(k) + j \in DOMAIN WrittenDefs /\ WrittenDefs[Base(k) + j] = GroupAt(k)[j]
  <2>1. CASE k = 1
    BY <1>2, <1>6, <1>7, <1>8, <1>9, <2>1
  <2>2. CASE k = 2
    BY <1>2, <1>6, <1>7, <1>8, <1>9, <2>2
  <2>3. CASE k = 3
    BY <1>2, <1>6, <1>7, <1>8, <1>9, <2>3
  <2>4. CASE k = 5
    BY <1>2, <1>6, <1>7, <1>8, <1>9, <2>4
  <2> QED BY <2>1, <2>2, <2>3, <2>4, Zenon DEF Written
<1>12. ASSUME NEW i \in DOMAIN WrittenDefs
       PROVE  \E k \in Written : \E j \in DOMAIN GroupAt(k) : i = Base(k) + j
  <2>0. i \in 1 .. na + nb + nc + nd
    BY <1>8, <1>9, Zenon
  <2>1. CASE i <= na
    <3>1. i \in DOMAIN GroupAt(1) /\ i = Base(1) + i
      BY <1>2, <1>6, <1>8, <2>0, <2>1
    <3> QED BY <3>1, Zenon DEF Written
  <2>2. CASE na < i /\ i <= na + nb
    <3>1. i - na \in DOMAIN GroupAt(2) /\ i = Base(2) + (i - na)
      BY <1>2, <1>6, <1>8, <2>0, <2>2
    <3> QED BY <3>1, Zenon DEF Written
  <2>3. CASE na + nb < i /\ i <= na + nb + nc
    <3>1. i - (na + nb) \in DOMAIN GroupAt(3) /\ i = Base(3) + (i - (na + nb))
      BY <1>2, <1>6, <1>8, <2>0, <2>3
    <3> QED BY <3>1, Zenon DEF Written
  <2>4. CASE na + nb + nc < i
    <3>1. i - (na + nb + nc) \in DOMAIN GroupAt(5) /\ i = Base(5) + (i - (na + nb + nc))
      BY <1>2, <1>6, <1>8, <2>0, <2>4
    <3> QED BY <3>1, Zenon DEF Written
  <2> QED BY <2>0, <2>1, <2>2, <2>3, <2>4
<1>13. Len(WrittenDefs) = Base(5) + Len(groups["sections"])
  BY <1>5, <1>6, <1>7, <1>9, Zenon DEF d
<1> QED BY <1>7, <1>9, <1>10, <1>11, <1>12, <1>13, Zenon

\* Definitions that are different, or in different groups, have different names.
LEMMA NamesDiffer ==
  ASSUME GroupsInv, NEW k \in 1 .. NDefault + 1, NEW l \in 1 .. NDefault + 1,
         NEW i \in DOMAIN GroupAt(k), NEW j \in DOMAIN GroupAt(l),
         GroupAt(k)[i].name = GroupAt(l)[j].name
  PROVE  k = l /\ i = j
<1>1. NameAt(k) \in GroupNames /\ NameAt(l) \in GroupNames
  BY NameAtFacts, Zenon
<1>2. NameAt(k) = NameAt(l) /\ i = j
  BY <1>1, GroupsDiffer DEF GroupAt
<1>3. k \in {1, 2, 3, 4, 5} /\ l \in {1, 2, 3, 4, 5}
  BY DEF NDefault
<1> QED BY <1>2, <1>3, NamesAt

\* No two written definitions have the same name, and no zero-initialised
\* definition has the name of a written one.
LEMMA WrittenDiffer ==
  ASSUME TypeInv, GroupsInv
  PROVE  /\ \A i, j \in DOMAIN WrittenDefs : WrittenDefs[i].name = WrittenDefs[j].name => i = j
         /\ \A i \in DOMAIN WrittenDefs, j \in DOMAIN GroupAt(4) :
              WrittenDefs[i].name # GroupAt(4)[j].name
<1>1. \A k \in Written : k \in 1 .. NDefault + 1 /\ k # 4
  BY DEF Written, NDefault
<1>2. ASSUME NEW i \in DOMAIN WrittenDefs, NEW j \in DOMAIN WrittenDefs,
             WrittenDefs[i].name = WrittenDefs[j].name
      PROVE  i = j
  <2>0. PICK k \in Written : \E p \in DOMAIN GroupAt(k) : i = Base(k) + p
    BY WrittenFacts, Zenon
  <2>1. PICK p \in DOMAIN GroupAt(k) : i = Base(k) + p
    BY <2>0, Zenon
  <2>10. PICK l \in Written : \E q \in DOMAIN GroupAt(l) : j = Base(l) + q
    BY WrittenFacts
  <2>2. PICK q \in DOMAIN GroupAt(l) : j = Base(l) + q
    BY <2>10, Zenon
  <2>3. GroupAt(k)[p].name = GroupAt(l)[q].name
    BY <1>2, <2>1, <2>2, WrittenFacts, Zenon
  <2>4. k = l /\ p = q
    BY <1>1, <2>3, NamesDiffer
  <2> QED BY <2>1, <2>2, <2>4
<1>3. ASSUME NEW i \in DOMAIN WrittenDefs, NEW j \in DOMAIN GroupAt(4),
             WrittenDefs[i].name = GroupAt(4)[j].name
      PROVE  FALSE
  <2>0. PICK k \in Written : \E p \in DOMAIN GroupAt(k) : i = Base(k) + p
    BY WrittenFacts
  <2>1. PICK p \in DOMAIN GroupAt(k) : i = Base(k) + p
    BY <2>0, Zenon
  <2>2. GroupAt(k)[p].name = GroupAt(4)[j].name
    BY <1>3, <2>1, WrittenFacts, Zenon
  <2>3. 4 \in 1 .. NDefault + 1
    BY DEF NDefault
  <2> QED BY <1>1, <2>2, <2>3, NamesDiffer
<1> QED BY <1>2, <1>3

-----------------------------------------------------------------------------
(* What is laid out is what is written *)

\* The build functions are done with the j-th definition of the k-th section.
Laid(k, j) == stage > k \/ (stage = k /\ j <= pos)

\* How many of the written definitions are laid out.
WrittenSoFar ==
  Base(stage) + (IF stage <= 3 THEN pos
                 ELSE IF stage = 4 THEN 0
                 ELSE IF pos < NCustom THEN pos ELSE NCustom)

\* Padding is recorded for definitions that are laid out.
PadsKnown ==
  \A n \in DOMAIN align_pad_map :
    /\ align_pad_map[n] \in Nat
    /\ \E k \in 1 .. NDefault : \E j \in DOMAIN GroupAt(k) : Laid(k, j) /\ GroupAt(k)[j].name = n

\* What is laid out ends where the bytes written for it will end, and the
\* section of zero-initialised data has none.
OffsetInv ==
  /\ stage > 0 => symbol_offset = Ends(WrittenSizes)[WrittenSoFar]
  /\ stage = 4 => open.size = 0

\* The sizes written are sizes.
SizesWritten ==
  /\ WrittenSizes \in Seq(Nat) /\ Len(WrittenSizes) = Len(WrittenDefs)
  /\ Len(WrittenDefs) \in Nat
  /\ \A i \in DOMAIN WrittenDefs :
       WrittenSizes[i] = WrittenDefs[i].data.size + PadAfter(WrittenDefs[i])

\* The sizes written are sizes.
LEMMA WrittenSizesType == TypeInv /\ PadsKnown => SizesWritten
<1> SUFFICES ASSUME TypeInv, PadsKnown
             PROVE  SizesWritten
  OBVIOUS
<1>1. WrittenDefs \in Seq(Definition)
  BY WrittenFacts, Zenon
<1>2. \A def \in Definition : def.data.size + PadAfter(def) \in Nat
  BY DEF PadsKnown, PadAfter, Definition
<1>3. /\ DOMAIN WrittenDefs = 1 .. Len(WrittenDefs) /\ Len(WrittenDefs) \in Nat
      /\ \A i \in DOMAIN WrittenDefs : WrittenDefs[i] \in Definition
  BY <1>1
<1> DEFINE n == Len(WrittenDefs)
<1>4. WrittenSizes \in [1 .. n -> Nat]
  BY <1>2, <1>3, Zenon DEF WrittenSizes
<1>5. \A i \in DOMAIN WrittenDefs :
        WrittenSizes[i] = WrittenDefs[i].data.size + PadAfter(WrittenDefs[i])
  BY DEF WrittenSizes
<1> HIDE DEF n
<1>6. n \in Nat
  BY <1>3 DEF n
<1>7. WrittenSizes \in Seq(Nat) /\ Len(WrittenSizes) = n
  BY <1>4, <1>6
<1> QED BY <1>3, <1>5, <1>7, Zenon DEF n, SizesWritten

\* The paddings stay known when nothing of them changes.
LEMMA PadsStay ==
  ASSUME PadsKnown, UNCHANGED <<stage, pos, groups, align_pad_map>>
  PROVE  PadsKnown'
<1>1. stage' = stage /\ pos' = pos /\ groups' = groups /\ align_pad_map' = align_pad_map
  BY Zenon
<1>2. \A k, j : (Laid(k, j)' <=> Laid(k, j)) /\ GroupAt(k)' = GroupAt(k)
  BY <1>1, Zenon DEF Laid, GroupAt
<1> QED BY <1>1, <1>2 DEF PadsKnown

\* What was laid out stays so.
LEMMA LaidStays ==
  ASSUME stage \in Nat, stage' \in Nat, pos \in Nat, pos' \in Nat,
         stage' > stage \/ (stage' = stage /\ pos' >= pos), NEW k \in Nat, NEW j \in Nat,
         Laid(k, j)
  PROVE  Laid(k, j)'
BY DEF Laid

\* What a pass through the loop over a default section's definitions does.
LEMMA DefinitionCases ==
  ASSUME DefinitionStep
  PROVE  LET def == Group[pos + 1]
             end == open.size + FileSize(def.data)
             pad == Pad(end, NextExponent)
         IN /\ stage \in 1 .. NDefault /\ stage' = stage /\ pos < Len(Group) /\ pos' = pos + 1
            /\ UNCHANGED <<artifact, status, groups, bss_size, sections, offset, size>>
            /\ InsertSymbol(def.name, Defined(stage - 1, symbol_offset, open.size, IsGlobal(def.decl)))
            /\ symbol_offset' = symbol_offset + FileSize(def.data) + pad
            /\ open' = [open EXCEPT !.size = end + pad, !.exponent = MaxOf(@, NextExponent)]
            /\ align_pad_map' = [n \in DOMAIN align_pad_map \cup {def.name} |->
                                   IF n = def.name THEN pad ELSE align_pad_map[n]]
BY Zenon DEF DefinitionStep, PlaceDefinition, At, InDefault, partition

\* What the end of a default section does.
LEMMA SectionCases ==
  ASSUME SectionStep
  PROVE  LET d == DefaultSections[stage]
         IN /\ stage \in 1 .. NDefault /\ stage' = stage + 1 /\ pos = Len(Group) /\ pos' = 0
            /\ UNCHANGED <<artifact, status, groups, bss_size, symbols, strtable, indexes,
                            strtable_size, symbol_offset, align_pad_map>>
            /\ AddSection(d.sectname, d.sectname, d.segname, d.flags, open.size, open.exponent)
            /\ open' = Opened(stage + 1)
BY Zenon DEF SectionStep, CloseSection, At, InDefault, partition, symtab

\* What a pass through the loop over the imports does.
LEMMA ImportCases ==
  ASSUME IInv, ImportStep
  PROVE  /\ stage = NDefault + 1 /\ stage' = stage /\ pos' = pos + 1
         /\ pos - NCustom + 1 \in DOMAIN artifact.imports
         /\ pos >= NCustom /\ pos < NCustom + NImports
         /\ UNCHANGED <<artifact, status, groups, bss_size, sections, offset, size, symbol_offset,
                         align_pad_map, open>>
         /\ InsertSymbol(artifact.imports[pos - NCustom + 1].name, Undefined)
<1>1. /\ stage = NDefault + 1 /\ stage' = stage /\ pos' = pos + 1
      /\ pos \in NCustom .. NCustom + NImports - 1
      /\ UNCHANGED <<artifact, status, groups, bss_size, sections, offset, size, symbol_offset,
                      align_pad_map, open>>
      /\ InsertSymbol(artifact.imports[pos - NCustom + 1].name, Undefined)
  BY Zenon DEF ImportStep, AddImport, At, partition, segment
<1>2. pos \in Nat /\ NCustom \in Nat /\ artifact.imports \in Seq(Import)
  BY <1>1, LateFacts, Zenon DEF TypeInv
<1>3. PICK c \in Nat, n \in Nat : c = NCustom /\ n = NImports /\ DOMAIN artifact.imports = 1 .. n
  BY <1>2 DEF NImports
<1>4. pos - c + 1 \in 1 .. n /\ pos >= c /\ pos < c + n
  BY <1>1, <1>2, <1>3
<1> QED BY <1>1, <1>3, <1>4, Zenon

\* The steps after the partition go on, and only build_section records padding.
LEMMA StepsGoOn ==
  ASSUME IInv, BuildStep, stage > 0
  PROVE  /\ stage' \in Nat /\ stage \in Nat /\ pos \in Nat /\ pos' \in Nat
         /\ stage' > stage \/ (stage' = stage /\ pos' >= pos)
         /\ artifact' = artifact /\ groups' = groups
         /\ DefinitionStep \/ align_pad_map' = align_pad_map
<1>1. stage \in Nat /\ pos \in Nat /\ stage # 0
  BY DEF IInv, TypeInv, NDefault
<1>2. ~PartitionStep /\ ~StartSegment
  BY <1>1 DEF PartitionStep, StartSegment
<1>3. CASE DefinitionStep
  BY <1>1, <1>3, DefinitionCases
<1>4. CASE SectionStep
  BY <1>1, <1>4, SectionCases
<1>5. CASE CustomStep
  <2>1. stage' = stage /\ (pos' = pos \/ pos' = pos + 1)
    BY <1>5, CustomCases, Zenon
  <2>2. UNCHANGED <<artifact, groups, align_pad_map>>
    BY <1>5, CustomCases
  <2> QED BY <1>1, <2>1, <2>2
<1>6. CASE ImportStep
  BY <1>1, <1>6, ImportCases
<1>7. CASE LinkStep
  <2>1. stage' = stage /\ (pos' = pos \/ pos' = pos + 1)
    BY <1>7, LinkSections, Zenon
  <2>2. UNCHANGED <<artifact, groups, align_pad_map>>
    BY <1>7, LinkSections, Zenon DEF partition
  <2> QED BY <1>1, <2>1, <2>2
<1> QED BY <1>2, <1>3, <1>4, <1>5, <1>6, <1>7, Zenon DEF BuildStep

\* What build_section adds after a definition is a number of bytes.
LEMMA PadType ==
  ASSUME IInv, DefinitionStep
  PROVE  LET def == Group[pos + 1]
         IN /\ def \in Definition /\ NextExponent \in 0 .. MaxAlignExponent
            /\ FileSize(def.data) \in Nat /\ open.size \in Nat
            /\ Pad(open.size + FileSize(def.data), NextExponent) \in Nat
<1> DEFINE def == Group[pos + 1]
<1>1. stage \in 1 .. NDefault /\ pos < Len(Group) /\ pos \in Nat /\ open.size \in Nat
  BY DefinitionCases, Zenon DEF IInv, TypeInv
<1>2. Group \in Seq(Definition)
  BY <1>1, GroupNow, Zenon DEF IInv
<1>3. def \in Definition /\ (pos + 2 \in DOMAIN Group => Group[pos + 2] \in Definition)
  BY <1>1, <1>2
<1>4. FileSize(def.data) \in Nat
  BY <1>3 DEF FileSize, Definition
<1>5. NextExponent \in 0 .. MaxAlignExponent
  <2>1. DefaultSections[stage].min \in 0 .. MaxAlignExponent
    BY <1>1, DefaultFacts
  <2>2. pos + 2 \in DOMAIN Group => AlignExp(Group[pos + 2].decl) \in 0 .. MaxAlignExponent
    BY <1>3, AlignExpType DEF Definition
  <2>3. 0 \in 0 .. MaxAlignExponent
    BY DEF MaxAlignExponent
  <2> QED BY <2>1, <2>2, <2>3 DEF NextExponent, MaxOf
<1>6. open.size + FileSize(def.data) \in Nat
  BY <1>1, <1>4
<1> QED BY <1>1, <1>3, <1>4, <1>5, <1>6, PadAligns, Zenon

\* build_section notes the padding after each definition it lays out.
LEMMA PadsKeep ==
  ASSUME IInv, PadsKnown, BuildStep
  PROVE  PadsKnown'
<1>1. stage \in Nat /\ pos \in Nat /\ NDefault = 4
  BY DEF IInv, TypeInv, NDefault
<1>2. CASE stage = 0
  <2>1. align_pad_map' = align_pad_map
    <3>1. CASE PartitionStep
      BY <3>1, Zenon DEF PartitionStep, Partition, segment
    <3>2. CASE StartSegment
      BY <3>2, Zenon DEF StartSegment
    <3>3. ~DefinitionStep /\ ~SectionStep /\ ~CustomStep /\ ~ImportStep /\ ~LinkStep
      BY <1>1, <1>2 DEF DefinitionStep, SectionStep, CustomStep, ImportStep, LinkStep, InDefault
    <3> QED BY <3>1, <3>2, <3>3, Zenon DEF BuildStep
  <2>2. DOMAIN align_pad_map = {}
    BY <1>1, <1>2 DEF PadsKnown, Laid
  <2> QED BY <2>1, <2>2, Zenon DEF PadsKnown
<1>3. CASE stage > 0
  <2>1. /\ stage' \in Nat /\ pos' \in Nat /\ groups' = groups
        /\ stage' > stage \/ (stage' = stage /\ pos' >= pos)
        /\ DefinitionStep \/ align_pad_map' = align_pad_map
    BY <1>3, StepsGoOn, Zenon
  <2>2. \A k \in 1 .. NDefault : GroupAt(k)' = GroupAt(k)
    BY <2>1, Zenon DEF GroupAt
  <2>3. \A k \in 1 .. NDefault : \A j \in DOMAIN GroupAt(k) : k \in Nat /\ j \in Nat
    <3>1. \A k \in 1 .. NDefault : k \in Nat /\ k \in 1 .. NDefault + 1
      BY <1>1
    <3> QED BY <3>1, GroupAtType, Zenon DEF IInv
  <2>4. \A k \in 1 .. NDefault : \A j \in DOMAIN GroupAt(k) : Laid(k, j) => Laid(k, j)'
    BY <1>1, <2>1, <2>3, LaidStays
  <2>5. \A n \in DOMAIN align_pad_map :
          /\ align_pad_map[n] \in Nat
          /\ \E k \in 1 .. NDefault : \E j \in DOMAIN GroupAt(k)' :
               Laid(k, j)' /\ GroupAt(k)'[j].name = n
    BY <2>2, <2>4 DEF PadsKnown
  <2>6. CASE align_pad_map' = align_pad_map
    BY <2>5, <2>6 DEF PadsKnown
  <2>7. CASE DefinitionStep
    <3> DEFINE def == Group[pos + 1]
               pad == Pad(open.size + FileSize(def.data), NextExponent)
    <3>1. /\ stage \in 1 .. NDefault /\ stage' = stage /\ pos < Len(Group) /\ pos' = pos + 1
          /\ align_pad_map' = [n \in DOMAIN align_pad_map \cup {def.name} |->
                                 IF n = def.name THEN pad ELSE align_pad_map[n]]
      BY <2>7, DefinitionCases
    <3>2. pad \in Nat
      BY <2>7, PadType, Zenon
    <3>3. PICK k \in 1 .. NDefault, j \in Nat : k = stage /\ j = pos + 1
      BY <1>1, <3>1
    <3>4. j \in DOMAIN GroupAt(k) /\ GroupAt(k)[j] = def
      <4>1. GroupAt(k) = Group /\ Group \in Seq(Definition)
        BY <3>1, <3>3, GroupNow, Zenon DEF IInv
      <4> QED BY <1>1, <3>1, <3>3, <4>1
    <3>6. Laid(k, j)'
      BY <1>1, <3>1, <3>3 DEF Laid
    <3> HIDE DEF def, pad
    <3>5. \A n \in DOMAIN align_pad_map' :
            /\ align_pad_map'[n] \in Nat
            /\ \E l \in 1 .. NDefault : \E i \in DOMAIN GroupAt(l)' :
                 Laid(l, i)' /\ GroupAt(l)'[i].name = n
      <4> SUFFICES ASSUME NEW n \in DOMAIN align_pad_map'
                   PROVE  /\ align_pad_map'[n] \in Nat
                          /\ \E l \in 1 .. NDefault : \E i \in DOMAIN GroupAt(l)' :
                               Laid(l, i)' /\ GroupAt(l)'[i].name = n
        OBVIOUS
      <4>1. CASE n = def.name
        <5>1. align_pad_map'[n] = pad
          BY <3>1, <4>1
        <5> QED BY <2>2, <3>2, <3>4, <3>6, <4>1, <5>1
      <4>2. CASE n # def.name
        <5>1. n \in DOMAIN align_pad_map /\ align_pad_map'[n] = align_pad_map[n]
          BY <3>1, <4>2, Zenon
        <5> QED BY <2>5, <5>1, Zenon
      <4> QED BY <4>1, <4>2
    <3> QED BY <3>5 DEF PadsKnown
  <2> QED BY <2>1, <2>6, <2>7, Zenon
<1> QED BY <1>1, <1>2, <1>3

\* Only what the partition takes for zero-initialised data is not in the file.
LEMMA ZeroOnlyInBss ==
  ASSUME IInv, FilingInv, status # "idle", NEW k \in 1 .. NDefault + 1, NEW j \in DOMAIN GroupAt(k)
  PROVE  /\ GroupAt(k)[j] \in Definition
         /\ k = 4 => FileSize(GroupAt(k)[j].data) = 0
         /\ k # 4 => FileSize(GroupAt(k)[j].data) = GroupAt(k)[j].data.size
<1> DEFINE def == GroupAt(k)[j]
<1> DEFINE g == NameAt(k)
<1>1. g \in GroupNames /\ GroupAt(k) = groups[g] /\ (g = "bss" <=> k = 4)
  BY NameAtFacts, Zenon DEF GroupAt
<1> HIDE DEF g
<1>2. GroupOf(def) = g /\ \E i \in DOMAIN artifact.definitions : def = artifact.definitions[i]
  <2>1. GroupsInv /\ j \in DOMAIN groups[g] /\ def = groups[g][j]
    BY <1>1, Zenon DEF IInv
  <2> HIDE DEF def
  <2> QED BY <1>1, <2>1, GroupMember
<1>3. def \in Definition /\ (def.data.zero_init => def.decl.tag = "Data")
  <2>1. artifact \in Artifacts /\ Emittable(artifact)
    BY ArtifactsAssumption, Zenon DEF FilingInv
  <2>2. PICK i \in DOMAIN artifact.definitions : def = artifact.definitions[i]
    BY <1>2, Zenon
  <2>3. def \in Definition
    BY GroupAtType, Zenon DEF IInv
  <2> HIDE DEF def
  <2> QED BY <2>1, <2>2, <2>3, EmittableFacts, Zenon
<1>4. g = "bss" <=> def.data.zero_init
  <2>1. def.decl.tag = "Function" \/ def.decl.tag = "Data" \/ def.decl.tag = "Section"
    BY <1>3, Zenon DEF Definition, DefinedDecls, FunctionDecls, DataDecls, SectionDecls
  <2>2. def.data.zero_init \in BOOLEAN
    BY <1>3, Zenon DEF Definition
  <2> HIDE DEF def
  <2> QED BY <1>2, <1>3, <2>1, <2>2, Zenon DEF GroupOf
<1> HIDE DEF def
<1> QED BY <1>1, <1>3, <1>4, Zenon DEF FileSize, def

\* The definitions laid out so far are written ones.
LEMMA SoFarFacts ==
  ASSUME IInv, stage > 0
  PROVE  /\ WrittenSoFar \in Nat /\ Len(WrittenDefs) \in Nat /\ WrittenSoFar <= Len(WrittenDefs)
         /\ stage \in 1 .. 3 /\ pos = Len(Group) => WrittenSoFar = Base(stage + 1)
         /\ stage \in 1 .. 3 => WrittenSoFar = Base(stage) + pos
         /\ stage = 4 => WrittenSoFar = Base(5)
         /\ stage = 5 /\ pos < NCustom => WrittenSoFar = Base(5) + pos
         /\ stage = 5 /\ ~(pos < NCustom) => WrittenSoFar = Len(WrittenDefs)
<1>1. PICK a \in Nat, b \in Nat, c \in Nat, d \in Nat :
        /\ a = Len(groups["code"]) /\ b = Len(groups["data"]) /\ c = Len(groups["cstrings"])
        /\ d = Len(groups["sections"])
  BY DEF IInv, TypeInv, GroupNames
<1>2. /\ Base(1) = 0 /\ Base(2) = a /\ Base(3) = a + b /\ Base(4) = a + b + c
      /\ Base(5) = a + b + c
  BY <1>1 DEF Base, BaseIn
<1>3. NCustom = d /\ Len(WrittenDefs) = a + b + c + d
  BY <1>1, <1>2, WrittenFacts, Zenon DEF NCustom, IInv
<1>4. pos \in Nat /\ (stage = 1 \/ stage = 2 \/ stage = 3 \/ stage = 4 \/ stage = 5)
  BY DEF IInv, TypeInv, NDefault
<1>5. stage \in 1 .. 3 => pos <= Len(Group)
  BY DEF IInv, StageInv, InDefault, NDefault
<1>6. CASE stage = 1
  <2>1. Len(Group) = a
    <3>1. stage \in 1 .. NDefault
      BY <1>6 DEF NDefault
    <3> QED BY <1>1, <1>6, <3>1, NamesAt, GroupNow, Zenon DEF GroupAt, IInv
  <2> QED BY <1>2, <1>3, <1>4, <1>5, <1>6, <2>1 DEF WrittenSoFar
<1>7. CASE stage = 2
  <2>1. Len(Group) = b
    <3>1. stage \in 1 .. NDefault
      BY <1>7 DEF NDefault
    <3> QED BY <1>1, <1>7, <3>1, NamesAt, GroupNow, Zenon DEF GroupAt, IInv
  <2> QED BY <1>2, <1>3, <1>4, <1>5, <1>7, <2>1 DEF WrittenSoFar
<1>8. CASE stage = 3
  <2>1. Len(Group) = c
    <3>1. stage \in 1 .. NDefault
      BY <1>8 DEF NDefault
    <3> QED BY <1>1, <1>8, <3>1, NamesAt, GroupNow, Zenon DEF GroupAt, IInv
  <2> QED BY <1>2, <1>3, <1>4, <1>5, <1>8, <2>1 DEF WrittenSoFar
<1>9. CASE stage = 4
  BY <1>2, <1>3, <1>4, <1>9 DEF WrittenSoFar
<1>10. CASE stage = 5
  BY <1>2, <1>3, <1>4, <1>10 DEF WrittenSoFar
<1> QED BY <1>4, <1>6, <1>7, <1>8, <1>9, <1>10, Zenon

\* The padding after a definition becomes part of what is written for it, and of
\* nothing else.
LEMMA PaddedSizes ==
  ASSUME IInv, DefinitionStep
  PROVE  LET def == Group[pos + 1]
             pad == Pad(open.size + FileSize(def.data), NextExponent)
         IN /\ WrittenDefs' = WrittenDefs
            /\ \A i \in DOMAIN WrittenDefs :
                 WrittenDefs[i].name # def.name => WrittenSizes'[i] = WrittenSizes[i]
            /\ \A i \in DOMAIN WrittenDefs :
                 WrittenDefs[i].name = def.name => WrittenSizes'[i] = WrittenDefs[i].data.size + pad
<1> DEFINE def == Group[pos + 1]
           pad == Pad(open.size + FileSize(def.data), NextExponent)
<1>1. /\ groups' = groups
      /\ align_pad_map' = [n \in DOMAIN align_pad_map \cup {def.name} |->
                             IF n = def.name THEN pad ELSE align_pad_map[n]]
  BY DefinitionCases, Zenon
<1>2. WrittenDefs' = WrittenDefs
  BY <1>1, Zenon DEF WrittenDefs
<1> HIDE DEF def, pad
<1>3. ASSUME NEW d
      PROVE  PadAfter(d)' = IF d.name = def.name THEN pad ELSE PadAfter(d)
  BY <1>1, Zenon DEF PadAfter
<1>4. \A i \in DOMAIN WrittenDefs :
        /\ WrittenSizes[i] = WrittenDefs[i].data.size + PadAfter(WrittenDefs[i])
        /\ WrittenSizes'[i] = WrittenDefs[i].data.size
                               + (IF WrittenDefs[i].name = def.name THEN pad ELSE PadAfter(WrittenDefs[i]))
  <2>1. WrittenSizes = [i \in DOMAIN WrittenDefs |-> WrittenDefs[i].data.size + PadAfter(WrittenDefs[i])]
    BY Zenon DEF WrittenSizes
  <2>2. WrittenSizes' = [i \in DOMAIN WrittenDefs |->
                           WrittenDefs[i].data.size
                             + (IF WrittenDefs[i].name = def.name THEN pad ELSE PadAfter(WrittenDefs[i]))]
    BY <1>1, <1>2, Zenon DEF WrittenSizes, PadAfter
  <2> QED BY <2>1, <2>2, Zenon
<1> QED BY <1>2, <1>4, Zenon DEF def, pad

\* Where what is laid out ends does not change any more.
LEMMA WrittenStays ==
  ASSUME IInv, IInv', PadsKnown, PadsKnown', BuildStep, stage > 0
  PROVE  /\ WrittenSizes \in Seq(Nat) /\ WrittenSizes' \in Seq(Nat)
         /\ WrittenSoFar <= Len(WrittenSizes) /\ Len(WrittenSizes') = Len(WrittenSizes)
         /\ WrittenDefs' = WrittenDefs /\ Len(WrittenSizes) = Len(WrittenDefs)
         /\ \A i \in 0 .. WrittenSoFar : Ends(WrittenSizes')[i] = Ends(WrittenSizes)[i]
<1>1. /\ WrittenSizes \in Seq(Nat) /\ Len(WrittenSizes) = Len(WrittenDefs)
      /\ WrittenSizes' \in Seq(Nat) /\ Len(WrittenSizes') = Len(WrittenDefs')
  <2>1. TypeInv /\ TypeInv'
    BY DEF IInv
  <2>2. SizesWritten /\ SizesWritten'
    BY <2>1, WrittenSizesType, PTL
  <2> QED BY <2>2, Zenon DEF SizesWritten
<1>2. groups' = groups /\ (DefinitionStep \/ align_pad_map' = align_pad_map)
  BY StepsGoOn, Zenon
<1>3. WrittenDefs' = WrittenDefs
  BY <1>2, Zenon DEF WrittenDefs
<1>4. WrittenSoFar \in Nat /\ Len(WrittenDefs) \in Nat /\ WrittenSoFar <= Len(WrittenDefs)
  BY SoFarFacts, Zenon
<1>5. \A i \in 1 .. WrittenSoFar : WrittenSizes'[i] = WrittenSizes[i]
  <2>1. CASE align_pad_map' = align_pad_map
    <3>1. WrittenSizes' = WrittenSizes
      BY <1>3, <2>1, Zenon DEF WrittenSizes, PadAfter
    <3> QED BY <3>1, Zenon
  <2>2. CASE DefinitionStep
    <3> DEFINE def == Group[pos + 1]
    <3>1. \A i \in DOMAIN WrittenDefs :
            WrittenDefs[i].name # def.name => WrittenSizes'[i] = WrittenSizes[i]
      BY <2>2, PaddedSizes, Zenon
    <3>2. stage \in 1 .. NDefault /\ pos < Len(Group) /\ pos \in Nat
      BY <2>2, DefinitionCases, Zenon DEF IInv, TypeInv
    <3>3. GroupAt(stage) = Group /\ Group \in Seq(Definition) /\ pos + 1 \in DOMAIN Group
      <4>1. GroupAt(stage) = Group /\ Group \in Seq(Definition)
        BY <3>2, GroupNow, Zenon DEF IInv
      <4> QED BY <3>2, <4>1
    <3>4. ASSUME NEW i \in 1 .. WrittenSoFar
          PROVE  i \in DOMAIN WrittenDefs /\ WrittenDefs[i].name # def.name
      <4>1. i \in DOMAIN WrittenDefs
        <5>1. DOMAIN WrittenDefs = 1 .. Len(WrittenDefs)
          BY WrittenFacts DEF IInv
        <5> QED BY <1>4, <5>1
      <4>2. CASE stage = 4
        BY <3>3, <4>1, <4>2, WrittenDiffer DEF IInv
      <4>3. CASE stage # 4
        <5>1. stage \in Written /\ stage \in 1 .. 3
          BY <3>2, <4>3 DEF Written, NDefault
        <5>2. Base(stage) + (pos + 1) \in DOMAIN WrittenDefs
              /\ WrittenDefs[Base(stage) + (pos + 1)] = def
          BY <3>3, <5>1, WrittenFacts, Zenon DEF IInv
        <5>3. Base(stage) + (pos + 1) # i
          <6>1. WrittenSoFar = Base(stage) + pos /\ Base(stage) \in Nat
            BY <5>1, SoFarFacts, WrittenFacts, Zenon DEF IInv
          <6> QED BY <3>2, <6>1
        <5> QED BY <4>1, <5>2, <5>3, WrittenDiffer, Zenon DEF IInv
      <4> QED BY <4>1, <4>2, <4>3
    <3> QED BY <3>1, <3>4, Zenon
  <2> QED BY <1>2, <2>1, <2>2, Zenon
<1> DEFINE s == WrittenSizes
           t == WrittenSizes'
           n == WrittenSoFar
<1>6. s \in Seq(Nat) /\ t \in Seq(Nat) /\ n \in Nat /\ n <= Len(s) /\ n <= Len(t)
  BY <1>1, <1>3, <1>4, Zenon
<1>7. \A i \in 1 .. n : t[i] = s[i]
  BY <1>5, Zenon
<1> HIDE DEF s, t, n
<1>8. \A i \in 0 .. n : Ends(t)[i] = Ends(s)[i]
  BY <1>6, <1>7, EndsSame, Zenon
<1> QED BY <1>1, <1>3, <1>4, <1>8, Zenon DEF s, t, n

\* The section of zero-initialised data stays empty.
LEMMA NoPadAtZero ==
  ASSUME NEW e \in 0 .. MaxAlignExponent
  PROVE  Pad(0, e) = 0
<1>1. \A u \in Nat \ {0} : (u - (0 % u)) % u = 0
  OBVIOUS
<1> QED BY <1>1, PowersPositive DEF Pad

\* Laying out a definition moves symbol_offset by what will be written for it.
LEMMA OffsetKeeps ==
  ASSUME IInv, IInv', FilingInv, PadsKnown, PadsKnown', OffsetInv, BuildStep
  PROVE  OffsetInv'
<1>1. stage \in Nat /\ pos \in Nat /\ NDefault = 4 /\ stage \in 0 .. 5
  BY DEF IInv, TypeInv, NDefault
<1>2. CASE PartitionStep
  BY <1>2 DEF PartitionStep, At, OffsetInv
<1>3. CASE StartSegment
  <2>1. stage' = 1 /\ pos' = 0 /\ stage = 0 /\ symbol_offset' = symbol_offset
    BY <1>3, Zenon DEF StartSegment, At
  <2>2. symbol_offset = 0
    BY <2>1, Zenon DEF IInv, StageInv
  <2>3. WrittenSoFar' = 0
    <3>1. WrittenSoFar' = Base(1)' + 0
      BY <2>1 DEF WrittenSoFar
    <3>2. Base(1)' = 0
      BY DEF Base, BaseIn
    <3> QED BY <3>1, <3>2
  <2>4. WrittenSizes' \in Seq(Nat)
    <3>1. TypeInv'
      BY DEF IInv
    <3>2. SizesWritten'
      BY <3>1, WrittenSizesType, PTL
    <3> QED BY <3>2, Zenon DEF SizesWritten
  <2> QED BY <2>1, <2>2, <2>3, <2>4, EndsFacts DEF OffsetInv
<1>4. ASSUME stage > 0
      PROVE  /\ \A i \in 0 .. WrittenSoFar : Ends(WrittenSizes')[i] = Ends(WrittenSizes)[i]
             /\ symbol_offset = Ends(WrittenSizes')[WrittenSoFar]
             /\ WrittenSizes' \in Seq(Nat) /\ WrittenSoFar \in Nat
             /\ Len(WrittenSizes') = Len(WrittenDefs) /\ Len(WrittenDefs) \in Nat
             /\ WrittenDefs' = WrittenDefs
  <2>1. WrittenSoFar \in Nat /\ WrittenSoFar \in 0 .. WrittenSoFar /\ Len(WrittenDefs) \in Nat
    BY <1>4, SoFarFacts
  <2>2. symbol_offset = Ends(WrittenSizes)[WrittenSoFar]
    BY <1>4, Zenon DEF OffsetInv
  <2> QED BY <1>4, <2>1, <2>2, WrittenStays, Zenon
<1>5. CASE DefinitionStep
  <2> DEFINE def == Group[pos + 1]
             end == open.size + FileSize(def.data)
             pad == Pad(end, NextExponent)
  <2>1. /\ stage \in 1 .. NDefault /\ stage' = stage /\ pos < Len(Group) /\ pos' = pos + 1
        /\ groups' = groups
        /\ symbol_offset' = symbol_offset + FileSize(def.data) + pad
        /\ open' = [open EXCEPT !.size = end + pad, !.exponent = MaxOf(@, NextExponent)]
        /\ status # "idle"
    BY <1>5, DefinitionCases, Zenon DEF DefinitionStep, Building
  <2>2. /\ FileSize(def.data) \in Nat /\ open.size \in Nat /\ pad \in Nat
        /\ NextExponent \in 0 .. MaxAlignExponent /\ open'.size = end + pad
        /\ symbol_offset \in Nat
    BY <1>5, <2>1, PadType, Zenon DEF IInv, TypeInv
  <2>3. GroupAt(stage) = Group /\ pos + 1 \in DOMAIN Group /\ stage \in 1 .. NDefault + 1
    <3>1. GroupAt(stage) = Group /\ Group \in Seq(Definition)
      BY <2>1, GroupNow, Zenon DEF IInv
    <3> QED BY <1>1, <2>1, <3>1
  <2>4. CASE stage = 4
    <3>1. FileSize(def.data) = 0 /\ open.size = 0
      BY <2>1, <2>3, <2>4, ZeroOnlyInBss DEF OffsetInv
    <3>2. end = 0
      BY <3>1
    <3>3. pad = 0
      BY <2>2, <3>2, NoPadAtZero, Zenon
    <3>4. WrittenSoFar' = WrittenSoFar
      BY <2>1, <2>4 DEF WrittenSoFar, Base
    <3>5. symbol_offset' = symbol_offset /\ open'.size = 0
      BY <2>1, <2>2, <3>1, <3>2, <3>3
    <3> QED BY <1>4, <2>1, <2>4, <3>4, <3>5 DEF OffsetInv
  <2>5. CASE stage # 4
    <3>1. stage \in 1 .. 3 /\ stage \in Written
      BY <1>1, <2>1, <2>5 DEF Written
    <3>2. FileSize(def.data) = def.data.size
      BY <2>1, <2>3, <2>5, ZeroOnlyInBss, Zenon
    <3>3. WrittenSoFar = Base(stage) + pos /\ Base(stage) \in Nat
      BY <3>1, SoFarFacts, WrittenFacts DEF IInv
    <3>4. WrittenSoFar' = WrittenSoFar + 1
      <4>1. WrittenSoFar' = BaseIn(groups', stage') + pos'
        BY <2>1, <3>1 DEF WrittenSoFar, Base
      <4>2. BaseIn(groups', stage') = Base(stage)
        BY <2>1, Zenon DEF Base
      <4> QED BY <1>1, <2>1, <3>3, <4>1, <4>2
    <3>5. WrittenSoFar + 1 \in DOMAIN WrittenDefs /\ WrittenDefs[WrittenSoFar + 1] = def
      <4>1. Base(stage) + (pos + 1) \in DOMAIN WrittenDefs /\ WrittenDefs[Base(stage) + (pos + 1)] = def
        BY <2>3, <3>1, WrittenFacts, Zenon DEF IInv
      <4>2. WrittenSoFar + 1 = Base(stage) + (pos + 1)
        BY <1>1, <3>3
      <4> QED BY <4>1, <4>2, Zenon
    <3>6. WrittenSizes'[WrittenSoFar + 1] = def.data.size + pad
      BY <1>5, <3>5, PaddedSizes, Zenon
    <3>7. WrittenSoFar < Len(WrittenSizes')
      BY <1>4, <2>1, <3>5, WrittenFacts DEF IInv
    <3> DEFINE t == WrittenSizes'
               n == WrittenSoFar
    <3>8. t \in Seq(Nat) /\ n \in Nat /\ n < Len(t)
      BY <1>4, <2>1, <3>7
    <3> HIDE DEF t, n
    <3>9. Ends(t)[n + 1] = Ends(t)[n] + t[n + 1]
      BY <3>8, EndsStep, Zenon
    <3>10. symbol_offset' = Ends(WrittenSizes')[WrittenSoFar']
      <4>1. stage > 0
        BY <3>1
      <4>2. symbol_offset = Ends(t)[n]
        BY <1>4, <4>1, Zenon DEF t, n
      <4>3. t[n + 1] = def.data.size + pad
        BY <3>6, Zenon DEF t, n
      <4> HIDE DEF def, pad
      <4>4. symbol_offset' = Ends(t)[n + 1]
        BY <2>1, <2>2, <3>2, <3>9, <4>2, <4>3
      <4> QED BY <3>4, <4>4, Zenon DEF t, n
    <3> QED BY <2>1, <2>5, <3>10, Zenon DEF OffsetInv
  <2> QED BY <2>4, <2>5, Zenon
<1>6. CASE SectionStep
  <2>1. /\ stage \in 1 .. NDefault /\ stage' = stage + 1 /\ pos = Len(Group) /\ pos' = 0
        /\ groups' = groups /\ symbol_offset' = symbol_offset /\ open' = Opened(stage + 1)
    BY <1>6, SectionCases, Zenon
  <2>2. open'.size = 0
    BY <2>1, Zenon DEF Opened
  <2>3. WrittenSoFar' = WrittenSoFar
    <3>0. /\ WrittenSoFar' = BaseIn(groups, stage + 1) + (IF stage + 1 <= 3 THEN 0
                                 ELSE IF stage + 1 = 4 THEN 0 ELSE IF 0 < NCustom THEN 0 ELSE NCustom)
          /\ NCustom \in Nat /\ BaseIn(groups, 5) = Base(5) /\ BaseIn(groups, 4) = Base(4)
          /\ BaseIn(groups, stage + 1) = Base(stage + 1)
      BY <2>1 DEF WrittenSoFar, Base, NCustom, IInv, TypeInv, GroupNames
    <3>1. CASE stage \in 1 .. 3
      <4>1. WrittenSoFar = Base(stage + 1) /\ WrittenSoFar \in Nat
        BY <2>1, <3>1, SoFarFacts
      <4> QED BY <1>1, <3>0, <3>1, <4>1
    <3>2. CASE stage = 4
      <4>1. WrittenSoFar = Base(5) /\ WrittenSoFar \in Nat
        BY <3>2, SoFarFacts
      <4> QED BY <3>0, <3>2, <4>1
    <3> QED BY <1>1, <2>1, <3>1, <3>2
  <2> QED BY <1>1, <1>4, <2>1, <2>2, <2>3 DEF OffsetInv
<1>7. CASE CustomStep
  <2> DEFINE def == groups["sections"][pos + 1]
  <2>1. /\ stage = NDefault + 1 /\ stage' = stage /\ pos < NCustom /\ groups' = groups
        /\ align_pad_map' = align_pad_map /\ status # "idle"
    BY <1>7, CustomCases, Zenon DEF CustomStep, Building
  <2>2. stage = 5 /\ stage > 0 /\ NCustom \in Nat /\ NCustom' = NCustom
    BY <1>1, <2>1 DEF NCustom, IInv, TypeInv, GroupNames
  <2>3. WrittenSoFar = Base(5) + pos /\ Base(5) \in Nat
    BY <2>1, <2>2, SoFarFacts, WrittenFacts DEF IInv, Written
  <2>4. \/ pos' = pos /\ symbol_offset' = symbol_offset
        \/ pos' = pos + 1 /\ symbol_offset' = symbol_offset + FileSize(def.data)
    BY <1>7, CustomCases, Zenon
  <2>5. WrittenSoFar' = Base(5) + pos'
    <3>1. WrittenSoFar' = BaseIn(groups', stage') + (IF pos' < NCustom' THEN pos' ELSE NCustom')
      BY <2>1, <2>2 DEF WrittenSoFar, Base
    <3>2. pos' <= NCustom /\ pos' \in Nat
      BY <1>1, <2>1, <2>2, <2>4
    <3>3. BaseIn(groups', stage') = Base(5)
      BY <2>1, <2>2, Zenon DEF Base
    <3>4. (IF pos' < NCustom' THEN pos' ELSE NCustom') = pos'
      BY <2>2, <3>2
    <3> QED BY <3>1, <3>3, <3>4, Zenon
  <2>6. CASE pos' = pos /\ symbol_offset' = symbol_offset
    BY <1>4, <2>1, <2>2, <2>3, <2>5, <2>6 DEF OffsetInv
  <2>7. CASE pos' = pos + 1 /\ symbol_offset' = symbol_offset + FileSize(def.data)
    <3>1. GroupAt(5) = groups["sections"] /\ 5 \in 1 .. NDefault + 1
      BY <1>1, NamesAt DEF GroupAt
    <3>2. pos + 1 \in DOMAIN groups["sections"]
      <4>1. groups["sections"] \in Seq(Definition)
        BY Zenon DEF IInv, TypeInv, GroupNames
      <4> QED BY <1>1, <2>1, <4>1 DEF NCustom
    <3>3. FileSize(def.data) = def.data.size /\ def \in Definition
      BY <2>1, <3>1, <3>2, ZeroOnlyInBss
    <3>4. Base(5) + (pos + 1) \in DOMAIN WrittenDefs /\ WrittenDefs[Base(5) + (pos + 1)] = def
      <4>1. 5 \in Written
        BY Zenon DEF Written
      <4> QED BY <3>1, <3>2, <4>1, WrittenFacts DEF IInv
    <3>5. WrittenSoFar + 1 = Base(5) + (pos + 1) /\ WrittenSoFar' = WrittenSoFar + 1
      BY <1>1, <2>3, <2>5, <2>7
    <3>6. PadAfter(def) = 0
      <4>1. def.name \notin DOMAIN align_pad_map
        <5> SUFFICES ASSUME def.name \in DOMAIN align_pad_map
                     PROVE  FALSE
          BY Zenon
        <5>1. PICK k \in 1 .. NDefault : \E j \in DOMAIN GroupAt(k) : GroupAt(k)[j].name = def.name
          BY Zenon DEF PadsKnown
        <5>2. PICK j \in DOMAIN GroupAt(k) : GroupAt(k)[j].name = def.name
          BY <5>1, Zenon
        <5>3. k \in 1 .. NDefault + 1 /\ k # 5
          BY <1>1
        <5>4. GroupAt(k)[j].name = GroupAt(5)[pos + 1].name
          BY <3>1, <5>2, Zenon
        <5> HIDE DEF def
        <5> QED BY <3>1, <3>2, <5>3, <5>4, NamesDiffer, Zenon DEF IInv
      <4> QED BY <4>1, Zenon DEF PadAfter
    <3>7. WrittenSizes'[WrittenSoFar + 1] = def.data.size
      <4>1. SizesWritten
        BY WrittenSizesType, Zenon DEF IInv
      <4>2. WrittenSizes' = WrittenSizes
        BY <2>1, Zenon DEF WrittenSizes, WrittenDefs, PadAfter
      <4>3. WrittenSizes'[WrittenSoFar + 1] = def.data.size + PadAfter(def)
        <5> HIDE DEF def
        <5> QED BY <3>4, <3>5, <4>1, <4>2, Zenon DEF SizesWritten
      <4>4. def.data.size \in Nat
        BY <3>3, Zenon DEF Definition
      <4> QED BY <3>6, <4>3, <4>4
    <3>8. WrittenSoFar < Len(WrittenSizes')
      BY <1>4, <2>2, <3>4, <3>5, WrittenFacts DEF IInv
    <3> DEFINE t == WrittenSizes'
               n == WrittenSoFar
    <3>9. t \in Seq(Nat) /\ n \in Nat /\ n < Len(t)
      BY <1>4, <2>2, <3>8, Zenon
    <3> HIDE DEF t, n
    <3>10. Ends(t)[n + 1] = Ends(t)[n] + t[n + 1]
      BY <3>9, EndsStep, Zenon
    <3>11. symbol_offset' = Ends(WrittenSizes')[WrittenSoFar']
      BY <1>4, <2>2, <2>7, <3>3, <3>5, <3>7, <3>10, Zenon DEF t, n
    <3> QED BY <2>1, <2>2, <3>11 DEF OffsetInv
  <2> QED BY <2>4, <2>6, <2>7, Zenon
<1>8. CASE ImportStep \/ LinkStep
  <2>1. /\ stage = NDefault + 1 /\ stage' = stage /\ pos' >= pos /\ ~(pos < NCustom)
        /\ groups' = groups /\ symbol_offset' = symbol_offset /\ pos' \in Nat
    <3>1. CASE ImportStep
      <4>1. /\ stage = NDefault + 1 /\ stage' = stage /\ pos' = pos + 1 /\ pos >= NCustom
            /\ groups' = groups /\ symbol_offset' = symbol_offset
        BY <3>1, ImportCases, Zenon
      <4>2. NCustom \in Nat
        BY <4>1, LateFacts, Zenon
      <4> QED BY <1>1, <4>1, <4>2
    <3>2. CASE LinkStep
      <4>1. /\ stage = NDefault + 1 /\ stage' = stage /\ (pos' = pos \/ pos' = pos + 1)
            /\ groups' = groups /\ symbol_offset' = symbol_offset
        BY <3>2, LinkSections, Zenon DEF partition
      <4>2. ~(pos < NCustom)
        BY <3>2, NextLink, Zenon
      <4> QED BY <1>1, <4>1, <4>2
    <3> QED BY <1>8, <3>1, <3>2, Zenon
  <2>2. stage = 5 /\ stage > 0 /\ NCustom \in Nat /\ NCustom' = NCustom
    BY <1>1, <2>1 DEF NCustom, IInv, TypeInv, GroupNames
  <2>3. WrittenSoFar' = WrittenSoFar
    <3>1. ~(pos' < NCustom)
      BY <1>1, <2>1, <2>2
    <3> QED BY <2>1, <2>2, <3>1 DEF WrittenSoFar, Base
  <2> QED BY <1>4, <2>1, <2>2, <2>3 DEF OffsetInv
<1> QED BY <1>2, <1>3, <1>5, <1>6, <1>7, <1>8, Zenon DEF BuildStep

-----------------------------------------------------------------------------
(* What is announced and what is written *)

\* The file is made of what was built.
FileWritten ==
  status = "written" =>
    /\ AllAdded
    /\ file.announced = Announced /\ file.actual = Actual(Announced)
    /\ file.segment = Segment(Announced) /\ file.headers = Headers(Announced)
    /\ file.contents = Contents(Announced)
    /\ file.symtab = [i \in DOMAIN symbols |-> Nlist(symbols[i])]
    /\ file.strings = Strings(Actual(Announced).strtab)
    /\ file.relocs = Relocations(Actual(Announced).reloc)

\* The parts of the file depend on what was built alone.
LEMMA PartsStay ==
  ASSUME UNCHANGED <<artifact, stage, pos, partition, symtab, segment>>
  PROVE  /\ AllAdded' = AllAdded /\ Announced' = Announced
         /\ Actual(Announced)' = Actual(Announced) /\ Segment(Announced)' = Segment(Announced)
         /\ Headers(Announced)' = Headers(Announced) /\ Contents(Announced)' = Contents(Announced)
         /\ [i \in DOMAIN symbols |-> Nlist(symbols[i])]' = [i \in DOMAIN symbols |-> Nlist(symbols[i])]
         /\ Strings(Actual(Announced).strtab)' = Strings(Actual(Announced).strtab)
         /\ Relocations(Actual(Announced).reloc)' = Relocations(Actual(Announced).reloc)
<1>1. /\ UNCHANGED <<artifact, stage, pos, groups, bss_size, symbols, strtable, indexes,
                     strtable_size>>
      /\ UNCHANGED <<sections, offset, size, symbol_offset, align_pad_map, open>>
  BY Zenon DEF partition, symtab, segment
<1>2. AllAdded' = AllAdded /\ Announced' = Announced
  BY <1>1, Zenon DEF AllAdded, NCustom, NImports, NLinks, Announced, LoadCommandSize
<1>3. Actual(Announced)' = Actual(Announced)
  BY <1>1, <1>2, Zenon DEF Actual, WrittenSizes, WrittenDefs, PadAfter, NameSizes, WrittenNames
<1>4. Segment(Announced)' = Segment(Announced) /\ Headers(Announced)' = Headers(Announced)
  BY <1>1, <1>2 DEF Segment, Headers, NReloc
<1>5. Contents(Announced)' = Contents(Announced)
  BY <1>1, <1>2, Zenon DEF Contents, WrittenSizes, WrittenDefs, PadAfter
<1>6. Strings(Actual(Announced).strtab)' = Strings(Actual(Announced).strtab)
  BY <1>1, <1>3, Zenon DEF Strings, NameSizes, WrittenNames
<1>7. Relocations(Actual(Announced).reloc)' = Relocations(Actual(Announced).reloc)
  BY <1>1, <1>3 DEF Relocations, NReloc
<1>8. [i \in DOMAIN symbols |-> Nlist(symbols[i])]' = [i \in DOMAIN symbols |-> Nlist(symbols[i])]
  BY <1>1, Zenon
<1> QED BY <1>2, <1>3, <1>4, <1>5, <1>6, <1>7, <1>8, Zenon

\* write makes the file of what was built.
LEMMA WriteMakesFile ==
  ASSUME Write
  PROVE  FileWritten'
<1>1. CASE NamesTooLong
  BY <1>1, Zenon DEF Write, FileWritten
<1>2. CASE ~NamesTooLong
  <2>1. /\ AllAdded /\ WriteFile(Announced, Actual(Announced))
        /\ UNCHANGED <<artifact, stage, pos, partition, symtab, segment>>
    BY <1>2, Zenon DEF Write
  <2>2. /\ file'.announced = Announced /\ file'.actual = Actual(Announced)
        /\ file'.segment = Segment(Announced) /\ file'.headers = Headers(Announced)
        /\ file'.contents = Contents(Announced)
        /\ file'.symtab = [i \in DOMAIN symbols |-> Nlist(symbols[i])]
        /\ file'.strings = Strings(Actual(Announced).strtab)
        /\ file'.relocs = Relocations(Actual(Announced).reloc)
    BY <2>1, Zenon DEF WriteFile
  <2> QED BY <2>1, <2>2, PartsStay, Zenon DEF FileWritten
<1> QED BY <1>1, <1>2, Zenon

\* The strings end where the running size of the string table says.
LEMMA NamesEnd ==
  ASSUME NamesHaveLength, SymtabType, Coherent
  PROVE  /\ NameSizes \in Seq(Nat) /\ Len(NameSizes) = Len(symbols) /\ Len(symbols) \in Nat
         /\ DOMAIN WrittenNames = DOMAIN symbols
         /\ \A i \in DOMAIN symbols : WrittenNames[i] = symbols[i].key
         /\ \A i \in 0 .. Len(symbols) : StringEnd(i) = 1 + Ends(NameSizes)[i]
         /\ strtable_size = 1 + Total(NameSizes)
<1> DEFINE n == Len(symbols)
<1>1. /\ n \in Nat /\ DOMAIN symbols = 1 .. n /\ Len(strtable) = n + 1 /\ strtable \in Seq(Text)
      /\ \A i \in 1 .. n : symbols[i] \in SymbolEntry
  BY DEF SymtabType, Coherent
<1>2. /\ \A i \in 1 .. n : strtable[i + 1] = symbols[i].key /\ symbols[i].strx = StringEnd(i - 1)
      /\ strtable_size = StringEnd(n)
  BY <1>1, Zenon DEF Coherent
<1>3. /\ Len(WrittenNames) = n /\ DOMAIN WrittenNames = 1 .. n
      /\ \A i \in 1 .. n : WrittenNames[i] = strtable[i + 1]
  <2> HIDE DEF n
  <2>1. WrittenNames = SubSeq(strtable, 2, n + 1)
    BY <1>1, Zenon DEF WrittenNames
  <2>2. WrittenNames = [i \in 1 .. n |-> strtable[i + 1]]
    BY <1>1, <2>1
  <2> QED BY <1>1, <2>2
<1>4. \A i \in 1 .. n : symbols[i].key \in Name /\ Len(symbols[i].key) \in Nat
  BY <1>1, Zenon DEF SymbolEntry, NamesHaveLength
<1>5. /\ \A i \in 1 .. n : NameSizes[i] = Len(symbols[i].key) + 2 /\ NameSizes[i] \in Nat
      /\ DOMAIN NameSizes = 1 .. n
  BY <1>2, <1>3, <1>4 DEF NameSizes
<1>6. NameSizes \in Seq(Nat) /\ Len(NameSizes) = n
  <2>1. NameSizes = [i \in 1 .. n |-> NameSizes[i]]
    BY <1>3, Zenon DEF NameSizes
  <2>2. NameSizes \in [1 .. n -> Nat]
    BY <1>5, <2>1, Zenon
  <2> HIDE DEF n
  <2> QED BY <1>1, <2>2
<1> HIDE DEF n
<1> DEFINE T == {i \in 0 .. n : StringEnd(i) = 1 + Ends(NameSizes)[i]}
<1>7. 0 \in T
  <2>1. StringEnd(0) = 1 /\ Ends(NameSizes)[0] = 0
    BY <1>6, EndsFacts, Zenon DEF StringEnd
  <2> QED BY <1>1, <2>1
<1>8. ASSUME NEW i \in 1 .. n, i - 1 \in T
      PROVE  i \in T
  <2>1. StringEnd(i) = symbols[i].strx + Len(symbols[i].key) + 2
    BY DEF StringEnd
  <2>2. symbols[i].strx = 1 + Ends(NameSizes)[i - 1]
    BY <1>2, <1>8, Zenon
  <2>3. Ends(NameSizes)[i] = Ends(NameSizes)[i - 1] + NameSizes[i]
    BY <1>6, EndsFacts, Zenon
  <2>4. Ends(NameSizes)[i - 1] \in Nat
    <3>1. i - 1 \in 0 .. Len(NameSizes)
      BY <1>1, <1>6
    <3> QED BY <1>6, <3>1, EndsFacts, Zenon
  <2>5. PICK e \in Nat, l \in Nat : e = Ends(NameSizes)[i - 1] /\ l = Len(symbols[i].key)
    BY <1>4, <2>4, Zenon
  <2>6. StringEnd(i) = 1 + e + l + 2 /\ Ends(NameSizes)[i] = e + (l + 2)
    BY <1>5, <2>1, <2>2, <2>3, <2>5, Zenon
  <2>7. StringEnd(i) = 1 + Ends(NameSizes)[i] /\ i \in 0 .. n
    BY <1>1, <2>6
  <2> QED BY <2>7, Zenon
<1>9. \A i \in 0 .. n : i \in T
  <2> HIDE DEF T
  <2> QED BY <1>1, <1>7, <1>8, Induction, Zenon
<1>10. strtable_size = 1 + Total(NameSizes)
  <2>1. n \in T
    BY <1>1, <1>9
  <2> QED BY <1>2, <1>6, <2>1, Zenon DEF Total
<1> QED BY <1>1, <1>2, <1>3, <1>6, <1>9, <1>10, Zenon DEF n

-----------------------------------------------------------------------------
(* Sections and relocations follow each other *)

\* The sections' sizes, how many relocations each has, and the bytes they take.
SectionSizes == [i \in DOMAIN sections |-> sections[i].val.size]
RelocCounts == [i \in DOMAIN sections |-> NReloc(i)]
RelocBytes == [i \in DOMAIN sections |-> NReloc(i) * RelocInfoSize]

\* Sections follow each other: an address is the sum of the sizes before it.
LEMMA SectionsEnd ==
  ASSUME TypeInv, Placed
  PROVE  /\ SectionSizes \in Seq(Nat) /\ Len(SectionSizes) = Len(sections) /\ Len(sections) \in Nat
         /\ \A i \in 0 .. Len(sections) : SectionEnd(i) = Ends(SectionSizes)[i]
         /\ \A i \in DOMAIN sections : sections[i].val.addr = Ends(SectionSizes)[i - 1]
         /\ size = Total(SectionSizes)
<1> DEFINE n == Len(sections)
<1>1. /\ n \in Nat /\ DOMAIN sections = 1 .. n
      /\ \A i \in 1 .. n : sections[i] \in SectionEntry
  BY DEF TypeInv
<1>2. \A i \in 1 .. n : sections[i].val.size \in Nat
  BY <1>1, Zenon DEF SectionEntry, SectionRecord
<1>3. \A i \in 1 .. n : sections[i].val.addr = SectionEnd(i - 1)
  BY <1>1, Zenon DEF Placed
<1>4. size = SectionEnd(n)
  BY Zenon DEF Placed
<1> HIDE DEF n
<1>5. SectionSizes \in [1 .. n -> Nat] /\ \A i \in 1 .. n : SectionSizes[i] = sections[i].val.size
  BY <1>1, <1>2, Zenon DEF SectionSizes
<1>6. SectionSizes \in Seq(Nat) /\ Len(SectionSizes) = n
  BY <1>1, <1>5
<1> DEFINE T == {i \in 0 .. n : SectionEnd(i) = Ends(SectionSizes)[i]}
<1>7. 0 \in T
  <2>1. SectionEnd(0) = 0 /\ Ends(SectionSizes)[0] = 0
    BY <1>6, EndsFacts, Zenon DEF SectionEnd
  <2> QED BY <1>1, <2>1
<1>8. ASSUME NEW i \in 1 .. n, i - 1 \in T
      PROVE  i \in T
  <2>1. SectionEnd(i) = sections[i].val.addr + sections[i].val.size
    BY DEF SectionEnd
  <2>2. sections[i].val.addr = Ends(SectionSizes)[i - 1]
    BY <1>3, <1>8, Zenon
  <2>3. Ends(SectionSizes)[i] = Ends(SectionSizes)[i - 1] + SectionSizes[i]
    BY <1>6, EndsFacts, Zenon
  <2>4. SectionEnd(i) = Ends(SectionSizes)[i] /\ i \in 0 .. n
    BY <1>1, <1>5, <2>1, <2>2, <2>3
  <2> QED BY <2>4, Zenon
<1>9. \A i \in 0 .. n : i \in T
  <2> HIDE DEF T
  <2> QED BY <1>1, <1>7, <1>8, Induction, Zenon
<1>10. \A i \in 1 .. n : sections[i].val.addr = Ends(SectionSizes)[i - 1]
  <2>1. \A i \in 1 .. n : i - 1 \in 0 .. n
    BY <1>1
  <2> QED BY <1>3, <1>9, <2>1, Zenon
<1>11. size = Total(SectionSizes)
  <2>1. n \in T
    BY <1>1, <1>9
  <2> QED BY <1>4, <1>6, <2>1, Zenon DEF Total
<1> QED BY <1>1, <1>6, <1>9, <1>10, <1>11, Zenon DEF n

\* Where the relocations of a section begin.
LEMMA RelocsEnd ==
  ASSUME TypeInv
  PROVE  /\ RelocCounts \in Seq(Nat) /\ Len(RelocCounts) = Len(sections) /\ Len(sections) \in Nat
         /\ RelocBytes \in Seq(Nat) /\ Len(RelocBytes) = Len(sections)
         /\ \A i \in DOMAIN sections : RelocCounts[i] = NReloc(i) /\ NReloc(i) \in Nat
         /\ \A i \in 0 .. Len(sections) : Ends(RelocBytes)[i] = Ends(RelocCounts)[i] * RelocInfoSize
<1> DEFINE n == Len(sections)
<1>1. /\ n \in Nat /\ DOMAIN sections = 1 .. n
      /\ \A i \in 1 .. n : sections[i] \in SectionEntry
  BY DEF TypeInv
<1>2. \A i \in 1 .. n : NReloc(i) \in Nat
  BY <1>1 DEF NReloc, SectionEntry, SectionRecord
<1> HIDE DEF n
<1>3. RelocInfoSize \in Nat
  BY Zenon DEF RelocInfoSize
<1>4. /\ RelocCounts \in [1 .. n -> Nat] /\ RelocBytes \in [1 .. n -> Nat]
      /\ \A i \in 1 .. n : /\ RelocCounts[i] = NReloc(i)
                           /\ RelocBytes[i] = RelocCounts[i] * RelocInfoSize
  BY <1>1, <1>2, <1>3 DEF RelocCounts, RelocBytes
<1>5. /\ RelocCounts \in Seq(Nat) /\ Len(RelocCounts) = n
      /\ RelocBytes \in Seq(Nat) /\ Len(RelocBytes) = n
  BY <1>1, <1>4
<1>6. \A i \in 0 .. n : Ends(RelocBytes)[i] = Ends(RelocCounts)[i] * RelocInfoSize
  <2> DEFINE k == RelocInfoSize
             s == RelocCounts
             t == RelocBytes
  <2>1. /\ s \in Seq(Nat) /\ t \in Seq(Nat) /\ k \in Nat /\ Len(t) = Len(s) /\ Len(s) = n
        /\ \A i \in 1 .. Len(s) : t[i] = s[i] * k
    BY <1>3, <1>4, <1>5, Zenon
  <2> HIDE DEF s, t, k
  <2>2. \A i \in 0 .. n : Ends(t)[i] = Ends(s)[i] * k
    BY <2>1, EndsScale, Zenon
  <2> QED BY <2>2, Zenon DEF s, t, k
<1> QED BY <1>1, <1>2, <1>4, <1>5, <1>6, Zenon DEF n

\* The sizes of the structures are sizes.
LEMMA SizesType == SegmentSize \in Nat /\ SectionSize \in Nat /\ NlistSize \in Nat
BY BigAssumption, Zenon DEF SegmentSize, SectionSize, NlistSize

\* What a finished build announces is where it is written: the symbols, the
\* strings and the relocations.
LEMMA AnnouncedIsActual ==
  ASSUME NamesHaveLength, IInv, PadsKnown, OffsetInv, AllAdded
  PROVE  LET at == Announced
             actual == Actual(Announced)
         IN /\ at.symtab = actual.symtab /\ at.strtab = actual.strtab /\ at.reloc = actual.reloc
            /\ at.first \in Nat /\ at.reloc \in Int /\ size \in Nat
            /\ at.first + size = actual.symtab
            /\ size = Total(SectionSizes) /\ size = Total(WrittenSizes)
<1>1. /\ stage = NDefault + 1 /\ stage = 5 /\ stage > 0 /\ ~(pos < NCustom)
      /\ TypeInv /\ SymtabType /\ Coherent /\ Placed /\ size \in Nat /\ symbol_offset = size
  <2>1. stage = NDefault + 1
    BY Zenon DEF AllAdded
  <2>2. Len(artifact.imports) \in Nat /\ Len(artifact.links) \in Nat /\ NCustom \in Nat
    <3>1. TypeInv
      BY Zenon DEF IInv
    <3> QED BY <3>1 DEF TypeInv, NCustom, GroupNames
  <2>3. ~(pos < NCustom)
    <3>1. pos = NCustom + Len(artifact.imports) + Len(artifact.links)
      BY Zenon DEF AllAdded, NImports, NLinks
    <3>2. \A c, i, l \in Nat : ~(c + i + l < c)
      OBVIOUS
    <3> QED BY <2>2, <3>1, <3>2, Zenon
  <2> QED BY <2>1, <2>3, LateFacts DEF NDefault, TypeInv
<1>2. WrittenSoFar = Len(WrittenDefs)
  BY <1>1, SoFarFacts, Zenon
<1>3. size = Total(WrittenSizes) /\ Total(WrittenSizes) \in Nat
  <2>1. SizesWritten
    BY <1>1, WrittenSizesType, Zenon
  <2> QED BY <1>1, <1>2, <2>1, Zenon DEF OffsetInv, SizesWritten, Total
<1>4. size = Total(SectionSizes)
  BY <1>1, SectionsEnd, Zenon
<1>5. offset = HeaderSize + size
  BY <1>1, Zenon DEF Placed
<1>6. strtable_size = 1 + Total(NameSizes) /\ Total(NameSizes) \in Nat /\ Len(symbols) \in Nat
  <2>1. /\ NameSizes \in Seq(Nat) /\ Len(NameSizes) = Len(symbols) /\ Len(symbols) \in Nat
        /\ strtable_size = 1 + Total(NameSizes)
    BY <1>1, NamesEnd, Zenon
  <2>2. Ends(NameSizes)[Len(NameSizes)] \in Nat
    BY <2>1, EndsFacts
  <2> QED BY <2>1, <2>2, Zenon DEF Total
<1>7. PICK load \in Nat, names \in Nat, nlists \in Nat, header \in Nat :
        /\ load = LoadCommandSize /\ names = Total(NameSizes)
        /\ nlists = Len(symbols) * NlistSize /\ header = HeaderSize
  <2>1. Len(sections) \in Nat
    BY <1>1 DEF TypeInv
  <2>2. \A x, y \in Nat : x * y \in Nat
    OBVIOUS
  <2>3. LoadCommandSize \in Nat
    <3>1. Len(sections) * SectionSize \in Nat
      BY <2>1, <2>2, SizesType, Zenon
    <3> QED BY <3>1, SizesType DEF LoadCommandSize, SymtabCommandSize
  <2>4. Len(symbols) * NlistSize \in Nat
    BY <1>6, <2>2, SizesType, Zenon
  <2> QED BY <1>6, <2>3, <2>4, HeaderSizeType, Zenon
<1>8. /\ Announced = [symtab |-> offset + load, strtab |-> offset + load + nlists,
                      reloc |-> offset + load + nlists + strtable_size,
                      first |-> header + load]
      /\ Actual(Announced) = [symtab |-> Announced.first + Total(WrittenSizes),
                              strtab |-> Announced.first + Total(WrittenSizes) + nlists,
                              reloc |-> Announced.first + Total(WrittenSizes) + nlists + 1 + names]
  BY <1>7, Zenon DEF Announced, Actual
<1>9. PICK sz \in Nat : sz = size /\ sz = Total(WrittenSizes)
  BY <1>1, <1>3, Zenon
<1>10. offset = header + sz /\ strtable_size = 1 + names
  BY <1>5, <1>6, <1>7, <1>9, Zenon
<1>11. /\ Announced.symtab = header + sz + load /\ Announced.strtab = header + sz + load + nlists
       /\ Announced.reloc = header + sz + load + nlists + (1 + names)
       /\ Announced.first = header + load
  BY <1>8, <1>10, Zenon
<1>12. /\ Actual(Announced).symtab = header + load + sz
       /\ Actual(Announced).strtab = header + load + sz + nlists
       /\ Actual(Announced).reloc = header + load + sz + nlists + 1 + names
  BY <1>8, <1>9, <1>11
<1>13. /\ header + sz + load = header + load + sz
       /\ header + sz + load + nlists = header + load + sz + nlists
       /\ header + sz + load + nlists + (1 + names) = header + load + sz + nlists + 1 + names
       /\ header + load \in Nat /\ header + sz + load + nlists + (1 + names) \in Int
  OBVIOUS
<1> HIDE <1>8
<1> QED BY <1>1, <1>3, <1>4, <1>9, <1>11, <1>12, <1>13, Zenon

\* What the header of a section says.
LEMMA HeaderFacts ==
  ASSUME IInv, stage > 0, NEW n \in DOMAIN sections, NEW at
  PROVE  LET h == Headers(at)[n]
         IN /\ h.sectname = sections[n].val.sectname /\ h.segname = sections[n].val.segname
            /\ h.flags = sections[n].val.flags
            /\ h.addr = Ends(SectionSizes)[n - 1] /\ h.size = SectionSizes[n]
            /\ h.offset = at.first + Ends(SectionSizes)[n - 1]
            /\ h.nreloc = RelocCounts[n]
            /\ h.nreloc > 0 => h.reloff = at.reloc + Ends(RelocBytes)[n - 1]
<1> DEFINE starts == Starts(at.first, SectionSizes)
           relocs == Starts(at.reloc, RelocBytes)
           s == sections[n].val
<1>1. Headers(at)[n] = [sectname |-> s.sectname, segname |-> s.segname, flags |-> s.flags, addr |-> s.addr,
            size |-> s.size, align |-> s.align, offset |-> starts[n], nreloc |-> NReloc(n),
            reloff |-> IF NReloc(n) = 0 THEN 0 ELSE relocs[n]]
  BY Zenon DEF Headers, SectionSizes, RelocBytes
<1>2. starts[n] = at.first + Ends(SectionSizes)[n - 1] /\ relocs[n] = at.reloc + Ends(RelocBytes)[n - 1]
  <2>1. DOMAIN SectionSizes = DOMAIN sections /\ DOMAIN RelocBytes = DOMAIN sections
    BY Zenon DEF SectionSizes, RelocBytes
  <2> QED BY <2>1, Zenon DEF Starts
<1>3. s.addr = Ends(SectionSizes)[n - 1] /\ s.size = SectionSizes[n] /\ NReloc(n) = RelocCounts[n]
  BY SectionsEnd, Zenon DEF IInv, SectionSizes, RelocCounts
<1> HIDE DEF s, starts, relocs
<1>4. RelocCounts[n] > 0 => NReloc(n) # 0
  BY <1>3
<1> DEFINE h == Headers(at)[n]
<1>5. /\ h.sectname = s.sectname /\ h.segname = s.segname /\ h.flags = s.flags
      /\ h.addr = s.addr /\ h.size = s.size /\ h.offset = starts[n] /\ h.nreloc = NReloc(n)
  BY <1>1
<1>6. h.reloff = IF NReloc(n) = 0 THEN 0 ELSE relocs[n]
  BY <1>1
<1>7. NReloc(n) # 0 => h.reloff = relocs[n]
  BY <1>6, Zenon
<1> QED BY <1>2, <1>3, <1>4, <1>5, <1>7, Zenon DEF h, s

-----------------------------------------------------------------------------
(* Every step of an emission keeps the layout *)

\* Nothing has been built.
Fresh ==
  /\ status \in {"idle", "building"} /\ (status # "idle" => artifact \in Artifacts)
  /\ stage = 0 /\ pos = 0 /\ groups = NoGroups /\ bss_size = 0 /\ sections = <<>>
  /\ DOMAIN align_pad_map = {}

\* What holds of the layout throughout an emission.
LayoutInv ==
  /\ status = "idle" => Fresh
  /\ FilingInv /\ SectionsMade /\ PadsKnown /\ OffsetInv
  /\ FileWritten /\ PanicsOnlyOnUnsupported

\* Nothing built is in order.
LEMMA FreshHolds == TypeInv /\ Fresh => LayoutInv
<1> SUFFICES ASSUME TypeInv, Fresh
             PROVE  LayoutInv
  BY Zenon
<1>1. /\ status \in {"idle", "building"} /\ stage = 0 /\ pos = 0 /\ groups = NoGroups
      /\ sections = <<>> /\ DOMAIN align_pad_map = {}
      /\ (status # "idle" => artifact \in Artifacts) /\ bss_size = 0
  BY Zenon DEF Fresh
<1>2. FilingInv
  <2>1. BssSizes \in Seq(Nat)
    BY BssSizesType, Zenon
  <2>2. Ends(BssSizes)[0] = 0
    BY <2>1, EndsFacts, Zenon
  <2>3. \A j \in DOMAIN artifact.definitions : ~(stage # 0 \/ j <= pos)
    BY <1>1 DEF TypeInv
  <2> QED BY <1>1, <2>2, <2>3, Zenon DEF FilingInv
<1>3. SectionsMade
  BY <1>1 DEF SectionsMade
<1>4. PadsKnown
  BY <1>1, Zenon DEF PadsKnown
<1>5. OffsetInv
  BY <1>1 DEF OffsetInv
<1>6. FileWritten /\ PanicsOnlyOnUnsupported
  BY <1>1, Zenon DEF FileWritten, PanicsOnlyOnUnsupported
<1> QED BY <1>2, <1>3, <1>4, <1>5, <1>6, Zenon DEF LayoutInv

\* What is built stays in order when only the status changes.
LEMMA BuiltStays ==
  ASSUME FilingInv, SectionsMade, PadsKnown, OffsetInv, status' # "idle" => status # "idle",
         UNCHANGED <<artifact, stage, pos, partition, symtab, segment>>
  PROVE  FilingInv' /\ SectionsMade' /\ PadsKnown' /\ OffsetInv'
<1>1. /\ UNCHANGED <<artifact, stage, pos, groups, bss_size>>
      /\ UNCHANGED <<sections, symbol_offset, align_pad_map, open>>
  BY Zenon DEF partition, segment
<1>2. FilingInv'
  <2>1. BssSizes' = BssSizes /\ NDefs' = NDefs
    BY <1>1, Zenon DEF BssSizes, NDefs
  <2> QED BY <1>1, <2>1, Zenon DEF FilingInv
<1>3. SectionsMade'
  BY <1>1, Zenon DEF SectionsMade
<1>4. PadsKnown'
  BY <1>1, PadsStay, Zenon
<1>5. OffsetInv'
  <2>1. WrittenSizes' = WrittenSizes
    BY <1>1, Zenon DEF WrittenSizes, WrittenDefs, PadAfter
  <2>2. WrittenSoFar' = WrittenSoFar
    BY <1>1, Zenon DEF WrittenSoFar, Base, BaseIn, NCustom
  <2> QED BY <1>1, <2>1, <2>2, Zenon DEF OffsetInv
<1> QED BY <1>2, <1>3, <1>4, <1>5, Zenon

\* Every step of an emission keeps the layout in order.
LEMMA LayoutKeeps ==
  ASSUME DefaultNamesShort, IInv, IInv', LayoutInv, [Next]_vars
  PROVE  LayoutInv'
<1>0. TypeInv' /\ FilingInv /\ SectionsMade /\ PadsKnown /\ OffsetInv
  BY Zenon DEF IInv, LayoutInv
<1>1. ASSUME NEW a \in Artifacts, New(a), UNCHANGED file
      PROVE  LayoutInv'
  <2>1. status = "idle" /\ artifact' = a /\ status' = "building"
        /\ UNCHANGED <<stage, pos, partition, symtab, segment>>
    BY <1>1, Zenon DEF New
  <2>2. Fresh'
    BY <2>1, Zenon DEF LayoutInv, Fresh, partition, segment
  <2> QED BY <1>0, <2>2, FreshHolds, PTL
<1>2. CASE BuildStep /\ UNCHANGED file
  <2>1. status = "building" /\ status' \in {"building", "panic"}
    BY <1>2, Zenon DEF BuildStep, PartitionStep, StartSegment, DefinitionStep, SectionStep, CustomStep,
                ImportStep, LinkStep, At, Panic, Building
  <2>2. FilingInv' /\ SectionsMade' /\ PadsKnown'
    BY <1>0, <1>2, FilingKeeps, SectionsMadeKeeps, PadsKeep, Zenon
  <2>3. OffsetInv'
    BY <1>0, <1>2, <2>2, OffsetKeeps, Zenon
  <2>4. PanicsOnlyOnUnsupported'
    BY <1>0, <1>2, BuildPanics, Zenon DEF PanicsOnlyOnUnsupported
  <2> QED BY <2>1, <2>2, <2>3, <2>4, Zenon DEF LayoutInv, FileWritten
<1>3. CASE Write
  <2>1. /\ status = "building" /\ AllAdded
        /\ NamesTooLong \/ status' = "written"
        /\ status' \in {"written", "panic"}
        /\ UNCHANGED <<artifact, stage, pos, partition, symtab, segment>>
    BY <1>3, Zenon DEF Write, Building
  <2>2. FilingInv' /\ SectionsMade' /\ PadsKnown' /\ OffsetInv'
    BY <1>0, <2>1, BuiltStays, Zenon
  <2>3. PanicsOnlyOnUnsupported'
    <3>1. CASE NamesTooLong
      <4>1. Unsupported(artifact)
        BY <1>0, <2>1, <3>1, LongNamesUnsupported, Zenon
      <4> QED BY <2>1, <4>1, Zenon DEF PanicsOnlyOnUnsupported
    <3>2. CASE status' = "written"
      BY <3>2, Zenon DEF PanicsOnlyOnUnsupported
    <3> QED BY <2>1, <3>1, <3>2, Zenon
  <2> QED BY <1>3, <2>1, <2>2, <2>3, WriteMakesFile, Zenon DEF LayoutInv
<1>4. CASE Return
  <2>1. Fresh'
    BY <1>4, Zenon DEF Return, Fresh
  <2> QED BY <1>0, <2>1, FreshHolds, PTL
<1>5. CASE UNCHANGED vars
  <2>1. /\ UNCHANGED <<artifact, stage, pos, partition, symtab, segment>>
        /\ status' = status /\ file' = file
    BY <1>5, Zenon DEF vars, buildVars
  <2>2. FilingInv' /\ SectionsMade' /\ PadsKnown' /\ OffsetInv'
    BY <1>0, <2>1, BuiltStays, Zenon
  <2>3. PanicsOnlyOnUnsupported' /\ (status' = "idle" => Fresh')
    BY <2>1, Zenon DEF LayoutInv, PanicsOnlyOnUnsupported, Fresh, partition, segment
  <2>4. FileWritten'
    <3>1. FileWritten
      BY Zenon DEF LayoutInv
    <3> QED BY <2>1, <3>1, PartsStay, Zenon DEF FileWritten
  <2> QED BY <2>2, <2>3, <2>4, Zenon DEF LayoutInv
<1> QED BY <1>1, <1>2, <1>3, <1>4, <1>5, Zenon DEF Next

\* The layout is in order throughout.
LEMMA LayoutAlways ==
  ASSUME NamesHaveLength, NoDefaultNames(Artifacts), DefaultNamesShort
  PROVE  Spec => [](IInv /\ LayoutInv)
<1>1. Init => Fresh
  BY Zenon DEF Init, BuildInit, Fresh
<1>2. IInv => TypeInv
  BY Zenon DEF IInv
<1>3. IInv /\ IInv' /\ LayoutInv /\ [Next]_vars => LayoutInv'
  BY LayoutKeeps, Zenon
<1>4. Spec => []IInv
  BY Invariant, Zenon
<1> QED BY <1>1, <1>2, <1>3, <1>4, FreshHolds, PTL DEF Spec

\* Whatever is emitted, Mach::new and write panic on nothing but what the backend
\* says it does not support: every section and symbol they look up is there.
THEOREM PanicsAlwaysUnsupported ==
  ASSUME NamesHaveLength, NoDefaultNames(Artifacts), DefaultNamesShort
  PROVE  Spec => []PanicsOnlyOnUnsupported
<1>1. LayoutInv => PanicsOnlyOnUnsupported
  BY Zenon DEF LayoutInv
<1> QED BY <1>1, LayoutAlways, PTL

=============================================================================
