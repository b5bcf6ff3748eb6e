----------------------------- MODULE MachProofs -----------------------------
(***************************************************************************)
(* What holds of the Mach-O backend's tables and offsets at every step of  *)
(* every emission, for any set of artifacts.                               *)
(***************************************************************************)
EXTENDS MachLemmas

-----------------------------------------------------------------------------
(* Every step of Mach::new keeps the invariant *)

\* A pass through the partition loop files the next definition in its group.
LEMMA PartitionKeeps ==
  ASSUME IInv, PartitionStep
  PROVE  IInv'
<1> DEFINE def == artifact.definitions[pos + 1]
           g == GroupOf(def)
<1>1. /\ stage = 0 /\ stage' = 0 /\ pos' = pos + 1 /\ pos < NDefs
      /\ UNCHANGED <<artifact, status, symtab, segment>>
      /\ groups' = [groups EXCEPT ![g] = Append(@, def)]
  BY Zenon DEF PartitionStep, Partition, At
<1>2. UNCHANGED <<symbols, strtable, indexes, strtable_size, sections, offset, size,
                  symbol_offset, open>>
  BY <1>1, Zenon DEF symtab, segment
<1>3. pos \in Nat /\ artifact.definitions \in Seq(Definition)
  BY DEF IInv, TypeInv
<1>4. pos + 1 \in DOMAIN artifact.definitions /\ def \in Definition
  BY <1>1, <1>3 DEF NDefs
<1>5. g \in GroupNames
  BY <1>4, GroupOfType
<1>6. groups \in [GroupNames -> Seq(Definition)]
  BY DEF IInv, TypeInv
<1> HIDE DEF def
<1>7. groups' \in [GroupNames -> Seq(Definition)]
  BY <1>1, <1>4, <1>5, <1>6
<1>8. /\ \A h \in GroupNames : h # g => groups'[h] = groups[h]
      /\ groups'[g] = Append(groups[g], def)
  BY <1>1, <1>5, <1>6
<1> HIDE DEF g
<1>9. /\ groups[g] \in Seq(Definition) /\ Len(groups[g]) \in Nat
      /\ DOMAIN groups[g] = 1 .. Len(groups[g])
      /\ DOMAIN groups'[g] = 1 .. Len(groups[g]) + 1
      /\ \A i \in 1 .. Len(groups[g]) : groups'[g][i] = groups[g][i]
      /\ groups'[g][Len(groups[g]) + 1] = def
  BY <1>4, <1>5, <1>6, <1>8
<1>10. TypeInv'
  BY <1>1, <1>2, <1>3, <1>7 DEF IInv, TypeInv, SymtabType
<1>11. GroupsInv'
  <2> DEFINE Old(h, i) == i \in DOMAIN groups[h] /\ groups'[h][i] = groups[h][i]
             Last(h, i) == h = g /\ i = Len(groups[g]) + 1 /\ groups'[h][i] = def
  <2>1. \A h \in GroupNames : \A i \in DOMAIN groups'[h] : Old(h, i) \/ Last(h, i)
    <3> SUFFICES ASSUME NEW h \in GroupNames, NEW i \in DOMAIN groups'[h]
                 PROVE  Old(h, i) \/ Last(h, i)
      OBVIOUS
    <3>1. CASE h # g
      BY <3>1, <1>8
    <3>2. CASE h = g
      BY <3>2, <1>9
    <3> QED BY <3>1, <3>2
  <2>2. \A h \in GroupNames : \A i \in DOMAIN groups[h] :
          /\ GroupOf(groups[h][i]) = h
          /\ \E j \in DOMAIN artifact.definitions :
               groups[h][i] = artifact.definitions[j] /\ j <= pos
    BY <1>1, Zenon DEF IInv, GroupsInv, GroupsFiled
  <2>3. \A i, j \in DOMAIN artifact.definitions :
          artifact.definitions[i].name = artifact.definitions[j].name => i = j
    BY DEF IInv, GroupsInv
  <2>4. \A h \in GroupNames : \A i \in DOMAIN groups[h] : groups[h][i].name # def.name
    BY <2>2, <2>3, <1>3, <1>4 DEF def
  <2>5. \A h \in GroupNames : \A i \in DOMAIN groups'[h] :
          /\ GroupOf(groups'[h][i]) = h
          /\ \E j \in DOMAIN artifact.definitions :
               groups'[h][i] = artifact.definitions[j] /\ j <= pos + 1
    <3> SUFFICES ASSUME NEW h \in GroupNames, NEW i \in DOMAIN groups'[h]
                 PROVE  /\ GroupOf(groups'[h][i]) = h
                        /\ \E j \in DOMAIN artifact.definitions :
                             groups'[h][i] = artifact.definitions[j] /\ j <= pos + 1
      OBVIOUS
    <3>1. CASE Old(h, i)
      BY <3>1, <2>2, <1>3
    <3>2. CASE Last(h, i)
      BY <3>2, <1>3, <1>4 DEF def, g
    <3> QED BY <2>1, <3>1, <3>2
  <2>6. \A h, k \in GroupNames : \A i \in DOMAIN groups'[h], j \in DOMAIN groups'[k] :
          groups'[h][i].name = groups'[k][j].name => h = k /\ i = j
    <3> SUFFICES ASSUME NEW h \in GroupNames, NEW k \in GroupNames,
                        NEW i \in DOMAIN groups'[h], NEW j \in DOMAIN groups'[k],
                        groups'[h][i].name = groups'[k][j].name
                 PROVE  h = k /\ i = j
      OBVIOUS
    <3>1. CASE Old(h, i) /\ Old(k, j)
      <4>1. /\ i \in DOMAIN groups[h] /\ j \in DOMAIN groups[k] /\ GroupsInv
            /\ groups[h][i].name = groups[k][j].name
        BY <3>1, Zenon DEF IInv
      <4> HIDE DEF Old, Last
      <4> QED BY <4>1, GroupsDiffer
    <3>2. CASE Old(h, i) /\ Last(k, j)
      BY <3>2, <2>4
    <3>3. CASE Last(h, i) /\ Old(k, j)
      BY <3>3, <2>4
    <3>4. CASE Last(h, i) /\ Last(k, j)
      BY <3>4
    <3> QED BY <2>1, <3>1, <3>2, <3>3, <3>4
  <2>7. pos' <= NDefs'
    BY <1>1, <1>3 DEF NDefs
  <2>8. \A i \in DOMAIN artifact.definitions :
          IsSection(artifact.definitions[i].decl) =>
            artifact.definitions[i].name \notin DefaultNames
    BY DEF IInv, GroupsInv
  <2>9. GroupsFiled' /\ GroupsApart'
    <3>1. GroupsFiled'
      BY <1>1, <2>5 DEF GroupsFiled
    <3>2. GroupsApart'
      BY <1>1, <2>6 DEF GroupsApart
    <3> QED BY <3>1, <3>2
  <2> QED BY <1>1, <2>3, <2>7, <2>8, <2>9, Zenon DEF GroupsInv
<1>12. SectionsInv'
  <2>1. Len(sections) = 0 /\ DOMAIN sections = {}
    BY <1>1 DEF IInv, SectionsInv, SectionsDone, TypeInv
  <2> QED BY <1>1, <1>2, <2>1 DEF SectionsInv, SectionsDone
<1>13. StageInv'
  <2>1. status = "building"
    BY DEF PartitionStep, Building
  <2>2. open.size = 0 /\ symbols = <<>> /\ DOMAIN indexes = {} /\ size = 0 /\ symbol_offset = 0
    BY <1>1 DEF IInv, StageInv, InDefault, NDefault
  <2> QED BY <1>1, <1>2, <2>1, <2>2 DEF StageInv, InDefault, NDefault
<1> QED BY <1>1, <1>10, <1>11, <1>12, <1>13 DEF IInv

\* The symbol table starts with the empty name, and the segment after the header.
LEMMA StartKeeps ==
  ASSUME IInv, StartSegment
  PROVE  IInv'
<1>1. /\ stage = 0 /\ pos = NDefs /\ stage' = 1 /\ pos' = 0 /\ status = "building"
      /\ UNCHANGED <<artifact, status, groups, symbols, indexes, sections, size, symbol_offset>>
      /\ strtable_size' = 1 /\ offset' = HeaderSize /\ open' = Opened(1)
  BY Zenon DEF StartSegment, At, partition, Building
<1>2. /\ symbols = <<>> /\ DOMAIN indexes = {} /\ size = 0 /\ symbol_offset = 0
      /\ Len(sections) = 0 /\ DOMAIN sections = {}
  BY <1>1 DEF IInv, StageInv, SectionsInv, SectionsDone, TypeInv
<1>3. 1 \in 1 .. NDefault /\ DefaultSections[1].min \in Int
  BY DEF NDefault, DefaultSections
<1>4. strtable' \in Seq(Text) /\ Len(strtable') = 1
  <2>1. \A x \in Text : <<x>> \in Seq(Text) /\ Len(<<x>>) = 1
    OBVIOUS
  <2>2. "" \in Text /\ strtable' = <<"">>
    BY Zenon DEF Text, StartSegment
  <2> QED BY <2>1, <2>2, Zenon
<1>5. open' = [size |-> 0, exponent |-> DefaultSections[1].min, inserted |-> 0]
  BY <1>1, <1>3 DEF Opened
<1>6. TypeInv'
  BY <1>1, <1>3, <1>4, <1>5, HeaderSizeType DEF IInv, TypeInv, SymtabType, NDefault
<1>7. GroupsInv'
  BY <1>1, GroupsStay DEF IInv
<1>8. SectionsInv'
  BY <1>1, <1>2 DEF SectionsInv, SectionsDone, NDefault
<1>9. StageInv'
  <2>1. DefaultGroup(1) \in Seq(Definition)
    BY <1>3, DefinitionTypes DEF IInv
  <2>2. \A j \in DOMAIN DefaultGroup(1) : OnUnit(0, 1, DefaultGroup(1)[j])
    BY <1>3, DefinitionTypes DEF IInv
  <2>3. Group' = DefaultGroup(1) /\ open'.size = 0
    BY <1>1, <1>5 DEF Group, DefaultGroup
  <2>4. 0 <= Len(DefaultGroup(1))
        /\ (0 < Len(DefaultGroup(1)) => OnUnit(0, 1, DefaultGroup(1)[0 + 1]))
    BY <2>1, <2>2
  <2>5. stage' # 0 /\ status' # "idle" /\ stage' \in 1 .. NDefault /\ pos' = 0
    BY <1>1, <1>3
  <2>6. OnUnit(open.size, stage, Group[pos + 1])' <=> OnUnit(0, 1, DefaultGroup(1)[0 + 1])
    BY <1>1, <2>3, <2>5, Zenon DEF OnUnit, Unit
  <2> QED BY <2>3, <2>4, <2>5, <2>6, Zenon DEF StageInv, InDefault
<1>10. Coherent'
  BY <1>1, <1>2, <1>4 DEF Coherent, StringEnd
<1>11. Placed'
  BY <1>1, <1>2, <1>5, HeaderSizeType DEF Placed, SectionEnd
<1>12. Aligned'
  <2>1. DOMAIN symbols' = {}
    BY <1>1, <1>2
  <2> QED BY <2>1, Zenon DEF Aligned
<1> QED BY <1>6, <1>7, <1>8, <1>9, <1>10, <1>11, <1>12 DEF IInv

\* A definition of a default section gets its symbol, and what follows it is
\* padded for the definition after it.
LEMMA DefinitionKeeps ==
  ASSUME NamesHaveLength, IInv, DefinitionStep
  PROVE  IInv'
<1> DEFINE def == Group[pos + 1]
           end == open.size + FileSize(def.data)
           pad == Pad(end, NextExponent)
           kind == Defined(stage - 1, symbol_offset, open.size, IsGlobal(def.decl))
<1>1. /\ stage \in 1 .. NDefault /\ stage' = stage /\ pos' = pos + 1 /\ pos < Len(Group)
      /\ status = "building"
      /\ UNCHANGED <<artifact, status, groups, sections, offset, size>>
      /\ InsertSymbol(def.name, kind)
      /\ symbol_offset' = symbol_offset + FileSize(def.data) + pad
      /\ open' = [open EXCEPT !.size = end + pad, !.exponent = MaxOf(@, NextExponent)]
  BY DEF DefinitionStep, PlaceDefinition, At, partition, InDefault, Building
<1>2. TypeInv /\ GroupsInv /\ SectionsInv /\ StageInv /\ Coherent /\ Placed /\ Aligned
  BY <1>1 DEF IInv, NDefault
<1>3. /\ pos \in Nat /\ size \in Nat /\ symbol_offset \in Nat
      /\ open \in [size : Nat, exponent : Int, inserted : Nat] /\ SymtabType
  BY <1>2 DEF TypeInv
<1>4. Group \in Seq(Definition) /\ Group = DefaultGroup(stage)
  BY <1>1, <1>2, DefinitionTypes DEF Group
<1>5. pos + 1 \in DOMAIN Group /\ def \in Definition
  <2>1. Len(Group) \in Nat /\ DOMAIN Group = 1 .. Len(Group)
    BY <1>4
  <2>2. pos < Len(Group)
    BY <1>1
  <2> QED BY <1>3, <1>4, <2>1, <2>2
<1>6. def.name \in Name /\ FileSize(def.data) \in Nat /\ end \in Nat
  BY <1>3, <1>5 DEF Definition, FileSize
<1>7. NextExponent \in 0 .. MaxAlignExponent
  <2>1. CASE pos + 2 \in DOMAIN Group
    <3>1. Group[pos + 2] \in Definition
      BY <1>1, <1>2, <1>4, <2>1, DefinitionTypes, Zenon
    <3>2. NextExponent = Unit(stage, Group[pos + 2])
      BY <2>1, Zenon DEF NextExponent, Unit
    <3> QED BY <1>1, <1>2, <3>1, <3>2, DefinitionTypes, Zenon
  <2>2. CASE pos + 2 \notin DOMAIN Group
    BY <1>1, <2>2, DefaultFacts DEF NextExponent, MaxOf
  <2> QED BY <2>1, <2>2
<1>8. pad \in Nat /\ (end + pad) % 2^NextExponent = 0
  BY <1>6, <1>7, PadAligns
<1>9. kind \in Kind /\ ~kind.import /\ kind.section = stage - 1
      /\ kind.absolute_offset = symbol_offset /\ kind.relative_offset = open.size
  BY <1>1, <1>3 DEF Kind, Defined, IsGlobal, NDefault
<1> HIDE DEF def, end, pad, kind
<1>10. /\ SymtabType' /\ Coherent'
       /\ \/ symbols' = symbols
          \/ symbols' = Append(symbols, Entry(def.name, kind))
  BY <1>1, <1>2, <1>3, <1>6, <1>9, InsertSymbolKeeps
<1>11. open'.size = end + pad /\ open' \in [size : Nat, exponent : Int, inserted : Nat]
  <2>1. MaxOf(open.exponent, NextExponent) \in Int
    BY <1>3, <1>7 DEF MaxOf
  <2>2. open' = [open EXCEPT !.size = end + pad, !.exponent = MaxOf(@, NextExponent)]
    BY <1>1
  <2>3. end + pad \in Nat
    BY <1>6, <1>8
  <2> QED BY <1>3, <2>1, <2>2, <2>3, Zenon
<1>12. symbol_offset = size + open.size /\ Len(sections) = stage - 1
  BY <1>1, <1>2 DEF Placed, SectionsInv, SectionsDone, NDefault
<1>13. symbol_offset' \in Nat /\ symbol_offset' = size + open'.size
  <2>1. symbol_offset' = symbol_offset + FileSize(def.data) + pad
    BY <1>1
  <2>2. open.size \in Nat /\ end = open.size + FileSize(def.data)
    BY <1>3 DEF end
  <2>3. symbol_offset + FileSize(def.data) + pad = size + (end + pad)
    <3>1. PICK fs \in Nat : fs = FileSize(def.data)
      BY <1>6
    <3>2. size \in Nat /\ FileSize(def.data) \in Nat /\ pad \in Nat
      BY <1>3, <1>6, <1>8
    <3>3. symbol_offset = size + open.size
      BY <1>12
    <3>4. PICK o \in Nat : o = open.size
      BY <2>2
    <3>5. symbol_offset = size + o /\ end = o + fs
      BY <2>2, <3>1, <3>3, <3>4
    <3>6. symbol_offset + fs + pad = size + (end + pad)
      BY <3>2, <3>5
    <3> QED BY <3>1, <3>6
  <2> QED BY <1>3, <1>6, <1>8, <1>11, <2>1, <2>3
<1>14. TypeInv'
  <2>1. UNCHANGED <<artifact, status, stage, groups, sections, offset, size>> /\ pos' \in Nat
    BY <1>1, <1>3
  <2> QED BY <1>2, <1>10, <1>11, <1>13, <2>1 DEF TypeInv
<1>15. GroupsInv'
  BY <1>1, <1>2, GroupsStay DEF NDefault
<1>16. SectionsInv'
  BY <1>1, <1>2 DEF SectionsInv, SectionsDone, SectionKey
<1>17. StageInv'
  <2>1. Group' = Group
    BY <1>1, Zenon DEF Group, DefaultGroup
  <2>2. pos' = pos + 1 /\ pos' + 1 = pos + 2 /\ pos' <= Len(Group)
    BY <1>1, <1>3, <1>4
  <2>3. ASSUME pos' < Len(Group)
        PROVE  OnUnit(open.size, stage, Group[pos + 1])'
    <3>1. pos + 2 \in DOMAIN Group
      <4>1. Len(Group) \in Nat /\ DOMAIN Group = 1 .. Len(Group)
        BY <1>4
      <4> QED BY <1>3, <2>2, <2>3, <4>1
    <3>2. NextExponent = Unit(stage, Group[pos + 2])
      BY <3>1, Zenon DEF NextExponent, Unit
    <3>3. open'.size % 2^Unit(stage, Group[pos + 2]) = 0
      BY <3>2, <1>8, <1>11, Zenon
    <3>4. Unit(stage, Group[pos + 1])' = Unit(stage, Group[pos + 2])
      BY <1>1, <2>1, <2>2, Zenon DEF Unit
    <3> QED BY <3>3, <3>4, Zenon DEF OnUnit
  <2>4. stage' # 0 /\ status' # "idle" /\ InDefault'
    BY <1>1 DEF InDefault, NDefault
  <2> QED BY <2>1, <2>2, <2>3, <2>4, Zenon DEF StageInv
<1>18. Placed'
  <2>1. kind.section = Len(sections) /\ kind.absolute_offset = size + kind.relative_offset
    BY <1>9, <1>12, Zenon
  <2> QED BY <1>1, <1>2, <1>6, <1>9, <1>10, <1>13, <2>1, PlacedAfterSymbol, Zenon
<1>19. Aligned'
  <2>1. PICK entry \in SymbolEntry : entry = Entry(def.name, kind)
    BY <1>3, <1>6, <1>9, EntryFacts, Zenon
  <2>2. entry.key = def.name /\ entry.sym = kind
    BY <1>3, <1>6, <1>9, <2>1, EntryFacts, Zenon
  <2>3. OnUnit(open.size, stage, def)
    BY <1>1, <1>2, Zenon DEF StageInv, InDefault, def
  <2>4. open.size \in Nat
    BY <1>3
  <2>5. open.size % 2^AlignExp(def.decl) = 0
    BY <1>1, <1>5, <2>3, <2>4, UnitAligns, Zenon
  <2>6. ASSUME NEW k \in 1 .. NDefault, NEW j \in DOMAIN DefaultGroup(k)
        PROVE  OnAlignment(entry, k, DefaultGroup(k)[j])
    <3>1. SUFFICES ASSUME def.name = DefaultGroup(k)[j].name, stage - 1 = k - 1
                   PROVE  open.size % 2^AlignExp(DefaultGroup(k)[j].decl) = 0
      BY <1>9, <2>2, Zenon DEF OnAlignment
    <3>2. k = stage
      BY <1>1, <3>1 DEF NDefault
    <3>3. j = pos + 1
      <4>1. DefaultSections[stage].group \in GroupNames
        BY <1>1, DefaultFacts, Zenon
      <4>2. /\ j \in DOMAIN groups[DefaultSections[stage].group]
            /\ pos + 1 \in DOMAIN groups[DefaultSections[stage].group]
            /\ groups[DefaultSections[stage].group][j].name
                 = groups[DefaultSections[stage].group][pos + 1].name
        BY <1>4, <1>5, <3>1, <3>2, Zenon DEF DefaultGroup, def
      <4> QED BY <1>2, <4>1, <4>2, GroupsDiffer
    <3> QED BY <1>4, <2>5, <3>2, <3>3, Zenon DEF def
  <2>7. AlignedIn(entry)
    BY <2>6, Zenon DEF AlignedIn
  <2> QED BY <1>1, <1>2, <1>3, <1>10, <2>1, <2>7, AlignedAfterSymbol, Zenon
<1> QED BY <1>10, <1>14, <1>15, <1>16, <1>17, <1>18, <1>19 DEF IInv

\* A default section takes what was laid out in it, and the next stage begins.
LEMMA SectionKeeps ==
  ASSUME IInv, SectionStep
  PROVE  IInv'
<1> DEFINE d == DefaultSections[stage]
<1>1. /\ stage \in 1 .. NDefault /\ stage' = stage + 1 /\ pos' = 0 /\ status = "building"
      /\ UNCHANGED <<artifact, status, groups, symtab, symbol_offset>>
      /\ AddSection(d.sectname, d.sectname, d.segname, d.flags, open.size, open.exponent)
      /\ open' = Opened(stage + 1)
  BY DEF SectionStep, CloseSection, At, partition, InDefault, Building
<1>2. UNCHANGED <<symbols, strtable, indexes, strtable_size>>
  BY <1>1 DEF symtab
<1>3. TypeInv /\ GroupsInv /\ SectionsInv /\ StageInv /\ Coherent /\ Placed /\ Aligned
  BY <1>1 DEF IInv, NDefault
<1>4. /\ size \in Nat /\ sections \in Seq(SectionEntry)
      /\ open.size \in Nat /\ open.exponent \in Int
  BY <1>3 DEF TypeInv
<1>5. stage \in 1 .. 4 /\ stage' \in 2 .. 5 /\ stage' # 0
  BY <1>1 DEF NDefault
<1>6. Len(sections) = stage - 1 /\ DOMAIN sections = 1 .. stage - 1
  BY <1>3, <1>4, <1>5 DEF SectionsInv, SectionsDone, NDefault
<1>7. \A i \in 1 .. stage - 1 : sections[i].key = DefaultSections[i].sectname
  BY <1>3, <1>5, <1>6 DEF SectionsInv, SectionKey, NDefault
<1>8. ~Has(sections, d.sectname)
  <2> SUFFICES ASSUME NEW i \in 1 .. stage - 1, sections[i].key = d.sectname
               PROVE  FALSE
    BY <1>6 DEF Has
  <2>1. i \in 1 .. NDefault /\ i # stage
    BY <1>5 DEF NDefault
  <2> QED BY <1>1, <1>7, <2>1, DefaultDistinct
<1>9. /\ d.sectname \in Keys /\ d.sectname \in SectNames
      /\ d.segname \in SegNames /\ d.flags \in SUBSET Flags
  BY <1>1, DefaultFacts DEF Keys, SectNames
<1> HIDE DEF d
<1>10. /\ sections' \in Seq(SectionEntry)
       /\ Len(sections') = Len(sections) + 1
       /\ \A i \in 1 .. Len(sections) : sections'[i] = sections[i]
       /\ sections'[Len(sections) + 1].key = d.sectname
       /\ sections'[Len(sections) + 1].val.addr = size
       /\ sections'[Len(sections) + 1].val.size = open.size
       /\ size' = size + open.size /\ offset' = offset + open.size
  BY <1>1, <1>4, <1>8, <1>9, AddSectionAppends
<1>11. /\ open'.size = 0 /\ open'.inserted = 0 /\ open'.exponent \in Int
       /\ open' \in [size : Nat, exponent : Int, inserted : Nat]
  <2>1. stage + 1 \in 1 .. NDefault => DefaultSections[stage + 1].min \in Int
    BY DefaultFacts DEF MaxAlignExponent
  <2> QED BY <1>1, <2>1 DEF Opened
<1>12. TypeInv'
  <2>1. offset' \in Int /\ size' \in Nat
    <3>1. offset \in Int
      BY <1>3 DEF TypeInv
    <3>2. size' = size + open.size /\ offset' = offset + open.size
      BY <1>10
    <3> QED BY <1>4, <3>1, <3>2
  <2>2. stage' \in 0 .. NDefault + 1 /\ pos' \in Nat
    BY <1>1, <1>5 DEF NDefault
  <2>3. UNCHANGED <<artifact, status, groups, symbol_offset>>
    BY <1>1
  <2>4. SymtabType'
    BY <1>2, <1>3 DEF TypeInv, SymtabType
  <2> QED BY <1>3, <1>10, <1>11, <2>1, <2>2, <2>3, <2>4 DEF TypeInv
<1>13. GroupsInv'
  BY <1>1, <1>3, <1>5, GroupsStay
<1>14. SectionsInv'
  <2>1. NCustom' \in Nat
    BY <1>1, <1>3 DEF NCustom, TypeInv, GroupNames
  <2>2. SectionsDone' = stage
    <3>1. stage' = stage + 1 /\ pos' = 0
      BY <1>1
    <3>2. CASE stage = 4
      <4>1. stage' = 5 /\ pos' = 0 /\ (pos' < NCustom' \/ NCustom' = 0)
        BY <2>1, <3>1, <3>2
      <4> QED BY <3>2, <4>1 DEF SectionsDone, NDefault
    <3>3. CASE stage \in 1 .. 3
      <4>1. stage' \in 2 .. 4 /\ stage' - 1 = stage
        BY <3>1, <3>3
      <4> QED BY <4>1 DEF SectionsDone, NDefault
    <3> QED BY <1>5, <3>2, <3>3
  <2>3. Len(sections') = stage /\ DOMAIN sections' = 1 .. stage
    BY <1>5, <1>6, <1>10
  <2>4. \A i \in 1 .. stage : sections'[i].key = DefaultSections[i].sectname
    BY <1>5, <1>6, <1>7, <1>10 DEF d
  <2>5. \A i \in 1 .. stage : SectionKey(i)' = DefaultSections[i].sectname
    BY <1>5 DEF SectionKey, NDefault
  <2> QED BY <2>2, <2>3, <2>4, <2>5 DEF SectionsInv
<1>15. StageInv'
  <2>1. ASSUME stage' \in 1 .. NDefault
        PROVE  /\ pos' <= Len(Group')
               /\ pos' < Len(Group') => OnUnit(open.size, stage, Group[pos + 1])'
    <3>1. PICK k \in 1 .. NDefault : k = stage'
      BY <2>1
    <3>2. /\ DefaultGroup(k) \in Seq(Definition)
          /\ \A j \in DOMAIN DefaultGroup(k) : OnUnit(0, k, DefaultGroup(k)[j])
      BY <1>3, DefinitionTypes, Zenon
    <3>3. Group' = DefaultGroup(k)
      BY <1>1, <3>1, Zenon DEF Group, DefaultGroup
    <3>4. 0 <= Len(DefaultGroup(k))
          /\ (0 < Len(DefaultGroup(k)) => OnUnit(0, k, DefaultGroup(k)[0 + 1]))
      BY <3>2
    <3>5. OnUnit(0, k, DefaultGroup(k)[0 + 1]) <=> OnUnit(open.size, stage, Group[pos + 1])'
      BY <1>1, <1>11, <3>1, <3>3, Zenon DEF OnUnit, Unit
    <3> QED BY <1>1, <3>3, <3>4, <3>5
  <2>2. stage' # 0 /\ status' # "idle" /\ open'.size = 0
    BY <1>1, <1>5, <1>11
  <2> QED BY <2>1, <2>2, Zenon DEF StageInv, InDefault
<1>16. Coherent'
  BY <1>1, <1>2, <1>3, TablesStay, Zenon
<1>17. Placed'
  <2>1. symbol_offset' = size' + open'.size
    <3>1. symbol_offset' = size + open.size
      BY <1>1, <1>3 DEF Placed
    <3> QED BY <1>4, <1>10, <1>11, <3>1
  <2> QED BY <1>2, <1>3, <1>4, <1>10, <2>1, PlacedAfterSection
<1>18. Aligned'
  BY <1>1, <1>2, <1>3, TablesStay, Zenon
<1> QED BY <1>12, <1>13, <1>14, <1>15, <1>16, <1>17, <1>18 DEF IInv

\* Facts of the stage after the default sections, which its steps share.
LEMMA LateFacts ==
  ASSUME IInv, stage = NDefault + 1
  PROVE  /\ TypeInv /\ GroupsInv /\ SectionsInv /\ StageInv /\ Coherent /\ Placed /\ Aligned
         /\ stage # 0 /\ stage \notin 1 .. NDefault
         /\ open.size = 0 /\ symbol_offset = size
         /\ size \in Nat /\ symbol_offset \in Nat /\ pos \in Nat /\ NCustom \in Nat
         /\ Len(sections) = NDefault + (IF pos < NCustom THEN pos ELSE NCustom)
<1>1. TypeInv /\ GroupsInv /\ SectionsInv /\ StageInv /\ Coherent /\ Placed /\ Aligned
  BY DEF IInv, NDefault
<1>2. stage # 0 /\ stage \notin 1 .. NDefault /\ stage > NDefault
  BY DEF NDefault
<1>3. open.size = 0
  BY <1>1, <1>2 DEF StageInv, InDefault
<1>4. size \in Nat /\ symbol_offset \in Nat /\ pos \in Nat
  BY <1>1 DEF TypeInv
<1>5. NCustom \in Nat
  BY <1>1 DEF NCustom, TypeInv, GroupNames
<1>6. symbol_offset = size
  BY <1>1, <1>3, <1>4 DEF Placed
<1>7. Len(sections) = NDefault + (IF pos < NCustom THEN pos ELSE NCustom)
  BY <1>1, <1>2 DEF SectionsInv, SectionsDone, NDefault
<1> QED BY <1>1, <1>2, <1>3, <1>4, <1>5, <1>6, <1>7

\* In that stage a symbol outside the default sections keeps the invariant.
LEMMA LateSymbolKeeps ==
  ASSUME NamesHaveLength, IInv, stage = NDefault + 1, status = "building",
         NEW name \in Name, NEW kind \in Kind, InsertSymbol(name, kind),
         \A k \in 1 .. NDefault : kind.section # k - 1,
         ~kind.import => /\ kind.section = Len(sections)
                         /\ kind.absolute_offset = size + kind.relative_offset,
         UNCHANGED <<artifact, status, stage, groups, sections, offset, size, symbol_offset>>,
         open' \in [size : Nat, exponent : Int, inserted : Nat], open'.size = 0,
         pos' \in Nat, SectionsDone' = SectionsDone
  PROVE  IInv'
<1>1. /\ TypeInv /\ GroupsInv /\ SectionsInv /\ StageInv /\ Coherent /\ Placed /\ Aligned
      /\ stage # 0 /\ stage \notin 1 .. NDefault /\ symbol_offset = size /\ size \in Nat
  BY LateFacts
<1>2. /\ SymtabType' /\ Coherent'
      /\ \/ symbols' = symbols
         \/ symbols' = Append(symbols, Entry(name, kind))
  BY <1>1, InsertSymbolKeeps DEF TypeInv
<1>3. TypeInv'
  BY <1>1, <1>2 DEF TypeInv
<1>4. GroupsInv'
  BY <1>1, GroupsStay
<1>5. SectionsInv'
  BY <1>1 DEF SectionsInv, SectionKey
<1>6. StageInv'
  BY <1>1 DEF StageInv, InDefault
<1>7. Placed'
  <2>1. symbol_offset' = size + open'.size
    BY <1>1
  <2> QED BY <1>1, <1>2, <2>1, PlacedAfterSymbol, Zenon
<1>8. Aligned'
  <2>0. SymtabType
    BY <1>1, Zenon DEF TypeInv
  <2>1. PICK entry \in SymbolEntry : entry = Entry(name, kind)
    BY <2>0, EntryFacts, Zenon
  <2>2. entry.sym = kind
    BY <2>0, <2>1, EntryFacts, Zenon
  <2>3. AlignedIn(entry)
    BY <2>2, Zenon DEF AlignedIn, OnAlignment
  <2> QED BY <1>1, <1>2, <2>0, <2>1, <2>3, AlignedAfterSymbol, Zenon
<1> QED BY <1>2, <1>3, <1>4, <1>5, <1>6, <1>7, <1>8 DEF IInv

\* An import is a symbol of no section.
LEMMA ImportKeeps ==
  ASSUME NamesHaveLength, IInv, ImportStep
  PROVE  IInv'
<1> DEFINE import == artifact.imports[pos - NCustom + 1]
<1>1. /\ stage = NDefault + 1 /\ status = "building" /\ pos \in NCustom .. NCustom + NImports - 1
      /\ InsertSymbol(import.name, Undefined) /\ pos' = pos + 1
      /\ UNCHANGED <<artifact, status, stage, groups, segment>>
  BY DEF ImportStep, AddImport, At, partition, Building
<1>2. UNCHANGED <<sections, offset, size, symbol_offset, open>>
  BY <1>1 DEF segment
<1>3. /\ TypeInv /\ pos \in Nat /\ NCustom \in Nat /\ open.size = 0
  BY <1>1, LateFacts
<1>4. import.name \in Name
  <2>1. artifact.imports \in Seq(Import)
    BY <1>3 DEF TypeInv
  <2>2. pos - NCustom + 1 \in DOMAIN artifact.imports
    BY <1>1, <1>3, <2>1 DEF NImports
  <2>3. import \in Import
    BY <2>1, <2>2
  <2> QED BY <2>3 DEF Import
<1>5. Undefined \in Kind /\ Undefined.import /\ Undefined.section = -1
  BY DEF Undefined, Kind
<1>6. \A k \in 1 .. NDefault : Undefined.section # k - 1
  BY <1>5 DEF NDefault
<1>7. SectionsDone' = SectionsDone
  <2>1. NCustom' = NCustom /\ ~(pos < NCustom) /\ ~(pos' < NCustom)
    BY <1>1, <1>3 DEF NCustom
  <2> QED BY <1>1, <2>1 DEF SectionsDone, NDefault
<1>8. open' \in [size : Nat, exponent : Int, inserted : Nat] /\ open'.size = 0 /\ pos' \in Nat
  <2>1. open \in [size : Nat, exponent : Int, inserted : Nat]
    BY <1>3 DEF TypeInv
  <2> QED BY <1>1, <1>2, <1>3, <2>1
<1> HIDE DEF import
<1> QED BY <1>1, <1>2, <1>4, <1>5, <1>6, <1>7, <1>8, LateSymbolKeeps

\* A custom section's symbol is in the section that comes next, and the section
\* follows the ones before it.
LEMMA CustomKeeps ==
  ASSUME NamesHaveLength, IInv, CustomStep
  PROVE  IInv'
<1> DEFINE def == groups["sections"][pos + 1]
           s == def.symbols[open.inserted + 1]
           kind == Defined(NDefault + pos, symbol_offset + s.offset, s.offset, TRUE)
<1>1. stage = NDefault + 1 /\ pos < NCustom /\ status = "building"
  BY DEF CustomStep, Building
<1>2. /\ TypeInv /\ GroupsInv /\ SectionsInv /\ StageInv /\ Coherent /\ Placed /\ Aligned
      /\ stage # 0 /\ stage \notin 1 .. NDefault /\ open.size = 0 /\ symbol_offset = size
      /\ size \in Nat /\ symbol_offset \in Nat /\ pos \in Nat /\ NCustom \in Nat
  BY <1>1, LateFacts
<1>3. Len(sections) = NDefault + pos
  BY <1>1, LateFacts
<1>4. groups["sections"] \in Seq(Definition) /\ open \in [size : Nat, exponent : Int, inserted : Nat]
  BY <1>2 DEF TypeInv, GroupNames
<1>5. pos + 1 \in DOMAIN groups["sections"] /\ def \in Definition
  BY <1>1, <1>2, <1>4 DEF NCustom
<1>6. CASE open.inserted < Len(def.symbols)
  <2>1. /\ InsertSymbol(s.symbol, kind)
        /\ open' = [open EXCEPT !.inserted = @ + 1]
        /\ UNCHANGED <<artifact, status, stage, pos, groups, sections, offset, size, symbol_offset>>
    BY <1>6, Zenon DEF CustomStep, InsertCustom, At, partition
  <2>2. def.symbols \in Seq(CustomSymbol) /\ open.inserted \in Nat
    BY <1>4, <1>5 DEF Definition
  <2>3. s \in CustomSymbol
    <3> HIDE DEF def
    <3> QED BY <1>6, <2>2
  <2>4. s.symbol \in Name /\ s.offset \in Nat
    <3> HIDE DEF s
    <3> QED BY <2>3 DEF CustomSymbol
  <2> HIDE DEF s
  <2>5. /\ kind \in Kind /\ ~kind.import /\ kind.section = NDefault + pos
        /\ kind.absolute_offset = size + kind.relative_offset
    BY <1>2, <2>4 DEF Kind, Defined, NDefault
  <2> HIDE DEF kind
  <2>6. \A k \in 1 .. NDefault : kind.section # k - 1
    BY <1>2, <2>5 DEF NDefault
  <2>7. /\ open' \in [size : Nat, exponent : Int, inserted : Nat] /\ open'.size = 0
        /\ pos' \in Nat
    BY <1>2, <1>4, <2>1
  <2>8. SectionsDone' = SectionsDone
    BY <2>1 DEF SectionsDone, NCustom
  <2> HIDE DEF def
  <2> QED BY <1>1, <1>3, <2>1, <2>4, <2>5, <2>6, <2>7, <2>8, LateSymbolKeeps, Zenon
<1>7. CASE ~(open.inserted < Len(def.symbols))
  <2> DEFINE sz == FileSize(def.data)
             segname == SegName(def.decl.kind)
             flags == IF def.decl.kind = "Debug" THEN {"DEBUG"} ELSE {}
  <2>1. /\ AddSection(def.name, SectName(def.name), segname, flags, sz, AlignExp(def.decl))
        /\ symbol_offset' = symbol_offset + sz /\ open' = Opened(NDefault + 1)
        /\ UNCHANGED <<artifact, status, stage, groups, symtab>> /\ pos' = pos + 1
    BY <1>7, Zenon DEF CustomStep, CloseCustom, At, partition
  <2>2. UNCHANGED <<symbols, strtable, indexes, strtable_size>>
    BY <2>1, Zenon DEF symtab
  <2>3. GroupOf(def) = "sections" /\ "sections" \in GroupNames
    BY <1>2, <1>5, GroupMember, Zenon DEF GroupNames
  <2>4. IsSection(def.decl) /\ def.name \notin DefaultNames
    <3>1. IsSection(def.decl)
      BY <1>5, <2>3, GroupOfType, Zenon
    <3>2. \E j \in DOMAIN artifact.definitions : def = artifact.definitions[j]
      BY <1>2, <1>5, <2>3, GroupMember, Zenon
    <3> HIDE DEF def
    <3> QED BY <1>2, <3>1, <3>2, Zenon DEF GroupsInv
  <2>5. /\ def.name \in Name /\ def.decl \in DefinedDecls /\ sz \in Nat
    <3> HIDE DEF def
    <3> QED BY <1>5 DEF Definition, FileSize
  <2>6. /\ def.name \in Keys /\ SectName(def.name) \in SectNames
        /\ AlignExp(def.decl) \in Int /\ flags \in SUBSET Flags
    <3>1. AlignExp(def.decl) \in 0 .. MaxAlignExponent
      BY <2>5, AlignExpType
    <3>2. flags \in SUBSET Flags
      BY Zenon DEF Flags
    <3>3. def.name \in Keys /\ SectName(def.name) \in SectNames
      BY <2>5, Zenon DEF Keys, SectNames
    <3>4. \A n \in 0 .. MaxAlignExponent : n \in Int
      BY DEF MaxAlignExponent
    <3> QED BY <3>1, <3>2, <3>3, <3>4, Zenon
  <2>7. segname \in SegNames
    <3>1. PICK decl \in DefinedDecls : decl = def.decl
      BY <2>5
    <3>2. decl.tag = "Section"
      BY <2>4, <3>1, Zenon DEF IsSection
    <3>3. decl \in SectionDecls
      BY <3>2 DEF DefinedDecls, FunctionDecls, DataDecls
    <3>4. decl.kind = "Data" \/ decl.kind = "Debug" \/ decl.kind = "Text"
      BY <3>3 DEF SectionDecls, SectionKinds
    <3>5. SegName(decl.kind) \in SegNames
      BY <3>4 DEF SegName, SegNames
    <3> QED BY <3>1, <3>5, Zenon
  <2>8. DOMAIN sections = 1 .. NDefault + pos /\ sections \in Seq(SectionEntry)
    BY <1>2, <1>3 DEF TypeInv
  <2>9. ~Has(sections, def.name)
    <3> SUFFICES ASSUME NEW i \in 1 .. NDefault + pos, sections[i].key = def.name
                 PROVE  FALSE
      BY <2>8 DEF Has
    <3>1. sections[i].key = SectionKey(i)
      BY <1>2, <2>8 DEF SectionsInv
    <3>2. CASE i <= NDefault
      <4>1. i \in 1 .. NDefault
        BY <1>2, <3>2 DEF NDefault
      <4> QED BY <4>1, <2>4, <3>1, <3>2, DefaultFacts DEF SectionKey
    <3>3. CASE ~(i <= NDefault)
      <4>1. i - NDefault \in 1 .. pos
        BY <1>2, <3>3 DEF NDefault
      <4>2. i - NDefault \in DOMAIN groups["sections"] /\ i - NDefault # pos + 1
        BY <1>1, <1>2, <1>4, <4>1 DEF NCustom
      <4>3. groups["sections"][i - NDefault].name = def.name
        BY <3>1, <3>3 DEF SectionKey
      <4> QED BY <1>2, <1>5, <2>3, <4>2, <4>3, GroupsDiffer
    <3> QED BY <3>2, <3>3
  <2> HIDE DEF def, sz, segname, flags
  <2>10. /\ sections' \in Seq(SectionEntry)
         /\ Len(sections') = Len(sections) + 1
         /\ \A i \in 1 .. Len(sections) : sections'[i] = sections[i]
         /\ sections'[Len(sections) + 1].key = def.name
         /\ sections'[Len(sections) + 1].val.addr = size
         /\ sections'[Len(sections) + 1].val.size = sz
         /\ size' = size + sz /\ offset' = offset + sz
    BY <1>2, <2>1, <2>5, <2>6, <2>7, <2>8, <2>9, AddSectionAppends
  <2>11. open' = [size |-> 0, exponent |-> 0, inserted |-> 0]
    BY <2>1 DEF Opened, NDefault
  <2>12. size' \in Nat /\ symbol_offset' = size' /\ symbol_offset' \in Nat /\ pos' \in Nat
    <3>1. size' = size + sz /\ symbol_offset' = symbol_offset + sz /\ pos' = pos + 1
      BY <2>1, <2>10
    <3> QED BY <1>2, <2>5, <3>1
  <2>13. offset' \in Int
    <3>1. offset' = offset + sz
      BY <2>10
    <3>2. offset \in Int
      BY <1>2 DEF TypeInv
    <3> QED BY <2>5, <3>1, <3>2
  <2>14. TypeInv'
    <3>1. SymtabType'
      BY <1>2, <2>2 DEF TypeInv, SymtabType
    <3>2. open' \in [size : Nat, exponent : Int, inserted : Nat]
      BY <2>11
    <3>3. UNCHANGED <<artifact, status, stage, groups>>
      BY <2>1
    <3> QED BY <1>2, <2>10, <2>12, <2>13, <3>1, <3>2, <3>3 DEF TypeInv
  <2>15. GroupsInv'
    BY <1>2, <2>1, GroupsStay
  <2>16. SectionsInv'
    <3>1. NCustom' = NCustom /\ stage' = NDefault + 1 /\ pos' = pos + 1 /\ groups' = groups
      BY <1>1, <2>1 DEF NCustom
    <3>2. SectionsDone' = NDefault + (IF pos' < NCustom THEN pos' ELSE NCustom)
      BY <3>1 DEF SectionsDone, NDefault
    <3>3. SectionsDone' = NDefault + pos + 1
      BY <1>1, <1>2, <3>1, <3>2 DEF NDefault
    <3>4. Len(sections') = NDefault + pos + 1 /\ DOMAIN sections' = 1 .. NDefault + pos + 1
      BY <1>2, <1>3, <2>10 DEF NDefault
    <3>5. \A i \in 1 .. NDefault + pos : sections'[i].key = SectionKey(i)'
      BY <1>2, <1>3, <2>8, <2>10, <3>1 DEF SectionsInv, SectionKey
    <3>6. \A i : i = NDefault + pos + 1 => sections'[i].key = SectionKey(i)'
      <4> SUFFICES ASSUME NEW i, i = NDefault + pos + 1
                   PROVE  sections'[i].key = SectionKey(i)'
        OBVIOUS
      <4>1. ~(i <= NDefault) /\ i - NDefault = pos + 1
        BY <1>2 DEF NDefault
      <4>2. SectionKey(i)' = groups["sections"][pos + 1].name
        BY <3>1, <4>1 DEF SectionKey
      <4> QED BY <1>3, <2>10, <4>2 DEF def
    <3>7. \A i \in DOMAIN sections' : sections'[i].key = SectionKey(i)'
      BY <1>2, <3>4, <3>5, <3>6 DEF NDefault
    <3> QED BY <3>3, <3>4, <3>7 DEF SectionsInv
  <2>17. StageInv'
    <3>1. stage' # 0 /\ status' # "idle" /\ ~InDefault' /\ open'.size = 0
      BY <1>1, <1>2, <2>1, <2>11 DEF InDefault
    <3> QED BY <3>1, Zenon DEF StageInv
  <2>18. Coherent'
    BY <1>2, <2>1, <2>2, TablesStay, Zenon
  <2>19. Placed'
    <3>1. symbol_offset' = size' + open'.size
      <4>1. open'.size = 0
        BY <2>11
      <4>2. PICK n \in Nat : n = size' /\ n = symbol_offset'
        BY <2>12
      <4>3. n = n + open'.size
        BY <4>1
      <4> QED BY <4>2, <4>3
    <3> QED BY <1>2, <2>2, <2>5, <2>10, <3>1, PlacedAfterSection
  <2>20. Aligned'
    BY <1>2, <2>1, <2>2, TablesStay, Zenon
  <2> QED BY <2>14, <2>15, <2>16, <2>17, <2>18, <2>19, <2>20 DEF IInv
<1> QED BY <1>6, <1>7

\* A step that only ends the emission keeps the invariant.
LEMMA EndKeeps ==
  ASSUME IInv, status = "building", status' \in {"written", "panic"},
         UNCHANGED <<artifact, stage, pos, partition, symtab, segment>>
  PROVE  IInv'
<1>1. UNCHANGED <<groups, symbols, strtable, indexes, strtable_size,
                  sections, offset, size, symbol_offset, open>>
  BY Zenon DEF partition, symtab, segment
<1> QED BY <1>1, InvariantStays, Zenon

\* What a relocation is made of, for a link the loop neither leaves out nor
\* panics on.
LEMMA RelocationType ==
  ASSUME SymtabType, Coherent, NEW l \in Link, ~LinkPanics(l), ~Skipped(l)
  PROVE  Relocation(LinkAddress(l), indexes[l.to.name], l) \in RelocationInfo
<1>1. l.reloc \in Reloc /\ l.at \in Nat /\ l.to.decl \in AllDecls /\ l.from.decl \in AllDecls
  BY DEF Link, Binding
<1>2. l.reloc.kind = "Auto" \/ l.reloc.kind = "Raw" \/ l.reloc.kind = "Debug"
  BY <1>1 DEF Reloc
<1>3. Absolute(l) \in BOOLEAN
  BY <1>2, Zenon DEF Absolute
<1>4. RelocLength(IF l.reloc.kind = "Debug" THEN l.reloc.size ELSE 0, Absolute(l)) \in Int
  BY DEF RelocLength
<1>5. RelocType(l) \in STRING \cup {"UNSIGNED", "BRANCH", "SIGNED", "GOT_LOAD"}
  <2>1. CASE l.reloc.kind = "Raw"
    <3>1. l.reloc.reloc \in STRING
      BY <1>1, <2>1 DEF Reloc
    <3> QED BY <2>1, <3>1 DEF RelocType
  <2>2. CASE l.reloc.kind # "Raw" /\ Absolute(l)
    BY <2>2 DEF RelocType
  <2>3. CASE l.reloc.kind # "Raw" /\ ~Absolute(l)
    <3>1. l.reloc.kind = "Auto"
      BY <1>2, <2>3, Zenon DEF Absolute
    <3>2. ~IsSection(l.to.decl)
      BY <3>1 DEF LinkPanics
    <3>3. l.to.decl.tag = "Function" \/ l.to.decl.tag = "Data" \/ IsImport(l.to.decl)
      BY <1>1, <3>2 DEF AllDecls, DefinedDecls, FunctionDecls, DataDecls, SectionDecls,
                        ImportDecls, IsSection, IsImport
    <3>4. CASE l.to.decl.tag = "Function"
      BY <2>3, <3>4 DEF RelocType, IsImport
    <3>5. CASE l.to.decl.tag = "Data"
      BY <2>3, <3>5 DEF RelocType, IsImport
    <3>6. CASE IsImport(l.to.decl)
      BY <2>3, <3>6 DEF RelocType, IsImport
    <3> QED BY <3>3, <3>4, <3>5, <3>6
  <2> QED BY <2>1, <2>2, <2>3
<1>6. HasSymbol(l.to.name) /\ (l.reloc.kind # "Debug" => HasSymbol(l.from.name))
  BY DEF Skipped
<1>7. indexes[l.to.name] \in Int
  BY <1>6 DEF HasSymbol, Has, Coherent, SymtabType
<1>8. LinkAddress(l) \in Int
  <2>1. CASE l.reloc.kind = "Debug"
    BY <1>1, <2>1 DEF LinkAddress
  <2>2. CASE l.reloc.kind # "Debug"
    <3>1. Place(symbols, l.from.name) \in DOMAIN symbols
      BY <1>6, <2>2 DEF HasSymbol, Has, Place
    <3>2. PICK entry \in SymbolEntry : entry = symbols[Place(symbols, l.from.name)]
      BY <3>1 DEF SymtabType
    <3>3. RelativeOffset(l.from.name) \in Int
      <4>1. entry.sym \in Kind
        BY Zenon DEF SymbolEntry
      <4>2. \A kind \in Kind : kind.relative_offset \in Int
        BY Zenon DEF Kind
      <4> QED BY <3>2, <4>1, <4>2, Zenon DEF RelativeOffset
    <3> QED BY <1>1, <2>2, <3>3 DEF LinkAddress
  <2> QED BY <2>1, <2>2
<1> QED BY <1>3, <1>4, <1>5, <1>7, <1>8 DEF Relocation, RelocationInfo

\* A relocation goes to the end of a section's and changes nothing else of it.
LEMMA PushKeeps ==
  ASSUME sections \in Seq(SectionEntry), NEW key, NEW reloc \in RelocationInfo,
         PushRelocation(key, reloc)
  PROVE  /\ sections' \in Seq(SectionEntry)
         /\ Len(sections') = Len(sections) /\ DOMAIN sections' = DOMAIN sections
         /\ \A i \in DOMAIN sections : /\ sections'[i].key = sections[i].key
                                       /\ sections'[i].val.addr = sections[i].val.addr
                                       /\ sections'[i].val.size = sections[i].val.size
<1> DEFINE p == Place(sections, key)
           val == [sections[p].val EXCEPT !.relocations = Append(@, reloc)]
           more == [sections[p] EXCEPT !.val = val]
<1>1. sections' = [sections EXCEPT ![p] = more]
  BY DEF PushRelocation
<1>2. CASE p \in DOMAIN sections
  <2>1. sections[p] \in SectionEntry
    BY <1>2
  <2>2. sections[p].val \in SectionRecord
    BY <2>1 DEF SectionEntry
  <2>3. Append(sections[p].val.relocations, reloc) \in Seq(RelocationInfo)
    <3>1. PICK old \in SectionRecord : old = sections[p].val
      BY <2>2, Zenon
    <3>2. old.relocations \in Seq(RelocationInfo)
      BY Zenon DEF SectionRecord
    <3> QED BY <3>1, <3>2, AppendFacts, Zenon
  <2>4. /\ val \in SectionRecord
        /\ val.addr = sections[p].val.addr /\ val.size = sections[p].val.size
    <3>1. PICK old \in SectionRecord : old = sections[p].val
      BY <2>2, Zenon
    <3>2. PICK longer \in Seq(RelocationInfo) : longer = Append(old.relocations, reloc)
      BY <2>3, <3>1, Zenon
    <3>3. val = [old EXCEPT !.relocations = longer]
      BY <3>1, <3>2, Zenon
    <3> HIDE DEF val
    <3>4. val \in SectionRecord /\ val.addr = old.addr /\ val.size = old.size
      BY <3>3, Zenon DEF SectionRecord
    <3> QED BY <3>1, <3>4, Zenon
  <2> HIDE DEF val
  <2>5. more \in SectionEntry /\ more.key = sections[p].key /\ more.val = val
    BY <2>1, <2>4 DEF SectionEntry
  <2> HIDE DEF p, more
  <2> QED BY <1>1, <1>2, <2>4, <2>5
<1>3. CASE p \notin DOMAIN sections
  <2> HIDE DEF p, val, more
  <2>1. sections' = sections
    BY <1>1, <1>3
  <2> QED BY <2>1
<1> QED BY <1>2, <1>3

\* A link is left out, ends the emission, or adds a relocation to a section.
LEMMA LinkKeeps ==
  ASSUME IInv, LinkStep
  PROVE  IInv'
<1> DEFINE l == artifact.links[pos - NCustom - NImports + 1]
<1>1. /\ stage = NDefault + 1 /\ status = "building"
      /\ pos \in NCustom + NImports .. NCustom + NImports + NLinks - 1
  BY DEF LinkStep, Building
<1>2. /\ TypeInv /\ GroupsInv /\ SectionsInv /\ StageInv /\ Coherent /\ Placed /\ Aligned
      /\ stage # 0 /\ stage \notin 1 .. NDefault /\ pos \in Nat /\ NCustom \in Nat
  BY <1>1, LateFacts
<1>3. CASE LinkPanics(l)
  <2>1. status' = "panic" /\ UNCHANGED <<artifact, stage, pos, partition, symtab, segment>>
    BY <1>3 DEF LinkStep, Panic
  <2> QED BY <1>1, <2>1, EndKeeps
<1>4. CASE ~LinkPanics(l)
  <2>1. AddLink(l) /\ stage' = stage /\ pos' = pos + 1 /\ UNCHANGED <<artifact, status>>
    BY <1>4, Zenon DEF LinkStep, At
  <2>2. UNCHANGED <<groups, symbols, strtable, indexes, strtable_size, offset, size,
                    symbol_offset, open>>
    BY <2>1, Zenon DEF AddLink, partition, symtab
  <2>3. /\ sections' \in Seq(SectionEntry)
        /\ Len(sections') = Len(sections) /\ DOMAIN sections' = DOMAIN sections
        /\ \A i \in DOMAIN sections : /\ sections'[i].key = sections[i].key
                                      /\ sections'[i].val.addr = sections[i].val.addr
                                      /\ sections'[i].val.size = sections[i].val.size
    <3>1. sections \in Seq(SectionEntry)
      BY <1>2 DEF TypeInv
    <3>2. CASE Skipped(l)
      <4>1. sections' = sections
        BY <2>1, <3>2, Zenon DEF AddLink
      <4> QED BY <3>1, <4>1, Zenon
    <3>3. CASE ~Skipped(l)
      <4>1. l \in Link
        <5>1. artifact.links \in Seq(Link) /\ artifact.imports \in Seq(Import)
          BY <1>2 DEF TypeInv
        <5>2. PICK c \in Nat, i \in Nat, n \in Nat : c = NCustom /\ i = NImports /\ n = NLinks
          BY <1>2, <5>1 DEF NImports, NLinks
        <5>3. pos - c - i + 1 \in 1 .. n
          BY <1>1, <1>2, <5>2
        <5>4. DOMAIN artifact.links = 1 .. n
          BY <5>1, <5>2 DEF NLinks
        <5> QED BY <5>1, <5>2, <5>3, <5>4
      <4>2. Relocation(LinkAddress(l), indexes[l.to.name], l) \in RelocationInfo
        <5>1. SymtabType
          BY <1>2, Zenon DEF TypeInv
        <5> QED BY <1>2, <1>4, <3>3, <4>1, <5>1, RelocationType, Zenon
      <4>3. \E key : PushRelocation(key, Relocation(LinkAddress(l), indexes[l.to.name], l))
        BY <2>1, <3>3, Zenon DEF AddLink
      <4> QED BY <3>1, <4>2, <4>3, PushKeeps, Zenon
    <3> QED BY <3>2, <3>3
  <2>4. TypeInv'
    <3>1. pos' \in Nat /\ stage' = stage /\ UNCHANGED <<artifact, status>>
      BY <1>2, <2>1
    <3>2. SymtabType'
      BY <1>2, <2>2 DEF TypeInv, SymtabType
    <3> QED BY <1>2, <2>2, <2>3, <3>1, <3>2 DEF TypeInv
  <2>5. GroupsInv'
    BY <1>2, <2>1, <2>2, GroupsStay, Zenon
  <2>6. SectionsInv'
    <3>1. NCustom' = NCustom /\ ~(pos < NCustom) /\ ~(pos' < NCustom)
      <4>1. NImports \in Nat
        BY <1>2 DEF NImports, TypeInv
      <4> QED BY <1>1, <1>2, <2>1, <2>2, <4>1 DEF NCustom
    <3>2. SectionsDone' = SectionsDone
      BY <2>1, <3>1 DEF SectionsDone
    <3> QED BY <1>2, <2>2, <2>3, <3>2 DEF SectionsInv, SectionKey
  <2>7. StageInv'
    <3>1. stage' # 0 /\ status' # "idle" /\ ~InDefault' /\ open'.size = 0
      <4>1. open.size = 0
        BY <1>2, Zenon DEF StageInv, InDefault
      <4> QED BY <1>1, <1>2, <2>1, <2>2, <4>1, Zenon DEF InDefault
    <3> QED BY <3>1, Zenon DEF StageInv
  <2>8. Coherent' /\ Aligned'
    BY <1>2, <2>2, TablesStay, Zenon
  <2>9. Placed'
    <3>1. PICK n \in Nat : n = Len(sections) /\ DOMAIN sections = 1 .. n
      BY <1>2 DEF TypeInv
    <3>2. ASSUME NEW i \in 0 .. n
          PROVE  SectionEnd(i)' = SectionEnd(i)
      <4>1. i # 0 => i \in DOMAIN sections
        BY <3>1
      <4> QED BY <2>3, <4>1, Zenon DEF SectionEnd
    <3>3. ASSUME NEW i \in DOMAIN symbols'
          PROVE  SymbolPlaced(symbols[i].sym)'
      <4>1. PICK s : s = symbols[i].sym
        OBVIOUS
      <4>2. SymbolPlaced(s)
        BY <1>2, <2>2, <4>1, Zenon DEF Placed
      <4>3. Len(sections') = n
        BY <2>3, <3>1, Zenon
      <4> QED BY <2>2, <3>1, <3>2, <4>1, <4>2, <4>3, Zenon DEF SymbolPlaced
    <3>4. ASSUME NEW i \in DOMAIN sections'
          PROVE  sections'[i].val.addr = SectionEnd(i - 1)'
      <4>1. i \in DOMAIN sections /\ i - 1 \in 0 .. n
        BY <2>3, <3>1
      <4>2. sections[i].val.addr = SectionEnd(i - 1)
        BY <1>2, <4>1, Zenon DEF Placed
      <4> QED BY <2>3, <3>2, <4>1, <4>2, Zenon
    <3>5. n \in 0 .. n /\ Len(sections') = n
      BY <2>3, <3>1
    <3>6. size' = SectionEnd(Len(sections))'
      BY <1>2, <2>2, <3>1, <3>2, <3>5, Zenon DEF Placed
    <3>7. offset' = HeaderSize + size' /\ symbol_offset' = size' + open'.size
      BY <1>2, <2>2, Zenon DEF Placed
    <3> QED BY <3>3, <3>4, <3>6, <3>7, Zenon DEF Placed
  <2> QED BY <2>4, <2>5, <2>6, <2>7, <2>8, <2>9 DEF IInv
<1> QED BY <1>3, <1>4

\* Every step of Mach::new keeps the invariant.
LEMMA BuildKeeps ==
  ASSUME NamesHaveLength, IInv, BuildStep
  PROVE  IInv'
BY PartitionKeeps, StartKeeps, DefinitionKeeps, SectionKeeps, CustomKeeps, ImportKeeps, LinkKeeps
   DEF BuildStep

\* The invariant holds before any emission.
LEMMA BuildInitHolds ==
  ASSUME BuildInit
  PROVE  IInv
<1>1. /\ artifact.definitions = <<>> /\ artifact.imports = <<>> /\ artifact.links = <<>>
      /\ status = "idle" /\ stage = 0 /\ pos = 0 /\ groups = NoGroups
      /\ symbols = <<>> /\ strtable = <<>> /\ strtable_size = 0 /\ sections = <<>>
      /\ offset = 0 /\ size = 0 /\ symbol_offset = 0
      /\ open = Opened(0)
  <2>1. /\ NoArtifact.definitions = <<>> /\ NoArtifact.imports = <<>>
        /\ NoArtifact.links = <<>>
    BY Zenon DEF NoArtifact
  <2> QED BY <2>1, Zenon DEF BuildInit
<1>2. DOMAIN indexes = {} /\ open = [size |-> 0, exponent |-> 0, inserted |-> 0]
  BY <1>1 DEF BuildInit, Opened, NDefault
<1>3. TypeInv
  BY <1>1, <1>2 DEF TypeInv, SymtabType, NoGroups, NDefault
<1>4. GroupsInv
  BY <1>1 DEF GroupsInv, GroupsFiled, GroupsApart, NoGroups, NDefs
<1>5. SectionsInv
  BY <1>1 DEF SectionsInv, SectionsDone
<1>6. StageInv
  BY SMTT(20), <1>1, <1>2 DEF StageInv, InDefault, NDefault
<1> QED BY <1>1, <1>3, <1>4, <1>5, <1>6 DEF IInv

\* An emission starts with an artifact whose definitions have different names,
\* none of a section that of a default one.
LEMMA NewKeeps ==
  ASSUME NoDefaultNames(Artifacts), IInv, NEW a \in Artifacts, New(a)
  PROVE  IInv'
<1>1. /\ status = "idle" /\ status' = "building" /\ artifact' = a
      /\ UNCHANGED <<stage, pos, groups, symbols, strtable, indexes, strtable_size,
                     sections, offset, size, symbol_offset, open>>
  BY DEF New, partition, symtab, segment
<1>2. stage = 0 /\ pos = 0 /\ groups = NoGroups
  BY <1>1, Zenon DEF IInv, StageInv
<1>3. /\ a.definitions \in Seq(Definition) /\ a.imports \in Seq(Import) /\ a.links \in Seq(Link)
      /\ \A j \in DOMAIN a.definitions : \A i \in 1 .. j - 1 :
           a.definitions[i].name # a.definitions[j].name
  BY ArtifactsAssumption, Zenon DEF Emittable
<1>4. TypeInv'
  BY <1>1, <1>3, Zenon DEF IInv, TypeInv, SymtabType
<1>5. GroupsInv'
  <2>1. \A i, j \in DOMAIN a.definitions : a.definitions[i].name = a.definitions[j].name => i = j
    <3>1. \A i, j \in DOMAIN a.definitions : i = j \/ i \in 1 .. j - 1 \/ j \in 1 .. i - 1
      BY <1>3
    <3> QED BY <1>3, <3>1, Zenon
  <2>2. \A i \in DOMAIN a.definitions :
          IsSection(a.definitions[i].decl) => a.definitions[i].name \notin DefaultNames
    BY Zenon DEF NoDefaultNames
  <2>3. 0 <= Len(a.definitions)
    BY <1>3
  <2>4. \A g \in GroupNames : DOMAIN groups[g] = {}
    BY <1>2 DEF NoGroups
  <2>5. GroupsFiled' /\ GroupsApart'
    BY <1>1, <2>4, Zenon DEF GroupsFiled, GroupsApart
  <2> QED BY <1>1, <1>2, <2>1, <2>2, <2>3, <2>5, Zenon DEF GroupsInv, NDefs
<1>6. SectionsInv'
  BY <1>1, <1>2 DEF IInv, SectionsInv, SectionsDone, SectionKey
<1>7. StageInv'
  BY <1>1, <1>2 DEF IInv, StageInv, InDefault, NDefault
<1> QED BY <1>1, <1>2, <1>4, <1>5, <1>6, <1>7 DEF IInv

-----------------------------------------------------------------------------
(* Every step of an emission keeps it, and what follows *)

\* to_bytes returns, and the next emission starts from nothing.
LEMMA ReturnKeeps ==
  ASSUME Return
  PROVE  IInv'
<1>1. /\ artifact'.definitions = <<>> /\ artifact'.imports = <<>> /\ artifact'.links = <<>>
      /\ status' = "idle" /\ stage' = 0 /\ pos' = 0 /\ groups' = NoGroups
      /\ symbols' = <<>> /\ strtable' = <<>> /\ strtable_size' = 0 /\ sections' = <<>>
      /\ offset' = 0 /\ size' = 0 /\ symbol_offset' = 0 /\ open' = Opened(0)
  <2>1. /\ NoArtifact.definitions = <<>> /\ NoArtifact.imports = <<>> /\ NoArtifact.links = <<>>
    BY Zenon DEF NoArtifact
  <2> QED BY <2>1, Zenon DEF Return
<1>2. DOMAIN indexes' = {} /\ open' = [size |-> 0, exponent |-> 0, inserted |-> 0]
  BY <1>1 DEF Return, Opened, NDefault
<1>3. TypeInv'
  BY <1>1, <1>2 DEF TypeInv, SymtabType, NoGroups, NDefault
<1>4. GroupsInv'
  BY <1>1 DEF GroupsInv, GroupsFiled, GroupsApart, NoGroups, NDefs
<1>5. SectionsInv'
  BY <1>1 DEF SectionsInv, SectionsDone
<1>6. StageInv'
  BY <1>1, <1>2 DEF StageInv, InDefault, NDefault
<1> QED BY <1>1, <1>3, <1>4, <1>5, <1>6 DEF IInv

\* The invariant holds throughout.
LEMMA Invariant ==
  ASSUME NamesHaveLength, NoDefaultNames(Artifacts)
  PROVE  Spec => []IInv
<1>1. Init => IInv
  BY BuildInitHolds DEF Init
<1>2. IInv /\ [Next]_vars => IInv'
  <2> SUFFICES ASSUME IInv, [Next]_vars
               PROVE  IInv'
    OBVIOUS
  <2>1. ASSUME NEW a \in Artifacts, New(a)
        PROVE  IInv'
    BY <2>1, NewKeeps
  <2>2. CASE BuildStep
    BY <2>2, BuildKeeps
  <2>3. CASE Write
    <3>1. /\ status = "building" /\ status' \in {"written", "panic"}
          /\ UNCHANGED <<artifact, stage, pos, partition, symtab, segment>>
      BY <2>3 DEF Write, Building
    <3> QED BY <3>1, EndKeeps
  <2>4. CASE Return
    BY <2>4, ReturnKeeps
  <2>5. CASE UNCHANGED vars
    <3>1. UNCHANGED <<artifact, status, stage, pos, groups, symbols, strtable, indexes,
                      strtable_size, sections, offset, size, symbol_offset, open>>
      BY <2>5, Zenon DEF vars, buildVars, partition, symtab, segment
    <3> QED BY <3>1, InvariantStays, Zenon
  <2> QED BY <2>1, <2>2, <2>3, <2>4, <2>5 DEF Next
<1> QED BY <1>1, <1>2, PTL DEF Spec

\* Whatever is emitted, at every step of Mach::new after it made the symbol table
\* the table of symbols, the strings, the index and the size of the string table
\* agree: the index of a symbol is its place, and n_strx is where its name will be.
THEOREM TablesAlwaysAgree ==
  ASSUME NamesHaveLength, NoDefaultNames(Artifacts)
  PROVE  Spec => []TablesAgree
<1>1. IInv => TablesAgree
  BY DEF IInv, TablesAgree
<1> QED BY <1>1, Invariant, PTL

\* Whatever is emitted, the running offsets of SegmentBuilder::new agree at every
\* step: each section starts where the one before it ends, and the value of each
\* symbol is the address of its section plus its offset in it.
THEOREM SymbolsAlwaysPlaced ==
  ASSUME NamesHaveLength, NoDefaultNames(Artifacts)
  PROVE  Spec => []SymbolsPlaced
<1>1. IInv => SymbolsPlaced
  BY DEF IInv, SymbolsPlaced
<1> QED BY <1>1, Invariant, PTL

\* Whatever is emitted, every definition starts at a multiple of its alignment
\* within its section: build_section, which pads after a definition for the one
\* that follows, never leaves one off.
THEOREM DefinitionsAlwaysAligned ==
  ASSUME NamesHaveLength, NoDefaultNames(Artifacts)
  PROVE  Spec => []DefinitionsAligned
<1>1. IInv => DefinitionsAligned
  BY DEF IInv, DefinitionsAligned
<1> QED BY <1>1, Invariant, PTL

=============================================================================
