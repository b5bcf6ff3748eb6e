----------------------------- MODULE MachLemmas -----------------------------
(***************************************************************************)
(* The inductive invariant of the Mach-O backend's tables and offsets, and *)
(* what the parts of its steps do to it.                                   *)
(***************************************************************************)
EXTENDS MachFile, TLAPS

-----------------------------------------------------------------------------
(* Hypotheses of the theorems *)

\* A name has a length; the prover knows nothing of the characters in it.
NamesHaveLength == \A s \in Name : Len(s) \in Nat

-----------------------------------------------------------------------------
(* Types *)

Kind == [section : Int, absolute_offset : Int, relative_offset : Int,
         global : BOOLEAN, import : BOOLEAN]
Text == Name \cup {""}
SymbolEntry == [key : Name, strx : Int, sym : Kind]
RelocationInfo ==
  [address : Int, symbolnum : Int, pcrel : BOOLEAN, length : Int,
   type : STRING \cup {"UNSIGNED", "BRANCH", "SIGNED", "GOT_LOAD"}]
Keys == Name \cup DefaultNames
SegNames == {"__TEXT", "__DATA", "__DWARF"}
Flags == {"INSTRUCTIONS", "CSTRING_LITERALS", "ZEROFILL", "DEBUG"}
SectNames == DefaultNames \cup {SectName(s) : s \in Name}
SectionRecord ==
  [sectname : SectNames, segname : SegNames, flags : SUBSET Flags, size : Nat, addr : Nat,
   align : Int, relocations : Seq(RelocationInfo)]
SectionEntry == [key : Keys, val : SectionRecord]

-----------------------------------------------------------------------------
(* Alignments *)

\* A power of two that an alignment can be is a positive number.
LEMMA PowersPositive ==
  ASSUME NEW e \in 0 .. MaxAlignExponent
  PROVE  2^e \in Nat \ {0}
<1>1. e \in 0 .. 7 \/ e \in 8 .. 15 \/ e \in 16 .. 23 \/ e \in 24 .. 30
  BY DEF MaxAlignExponent
<1>2. CASE e \in 0 .. 7
  <2>1. e = 0 \/ e = 1 \/ e = 2 \/ e = 3 \/ e = 4 \/ e = 5 \/ e = 6 \/ e = 7
    BY <1>2
  <2>2. /\ 2^0 \in Nat \ {0} /\ 2^1 \in Nat \ {0} /\ 2^2 \in Nat \ {0} /\ 2^3 \in Nat \ {0}
        /\ 2^4 \in Nat \ {0} /\ 2^5 \in Nat \ {0} /\ 2^6 \in Nat \ {0} /\ 2^7 \in Nat \ {0}
    OBVIOUS
  <2> QED BY <2>1, <2>2, Zenon
<1>3. CASE e \in 8 .. 15
  <2>1. e = 8 \/ e = 9 \/ e = 10 \/ e = 11 \/ e = 12 \/ e = 13 \/ e = 14 \/ e = 15
    BY <1>3
  <2>2. /\ 2^8 \in Nat \ {0} /\ 2^9 \in Nat \ {0} /\ 2^10 \in Nat \ {0} /\ 2^11 \in Nat \ {0}
        /\ 2^12 \in Nat \ {0} /\ 2^13 \in Nat \ {0} /\ 2^14 \in Nat \ {0} /\ 2^15 \in Nat \ {0}
    OBVIOUS
  <2> QED BY <2>1, <2>2, Zenon
<1>4. CASE e \in 16 .. 23
  <2>1. e = 16 \/ e = 17 \/ e = 18 \/ e = 19 \/ e = 20 \/ e = 21 \/ e = 22 \/ e = 23
    BY <1>4
  <2>2. /\ 2^16 \in Nat \ {0} /\ 2^17 \in Nat \ {0} /\ 2^18 \in Nat \ {0} /\ 2^19 \in Nat \ {0}
        /\ 2^20 \in Nat \ {0} /\ 2^21 \in Nat \ {0} /\ 2^22 \in Nat \ {0} /\ 2^23 \in Nat \ {0}
    OBVIOUS
  <2> QED BY <2>1, <2>2, Zenon
<1>5. CASE e \in 24 .. 30
  <2>1. e = 24 \/ e = 25 \/ e = 26 \/ e = 27 \/ e = 28 \/ e = 29 \/ e = 30
    BY <1>5
  <2>2. /\ 2^24 \in Nat \ {0} /\ 2^25 \in Nat \ {0} /\ 2^26 \in Nat \ {0} /\ 2^27 \in Nat \ {0}
        /\ 2^28 \in Nat \ {0} /\ 2^29 \in Nat \ {0} /\ 2^30 \in Nat \ {0}
    OBVIOUS
  <2> QED BY <2>1, <2>2, Zenon
<1> QED BY <1>1, <1>2, <1>3, <1>4, <1>5

\* align_to_align_exp finds an exponent for every alignment a declaration has.
LEMMA AlignExpType ==
  ASSUME NEW d \in DefinedDecls
  PROVE  AlignExp(d) \in 0 .. MaxAlignExponent
<1>1. d.align \in Alignments
  BY DEF DefinedDecls, FunctionDecls, DataDecls, SectionDecls
<1>2. CASE d.align = 0
  BY <1>2 DEF AlignExp, MaxAlignExponent
<1>3. CASE d.align # 0
  <2>1. \E e \in 0 .. MaxAlignExponent : 2^e = d.align
    BY <1>1, <1>3 DEF Alignments
  <2>2. (CHOOSE e \in 0 .. MaxAlignExponent : 2^e = d.align) \in 0 .. MaxAlignExponent
    BY <2>1
  <2> QED BY <2>2, <1>3 DEF AlignExp
<1> QED BY <1>2, <1>3

\* What is missing to the next multiple, added, gives that multiple.
LEMMA PadToUnit ==
  ASSUME NEW u \in Nat \ {0}, NEW at \in Nat
  PROVE  /\ (u - (at % u)) % u \in Nat
         /\ (at + ((u - (at % u)) % u)) % u = 0
<1>1. (u - (at % u)) % u = IF at % u = 0 THEN 0 ELSE u - (at % u)
  OBVIOUS
<1>2. at % u \in 0 .. u - 1
  OBVIOUS
<1>3. CASE at % u = 0
  <2>1. (u - (at % u)) % u = 0 /\ at + 0 = at
    BY <1>1, <1>3
  <2> QED BY <1>3, <2>1
<1>4. CASE at % u # 0
  <2>1. (u - (at % u)) % u = u - (at % u)
    BY <1>1, <1>4
  <2>2. PICK q \in Int : at = u * q + (at % u)
    BY at = u * (at \div u) + (at % u), at \div u \in Int
  <2>3. PICK r \in 0 .. u - 1 : r = at % u
    BY <1>2
  <2>4. at + (u - r) = u * q + u
    BY <2>2, <2>3
  <2>5. u * q + u = u * (q + 1) /\ q + 1 \in Int
    OBVIOUS
  <2>6. \A k \in Int : (u * k) % u = 0
    OBVIOUS
  <2>7. (at + (u - r)) % u = 0
    BY <2>4, <2>5, <2>6
  <2> QED BY <2>1, <2>3, <2>7
<1> QED BY <1>3, <1>4

\* Padding brings an offset to a multiple of the power of two.
LEMMA PadAligns ==
  ASSUME NEW at \in Nat, NEW e \in 0 .. MaxAlignExponent
  PROVE  Pad(at, e) \in Nat /\ (at + Pad(at, e)) % 2^e = 0
<1>1. 2^e \in Nat \ {0}
  BY PowersPositive
<1> QED BY <1>1, PadToUnit, Zenon DEF Pad

\* The start of a section is on every alignment.
LEMMA ZeroAligned ==
  ASSUME NEW e \in 0 .. MaxAlignExponent
  PROVE  0 % 2^e = 0
<1>1. \A u \in Nat \ {0} : 0 % u = 0
  OBVIOUS
<1> QED BY <1>1, PowersPositive

\* A multiple of the larger of a section's least alignment and another one is a
\* multiple of that other one.
LEMMA MaxAligned ==
  ASSUME NEW x \in Nat, NEW e \in 0 .. MaxAlignExponent, NEW k \in 1 .. NDefault,
         x % 2^MaxOf(DefaultSections[k].min, e) = 0
  PROVE  x % 2^e = 0
<1>1. DefaultSections[k].min \in {0, 3, 4}
  BY DEF DefaultSections, NDefault
<1>2. CASE e >= DefaultSections[k].min
  <2>1. MaxOf(DefaultSections[k].min, e) = e
    BY <1>1, <1>2 DEF MaxOf, MaxAlignExponent
  <2> QED BY <2>1
<1>3. CASE ~(e >= DefaultSections[k].min)
  <2>1. MaxOf(DefaultSections[k].min, e) = DefaultSections[k].min
    BY <1>1, <1>3 DEF MaxOf, MaxAlignExponent
  <2>2. \/ DefaultSections[k].min = 3 /\ e \in 0 .. 2
        \/ DefaultSections[k].min = 4 /\ e \in 0 .. 3
    BY <1>1, <1>3 DEF MaxAlignExponent
  <2>3. x % 2^3 = 0 \/ x % 2^4 = 0
    BY <2>1, <2>2, Zenon
  <2>4. x % (2^0) = 0 /\ x % (2^1) = 0 /\ x % (2^2) = 0 /\ x % (2^3) = 0
    BY <2>3
  <2>5. e = 0 \/ e = 1 \/ e = 2 \/ e = 3
    BY <2>2
  <2> QED BY <2>4, <2>5, Zenon
<1> QED BY <1>2, <1>3

-----------------------------------------------------------------------------
(* The symbol table *)

\* What Append returns, for sequences over any set.
LEMMA AppendFacts ==
  ASSUME NEW S, NEW s \in Seq(S), NEW x \in S
  PROVE  /\ Append(s, x) \in Seq(S)
         /\ Len(Append(s, x)) = Len(s) + 1
         /\ DOMAIN Append(s, x) = 1 .. Len(s) + 1
         /\ \A i \in 1 .. Len(s) : Append(s, x)[i] = s[i]
         /\ Append(s, x)[Len(s) + 1] = x
OBVIOUS

\* The types of the symbol table's parts.
SymtabType ==
  /\ symbols \in Seq(SymbolEntry)
  /\ strtable \in Seq(Text)
  /\ strtable_size \in Int

\* The entry insert makes for a symbol that is not in the table.
Entry(name, kind) == [key |-> name, strx |-> strtable_size, sym |-> kind]

\* What it holds.
LEMMA EntryFacts ==
  ASSUME SymtabType, NEW name \in Name, NEW kind \in Kind
  PROVE  /\ Entry(name, kind) \in SymbolEntry
         /\ Entry(name, kind).key = name
         /\ Entry(name, kind).strx = strtable_size
         /\ Entry(name, kind).sym = kind
<1>1. Entry(name, kind) \in SymbolEntry
  BY Zenon DEF Entry, SymbolEntry, SymtabType
<1>2. Entry(name, kind).key = name /\ Entry(name, kind).strx = strtable_size
  BY Zenon DEF Entry
<1>3. Entry(name, kind).sym = kind
  BY Zenon DEF Entry
<1> QED BY <1>1, <1>2, <1>3, Zenon

\* What a table that grew by an entry is made of.
LEMMA GrownTable ==
  ASSUME SymtabType, NEW entry \in SymbolEntry, symbols' = Append(symbols, entry),
         NEW i \in DOMAIN symbols'
  PROVE  (i \in DOMAIN symbols /\ symbols'[i] = symbols[i]) \/ symbols'[i] = entry
<1>1. symbols \in Seq(SymbolEntry)
  BY DEF SymtabType
<1> QED BY <1>1

\* insert keeps the tables in agreement, and at most appends a symbol.
LEMMA InsertSymbolKeeps ==
  ASSUME NamesHaveLength, SymtabType, Coherent,
         NEW name \in Name, NEW kind \in Kind, InsertSymbol(name, kind)
  PROVE  /\ SymtabType' /\ Coherent'
         /\ \/ symbols' = symbols
            \/ symbols' = Append(symbols, Entry(name, kind))
<1>1. CASE Interned(name)
  BY <1>1 DEF InsertSymbol, symtab, SymtabType, Coherent, StringEnd
<1>2. CASE ~Interned(name)
  <2> DEFINE entry == Entry(name, kind)
  <2>0. PICK n \in Nat : n = Len(symbols) /\ DOMAIN symbols = 1 .. n
    BY DEF SymtabType
  <2>1. /\ symbols' = Append(symbols, entry)
        /\ strtable' = Append(strtable, name)
        /\ indexes' = [m \in DOMAIN indexes \cup {name} |->
                         IF m = name THEN Len(symbols') - 1 ELSE indexes[m]]
        /\ strtable_size' = strtable_size + Len(name) + 2
    BY <1>2, NamesHaveLength DEF InsertSymbol, NameRoom, SymtabType, NamesHaveLength, Entry
  <2>2. entry \in SymbolEntry /\ name \in Text
    BY EntryFacts, Zenon DEF Text
  <2> HIDE DEF entry
  <2>3. SymtabType'
    <3>1. symbols' \in Seq(SymbolEntry) /\ strtable' \in Seq(Text)
      BY <2>1, <2>2, AppendFacts, Zenon DEF SymtabType
    <3>2. strtable_size' \in Int
      BY <2>1 DEF SymtabType, NamesHaveLength
    <3> QED BY <3>1, <3>2 DEF SymtabType
  <2>4. /\ Len(symbols') = n + 1
        /\ DOMAIN symbols' = 1 .. n + 1
        /\ \A i \in 1 .. n : symbols'[i] = symbols[i]
        /\ symbols'[n + 1] = entry
    BY <2>0, <2>1, <2>2 DEF SymtabType
  <2>5. entry.key = name /\ entry.strx = strtable_size
    BY EntryFacts, Zenon DEF entry
  <2>6. \A i \in 1 .. n : symbols[i].key # name
    BY SMTT(20), <1>2, <2>0 DEF Interned, Coherent, SymtabType
  <2>7. /\ Len(strtable') = n + 2
        /\ \A i \in 1 .. n : strtable'[i + 1] = symbols'[i].key
        /\ strtable'[n + 2] = name
    <3>1. strtable \in Seq(Text) /\ Len(strtable) = n + 1
      BY <2>0 DEF Coherent, SymtabType
    <3>2. /\ Len(strtable') = Len(strtable) + 1 /\ strtable'[Len(strtable) + 1] = name
          /\ \A i \in 1 .. Len(strtable) : strtable'[i] = strtable[i]
      BY <2>1, <2>2, <3>1
    <3>3. \A i \in 1 .. n : strtable[i + 1] = symbols[i].key
      BY <2>0 DEF Coherent
    <3> QED BY <3>1, <3>2, <3>3, <2>4
  <2>8. DOMAIN indexes' = {symbols'[i].key : i \in DOMAIN symbols'}
    <3>1. DOMAIN indexes' = DOMAIN indexes \cup {name}
      BY <2>1, Zenon
    <3>2. DOMAIN indexes = {symbols[i].key : i \in 1 .. n}
      BY <2>0, Zenon DEF Coherent
    <3> QED BY <3>1, <3>2, <2>4, <2>5
  <2>9. /\ \A i \in 1 .. n : indexes'[symbols'[i].key] = i - 1
        /\ indexes'[name] = n
    <3>1. \A i \in 1 .. n : symbols[i].key \in DOMAIN indexes /\ indexes[symbols[i].key] = i - 1
      BY <2>0 DEF Coherent
    <3> QED BY <2>1, <2>4, <2>6, <3>1
  <2>10. /\ \A i \in 0 .. n : StringEnd(i)' = StringEnd(i)
         /\ StringEnd(n + 1)' = strtable_size'
    BY <2>1, <2>4, <2>5 DEF StringEnd
  <2>11. \A i \in 1 .. n : symbols'[i].strx = StringEnd(i - 1)'
    BY <2>0, <2>4, <2>10 DEF Coherent
  <2>12. symbols'[n + 1].strx = StringEnd(n)'
    BY <2>0, <2>4, <2>5, <2>10 DEF Coherent
  <2>13. \A i \in DOMAIN symbols' : /\ strtable'[i + 1] = symbols'[i].key
                                   /\ indexes'[symbols'[i].key] = i - 1
                                   /\ symbols'[i].strx = StringEnd(i - 1)'
    <3> SUFFICES ASSUME NEW i \in 1 .. n + 1
                 PROVE  /\ strtable'[i + 1] = symbols'[i].key
                        /\ indexes'[symbols'[i].key] = i - 1
                        /\ symbols'[i].strx = StringEnd(i - 1)'
      BY <2>4
    <3>1. CASE i \in 1 .. n
      BY <3>1, <2>7, <2>9, <2>11
    <3>2. CASE i = n + 1
      BY <3>2, <2>4, <2>5, <2>7, <2>9, <2>12
    <3> QED BY <3>1, <3>2
  <2>14. Coherent'
    BY <2>4, <2>7, <2>8, <2>10, <2>13 DEF Coherent
  <2> QED BY <2>1, <2>3, <2>14 DEF entry
<1> QED BY <1>1, <1>2

-----------------------------------------------------------------------------
(* The inductive invariant *)

\* The types of the variables.
TypeInv ==
  /\ status \in {"idle", "building", "written", "panic"}
  /\ stage \in 0 .. NDefault + 1
  /\ pos \in Nat
  /\ artifact.definitions \in Seq(Definition)
  /\ artifact.imports \in Seq(Import)
  /\ artifact.links \in Seq(Link)
  /\ groups \in [GroupNames -> Seq(Definition)]
  /\ SymtabType
  /\ sections \in Seq(SectionEntry)
  /\ offset \in Int /\ size \in Nat /\ symbol_offset \in Nat
  /\ open \in [size : Nat, exponent : Int, inserted : Nat]

\* Each group is made of definitions of the artifact that belong in it, ...
GroupsFiled ==
  \A g \in GroupNames : \A i \in DOMAIN groups[g] :
    /\ GroupOf(groups[g][i]) = g
    /\ \E j \in DOMAIN artifact.definitions :
         groups[g][i] = artifact.definitions[j] /\ (stage = 0 => j <= pos)

\* ... and no two have the same name.
GroupsApart ==
  \A g \in GroupNames : \A i \in DOMAIN groups[g] :
    \A h \in GroupNames : \A j \in DOMAIN groups[h] :
      groups[g][i].name = groups[h][j].name => g = h /\ i = j

\* The groups are made of different definitions, each in the right one.
GroupsInv ==
  /\ \A i, j \in DOMAIN artifact.definitions :
       artifact.definitions[i].name = artifact.definitions[j].name => i = j
  /\ \A i \in DOMAIN artifact.definitions :
       IsSection(artifact.definitions[i].decl) => artifact.definitions[i].name \notin DefaultNames
  /\ stage = 0 => pos <= NDefs
  /\ GroupsFiled /\ GroupsApart

\* How many sections have been made.
SectionsDone ==
  IF stage = 0 THEN 0 ELSE IF stage <= NDefault THEN stage - 1
  ELSE NDefault + (IF pos < NCustom THEN pos ELSE NCustom)

\* The name the i-th section is filed under.
SectionKey(i) ==
  IF i <= NDefault THEN DefaultSections[i].sectname ELSE groups["sections"][i - NDefault].name

\* The sections made so far are the default ones and then the custom ones.
SectionsInv ==
  /\ Len(sections) = SectionsDone
  /\ \A i \in DOMAIN sections : sections[i].key = SectionKey(i)

\* An offset in the k-th default section that a definition may start at.
Unit(k, def) == MaxOf(DefaultSections[k].min, AlignExp(def.decl))
OnUnit(at, k, def) == at % 2^Unit(k, def) = 0

\* Nothing is built before the partition is done, and the next definition of an
\* open section has been padded for.
StageInv ==
  /\ status = "idle" => stage = 0 /\ pos = 0 /\ groups = NoGroups
  /\ stage = 0 => /\ symbols = <<>> /\ DOMAIN indexes = {}
                  /\ size = 0 /\ symbol_offset = 0
  /\ ~InDefault => open.size = 0
  /\ InDefault =>
       /\ pos <= Len(Group)
       /\ pos < Len(Group) => OnUnit(open.size, stage, Group[pos + 1])

\* The inductive invariant of Mach::new.
IInv ==
  /\ TypeInv /\ GroupsInv /\ SectionsInv /\ StageInv
  /\ stage > 0 => Coherent /\ Placed /\ Aligned

-----------------------------------------------------------------------------
(* The parts of a step *)

\* What DefaultSections holds.
LEMMA DefaultFacts ==
  ASSUME NEW k \in 1 .. NDefault
  PROVE  /\ DefaultSections[k].group \in GroupNames \ {"sections"}
         /\ DefaultSections[k].sectname \in DefaultNames
         /\ DefaultSections[k].segname \in SegNames
         /\ DefaultSections[k].flags \in SUBSET Flags
         /\ DefaultSections[k].min \in 0 .. MaxAlignExponent
<1>1. k = 1 \/ k = 2 \/ k = 3 \/ k = 4
  BY DEF NDefault
<1>2. DefaultSections[k].sectname \in DefaultNames
  BY DEF DefaultNames
<1>3. DefaultSections[k].group \in GroupNames \ {"sections"}
  BY <1>1 DEF DefaultSections, GroupNames
<1>4. DefaultSections[k].segname \in SegNames
  BY <1>1 DEF DefaultSections, SegNames
<1>5. DefaultSections[k].flags \in SUBSET Flags
  <2>1. DefaultSections[k].flags
          \in {{"INSTRUCTIONS"}, {}, {"CSTRING_LITERALS"}, {"ZEROFILL"}}
    BY <1>1 DEF DefaultSections
  <2> QED BY <2>1, Zenon DEF Flags
<1>6. DefaultSections[k].min \in 0 .. MaxAlignExponent
  BY <1>1 DEF DefaultSections, MaxAlignExponent
<1> QED BY <1>2, <1>3, <1>4, <1>5, <1>6

\* No two default sections have the same name.
LEMMA DefaultDistinct ==
  ASSUME NEW k \in 1 .. NDefault, NEW l \in 1 .. NDefault,
         DefaultSections[k].sectname = DefaultSections[l].sectname
  PROVE  k = l
<1>1. k \in {1, 2, 3, 4} /\ l \in {1, 2, 3, 4}
  BY DEF NDefault
<1> QED BY <1>1 DEF DefaultSections

\* The header has a size.
LEMMA HeaderSizeType == HeaderSize \in Nat
BY BigAssumption DEF HeaderSize

\* A section under a new key goes to the end and starts where the last one ended.
LEMMA AddSectionAppends ==
  ASSUME sections \in Seq(SectionEntry), size \in Nat,
         NEW key \in Keys, NEW sectname \in SectNames, NEW segname \in SegNames,
         NEW flags \in SUBSET Flags, NEW local_size \in Nat, NEW exponent \in Int,
         ~Has(sections, key),
         AddSection(key, sectname, segname, flags, local_size, exponent)
  PROVE  /\ sections' \in Seq(SectionEntry)
         /\ Len(sections') = Len(sections) + 1
         /\ \A i \in 1 .. Len(sections) : sections'[i] = sections[i]
         /\ LET last == sections'[Len(sections) + 1]
            IN last.key = key /\ last.val.addr = size /\ last.val.size = local_size
         /\ size' = size + local_size /\ offset' = offset + local_size
<1> DEFINE entry ==
      [key |-> key,
       val |-> [sectname |-> sectname, segname |-> segname, flags |-> flags,
                size |-> local_size, addr |-> size, align |-> exponent, relocations |-> <<>>]]
<1>1. sections' = Append(sections, entry)
  BY DEF AddSection, Insert
<1>2. entry \in SectionEntry
  BY DEF SectionEntry, SectionRecord
<1>3. entry.key = key /\ entry.val.addr = size /\ entry.val.size = local_size
  OBVIOUS
<1> HIDE DEF entry
<1>4. /\ sections' \in Seq(SectionEntry)
      /\ Len(sections') = Len(sections) + 1
      /\ \A i \in 1 .. Len(sections) : sections'[i] = sections[i]
      /\ sections'[Len(sections) + 1] = entry
  BY <1>1, <1>2
<1> QED BY <1>3, <1>4 DEF AddSection

\* A section that takes what was open, or what is added with it, keeps the
\* offsets in agreement.
LEMMA PlacedAfterSection ==
  ASSUME TypeInv, Placed,
         NEW local_size \in Nat,
         sections' \in Seq(SectionEntry),
         Len(sections') = Len(sections) + 1,
         \A i \in 1 .. Len(sections) : sections'[i] = sections[i],
         sections'[Len(sections) + 1].val.addr = size,
         sections'[Len(sections) + 1].val.size = local_size,
         size' = size + local_size, offset' = offset + local_size,
         symbol_offset' = size' + open'.size, symbols' = symbols
  PROVE  Placed'
<1>0. PICK n \in Nat : n = Len(sections) /\ DOMAIN sections = 1 .. n
  BY DEF TypeInv
<1>1. Len(sections') = n + 1 /\ DOMAIN sections' = 1 .. n + 1
  BY <1>0
<1>2. ASSUME NEW i \in 0 .. n
      PROVE  SectionEnd(i)' = SectionEnd(i)
  <2>1. i # 0 => sections'[i] = sections[i]
    BY <1>0
  <2> QED BY <2>1, Zenon DEF SectionEnd
<1>3. size = SectionEnd(n)
  BY <1>0 DEF Placed
<1>4. SectionEnd(n + 1)' = size'
  <2>1. n + 1 # 0
    OBVIOUS
  <2>2. SectionEnd(n + 1)' = sections'[n + 1].val.addr + sections'[n + 1].val.size
    BY <2>1, Zenon DEF SectionEnd
  <2>3. sections'[n + 1].val.addr = size /\ sections'[n + 1].val.size = local_size
    BY <1>0, Zenon
  <2> QED BY <2>2, <2>3, Zenon
<1>5. ASSUME NEW i \in DOMAIN sections'
      PROVE  sections'[i].val.addr = SectionEnd(i - 1)'
  <2>1. CASE i \in 1 .. n
    <3>1. i - 1 \in 0 .. n /\ i \in DOMAIN sections
      BY <1>0, <2>1
    <3>2. sections[i].val.addr = SectionEnd(i - 1)
      BY <3>1, Zenon DEF Placed
    <3>3. sections'[i] = sections[i]
      BY <1>0, <2>1, Zenon
    <3> QED BY <1>2, <3>1, <3>2, <3>3, Zenon
  <2>2. CASE i = n + 1
    <3>1. i - 1 = n /\ n \in 0 .. n
      BY <2>2
    <3> QED BY <1>0, <1>2, <1>3, <2>2, <3>1, Zenon
  <2> QED BY <1>1, <2>1, <2>2
<1>6. ASSUME NEW i \in DOMAIN symbols'
      PROVE  SymbolPlaced(symbols[i].sym)'
  <2>1. PICK s : s = symbols[i].sym
    OBVIOUS
  <2>2. SymbolPlaced(s)
    BY <2>1, Zenon DEF Placed
  <2>3. CASE ~s.import
    <3>1. s.section \in 0 .. n /\ s.absolute_offset = SectionEnd(s.section) + s.relative_offset
      BY <1>0, <2>2, <2>3, Zenon DEF SymbolPlaced
    <3>2. SectionEnd(s.section)' = SectionEnd(s.section)
      BY <1>2, <3>1, Zenon
    <3>3. s.section \in 0 .. Len(sections')
      BY <1>0, <1>1, <3>1
    <3> QED BY <2>1, <3>1, <3>2, <3>3, Zenon DEF SymbolPlaced
  <2> QED BY <2>1, <2>3, Zenon DEF SymbolPlaced
<1>7. offset' = HeaderSize + size'
  <2>1. offset = HeaderSize + size
    BY DEF Placed
  <2>2. size \in Nat
    BY DEF TypeInv
  <2> QED BY <2>1, <2>2, HeaderSizeType
<1>8. size' = SectionEnd(Len(sections))'
  BY <1>1, <1>4, Zenon
<1> QED BY <1>5, <1>6, <1>7, <1>8, Zenon DEF Placed

\* A symbol of the section being built, or of none, keeps the offsets in agreement.
LEMMA PlacedAfterSymbol ==
  ASSUME TypeInv, Placed, NEW name \in Name, NEW kind \in Kind,
         \/ symbols' = symbols
         \/ symbols' = Append(symbols, Entry(name, kind)),
         ~kind.import => /\ kind.section = Len(sections)
                         /\ kind.absolute_offset = size + kind.relative_offset,
         UNCHANGED <<sections, offset, size>>,
         symbol_offset' = size + open'.size
  PROVE  Placed'
<1>1. SectionEnd(Len(sections))' = SectionEnd(Len(sections)) /\ sections' = sections
  BY Zenon DEF SectionEnd
<1>2. \A s : SymbolPlaced(s)' <=> SymbolPlaced(s)
  BY Zenon DEF SymbolPlaced, SectionEnd
<1>3. SymbolPlaced(kind)
  <2>1. CASE ~kind.import
    <3>1. Len(sections) \in 0 .. Len(sections)
      BY DEF TypeInv
    <3>2. size = SectionEnd(Len(sections))
      BY Zenon DEF Placed
    <3> QED BY <2>1, <3>1, <3>2, Zenon DEF SymbolPlaced
  <2> QED BY <2>1, Zenon DEF SymbolPlaced
<1>4. ASSUME NEW i \in DOMAIN symbols'
      PROVE  SymbolPlaced(symbols'[i].sym)
  <2>1. CASE symbols' = symbols
    BY <2>1, Zenon DEF Placed
  <2>2. CASE symbols' = Append(symbols, Entry(name, kind))
    <3>1. (i \in DOMAIN symbols /\ symbols'[i] = symbols[i]) \/ symbols'[i] = Entry(name, kind)
      BY <2>2, EntryFacts, GrownTable, Zenon DEF TypeInv
    <3>2. Entry(name, kind).sym = kind
      BY EntryFacts, Zenon DEF TypeInv
    <3> QED BY <1>3, <3>1, <3>2, Zenon DEF Placed
  <2> QED BY <2>1, <2>2, Zenon
<1>5. size' = SectionEnd(Len(sections))'
  BY <1>1, Zenon DEF Placed
<1>6. \A i \in DOMAIN sections' : sections'[i].val.addr = SectionEnd(i - 1)'
  BY <1>1, Zenon DEF Placed, SectionEnd
<1>7. offset' = HeaderSize + size' /\ symbol_offset' = size' + open'.size
  BY Zenon DEF Placed
<1> QED BY <1>2, <1>4, <1>5, <1>6, <1>7, Zenon DEF Placed

\* A symbol is on the alignment of every definition it may be named after.
AlignedIn(entry) ==
  \A k \in 1 .. NDefault : \A j \in DOMAIN DefaultGroup(k) :
    OnAlignment(entry, k, DefaultGroup(k)[j])

\* Such a symbol keeps every definition aligned.
LEMMA AlignedAfterSymbol ==
  ASSUME SymtabType, Aligned, NEW entry \in SymbolEntry, AlignedIn(entry),
         symbols' = symbols \/ symbols' = Append(symbols, entry), groups' = groups
  PROVE  Aligned'
<1>1. \A k : DefaultGroup(k)' = DefaultGroup(k)
  BY Zenon DEF DefaultGroup
<1>2. ASSUME NEW i \in DOMAIN symbols'
      PROVE  AlignedIn(symbols'[i])
  <2>1. ASSUME NEW m \in DOMAIN symbols
        PROVE  AlignedIn(symbols[m])
    BY Zenon DEF Aligned, AlignedIn
  <2>2. CASE symbols' = symbols
    BY <2>1, <2>2, Zenon
  <2>3. CASE symbols' = Append(symbols, entry)
    BY <2>1, <2>3, GrownTable, Zenon
  <2> QED BY <2>2, <2>3, Zenon
<1> QED BY <1>1, <1>2, Zenon DEF Aligned, AlignedIn

\* What is read from nothing that changed stays as it is.
LEMMA TablesStay ==
  ASSUME UNCHANGED <<symbols, strtable, indexes, strtable_size, groups>>
  PROVE  /\ SymtabType => SymtabType'
         /\ Coherent => Coherent'
         /\ Aligned => Aligned'
<1>1. SymtabType => SymtabType'
  BY Zenon DEF SymtabType
<1>2. Coherent => Coherent'
  BY Zenon DEF Coherent, StringEnd
<1>3. Aligned => Aligned'
  BY Zenon DEF Aligned, DefaultGroup
<1> QED BY <1>1, <1>2, <1>3, Zenon

\* Every definition has a group.
LEMMA GroupOfType ==
  ASSUME NEW def \in Definition
  PROVE  /\ GroupOf(def) \in GroupNames
         /\ GroupOf(def) = "sections" => IsSection(def.decl)
<1>1. def.decl \in DefinedDecls
  BY DEF Definition
<1>2. def.decl.tag = "Function" \/ def.decl.tag = "Data" \/ def.decl.tag = "Section"
  BY <1>1 DEF DefinedDecls, FunctionDecls, DataDecls, SectionDecls
<1>3. CASE def.decl.tag = "Function"
  BY <1>3 DEF GroupOf, GroupNames, IsSection
<1>4. CASE def.decl.tag = "Data"
  BY <1>4 DEF GroupOf, GroupNames, IsSection
<1>5. CASE def.decl.tag = "Section"
  BY <1>5 DEF GroupOf, GroupNames, IsSection
<1> QED BY <1>2, <1>3, <1>4, <1>5

\* After the partition the groups stay as they are.
LEMMA GroupsStay ==
  ASSUME GroupsInv, stage # 0 \/ (stage = 0 /\ pos = NDefs), stage' # 0,
         UNCHANGED <<artifact, groups>>
  PROVE  GroupsInv'
<1>1. artifact' = artifact /\ groups' = groups
  OBVIOUS
<1>2. GroupsFiled'
  BY <1>1 DEF GroupsInv, GroupsFiled
<1>3. GroupsApart'
  BY <1>1 DEF GroupsInv, GroupsApart
<1> QED BY <1>1, <1>2, <1>3, Zenon DEF GroupsInv

\* A definition of a group belongs in it and is one of the artifact's.
LEMMA GroupMember ==
  ASSUME GroupsInv, NEW g \in GroupNames, NEW i \in DOMAIN groups[g]
  PROVE  /\ GroupOf(groups[g][i]) = g
         /\ \E j \in DOMAIN artifact.definitions : groups[g][i] = artifact.definitions[j]
BY Zenon DEF GroupsInv, GroupsFiled

\* Two places of the groups with the same name are one.
LEMMA GroupsDiffer ==
  ASSUME GroupsInv, NEW g \in GroupNames, NEW i \in DOMAIN groups[g],
         NEW h \in GroupNames, NEW j \in DOMAIN groups[h], groups[g][i].name = groups[h][j].name
  PROVE  g = h /\ i = j
BY Zenon DEF GroupsInv, GroupsApart

\* A step that changes none of what the invariant reads, unless it ends the
\* emission, keeps it.
LEMMA InvariantStays ==
  ASSUME IInv,
         status' = status \/ (status = "building" /\ status' \in {"written", "panic"}),
         UNCHANGED <<artifact, stage, pos, groups, symbols, strtable, indexes,
                     strtable_size, sections, offset, size, symbol_offset, open>>
  PROVE  IInv'
<1>1. /\ artifact' = artifact /\ stage' = stage /\ pos' = pos /\ groups' = groups
      /\ symbols' = symbols /\ strtable' = strtable /\ indexes' = indexes
      /\ strtable_size' = strtable_size /\ sections' = sections /\ offset' = offset
      /\ size' = size /\ symbol_offset' = symbol_offset /\ open' = open
  OBVIOUS
<1>2. TypeInv'
  <2>1. TypeInv /\ SymtabType /\ SymtabType'
    BY <1>1, TablesStay, Zenon DEF IInv, TypeInv
  <2>2. status' \in {"idle", "building", "written", "panic"}
    BY Zenon DEF IInv, TypeInv
  <2> QED BY <1>1, <2>1, <2>2, Zenon DEF TypeInv
<1>3. GroupsInv'
  <2>1. GroupsInv
    BY Zenon DEF IInv
  <2>2. GroupsFiled'
    BY <1>1, <2>1 DEF GroupsInv, GroupsFiled
  <2>3. GroupsApart'
    BY <1>1, <2>1 DEF GroupsInv, GroupsApart
  <2> QED BY <1>1, <2>1, <2>2, <2>3, Zenon DEF GroupsInv, NDefs
<1>4. SectionsInv'
  BY <1>1, Zenon DEF IInv, SectionsInv, SectionsDone, SectionKey, NCustom
<1>5. StageInv'
  <2>1. StageInv /\ Group' = Group /\ (InDefault' <=> InDefault)
    BY <1>1, Zenon DEF IInv, Group, DefaultGroup, InDefault
  <2>2. OnUnit(open.size, stage, Group[pos + 1])' <=> OnUnit(open.size, stage, Group[pos + 1])
    BY <1>1, <2>1, Zenon DEF OnUnit, Unit
  <2>3. status' = "idle" => status = "idle"
    BY Zenon
  <2> QED BY <1>1, <2>1, <2>2, <2>3, Zenon DEF StageInv
<1>6. ASSUME stage' > 0
      PROVE  Coherent' /\ Placed' /\ Aligned'
  <2>1. Coherent /\ Placed /\ Aligned
    BY <1>1, <1>6, Zenon DEF IInv
  <2>2. Placed'
    BY <1>1, <2>1, Zenon DEF Placed, SymbolPlaced, SectionEnd
  <2> QED BY <1>1, <2>1, <2>2, TablesStay, Zenon
<1> QED BY <1>2, <1>3, <1>4, <1>5, <1>6, Zenon DEF IInv

\* The definitions of a default section, and the units they are padded to.
LEMMA DefinitionTypes ==
  ASSUME TypeInv, NEW k \in 1 .. NDefault
  PROVE  /\ DefaultGroup(k) \in Seq(Definition)
         /\ \A j \in DOMAIN DefaultGroup(k) : DefaultGroup(k)[j] \in Definition
         /\ \A def \in Definition : Unit(k, def) \in 0 .. MaxAlignExponent
         /\ \A def \in Definition : OnUnit(0, k, def)
<1>1. DefaultGroup(k) \in Seq(Definition)
  <2>1. DefaultSections[k].group \in GroupNames
    BY DefaultFacts, Zenon
  <2>2. groups \in [GroupNames -> Seq(Definition)]
    BY Zenon DEF TypeInv
  <2> QED BY <2>1, <2>2, Zenon DEF DefaultGroup
<1>2. \A j \in DOMAIN DefaultGroup(k) : DefaultGroup(k)[j] \in Definition
  BY <1>1
<1>3. ASSUME NEW def \in Definition
      PROVE  Unit(k, def) \in 0 .. MaxAlignExponent /\ OnUnit(0, k, def)
  <2>1. AlignExp(def.decl) \in 0 .. MaxAlignExponent
    BY AlignExpType DEF Definition
  <2>2. DefaultSections[k].min \in 0 .. MaxAlignExponent
    BY DefaultFacts, Zenon
  <2>3. Unit(k, def) \in 0 .. MaxAlignExponent
    BY <2>1, <2>2, Zenon DEF Unit, MaxOf
  <2> QED BY <2>3, ZeroAligned, Zenon DEF OnUnit
<1> QED BY <1>1, <1>2, <1>3, Zenon

\* An offset on the unit of a definition is on its alignment.
LEMMA UnitAligns ==
  ASSUME NEW k \in 1 .. NDefault, NEW def \in Definition, NEW at \in Nat, OnUnit(at, k, def)
  PROVE  at % 2^AlignExp(def.decl) = 0
<1>1. AlignExp(def.decl) \in 0 .. MaxAlignExponent
  BY AlignExpType DEF Definition
<1>2. DefaultSections[k].min \in 0 .. MaxAlignExponent
  BY DefaultFacts, Zenon
<1> QED BY <1>1, <1>2, MaxAligned, Zenon DEF OnUnit, Unit

=============================================================================
