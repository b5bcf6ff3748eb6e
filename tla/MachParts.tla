----------------------------- MODULE MachParts ------------------------------
(***************************************************************************)
(* The parts of a Mach-O file fit, for any set of artifacts: what the load *)
(* commands announce is where it is written, and the relocations of every  *)
(* section are within those of the file. How many relocations a file has   *)
(* is a cardinality, so the facts about finite sets are used here.         *)
(***************************************************************************)
EXTENDS MachLayout, FiniteSetTheorems

-----------------------------------------------------------------------------
(* Numbering the elements of a set *)

\* Every place up to the total lies in some part.
LEMMA PartAt ==
  ASSUME NEW s \in Seq(Nat), NEW m \in 1 .. Total(s)
  PROVE  \E i \in 1 .. Len(s) : Ends(s)[i - 1] < m /\ m <= Ends(s)[i]
<1> DEFINE T == {i \in 0 .. Len(s) : m <= Ends(s)[i]}
<1>0. /\ Len(s) \in Nat /\ Ends(s) \in [0 .. Len(s) -> Nat] /\ Ends(s)[0] = 0
      /\ m \in Nat \ {0}
  BY EndsFacts DEF Total
<1>1. Len(s) \in T
  BY <1>0 DEF Total
<1>2. PICK i \in T : \A k \in T : i <= k
  <2>1. T \in SUBSET Nat
    BY <1>0
  <2> HIDE DEF T
  <2> QED BY <1>1, <2>1, LeastNat, Zenon
<1>3. i \in 1 .. Len(s) /\ m <= Ends(s)[i]
  BY <1>0
<1>4. i - 1 \notin T
  <2>1. ~(i <= i - 1)
    BY <1>3
  <2> HIDE DEF T
  <2> QED BY <1>2, <2>1
<1>5. i - 1 \in 0 .. Len(s) /\ Ends(s)[i - 1] \in Nat /\ Ends(s)[i] \in Nat
  <2>1. i - 1 \in 0 .. Len(s) /\ i \in 0 .. Len(s)
    BY <1>0, <1>3
  <2> QED BY <1>0, <2>1
<1> QED BY <1>0, <1>3, <1>4, <1>5

\* A set whose elements are numbered from 1 to n has n elements.
LEMMA Numbered ==
  ASSUME NEW n \in Nat, NEW R, NEW f \in [1 .. n -> R],
         \A i, j \in 1 .. n : f[i] = f[j] => i = j,
         \A r \in R : \E i \in 1 .. n : f[i] = r
  PROVE  IsFiniteSet(R) /\ Cardinality(R) = n
<1>1. f \in Bijection(1 .. n, R)
  BY DEF Bijection, Injection, Surjection, IsInjective
<1>2. ExistsBijection(1 .. n, R)
  BY <1>1 DEF ExistsBijection
<1>3. IsFiniteSet(1 .. n) /\ Cardinality(1 .. n) = n
  <2>1. IsFiniteSet(1 .. n) /\ Cardinality(1 .. n) = IF 1 > n THEN 0 ELSE n - 1 + 1
    BY FS_Interval
  <2> QED BY <2>1
<1> QED BY <1>2, <1>3, FS_Bijection

\* The part of a run in which its m-th unit lies.
PartOf(s, m) == CHOOSE i \in 1 .. Len(s) : Ends(s)[i - 1] < m /\ m <= Ends(s)[i]

\* Each unit of a run lies in its part.
LEMMA PartOfType ==
  ASSUME NEW s \in Seq(Nat), NEW m \in 1 .. Total(s)
  PROVE  /\ PartOf(s, m) \in 1 .. Len(s)
         /\ m - Ends(s)[PartOf(s, m) - 1] \in 1 .. s[PartOf(s, m)]
<1> DEFINE i == PartOf(s, m)
<1>1. i \in 1 .. Len(s) /\ Ends(s)[i - 1] < m /\ m <= Ends(s)[i]
  BY PartAt, Zenon DEF PartOf
<1> HIDE DEF i
<1>2. Ends(s)[i] = Ends(s)[i - 1] + s[i]
  BY <1>1, EndsFacts
<1>3. Ends(s)[i - 1] \in Nat /\ s[i] \in Nat /\ m \in Nat
  <2>1. Len(s) \in Nat
    OBVIOUS
  <2>2. i - 1 \in 0 .. Len(s) /\ Len(s) \in 0 .. Len(s)
    BY <1>1, <2>1
  <2>3. Total(s) \in Nat /\ Ends(s)[i - 1] \in Nat
    BY <2>2, EndsFacts DEF Total
  <2> QED BY <1>1, <2>3
<1>4. m - Ends(s)[i - 1] \in 1 .. s[i]
  <2>1. PICK e \in Nat, z \in Nat : e = Ends(s)[i - 1] /\ z = s[i]
    BY <1>3
  <2> QED BY <1>1, <1>2, <1>3, <2>1
<1> QED BY <1>1, <1>4 DEF i

\* The units of a part lie in it and in no other.
LEMMA PartOfUnit ==
  ASSUME NEW s \in Seq(Nat), NEW i \in 1 .. Len(s), NEW j \in 1 .. s[i]
  PROVE  /\ Ends(s)[i - 1] + j \in 1 .. Total(s)
         /\ PartOf(s, Ends(s)[i - 1] + j) = i
<1>0. Len(s) \in Nat /\ s[i] \in Nat /\ j \in Nat
  OBVIOUS
<1>1. /\ \A k \in 0 .. Len(s) : Ends(s)[k] \in Nat
      /\ Ends(s)[i] = Ends(s)[i - 1] + s[i]
      /\ i - 1 \in 0 .. Len(s) /\ i \in 0 .. Len(s) /\ Len(s) \in 0 .. Len(s)
  <2>1. i - 1 \in 0 .. Len(s) /\ i \in 0 .. Len(s) /\ Len(s) \in 0 .. Len(s)
    BY <1>0
  <2>2. Ends(s)[i] = Ends(s)[i - 1] + s[i]
    BY EndsFacts, Zenon
  <2>3. \A k \in 0 .. Len(s) : Ends(s)[k] \in Nat
    BY EndsFacts, Zenon
  <2> QED BY <2>1, <2>2, <2>3, Zenon
<1> DEFINE m == Ends(s)[i - 1] + j
<1>2. m \in Nat /\ Ends(s)[i - 1] < m /\ m <= Ends(s)[i] /\ m >= 1
  <2>1. PICK e \in Nat, z \in Nat : e = Ends(s)[i - 1] /\ z = s[i]
    BY <1>0, <1>1
  <2>2. m = e + j /\ Ends(s)[i] = e + z /\ j \in 1 .. z
    BY <1>1, <2>1
  <2>3. m \in Nat /\ e < m /\ m <= e + z /\ m >= 1
    BY <2>2
  <2> QED BY <2>1, <2>2, <2>3
<1> HIDE DEF m
<1>3. m \in 1 .. Total(s)
  <2>1. Ends(s)[i] <= Ends(s)[Len(s)]
    BY <1>0, <1>1, EndsGrow
  <2>2. Ends(s)[i] \in Nat /\ Ends(s)[Len(s)] \in Nat
    BY <1>1
  <2>3. PICK x \in Nat, y \in Nat : x = Ends(s)[i] /\ y = Ends(s)[Len(s)]
    BY <2>2
  <2>4. m \in 1 .. y
    BY <1>2, <2>1, <2>3
  <2> QED BY <2>3, <2>4 DEF Total
<1>4. ASSUME NEW k \in 1 .. Len(s), Ends(s)[k - 1] < m, m <= Ends(s)[k]
      PROVE  k = i
  <2>1. k - 1 \in 0 .. Len(s) /\ k \in 0 .. Len(s)
    BY <1>0
  <2>2. /\ Ends(s)[k - 1] \in Nat /\ Ends(s)[k] \in Nat
        /\ Ends(s)[i - 1] \in Nat /\ Ends(s)[i] \in Nat
    BY <1>1, <2>1
  <2>3. CASE k < i
    <3>1. Ends(s)[k] <= Ends(s)[i - 1]
      BY <1>0, <1>1, <2>1, <2>3, EndsGrow
    <3> QED BY <1>2, <1>4, <2>2, <3>1
  <2>4. CASE i < k
    <3>1. i <= k - 1
      BY <1>0, <2>4
    <3>2. Ends(s)[i] <= Ends(s)[k - 1]
      BY <1>1, <2>1, <3>1, EndsGrow
    <3> QED BY <1>2, <1>4, <2>2, <3>2
  <2> QED BY <2>3, <2>4
<1>5. PartOf(s, m) = i
  <2>1. PartOf(s, m) \in 1 .. Len(s) /\ Ends(s)[PartOf(s, m) - 1] < m /\ m <= Ends(s)[PartOf(s, m)]
    BY <1>2 DEF PartOf
  <2> QED BY <1>4, <2>1
<1> QED BY <1>3, <1>5 DEF m

-----------------------------------------------------------------------------
(* The file's relocations *)

\* There are as many relocations in the file as the sections have.
LEMMA RelocationsCounted ==
  ASSUME TypeInv, NEW reloff \in Int
  PROVE  /\ IsFiniteSet(Relocations(reloff))
         /\ Cardinality(Relocations(reloff)) = Total(RelocCounts)
<1> DEFINE s == RelocCounts
           n == Total(s)
           info(i, j) == sections[i].val.relocations[j]
           at(m) == reloff + (m - 1) * RelocInfoSize
           f == [m \in 1 .. n |-> [at |-> at(m),
                                   info |-> info(PartOf(s, m), m - Ends(s)[PartOf(s, m) - 1])]]
           R == Relocations(reloff)
<1>1. /\ s \in Seq(Nat) /\ Len(s) \in Nat /\ DOMAIN sections = 1 .. Len(s)
      /\ \A i \in 1 .. Len(s) : s[i] = NReloc(i)
      /\ RelocBytes \in Seq(Nat) /\ DOMAIN RelocBytes = 1 .. Len(s)
      /\ \A i \in 0 .. Len(s) : Ends(RelocBytes)[i] = Ends(s)[i] * RelocInfoSize
  BY RelocsEnd DEF TypeInv
<1>2. n \in Nat /\ \A i \in 0 .. Len(s) : Ends(s)[i] \in Nat
  <2>1. \A i \in 0 .. Len(s) : Ends(s)[i] \in Nat
    BY <1>1, EndsFacts, Zenon
  <2>2. Len(s) \in 0 .. Len(s)
    BY <1>1
  <2> HIDE DEF s
  <2> QED BY <2>1, <2>2, Zenon DEF Total
<1> DEFINE starts == Starts(reloff, RelocBytes)
<1>3. R = UNION {{[at |-> starts[i] + (j - 1) * RelocInfoSize, info |-> info(i, j)] : j \in 1 .. NReloc(i)} :
                   i \in DOMAIN sections}
  BY Zenon DEF Relocations, RelocBytes
<1>4. ASSUME NEW i \in 1 .. Len(s), NEW j \in 1 .. s[i]
      PROVE  starts[i] + (j - 1) * RelocInfoSize = at(Ends(s)[i - 1] + j)
  <2>1. starts[i] = reloff + Ends(RelocBytes)[i - 1]
    BY <1>1, Zenon DEF Starts
  <2>2. i - 1 \in 0 .. Len(s) /\ j \in Nat
    BY <1>1
  <2>3. PICK e \in Nat : e = Ends(s)[i - 1]
    BY <1>2, <2>2, Zenon
  <2>4. starts[i] = reloff + e * 8
    BY <1>1, <2>1, <2>2, <2>3, Zenon DEF RelocInfoSize
  <2>5. at(Ends(s)[i - 1] + j) = reloff + (e + j - 1) * 8
    BY <2>3 DEF RelocInfoSize
  <2>6. reloff + e * 8 + (j - 1) * 8 = reloff + (e + j - 1) * 8
    BY <2>2
  <2> QED BY <2>4, <2>5, <2>6, Zenon DEF RelocInfoSize
<1> HIDE DEF s, n, R, starts, info
<1>5. \A r : r \in R <=> \E i \in 1 .. Len(s) : \E j \in 1 .. s[i] :
                           r = [at |-> at(Ends(s)[i - 1] + j), info |-> info(i, j)]
  <2> HIDE DEF at
  <2>1. \A r : r \in R <=> \E i \in 1 .. Len(s) : \E j \in 1 .. NReloc(i) :
                 r = [at |-> starts[i] + (j - 1) * RelocInfoSize, info |-> info(i, j)]
    <3> DEFINE c(i, j) == [at |-> starts[i] + (j - 1) * RelocInfoSize, info |-> info(i, j)]
    <3>1. R = UNION {{c(i, j) : j \in 1 .. NReloc(i)} : i \in 1 .. Len(s)}
      BY <1>1, <1>3, Zenon
    <3> HIDE DEF c
    <3>2. \A r : r \in R <=> \E i \in 1 .. Len(s) : \E j \in 1 .. NReloc(i) : r = c(i, j)
      BY <3>1
    <3> QED BY <3>2, Zenon DEF c
  <2> QED BY <1>1, <1>4, <2>1
<1>6. f \in [1 .. n -> R]
  <2> SUFFICES ASSUME NEW m \in 1 .. n
               PROVE  f[m] \in R
    BY Zenon DEF f
  <2> DEFINE i == PartOf(s, m)
             j == m - Ends(s)[i - 1]
  <2>1. i \in 1 .. Len(s) /\ j \in 1 .. s[i]
    BY <1>1, PartOfType, Zenon DEF n
  <2>2. i - 1 \in 0 .. Len(s)
    BY <1>1, <2>1
  <2>3. Ends(s)[i - 1] + j = m
    BY <1>2, <2>2
  <2>4. f[m] = [at |-> at(m), info |-> info(i, j)]
    BY Zenon
  <2> HIDE DEF i, j, f, at
  <2> QED BY <1>5, <2>1, <2>3, <2>4, Zenon
<1>7. \A i, j \in 1 .. n : f[i] = f[j] => i = j
  <2> SUFFICES ASSUME NEW i \in 1 .. n, NEW j \in 1 .. n, f[i] = f[j]
               PROVE  i = j
    BY Zenon
  <2>1. f[i].at = at(i) /\ f[j].at = at(j)
    BY Zenon
  <2>2. reloff + (i - 1) * 8 = reloff + (j - 1) * 8 /\ i \in Nat /\ j \in Nat
    BY <1>2, <2>1 DEF RelocInfoSize
  <2> QED BY <2>2
<1>8. \A r \in R : \E m \in 1 .. n : f[m] = r
  <2> SUFFICES ASSUME NEW r \in R
               PROVE  \E m \in 1 .. n : f[m] = r
    BY Zenon
  <2>1. PICK i \in 1 .. Len(s) : \E j \in 1 .. s[i] :
               r = [at |-> at(Ends(s)[i - 1] + j), info |-> info(i, j)]
    BY <1>5, Zenon
  <2>2. PICK j \in 1 .. s[i] : r = [at |-> at(Ends(s)[i - 1] + j), info |-> info(i, j)]
    BY <2>1, Zenon
  <2> DEFINE m == Ends(s)[i - 1] + j
  <2>3. m \in 1 .. n /\ PartOf(s, m) = i
    BY <1>1, PartOfUnit, Zenon DEF n
  <2>4. m - Ends(s)[i - 1] = j
    <3>1. i - 1 \in 0 .. Len(s) /\ j \in Int
      BY <1>1
    <3> QED BY <1>2, <3>1
  <2> HIDE DEF m, at
  <2>5. f[m] = [at |-> at(m), info |-> info(i, j)]
    BY <2>3, <2>4, Zenon
  <2> QED BY <2>2, <2>3, <2>5, Zenon DEF m
<1> HIDE DEF f
<1>9. IsFiniteSet(R) /\ Cardinality(R) = n
  BY <1>2, <1>6, <1>7, <1>8, Numbered, Zenon
<1> QED BY <1>9, Zenon DEF R, n, s

-----------------------------------------------------------------------------
(* The parts fit *)

\* The parts of the file fit.
LEMMA PartsFitHolds ==
  ASSUME NamesHaveLength, IInv, FilingInv, PadsKnown, OffsetInv, FileWritten
  PROVE  PartsFit
<1> SUFFICES ASSUME status = "written"
             PROVE  PartsFit
  BY Zenon DEF PartsFit
<1> DEFINE at == Announced
           actual == Actual(Announced)
<1>1. /\ AllAdded /\ file.announced = at /\ file.actual = actual
      /\ file.segment = Segment(at) /\ file.headers = Headers(at)
      /\ file.relocs = Relocations(actual.reloc)
  BY Zenon DEF FileWritten
<1>2. /\ at.symtab = actual.symtab /\ at.strtab = actual.strtab /\ at.reloc = actual.reloc
      /\ at.first \in Nat /\ at.reloc \in Int /\ size \in Nat /\ at.first + size = actual.symtab
      /\ size = Total(SectionSizes)
  BY <1>1, AnnouncedIsActual, Zenon
<1>3. file.segment.fileoff = at.first /\ file.segment.filesize = size
      /\ file.segment.vmsize = size + bss_size
  BY <1>1 DEF Segment
<1>4. stage = 5 /\ stage > 0 /\ stage # 0 /\ TypeInv
  BY <1>1 DEF AllAdded, NDefault, IInv
<1>5. bss_size = Total(BssSizes) /\ BssSizes = [i \in 1 .. NDefs |-> LET d == artifact.definitions[i].data
                                                           IN d.size - FileSize(d)]
  <2>1. Len(BssSizes) = NDefs
    BY <1>4, BssSizesType, Zenon
  <2> QED BY <1>4, <2>1, Zenon DEF FilingInv, Total, BssSizes
<1> HIDE DEF at, actual
<1>6. ASSUME NEW n \in Sections
      PROVE  LET h == file.headers[n]
             IN /\ h.offset = file.segment.fileoff + h.addr
                /\ h.addr + h.size <= file.segment.filesize
                /\ h.nreloc > 0 =>
                     h.reloff + h.nreloc * RelocInfoSize
                       <= file.actual.reloc + Cardinality(file.relocs) * RelocInfoSize
  <2> DEFINE h == file.headers[n]
  <2>1. n \in DOMAIN sections
    BY <1>1, Zenon DEF Sections, Headers
  <2>2. /\ h.addr = Ends(SectionSizes)[n - 1] /\ h.size = SectionSizes[n]
        /\ h.offset = at.first + Ends(SectionSizes)[n - 1]
        /\ h.nreloc = RelocCounts[n]
        /\ h.nreloc > 0 => h.reloff = at.reloc + Ends(RelocBytes)[n - 1]
    <3>1. h = Headers(at)[n]
      BY <1>1, Zenon
    <3> HIDE DEF h
    <3>2. LET g == Headers(at)[n]
          IN /\ g.addr = Ends(SectionSizes)[n - 1] /\ g.size = SectionSizes[n]
             /\ g.offset = at.first + Ends(SectionSizes)[n - 1]
             /\ g.nreloc = RelocCounts[n]
             /\ g.nreloc > 0 => g.reloff = at.reloc + Ends(RelocBytes)[n - 1]
      BY <1>4, <2>1, HeaderFacts
    <3> QED BY <3>1, <3>2, Zenon
  <2> HIDE DEF h
  <2>3. h.offset = file.segment.fileoff + h.addr
    BY <1>3, <2>2, Zenon
  <2>4. n \in 1 .. Len(sections) /\ Len(sections) \in Nat /\ n - 1 \in 0 .. Len(sections)
        /\ n \in 0 .. Len(sections) /\ n <= Len(sections) /\ Len(sections) \in 0 .. Len(sections)
    BY <1>4, <2>1 DEF TypeInv
  <2>5. h.addr + h.size <= size
    <3>1. SectionSizes \in Seq(Nat) /\ Len(SectionSizes) = Len(sections)
      BY <1>4, SectionsEnd, Zenon DEF IInv
    <3>2. Ends(SectionSizes)[n] = Ends(SectionSizes)[n - 1] + SectionSizes[n]
      BY <2>4, <3>1, EndsFacts, Zenon
    <3>3. Ends(SectionSizes)[n] <= Ends(SectionSizes)[Len(SectionSizes)]
      BY <2>4, <3>1, EndsGrow, Zenon
    <3> QED BY <1>2, <2>2, <3>2, <3>3, Zenon DEF Total
  <2>6. ASSUME h.nreloc > 0
        PROVE  h.reloff + h.nreloc * RelocInfoSize
                 <= actual.reloc + Cardinality(file.relocs) * RelocInfoSize
    <3>1. /\ RelocCounts \in Seq(Nat) /\ Len(RelocCounts) = Len(sections)
          /\ \A i \in 0 .. Len(sections) : Ends(RelocBytes)[i] = Ends(RelocCounts)[i] * RelocInfoSize
      BY <1>4, RelocsEnd, Zenon
    <3>2. Ends(RelocCounts)[n] = Ends(RelocCounts)[n - 1] + RelocCounts[n]
      BY <2>4, <3>1, EndsFacts, Zenon
    <3>3. Ends(RelocCounts)[n] <= Ends(RelocCounts)[Len(RelocCounts)]
      BY <2>4, <3>1, EndsGrow, Zenon
    <3>4. PICK e \in Nat, c \in Nat, t \in Nat :
            e = Ends(RelocCounts)[n - 1] /\ c = RelocCounts[n] /\ t = Ends(RelocCounts)[Len(sections)]
      <4>1. Ends(RelocCounts) \in [0 .. Len(sections) -> Nat]
        BY <3>1, EndsFacts, Zenon
      <4>2. RelocCounts[n] \in Nat
        BY <2>4, <3>1
      <4> QED BY <2>4, <4>1, <4>2, Zenon
    <3>5. Cardinality(file.relocs) = t
      <4>1. Cardinality(Relocations(actual.reloc)) = Total(RelocCounts)
        BY <1>2, <1>4, RelocationsCounted, Zenon
      <4> QED BY <1>1, <3>1, <3>4, <4>1, Zenon DEF Total
    <3>6. h.reloff = at.reloc + e * 8 /\ h.nreloc = c
      BY <2>2, <2>4, <2>6, <3>1, <3>4, Zenon DEF RelocInfoSize
    <3>7. e + c <= t
      BY <3>1, <3>2, <3>3, <3>4, Zenon
    <3>8. PICK r \in Int : r = at.reloc
      BY <1>2, Zenon
    <3>9. r + e * 8 + c * 8 <= r + t * 8
      BY <3>7
    <3> QED BY <1>2, <3>5, <3>6, <3>8, <3>9, Zenon DEF RelocInfoSize
  <2> QED BY <1>1, <1>3, <2>3, <2>5, <2>6, Zenon DEF h
<1> QED BY <1>1, <1>2, <1>3, <1>5, <1>6, Zenon DEF PartsFit

\* Whatever is emitted, the symbol table, the strings and the relocations are
\* written where the load commands, made before them, say; the segment covers the
\* sections, and the relocations of each section are within those of the file.
THEOREM PartsAlwaysFit ==
  ASSUME NamesHaveLength, NoDefaultNames(Artifacts), DefaultNamesShort
  PROVE  Spec => []PartsFit
<1>1. IInv /\ LayoutInv => PartsFit
  BY PartsFitHolds, Zenon DEF LayoutInv
<1> QED BY <1>1, LayoutAlways, PTL

=============================================================================
