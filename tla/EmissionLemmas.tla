--------------------------- MODULE EmissionLemmas ---------------------------
(***************************************************************************)
(* What the proofs about both backends need: the running sums of module    *)
(* Layout for every sequence of sizes, the size of a set whose elements    *)
(* are numbered, and what an emittable artifact is made of. The inductions *)
(* go through the least counterexample, which every non-empty set of       *)
(* natural numbers has.                                                    *)
(***************************************************************************)
EXTENDS Emission, Layout, WellFoundedInduction, TLAPS

-----------------------------------------------------------------------------
(* Induction *)

\* A non-empty set of natural numbers has a least element.
LEMMA LeastNat ==
  ASSUME NEW T \in SUBSET Nat, T # {}
  PROVE  \E m \in T : \A k \in T : m <= k
<1> DEFINE R == OpToRel(<, Nat)
<1>1. IsWellFoundedOn(R, Nat)
  BY NatLessThanWellFounded
<1>2. \A a, b \in Nat : <<a, b>> \in R <=> a < b
  BY DEF OpToRel
<1> HIDE DEF R
<1>3. PICK x \in T : \A y \in T : ~(<<y, x>> \in R)
  BY <1>1, WFMin, Zenon
<1>4. ASSUME NEW k \in T
      PROVE  x <= k
  <2>1. x \in Nat /\ k \in Nat
    OBVIOUS
  <2>2. ~(k < x)
    BY <2>1, <1>2, <1>3, Zenon
  <2> QED BY <2>1, <2>2
<1> QED BY <1>4

\* A set that has 0, and i if it has i - 1, has every number up to n.
LEMMA Induction ==
  ASSUME NEW n \in Nat, NEW T, 0 \in T, \A i \in 1 .. n : i - 1 \in T => i \in T
  PROVE  \A i \in 0 .. n : i \in T
<1> DEFINE C == {i \in 0 .. n : i \notin T}
<1>1. SUFFICES ASSUME C # {}
               PROVE  FALSE
  OBVIOUS
<1>2. C \in SUBSET Nat
  OBVIOUS
<1>3. PICK m \in C : \A k \in C : m <= k
  <2> HIDE DEF C
  <2> QED BY <1>1, <1>2, LeastNat
<1>4. m \in 1 .. n /\ m - 1 \notin C
  <2>1. m \in 1 .. n
    OBVIOUS
  <2>2. ~(m <= m - 1)
    BY <2>1
  <2> HIDE DEF C
  <2> QED BY <1>3, <2>1, <2>2
<1>5. m - 1 \in T
  BY <1>4
<1> QED BY <1>4, <1>5

\* The values that n steps of g lead through from c.
Iterations(S, c, n, g) ==
  {f \in [0 .. n -> S] : f[0] = c /\ \A i \in 1 .. n : f[i] = g[i][f[i - 1]]}

\* What a step function leads to from c can be tabulated for any number of steps.
LEMMA Iterates ==
  ASSUME NEW S, NEW c \in S, NEW n \in Nat, NEW g \in [1 .. n -> [S -> S]]
  PROVE  Iterations(S, c, n, g) # {}
<1> DEFINE Upto(k, f) == f[0] = c /\ \A i \in 1 .. k : f[i] = g[i][f[i - 1]]
           T == {k \in 0 .. n : \E f \in [0 .. k -> S] : Upto(k, f)}
<1>1. 0 \in T
  <2>1. [i \in 0 .. 0 |-> c] \in [0 .. 0 -> S] /\ Upto(0, [i \in 0 .. 0 |-> c])
    OBVIOUS
  <2>2. 0 \in 0 .. n
    OBVIOUS
  <2> QED BY <2>1, <2>2, Zenon
<1>2. ASSUME NEW m \in 1 .. n, m - 1 \in T
      PROVE  m \in T
  <2>1. PICK f \in [0 .. (m - 1) -> S] : Upto(m - 1, f)
    BY <1>2
  <2> DEFINE h == [i \in 0 .. m |-> IF i = m THEN g[m][f[m - 1]] ELSE f[i]]
  <2>2. h \in [0 .. m -> S]
    OBVIOUS
  <2>3. h[0] = c
    BY <2>1
  <2>4. ASSUME NEW i \in 1 .. m
        PROVE  h[i] = g[i][h[i - 1]]
    <3>1. i - 1 \in 0 .. (m - 1) /\ h[i - 1] = f[i - 1]
      OBVIOUS
    <3>2. CASE i = m
      BY <3>1, <3>2
    <3>3. CASE i # m
      <4>1. i \in 1 .. (m - 1) /\ h[i] = f[i]
        BY <3>3
      <4> QED BY <4>1, <3>1, <2>1
    <3> QED BY <3>2, <3>3
  <2>5. m \in 0 .. n
    OBVIOUS
  <2>6. \E f2 \in [0 .. m -> S] : Upto(m, f2)
    BY <2>2, <2>3, <2>4, Zenon
  <2> QED BY <2>5, <2>6
<1>3. n \in T
  <2> HIDE DEF T
  <2>1. \A i \in 0 .. n : i \in T
    BY <1>1, <1>2, Induction, Zenon
  <2> QED BY <2>1
<1> QED BY <1>3 DEF Iterations

-----------------------------------------------------------------------------
(* Running sums *)

\* Ends is what its recursion says: it starts at 0 and adds one size at a time.
LEMMA EndsFacts ==
  ASSUME NEW s \in Seq(Nat)
  PROVE  /\ Ends(s) \in [0 .. Len(s) -> Nat]
         /\ Ends(s)[0] = 0
         /\ \A i \in 1 .. Len(s) : Ends(s)[i] = Ends(s)[i - 1] + s[i]
<1> DEFINE n == Len(s)
           Step(f) == [i \in 0 .. n |-> IF i = 0 THEN 0 ELSE f[i - 1] + s[i]]
           g == [i \in 1 .. n |-> [x \in Nat |-> x + s[i]]]
<1>1. n \in Nat /\ \A i \in 1 .. n : s[i] \in Nat
  OBVIOUS
<1>2. Ends(s) = CHOOSE f : f = Step(f)
  BY DEF Ends
<1> HIDE DEF n
<1>3. g \in [1 .. n -> [Nat -> Nat]]
  BY <1>1
<1>4. PICK f \in [0 .. n -> Nat] : f[0] = 0 /\ \A i \in 1 .. n : f[i] = g[i][f[i - 1]]
  <2> DEFINE S == Nat
             c == 0
  <2>1. c \in S /\ g \in [1 .. n -> [S -> S]]
    BY <1>3, Zenon
  <2> HIDE DEF g, S, c
  <2>2. Iterations(S, c, n, g) # {}
    BY <1>1, <2>1, Iterates
  <2> QED BY <2>2 DEF S, c, Iterations
<1>5. f = Step(f)
  <2>1. ASSUME NEW i \in 0 .. n
        PROVE  f[i] = IF i = 0 THEN 0 ELSE f[i - 1] + s[i]
    <3>1. CASE i = 0
      BY <3>1, <1>4
    <3>2. CASE i # 0
      <4>1. i \in 1 .. n /\ i - 1 \in 0 .. n
        BY <3>2, <1>1
      <4>2. g[i][f[i - 1]] = f[i - 1] + s[i]
        BY <4>1, Zenon
      <4> QED BY <4>1, <4>2, <1>4, <3>2
    <3> QED BY <3>1, <3>2
  <2> QED BY <2>1
<1> DEFINE F == Ends(s)
<1>6. F = Step(F)
  <2> HIDE DEF Step
  <2> QED BY <1>5, <1>2
<1> HIDE DEF F
<1>7. F[0] = 0 /\ \A i \in 1 .. n : F[i] = F[i - 1] + s[i]
  BY <1>6, <1>1
<1> DEFINE T == {k \in 0 .. n : F[k] \in Nat}
<1>8. 0 \in T
  BY <1>7, <1>1
<1>9. ASSUME NEW i \in 1 .. n, i - 1 \in T
      PROVE  i \in T
  <2>1. i \in 0 .. n /\ F[i] = F[i - 1] + s[i] /\ F[i - 1] \in Nat /\ s[i] \in Nat
    BY <1>7, <1>1, <1>9
  <2> QED BY <2>1
<1>10. \A i \in 0 .. n : i \in T
  <2> HIDE DEF T
  <2> QED BY <1>1, <1>8, <1>9, Induction, Zenon
<1>11. F \in [0 .. n -> Nat]
  BY <1>6, <1>10
<1> QED BY <1>7, <1>11 DEF F, n

\* The same, from one part to the next.
LEMMA EndsStep ==
  ASSUME NEW s \in Seq(Nat), NEW i \in Nat, i < Len(s)
  PROVE  /\ Ends(s)[i + 1] = Ends(s)[i] + s[i + 1]
         /\ Ends(s)[i] \in Nat /\ Ends(s)[i + 1] \in Nat
<1>1. Len(s) \in Nat
  OBVIOUS
<1>2. i + 1 \in 1 .. Len(s) /\ i \in 0 .. Len(s) /\ i + 1 \in 0 .. Len(s) /\ i + 1 - 1 = i
  BY <1>1
<1>3. Ends(s)[i + 1] = Ends(s)[i + 1 - 1] + s[i + 1]
  BY <1>2, EndsFacts
<1>4. Ends(s)[i] \in Nat /\ Ends(s)[i + 1] \in Nat
  BY <1>2, EndsFacts, Zenon
<1> QED BY <1>2, <1>3, <1>4

\* Runs whose first n parts have the same sizes have the same ends up to there.
LEMMA EndsSame ==
  ASSUME NEW s \in Seq(Nat), NEW t \in Seq(Nat), NEW n \in Nat,
         n <= Len(s), n <= Len(t), \A i \in 1 .. n : s[i] = t[i]
  PROVE  \A i \in 0 .. n : Ends(s)[i] = Ends(t)[i]
<1> DEFINE T == {i \in 0 .. n : Ends(s)[i] = Ends(t)[i]}
<1>1. 0 \in T
  BY EndsFacts
<1>2. ASSUME NEW i \in 1 .. n, i - 1 \in T
      PROVE  i \in T
  <2>0. Len(s) \in Nat /\ Len(t) \in Nat
    OBVIOUS
  <2>1. i \in 1 .. Len(s) /\ i \in 1 .. Len(t) /\ s[i] = t[i] /\ i \in 0 .. n
    BY <2>0
  <2>2. Ends(s)[i] = Ends(s)[i - 1] + s[i] /\ Ends(t)[i] = Ends(t)[i - 1] + t[i]
    BY <2>1, EndsFacts
  <2> QED BY <1>2, <2>1, <2>2
<1>3. \A i \in 0 .. n : i \in T
  <2> HIDE DEF T
  <2> QED BY <1>1, <1>2, Induction, Zenon
<1> QED BY <1>3

\* A part ends no earlier than one before it.
LEMMA EndsGrow ==
  ASSUME NEW s \in Seq(Nat), NEW i \in 0 .. Len(s), NEW j \in 0 .. Len(s), i <= j
  PROVE  Ends(s)[i] <= Ends(s)[j]
<1> DEFINE T == {k \in 0 .. Len(s) : i <= k => Ends(s)[i] <= Ends(s)[k]}
<1>0. Len(s) \in Nat /\ Ends(s) \in [0 .. Len(s) -> Nat]
  BY EndsFacts
<1>1. 0 \in T
  BY <1>0
<1>2. ASSUME NEW k \in 1 .. Len(s), k - 1 \in T
      PROVE  k \in T
  <2>1. k - 1 \in 0 .. Len(s) /\ k \in 0 .. Len(s) /\ k \in Nat /\ i \in Nat
    BY <1>0
  <2>2. PICK a \in Nat, b \in Nat, c \in Nat, x \in Nat :
          /\ a = Ends(s)[i] /\ b = Ends(s)[k - 1] /\ c = Ends(s)[k] /\ x = s[k]
    <3>1. Ends(s)[i] \in Nat /\ Ends(s)[k - 1] \in Nat /\ Ends(s)[k] \in Nat
      BY <1>0, <2>1, Zenon
    <3>2. s[k] \in Nat
      BY <1>0
    <3> QED BY <3>1, <3>2, Zenon
  <2>3. c = b + x
    BY <2>2, EndsFacts, Zenon
  <2>4. i <= k - 1 => a <= b
    BY <1>2, <2>2, Zenon
  <2> HIDE DEF T
  <2>5. i <= k => a <= c
    <3>1. CASE i = k
      BY <2>2, <3>1
    <3>2. CASE i <= k - 1
      BY <2>3, <2>4, <3>2
    <3>3. CASE i > k
      BY <2>1, <3>3
    <3> QED BY <2>1, <3>1, <3>2, <3>3
  <2> QED BY <2>1, <2>2, <2>5, Zenon DEF T
<1>3. \A k \in 0 .. Len(s) : k \in T
  <2> HIDE DEF T
  <2> QED BY <1>0, <1>1, <1>2, Induction, Zenon
<1> QED BY <1>3

\* One more part adds its size to the total.
LEMMA TotalAppend ==
  ASSUME NEW s \in Seq(Nat), NEW x \in Nat
  PROVE  /\ Total(Append(s, x)) = Total(s) + x
         /\ \A i \in 0 .. Len(s) : Ends(Append(s, x))[i] = Ends(s)[i]
<1> DEFINE t == Append(s, x)
<1>1. /\ t \in Seq(Nat) /\ Len(t) = Len(s) + 1 /\ Len(s) \in Nat
      /\ \A i \in 1 .. Len(s) : t[i] = s[i]
      /\ t[Len(s) + 1] = x
  OBVIOUS
<1> HIDE DEF t
<1>2. \A i \in 0 .. Len(s) : Ends(t)[i] = Ends(s)[i]
  <2>1. PICK n \in Nat : n = Len(s)
    BY <1>1
  <2>2. n <= Len(s) /\ n <= Len(t)
    BY <1>1, <2>1
  <2>3. \A i \in 0 .. n : Ends(t)[i] = Ends(s)[i]
    BY <1>1, <2>1, <2>2, EndsSame, Zenon
  <2> QED BY <2>1, <2>3
<1>3. Ends(t)[Len(t)] = Ends(t)[Len(s)] + x
  <2>1. Len(t) \in 1 .. Len(t) /\ Len(t) - 1 = Len(s) /\ t[Len(t)] = x
    BY <1>1
  <2> QED BY <1>1, <2>1, EndsFacts, Zenon
<1> QED BY <1>1, <1>2, <1>3 DEF Total, t

\* Parts k times as large end k times as far.
LEMMA EndsScale ==
  ASSUME NEW s \in Seq(Nat), NEW t \in Seq(Nat), NEW k \in Nat,
         Len(t) = Len(s), \A i \in 1 .. Len(s) : t[i] = s[i] * k
  PROVE  \A i \in 0 .. Len(s) : Ends(t)[i] = Ends(s)[i] * k
<1> DEFINE T == {i \in 0 .. Len(s) : Ends(t)[i] = Ends(s)[i] * k}
<1>0. /\ Len(s) \in Nat /\ Ends(s) \in [0 .. Len(s) -> Nat] /\ Ends(t) \in [0 .. Len(s) -> Nat]
      /\ Ends(s)[0] = 0 /\ Ends(t)[0] = 0
  BY EndsFacts
<1>1. 0 \in T
  BY <1>0
<1>2. ASSUME NEW i \in 1 .. Len(s), i - 1 \in T
      PROVE  i \in T
  <2>1. /\ Ends(s)[i] = Ends(s)[i - 1] + s[i] /\ Ends(t)[i] = Ends(t)[i - 1] + t[i]
        /\ t[i] = s[i] * k
    BY EndsFacts
  <2>2. s[i] \in Nat /\ Ends(s)[i - 1] \in Nat /\ i \in 0 .. Len(s)
    <3>1. i - 1 \in 0 .. Len(s) /\ i \in 0 .. Len(s)
      BY <1>0
    <3>2. s[i] \in Nat
      OBVIOUS
    <3>3. Ends(s)[i - 1] \in Nat
      BY <1>0, <3>1, Zenon
    <3> QED BY <3>1, <3>2, <3>3
  <2>3. Ends(t)[i - 1] = Ends(s)[i - 1] * k
    BY <1>2
  <2>4. \A a, b \in Nat : (a + b) * k = a * k + b * k
    OBVIOUS
  <2> QED BY <2>1, <2>2, <2>3, <2>4, Zenon
<1>3. \A i \in 0 .. Len(s) : i \in T
  <2> HIDE DEF T
  <2> QED BY <1>0, <1>1, <1>2, Induction, Zenon
<1> QED BY <1>3

-----------------------------------------------------------------------------
(* Artifacts *)

\* What an emittable artifact is made of: its parts have their types, names are
\* different, and both ends of a link are definitions or imports.
LEMMA EmittableFacts ==
  ASSUME NEW a, Emittable(a)
  PROVE  /\ a.definitions \in Seq(Definition) /\ a.imports \in Seq(Import)
         /\ a.links \in Seq(Link)
         /\ \A i, j \in DOMAIN a.definitions :
              /\ a.definitions[i].name = a.definitions[j].name => i = j
              /\ i < j /\ IsGlobal(a.definitions[i].decl) => IsGlobal(a.definitions[j].decl)
         /\ \A i \in DOMAIN a.definitions :
              /\ IsSection(a.definitions[i].decl) \/ a.definitions[i].symbols = <<>>
              /\ a.definitions[i].data.zero_init => a.definitions[i].decl.tag = "Data"
         /\ \A i \in DOMAIN a.definitions, j \in DOMAIN a.imports :
              a.definitions[i].name # a.imports[j].name
         /\ \A i, j \in DOMAIN a.imports : a.imports[i].name = a.imports[j].name => i = j
         /\ \A i \in DOMAIN a.links :
              /\ \E j \in DOMAIN a.definitions :
                   /\ a.links[i].from.name = a.definitions[j].name
                   /\ a.links[i].from.decl = a.definitions[j].decl
              /\ \/ \E j \in DOMAIN a.definitions :
                      /\ a.links[i].to.name = a.definitions[j].name
                      /\ a.links[i].to.decl = a.definitions[j].decl
                 \/ \E j \in DOMAIN a.imports :
                      /\ a.links[i].to.name = a.imports[j].name
                      /\ a.links[i].to.decl = ImportDecl(a.imports[j].kind)
<1> DEFINE defs == a.definitions
           bindings == {[name |-> defs[i].name, decl |-> defs[i].decl] : i \in DOMAIN defs}
           imported == {[name |-> a.imports[i].name, decl |-> ImportDecl(a.imports[i].kind)] :
                          i \in DOMAIN a.imports}
<1>1. /\ defs \in Seq(Definition) /\ a.imports \in Seq(Import) /\ a.links \in Seq(Link)
      /\ \A j \in DOMAIN defs : \A i \in 1 .. j - 1 :
           /\ defs[i].name # defs[j].name
           /\ IsGlobal(defs[i].decl) => IsGlobal(defs[j].decl)
      /\ \A i \in DOMAIN defs :
           /\ IsSection(defs[i].decl) \/ defs[i].symbols = <<>>
           /\ defs[i].data.zero_init => defs[i].decl.tag = "Data"
      /\ \A x, y \in bindings \cup imported : x.name = y.name => x = y
      /\ \A i, j \in DOMAIN a.imports : a.imports[i].name = a.imports[j].name => i = j
      /\ \A i \in DOMAIN a.links :
           a.links[i].from \in bindings /\ a.links[i].to \in bindings \cup imported
  BY Zenon DEF Emittable
<1>2. \A i, j \in DOMAIN defs :
        /\ defs[i].name = defs[j].name => i = j
        /\ i < j /\ IsGlobal(defs[i].decl) => IsGlobal(defs[j].decl)
  <2> SUFFICES ASSUME NEW i \in DOMAIN defs, NEW j \in DOMAIN defs
               PROVE  /\ defs[i].name = defs[j].name => i = j
                      /\ i < j /\ IsGlobal(defs[i].decl) => IsGlobal(defs[j].decl)
    OBVIOUS
  <2> HIDE DEF defs, bindings, imported
  <2>1. i \in Nat \ {0} /\ j \in Nat \ {0}
    BY <1>1
  <2>2. i < j => i \in 1 .. j - 1
    BY <2>1
  <2>3. j < i => j \in 1 .. i - 1
    BY <2>1
  <2>4. i < j \/ j < i \/ i = j
    BY <2>1
  <2> QED BY <1>1, <2>1, <2>2, <2>3, <2>4
<1>3. \A i \in DOMAIN defs, j \in DOMAIN a.imports : defs[i].name # a.imports[j].name
  <2> SUFFICES ASSUME NEW i \in DOMAIN defs, NEW j \in DOMAIN a.imports,
                      defs[i].name = a.imports[j].name
               PROVE  FALSE
    OBVIOUS
  <2> DEFINE x == [name |-> defs[i].name, decl |-> defs[i].decl]
             y == [name |-> a.imports[j].name, decl |-> ImportDecl(a.imports[j].kind)]
  <2>1. x \in bindings /\ y \in imported /\ x.name = y.name
    OBVIOUS
  <2>2. x = y
    <3> HIDE DEF x, y, bindings, imported
    <3> QED BY <1>1, <2>1
  <2>3. defs[i].decl = ImportDecl(a.imports[j].kind)
    BY <2>2
  <2>4. defs[i].decl.tag = "Import"
    BY <2>3 DEF ImportDecl
  <2>5. defs[i] \in Definition
    BY <1>1
  <2>6. defs[i].decl.tag # "Import"
    BY <2>5 DEF Definition, DefinedDecls, FunctionDecls, DataDecls, SectionDecls
  <2> QED BY <2>4, <2>6
<1>4. ASSUME NEW i \in DOMAIN a.links
      PROVE  /\ \E j \in DOMAIN defs :
                  a.links[i].from.name = defs[j].name /\ a.links[i].from.decl = defs[j].decl
             /\ \/ \E j \in DOMAIN defs :
                     a.links[i].to.name = defs[j].name /\ a.links[i].to.decl = defs[j].decl
                \/ \E j \in DOMAIN a.imports :
                     /\ a.links[i].to.name = a.imports[j].name
                     /\ a.links[i].to.decl = ImportDecl(a.imports[j].kind)
  <2> DEFINE from == a.links[i].from
             to == a.links[i].to
  <2>1. from \in bindings /\ (to \in bindings \/ to \in imported)
    BY <1>1
  <2> HIDE DEF from, to, defs
  <2>2. \A x \in bindings : \E j \in DOMAIN defs : x.name = defs[j].name /\ x.decl = defs[j].decl
    OBVIOUS
  <2>3. \A x \in imported : \E j \in DOMAIN a.imports :
          x.name = a.imports[j].name /\ x.decl = ImportDecl(a.imports[j].kind)
    OBVIOUS
  <2> HIDE DEF bindings, imported
  <2>4. /\ \E j \in DOMAIN defs : from.name = defs[j].name /\ from.decl = defs[j].decl
        /\ \/ \E j \in DOMAIN defs : to.name = defs[j].name /\ to.decl = defs[j].decl
           \/ \E j \in DOMAIN a.imports :
                to.name = a.imports[j].name /\ to.decl = ImportDecl(a.imports[j].kind)
    BY <2>1, <2>2, <2>3
  <2> QED BY <2>4, Zenon DEF from, to
<1> HIDE DEF bindings, imported
<1> QED BY <1>1, <1>2, <1>3, <1>4

=============================================================================
