--------------------------- MODULE ArtifactProofs ---------------------------
(***************************************************************************)
(* What declarations are and what absorb makes of two of them; the         *)
(* inductive invariant of Artifact, what interning, declare and define do  *)
(* to the parts of the state it speaks of, and the invariants it implies,  *)
(* for every set of names, declarations, data and links and every bound;   *)
(* then what no call does, one call at a time, and that Artifact           *)
(* implements SymbolLife: the invariant makes the three structures the     *)
(* mapping reads agree, so that the life of a name can be read from its    *)
(* entry in `declarations' alone, and each call changes one entry.         *)
(***************************************************************************)
EXTENDS ArtifactRefinement, TLAPS

-----------------------------------------------------------------------------
(* Declarations *)

\* The tag of a declaration tells imports from definitions, and a name that
\* has a declaration from one that has none.
LEMMA DeclTags ==
  ASSUME NEW d \in AllDecls
  PROVE  /\ d # NoDecl
         /\ IsImport(d) => d = ImportDecl(d.kind) /\ d.kind \in ImportKinds
         /\ ~IsImport(d) => d \in DefinedDecls
BY DEF AllDecls, ImportDecls, DefinedDecls, FunctionDecls, DataDecls,
       SectionDecls, NoDecl, IsImport, ImportDecl, ImportKinds

\* A definition is a declaration and no import.
LEMMA DefinedTags == ASSUME NEW d \in DefinedDecls PROVE ~IsImport(d) /\ d \in AllDecls
BY DEF AllDecls, DefinedDecls, FunctionDecls, DataDecls, SectionDecls, IsImport

\* An undeclared name is no import.
LEMMA NoDeclTag == ~IsImport(NoDecl)
BY DEF NoDecl, IsImport

\* Absorbing gives one of the two declarations: the old one, unless it was an
\* import, and an import only when both were the same import.
LEMMA AbsorbFacts ==
  ASSUME NEW old \in AllDecls, NEW new \in AllDecls, Absorbs(old, new)
  PROVE  /\ Absorb(old, new) \in {old, new}
         /\ ~IsImport(old) => Absorb(old, new) = old
         /\ IsImport(Absorb(old, new)) => old = new
BY DEF Absorbs, Absorb, Upgrades, IsImport, AllDecls, ImportDecls, ImportKinds,
       DefinedDecls, FunctionDecls, DataDecls, SectionDecls

-----------------------------------------------------------------------------
(* Order of declarations *)

\* absorb is a join: whether two or three declarations of a name are accepted,
\* and what they leave it declared as, does not depend on their order or on
\* repetitions.
THEOREM AbsorbIsAJoin ==
  ASSUME NEW x \in AllDecls, NEW y \in AllDecls, NEW z \in AllDecls
  PROVE  /\ Absorbs(x, x) /\ Absorb(x, x) = x
         /\ Absorbs(x, y) <=> Absorbs(y, x)
         /\ Absorbs(x, y) => Absorb(x, y) = Absorb(y, x)
         /\ Absorbs(x, y) /\ Absorbs(Absorb(x, y), z)
              <=> Absorbs(y, z) /\ Absorbs(x, Absorb(y, z))
         /\ Absorbs(x, y) /\ Absorbs(Absorb(x, y), z) =>
              Absorb(Absorb(x, y), z) = Absorb(x, Absorb(y, z))
BY DEF Absorbs, Absorb, Upgrades, AllDecls, ImportDecls, ImportKinds,
       DefinedDecls, FunctionDecls, DataDecls, SectionDecls

-----------------------------------------------------------------------------
(* The inductive invariant and the parts of a call *)

\* The facts a call relies on and re-establishes.  No conjunct but TypeOK is
\* inductive alone: ImportsListed, DefinitionsCurrent and LinksResolve each need
\* the types of what declare absorbs, and EmitFindsLinkEnds, which no single
\* structure shows, follows from the conjunction.
IInv == TypeOK /\ ImportsListed /\ DefinitionsCurrent /\ LinksResolve

-----------------------------------------------------------------------------
(* Interning *)

Injective(s) == \A i, j \in DOMAIN s : s[i] = s[j] => i = j

\* Interning gives a new name a new id and keeps every id given before.
LEMMA InternType ==
  ASSUME NEW s \in Seq(Names), NEW n \in Names, Injective(s)
  PROVE  Intern(s, n) \in Seq(Names) /\ Injective(Intern(s, n))
<1>1. CASE \E i \in DOMAIN s : s[i] = n
  BY <1>1 DEF Intern
<1>2. CASE ~\E i \in DOMAIN s : s[i] = n
  <2>1. Intern(s, n) = Append(s, n)
    BY <1>2 DEF Intern
  <2> QED
    BY <1>2, <2>1 DEF Injective
<1> QED
  BY <1>1, <1>2

-----------------------------------------------------------------------------
(* declare *)

\* What declare does to the entries, as far as later lemmas need it.
LEMMA DeclarationFacts ==
  ASSUME TypeOK, NEW n \in Names, NEW d \in Decls, Accepts(n, d)
  PROVE  /\ Declaration(n, d) \in Decls
         /\ Declaration(n, d) \in {declarations[n].decl, d}
         /\ Declared(n) /\ ~IsImport(declarations[n].decl) =>
              Declaration(n, d) = declarations[n].decl
         /\ IsImport(Declaration(n, d)) =>
              ~Declared(n) \/ Declaration(n, d) = declarations[n].decl
         /\ DeclarationsWith(n, d) \in [Names -> InternalDecls]
         /\ DeclarationsWith(n, d)[n].decl = Declaration(n, d)
         /\ DeclarationsWith(n, d)[n].defined = declarations[n].defined
         /\ \A m \in Names \ {n} : DeclarationsWith(n, d)[m] = declarations[m]
<1>1. declarations \in [Names -> InternalDecls]
  BY DEF TypeOK
<1>2. declarations[n] \in InternalDecls
  BY <1>1
<1>3. d \in AllDecls
  BY DeclsAssumption
<1>4. CASE ~Declared(n)
  <2>1. Declaration(n, d) = d
    BY <1>4 DEF Declaration
  <2> QED
    BY <1>1, <1>2, <1>4, <2>1 DEF DeclarationsWith, InternalDecls
<1>5. CASE Declared(n)
  <2>1. declarations[n].decl \in Decls /\ declarations[n].decl \in AllDecls
    BY <1>2, <1>5, DeclsAssumption DEF Declared, InternalDecls
  <2>2. Absorbs(declarations[n].decl, d)
    BY <1>5 DEF Accepts
  <2>3. Declaration(n, d) = Absorb(declarations[n].decl, d)
    BY <1>5 DEF Declaration
  <2>4. /\ Declaration(n, d) \in {declarations[n].decl, d}
        /\ ~IsImport(declarations[n].decl) => Declaration(n, d) = declarations[n].decl
        /\ IsImport(Declaration(n, d)) => Declaration(n, d) = declarations[n].decl
    BY <1>3, <2>1, <2>2, <2>3, AbsorbFacts
  <2> QED
    BY <1>1, <1>2, <2>1, <2>4 DEF DeclarationsWith, InternalDecls
<1> QED
  BY <1>4, <1>5

\* swap_remove takes out exactly the entry at i: every other entry survives,
\* at its own place or, for the last one, at i.
LEMMA SwapRemoveFacts ==
  ASSUME NEW S, NEW s \in Seq(S), NEW i \in DOMAIN s
  PROVE  /\ SwapRemove(s, i) \in Seq(S)
         /\ DOMAIN SwapRemove(s, i) = 1..(Len(s) - 1)
         /\ \A j \in 1..(Len(s) - 1) :
              SwapRemove(s, i)[j] = IF j = i THEN s[Len(s)] ELSE s[j]
<1>1. Len(s) \in Nat /\ Len(s) # 0 /\ i \in 1..Len(s)
  OBVIOUS
<1>2. \A j \in 1..Len(s) : s[j] \in S
  OBVIOUS
<1>3. SwapRemove(s, i) \in [1..(Len(s) - 1) -> S]
  BY <1>1, <1>2 DEF SwapRemove
<1>4. Len(s) - 1 \in Nat
  BY <1>1
<1>5. SwapRemove(s, i) \in Seq(S)
  BY <1>3, <1>4
<1> QED
  BY <1>1, <1>5 DEF SwapRemove

\* declare keeps the imports list in step with the declarations, whatever it
\* finds there and whatever becomes of the `defined' flags.
LEMMA DeclareImports ==
  ASSUME TypeOK, ImportsListed,
         NEW n \in Names, NEW d \in Decls, Accepts(n, d),
         imports' = ImportsWith(n, d),
         declarations' \in [Names -> InternalDecls],
         \A m \in Names : declarations'[m].decl = DeclarationsWith(n, d)[m].decl
  PROVE  imports' \in Seq(Imports) /\ ImportsListed'
<1> DEFINE new == Declaration(n, d)
<1>1. /\ imports \in Seq(Imports)
      /\ declarations \in [Names -> InternalDecls]
  BY DEF TypeOK
<1>2. /\ declarations'[n].decl = new
      /\ \A m \in Names \ {n} : declarations'[m].decl = declarations[m].decl
  BY DeclarationFacts
<1>3. \A i \in DOMAIN imports : imports[i].name \in Names /\ imports[i].kind \in ImportKinds
  <2>1. \A i \in DOMAIN imports : imports[i] \in Imports
    BY <1>1
  <2> QED
    BY <2>1 DEF Imports
<1>4. new \in AllDecls
  BY DeclarationFacts, DeclsAssumption
<1>5. CASE IsImport(new) /\ ImportIndices(n) = {}
  <2>1. imports' = Append(imports, [name |-> n, kind |-> new.kind])
    BY <1>5 DEF ImportsWith
  <2>2. new = ImportDecl(new.kind) /\ new.kind \in ImportKinds
    BY <1>4, <1>5, DeclTags
  <2>3. [name |-> n, kind |-> new.kind] \in Imports
    BY <2>2 DEF Imports
  <2>4. imports' \in Seq(Imports)
    BY <1>1, <2>1, <2>3
  <2>5. /\ DOMAIN imports' = 1..(Len(imports) + 1)
        /\ \A i \in 1..Len(imports) : imports'[i] = imports[i]
        /\ imports'[Len(imports) + 1] = [name |-> n, kind |-> new.kind]
    BY <1>1, <2>1, <2>3
  <2>6. \A i \in DOMAIN imports : imports[i].name # n
    BY <1>5 DEF ImportIndices
  <2>7. \A i, j \in DOMAIN imports' : imports'[i].name = imports'[j].name => i = j
    BY <1>1, <2>5, <2>6 DEF ImportsListed
  <2>8. \A i \in DOMAIN imports' :
          declarations'[imports'[i].name].decl = ImportDecl(imports'[i].kind)
    BY <1>1, <1>2, <1>3, <2>2, <2>5, <2>6 DEF ImportsListed
  <2>9. \A m \in Names : IsImport(declarations'[m].decl) =>
          \E i \in DOMAIN imports' : imports'[i].name = m
    <3> SUFFICES ASSUME NEW m \in Names, IsImport(declarations'[m].decl)
                 PROVE  \E i \in DOMAIN imports' : imports'[i].name = m
      OBVIOUS
    <3>1. CASE m = n
      BY <1>1, <2>5, <3>1
    <3>2. CASE m # n
      <4>1. PICK i \in DOMAIN imports : imports[i].name = m
        BY <1>2, <3>2 DEF ImportsListed, ImportIndices
      <4> QED
        BY <1>1, <2>5, <4>1
    <3> QED
      BY <3>1, <3>2
  <2> QED
    BY <2>4, <2>7, <2>8, <2>9 DEF ImportsListed, ImportIndices
<1>6. CASE IsImport(new) /\ ImportIndices(n) # {}
  <2>1. imports' = imports
    BY <1>6 DEF ImportsWith
  <2>2. declarations[n].decl = new
    <3>1. PICK i \in DOMAIN imports : imports[i].name = n
      BY <1>6 DEF ImportIndices
    <3>2. declarations[n].decl = ImportDecl(imports[i].kind)
      BY <3>1 DEF ImportsListed
    <3>3. Declared(n)
      BY <3>2 DEF Declared, ImportDecl, NoDecl
    <3> QED
      BY <1>6, <3>3, DeclarationFacts
  <2>3. \A m \in Names : declarations'[m].decl = declarations[m].decl
    BY <1>2, <2>2
  <2> QED
    BY <1>1, <1>3, <2>1, <2>3 DEF ImportsListed, ImportIndices
<1>7. CASE ~IsImport(new) /\ ~IsImport(declarations[n].decl)
  <2>1. imports' = imports
    BY <1>7 DEF ImportsWith
  <2>2. \A i \in DOMAIN imports : imports[i].name # n
    <3> SUFFICES ASSUME NEW i \in DOMAIN imports, imports[i].name = n
                 PROVE  FALSE
      OBVIOUS
    <3>1. declarations[n].decl = ImportDecl(imports[i].kind)
      BY DEF ImportsListed
    <3> QED
      BY <1>7, <3>1 DEF IsImport, ImportDecl
  <2> QED
    BY <1>1, <1>2, <1>3, <1>7, <2>1, <2>2 DEF ImportsListed, ImportIndices
<1>8. CASE ~IsImport(new) /\ IsImport(declarations[n].decl)
  <2>1. PICK k \in DOMAIN imports : imports[k].name = n
    BY <1>8 DEF ImportsListed, ImportIndices
  <2>2. ImportIndices(n) = {k}
    BY <2>1 DEF ImportsListed, ImportIndices
  <2>3. (CHOOSE i \in ImportIndices(n) : \A j \in ImportIndices(n) : j <= i) = k
    BY <1>1, <2>1, <2>2
  <2>4. imports' = SwapRemove(imports, k)
    BY <1>8, <2>3, Zenon DEF ImportsWith
  <2> DEFINE len == Len(imports)
  <2>5. /\ imports' \in Seq(Imports)
        /\ DOMAIN imports' = 1..(len - 1)
        /\ \A j \in 1..(len - 1) : imports'[j] = IF j = k THEN imports[len] ELSE imports[j]
    <3>1. /\ SwapRemove(imports, k) \in Seq(Imports)
          /\ DOMAIN SwapRemove(imports, k) = 1..(Len(imports) - 1)
          /\ \A j \in 1..(Len(imports) - 1) :
               SwapRemove(imports, k)[j] = IF j = k THEN imports[Len(imports)] ELSE imports[j]
      BY <1>1, <2>1, SwapRemoveFacts, Zenon
    <3> QED
      BY <2>4, <3>1
  <2>6. len \in Nat /\ DOMAIN imports = 1..len
    BY <1>1
  \* Where an entry of the new list comes from, and where one of the old goes.
  <2>7. \A i \in DOMAIN imports' :
          \E j \in DOMAIN imports : /\ imports'[i] = imports[j]
                                    /\ j # k
                                    /\ j = IF i = k THEN len ELSE i
    <3> SUFFICES ASSUME NEW i \in DOMAIN imports'
                 PROVE  \E j \in DOMAIN imports : /\ imports'[i] = imports[j]
                                                  /\ j # k
                                                  /\ j = IF i = k THEN len ELSE i
      OBVIOUS
    <3>1. CASE i = k
      BY <2>5, <2>6, <3>1
    <3>2. CASE i # k
      BY <2>5, <2>6, <3>2
    <3> QED
      BY <3>1, <3>2
  <2>8. \A j \in DOMAIN imports \ {k} : \E i \in DOMAIN imports' : imports'[i] = imports[j]
    <3> SUFFICES ASSUME NEW j \in DOMAIN imports \ {k}
                 PROVE  \E i \in DOMAIN imports' : imports'[i] = imports[j]
      OBVIOUS
    <3>1. CASE j = len
      BY <2>1, <2>5, <2>6, <3>1
    <3>2. CASE j # len
      BY <2>5, <2>6, <3>2
    <3> QED
      BY <3>1, <3>2
  <2>9. \A i, j \in DOMAIN imports' : imports'[i].name = imports'[j].name => i = j
    <3> SUFFICES ASSUME NEW i \in DOMAIN imports', NEW j \in DOMAIN imports',
                        imports'[i].name = imports'[j].name
                 PROVE  i = j
      OBVIOUS
    <3>1. (IF i = k THEN len ELSE i) = (IF j = k THEN len ELSE j)
      BY <2>7 DEF ImportsListed
    <3> QED
      BY <2>5, <2>6, <3>1
  <2>10. \A i \in DOMAIN imports' :
           declarations'[imports'[i].name].decl = ImportDecl(imports'[i].kind)
    <3> SUFFICES ASSUME NEW i \in DOMAIN imports'
                 PROVE  declarations'[imports'[i].name].decl = ImportDecl(imports'[i].kind)
      OBVIOUS
    <3>1. PICK j \in DOMAIN imports : imports'[i] = imports[j] /\ j # k
      BY <2>7
    <3>2. imports[j].name # n
      BY <2>2, <3>1 DEF ImportIndices
    <3> QED
      BY <1>2, <1>3, <3>1, <3>2 DEF ImportsListed
  <2>11. \A m \in Names : IsImport(declarations'[m].decl) =>
           \E i \in DOMAIN imports' : imports'[i].name = m
    <3> SUFFICES ASSUME NEW m \in Names, IsImport(declarations'[m].decl)
                 PROVE  \E i \in DOMAIN imports' : imports'[i].name = m
      OBVIOUS
    <3>1. m # n
      BY <1>2, <1>8
    <3>2. PICK j \in DOMAIN imports : imports[j].name = m
      BY <1>2, <3>1 DEF ImportsListed, ImportIndices
    <3>3. j # k
      BY <2>1, <3>1, <3>2
    <3> QED
      BY <2>8, <3>2, <3>3
  <2> QED
    BY <2>5, <2>9, <2>10, <2>11 DEF ImportsListed, ImportIndices
<1> QED
  BY <1>5, <1>6, <1>7, <1>8

\* declare keeps the ends of recorded links resolved: it turns no definition
\* into an import and removes no declaration.
LEMMA DeclareLinks ==
  ASSUME TypeOK, LinksResolve,
         NEW n \in Names, NEW d \in Decls, Accepts(n, d), links' = links,
         \A m \in Names : declarations'[m].decl = DeclarationsWith(n, d)[m].decl
  PROVE  LinksResolve'
<1>1. \A i \in DOMAIN links : links[i].from \in Names /\ links[i].to \in Names
  <2>1. links \in Seq(Links)
    BY DEF TypeOK
  <2>2. \A i \in DOMAIN links : links[i] \in Links
    BY <2>1
  <2> QED
    BY <2>2 DEF Links
<1>2. \A m \in Names : Declared(m) => Declared(m)'
  <2> SUFFICES ASSUME NEW m \in Names, Declared(m) PROVE Declared(m)'
    OBVIOUS
  <2>1. CASE m = n
    <3>1. Declaration(n, d) # NoDecl
      BY DeclarationFacts, DeclsAssumption, DeclTags
    <3> QED
      BY <2>1, <3>1, DeclarationFacts DEF Declared
  <2>2. CASE m # n
    BY <2>2, DeclarationFacts DEF Declared
  <2> QED
    BY <2>1, <2>2
<1>3. \A m \in Names : Declared(m) /\ ~IsImport(declarations[m].decl) =>
        ~IsImport(declarations'[m].decl)
  BY DeclarationFacts
<1> QED
  BY <1>1, <1>2, <1>3 DEF LinksResolve

\* A defined name has a definition in force, so declare leaves its entry alone.
LEMMA DeclareDefined ==
  ASSUME IInv, NEW n \in Names, NEW d \in Decls, Accepts(n, d),
         NEW def \in AllDefinitions
  PROVE  DeclarationsWith(n, d)[def.name] = declarations[def.name]
<1>1. def \in Definitions
  BY DEF IInv, TypeOK, AllDefinitions
<1>2. def.name \in Names /\ def.decl \in Decls /\ def.decl \in DefinedDecls
  BY <1>1 DEF Definitions
<1>3. declarations[def.name] = [decl |-> def.decl, defined |-> TRUE]
  BY DEF IInv, DefinitionsCurrent
<1>4. ~IsImport(def.decl) /\ def.decl # NoDecl
  BY <1>2, DefinedTags, DeclTags
<1>5. CASE def.name = n
  <2>1. Declared(n) /\ ~IsImport(declarations[n].decl)
    BY <1>3, <1>4, <1>5 DEF Declared
  <2>2. /\ DeclarationsWith(n, d)[n].decl = declarations[n].decl
        /\ DeclarationsWith(n, d)[n].defined = declarations[n].defined
    BY <2>1, DeclarationFacts DEF IInv
  <2>3. DeclarationsWith(n, d)[n] \in InternalDecls /\ declarations[n] \in InternalDecls
    BY DeclarationFacts, Zenon DEF IInv, TypeOK
  <2> QED
    BY <1>5, <2>2, <2>3 DEF InternalDecls
<1>6. CASE def.name # n
  BY <1>2, <1>6, DeclarationFacts DEF IInv
<1> QED
  BY <1>5, <1>6

\* A declare that succeeds preserves the invariant.
LEMMA DeclareStep ==
  ASSUME IInv, NEW n \in Names, NEW d \in Decls, DeclareOk(n, d),
         strings' \in Seq(Names), Injective(strings'), todo' \in Seq(Batch),
         UNCHANGED <<links, local_definitions, nonlocal_definitions>>
  PROVE  IInv'
<1>1. /\ Accepts(n, d) /\ declarations' = DeclarationsWith(n, d)
      /\ imports' = ImportsWith(n, d) /\ result' = "Ok"
  BY DEF DeclareOk
<1>2. TypeOK /\ declarations' \in [Names -> InternalDecls]
  BY <1>1, DeclarationFacts DEF IInv
<1>3. imports' \in Seq(Imports) /\ ImportsListed'
  BY <1>1, <1>2, DeclareImports DEF IInv
<1>4. LinksResolve'
  BY <1>1, <1>2, DeclareLinks DEF IInv
<1>5. TypeOK'
  BY <1>1, <1>2, <1>3 DEF TypeOK, Injective
<1>6. DefinitionsCurrent'
  <2>1. AllDefinitions' = AllDefinitions
    BY DEF AllDefinitions
  <2>2. \A def \in AllDefinitions : declarations'[def.name] = declarations[def.name]
    BY <1>1, DeclareDefined
  <2>3. \A m \in Names : declarations'[m].defined = declarations[m].defined
    BY <1>1, <1>2, DeclarationFacts
  <2> QED
    BY <2>1, <2>2, <2>3 DEF DefinitionsCurrent, IInv
<1> QED
  BY <1>3, <1>4, <1>5, <1>6 DEF IInv

-----------------------------------------------------------------------------
(* define *)

\* Defining a name in decls, the entries as they are or as declare has just
\* left them, adds at most the definition whose declaration is in force.
LEMMA DefineStep ==
  ASSUME IInv, NEW n \in Names, NEW data \in Datas, NEW symbols \in SymbolMaps,
         NEW decls \in [Names -> InternalDecls],
         \A def \in AllDefinitions : decls[def.name] = declarations[def.name],
         \A m \in Names : decls[m].defined = declarations[m].defined,
         DefineIn(decls, n, data, symbols)
  PROVE  /\ declarations' \in [Names -> InternalDecls]
         /\ \A m \in Names : declarations'[m].decl = decls[m].decl
         /\ result' \in Errors \cup {"Ok"}
         /\ local_definitions' \in SUBSET Definitions
         /\ nonlocal_definitions' \in SUBSET Definitions
         /\ DefinitionsCurrent'
<1> DEFINE decl == decls[n].decl
           def == [name |-> n, decl |-> decl, symbols |-> symbols, data |-> data]
<1>1. result' = DefineResult(decls[n], data, symbols)
  BY DEF DefineIn
<1>2. result' \in Errors \cup {"Ok"}
  BY <1>1 DEF DefineResult, Errors
<1>3. /\ local_definitions \in SUBSET Definitions
      /\ nonlocal_definitions \in SUBSET Definitions
      /\ DefinitionsCurrent
  BY DEF IInv, TypeOK
<1>4. decls[n] \in InternalDecls
  BY Zenon
<1>5. CASE result' # "Ok"
  <2>1. /\ declarations' = decls
        /\ local_definitions' = local_definitions
        /\ nonlocal_definitions' = nonlocal_definitions
    BY <1>5, Zenon DEF DefineIn
  <2>2. AllDefinitions' = AllDefinitions
    BY <2>1 DEF AllDefinitions
  <2> QED
    BY <1>2, <1>3, <2>1, <2>2 DEF DefinitionsCurrent
<1>6. CASE result' = "Ok"
  <2>1. decl # NoDecl /\ ~decls[n].defined /\ ~IsImport(decl)
    BY <1>1, <1>6, Zenon DEF DefineResult
  <2>2. decl \in Decls \cap DefinedDecls
    BY <1>4, <2>1, DeclsAssumption, DeclTags, Zenon DEF InternalDecls
  <2>3. def \in Definitions
    BY <2>2 DEF Definitions
  <2>4. /\ declarations' = [decls EXCEPT ![n].defined = TRUE]
        /\ nonlocal_definitions' =
             nonlocal_definitions \cup (IF IsGlobal(decl) THEN {def} ELSE {})
        /\ local_definitions' =
             local_definitions \cup (IF IsGlobal(decl) THEN {} ELSE {def})
    BY <1>6 DEF DefineIn
  <2>5. /\ declarations' \in [Names -> InternalDecls]
        /\ declarations'[n].decl = decl /\ declarations'[n].defined = TRUE
        /\ \A m \in Names \ {n} : declarations'[m] = decls[m]
    BY <1>4, <2>4, Zenon DEF InternalDecls
  <2>6. declarations'[n] = [decl |-> decl, defined |-> TRUE]
    <3>1. declarations'[n] \in InternalDecls
      BY <2>5
    <3> QED
      BY <2>5, <3>1, Zenon DEF InternalDecls
  <2>7. AllDefinitions' = AllDefinitions \cup {def}
    BY <2>4 DEF AllDefinitions
  <2>8. \A x \in AllDefinitions : x.name # n
    <3> SUFFICES ASSUME NEW x \in AllDefinitions, x.name = n PROVE FALSE
      BY Zenon
    <3>1. decls[n] = [decl |-> x.decl, defined |-> TRUE]
      BY <1>3, Zenon DEF DefinitionsCurrent
    <3>2. decls[n].defined = TRUE
      BY <3>1
    <3> QED
      BY <2>1, <3>2
  <2>9. \A x \in AllDefinitions : x.name \in Names
    BY <1>3 DEF AllDefinitions, Definitions
  <2>10. \A x \in AllDefinitions' :
           /\ declarations'[x.name] = [decl |-> x.decl, defined |-> TRUE]
           /\ x \in nonlocal_definitions' <=> IsGlobal(x.decl)
           /\ x \in local_definitions' <=> ~IsGlobal(x.decl)
    <3> SUFFICES ASSUME NEW x \in AllDefinitions'
                 PROVE  /\ declarations'[x.name] = [decl |-> x.decl, defined |-> TRUE]
                        /\ x \in nonlocal_definitions' <=> IsGlobal(x.decl)
                        /\ x \in local_definitions' <=> ~IsGlobal(x.decl)
      BY Zenon
    <3>1. CASE x = def
      <4>1. def \notin AllDefinitions
        BY <2>8, Zenon
      <4> QED
        BY <2>4, <2>6, <3>1, <4>1 DEF AllDefinitions
    <3>2. CASE x \in AllDefinitions
      <4>1. x # def
        BY <2>8, <3>2
      <4> QED
        BY <1>3, <2>4, <2>5, <2>8, <2>9, <3>2, <4>1 DEF DefinitionsCurrent
    <3> QED
      BY <2>7, <3>1, <3>2
  <2>11. \A x, y \in AllDefinitions' : x.name = y.name => x = y
    BY <1>3, <2>7, <2>8 DEF DefinitionsCurrent
  <2>12. \A m \in Names :
           declarations'[m].defined => \E x \in AllDefinitions' : x.name = m
    <3> SUFFICES ASSUME NEW m \in Names, declarations'[m].defined
                 PROVE  \E x \in AllDefinitions' : x.name = m
      BY Zenon
    <3>1. CASE m = n
      <4>1. def.name = n
        BY Zenon
      <4> QED
        BY <2>7, <3>1, <4>1, Zenon
    <3>2. CASE m # n
      <4>1. declarations'[m].defined = declarations[m].defined
        BY <2>5, <3>2, Zenon
      <4>2. declarations[m].defined
        BY <4>1, Zenon
      <4>3. \E x \in AllDefinitions : x.name = m
        BY <1>3, <4>2 DEF DefinitionsCurrent
      <4> QED
        BY <2>7, <4>3
    <3> QED
      BY <3>1, <3>2
  <2> QED
    BY <1>2, <1>3, <2>3, <2>4, <2>5, <2>10, <2>11, <2>12 DEF DefinitionsCurrent
<1> QED
  BY <1>5, <1>6

-----------------------------------------------------------------------------
(* The invariant *)

\* Artifact::new establishes the invariant.
LEMMA InitIInv == Init => IInv
<1> SUFFICES ASSUME Init PROVE IInv
  OBVIOUS
<1>1. \A n \in Names : declarations[n] = [decl |-> NoDecl, defined |-> FALSE]
  BY DEF Init
<1>2. TypeOK
  BY DEF Init, TypeOK, InternalDecls
<1>3. ImportsListed
  BY <1>1, NoDeclTag DEF Init, ImportsListed
<1>4. DefinitionsCurrent
  BY <1>1 DEF Init, DefinitionsCurrent, AllDefinitions
<1>5. LinksResolve
  BY DEF Init, LinksResolve
<1> QED
  BY <1>2, <1>3, <1>4, <1>5 DEF IInv

\* Changing the interner, the pending batch or the result disturbs nothing.
LEMMA FrameStep ==
  ASSUME IInv, strings' \in Seq(Names), Injective(strings'),
         todo' \in Seq(Batch), result' \in Errors \cup {"Ok"},
         UNCHANGED <<declarations, imports, links, local_definitions, nonlocal_definitions>>
  PROVE  IInv'
<1>1. TypeOK'
  BY Zenon DEF IInv, TypeOK, Injective
<1>2. ImportsListed'
  BY Zenon DEF IInv, ImportsListed, ImportIndices
<1>3. DefinitionsCurrent'
  BY Zenon DEF IInv, DefinitionsCurrent, AllDefinitions
<1>4. LinksResolve'
  BY DEF IInv, LinksResolve, Declared
<1> QED
  BY <1>1, <1>2, <1>3, <1>4 DEF IInv

\* The interner stays well formed in a state of the invariant.
LEMMA InternStep ==
  ASSUME IInv, NEW n \in Names
  PROVE  Intern(strings, n) \in Seq(Names) /\ Injective(Intern(strings, n))
<1>1. strings \in Seq(Names) /\ Injective(strings)
  BY DEF IInv, TypeOK, Injective
<1> QED
  BY <1>1, InternType

\* declare preserves the invariant, whether it succeeds or fails.
LEMMA DeclareIInv ==
  ASSUME IInv, NEW n \in Names, NEW d \in Decls, Declare(n, d)
  PROVE  IInv'
<1>1. strings' \in Seq(Names) /\ Injective(strings')
  BY InternStep DEF Declare
<1>2. todo' \in Seq(Batch)
  BY DEF Declare, IInv, TypeOK
<1>3. UNCHANGED <<links, local_definitions, nonlocal_definitions>>
  BY DEF Declare
<1>4. CASE DeclareOk(n, d)
  BY <1>1, <1>2, <1>3, <1>4, DeclareStep
<1>5. CASE DeclareErr(n, d)
  BY <1>1, <1>2, <1>3, <1>5, FrameStep, Zenon DEF DeclareErr, Errors
<1> QED
  BY <1>4, <1>5 DEF Declare

\* So does each turn of the loop in declarations().
LEMMA DeclareNextIInv ==
  ASSUME IInv, DeclareNext
  PROVE  IInv'
<1> DEFINE n == Head(todo).name
           d == Head(todo).decl
<1>1. todo \in Seq(Batch) /\ todo # <<>>
  BY DEF DeclareNext, IInv, TypeOK
<1>2. Head(todo) \in Batch /\ Tail(todo) \in Seq(Batch) /\ <<>> \in Seq(Batch)
  BY <1>1
<1>3. n \in Names /\ d \in Decls
  BY <1>2 DEF Batch
<1>4. strings' \in Seq(Names) /\ Injective(strings')
  BY <1>3, InternStep DEF DeclareNext
<1>5. UNCHANGED <<links, local_definitions, nonlocal_definitions>>
  BY Zenon DEF DeclareNext
<1>6. CASE DeclareOk(n, d) /\ todo' = Tail(todo)
  BY <1>2, <1>3, <1>4, <1>5, <1>6, DeclareStep
<1>7. CASE DeclareErr(n, d) /\ todo' = <<>>
  BY <1>2, <1>4, <1>5, <1>7, FrameStep, Zenon DEF DeclareErr, Errors
<1> QED
  BY <1>6, <1>7, Zenon DEF DeclareNext

\* define, define_zero_init and define_with_symbols preserve the invariant.
LEMMA DefineIInv ==
  ASSUME IInv, NEW n \in Names, NEW data \in Datas, NEW symbols \in SymbolMaps,
         Define(n, data, symbols)
  PROVE  IInv'
<1>1. strings' \in Seq(Names) /\ Injective(strings')
  BY InternStep, Zenon DEF Define
<1>2. DefineIn(declarations, n, data, symbols) /\ UNCHANGED <<imports, links, todo>>
  BY Zenon DEF Define
<1>3. declarations \in [Names -> InternalDecls]
  BY DEF IInv, TypeOK
<1>4. /\ declarations' \in [Names -> InternalDecls]
      /\ \A m \in Names : declarations'[m].decl = declarations[m].decl
      /\ result' \in Errors \cup {"Ok"}
      /\ local_definitions' \in SUBSET Definitions
      /\ nonlocal_definitions' \in SUBSET Definitions
      /\ DefinitionsCurrent'
  BY <1>2, <1>3, DefineStep
<1>5. TypeOK'
  BY <1>1, <1>2, <1>4, Zenon DEF IInv, TypeOK, Injective
<1>6. ImportsListed'
  <2>1. \A i \in DOMAIN imports : imports[i].name \in Names
    <3>1. \A i \in DOMAIN imports : imports[i] \in Imports
      BY DEF IInv, TypeOK
    <3> QED
      BY <3>1, Zenon DEF Imports
  <2> QED
    BY <1>2, <1>4, <2>1 DEF IInv, ImportsListed, ImportIndices
<1>7. LinksResolve'
  <2>1. \A i \in DOMAIN links : links[i].from \in Names /\ links[i].to \in Names
    <3>1. \A i \in DOMAIN links : links[i] \in Links
      BY DEF IInv, TypeOK
    <3> QED
      BY <3>1 DEF Links
  <2> QED
    BY <1>2, <1>4, <2>1, Zenon DEF IInv, LinksResolve, Declared
<1> QED
  BY <1>4, <1>5, <1>6, <1>7, Zenon DEF IInv

\* declare_with preserves it also when only its first half succeeds.
LEMMA DeclareWithIInv ==
  ASSUME IInv, NEW n \in Names, NEW d \in Decls, NEW data \in Datas,
         DeclareWith(n, d, data)
  PROVE  IInv'
<1>1. strings' \in Seq(Names) /\ Injective(strings')
  BY InternStep DEF DeclareWith
<1>2. UNCHANGED <<links, todo>> /\ todo' \in Seq(Batch)
  BY DEF DeclareWith, IInv, TypeOK
<1>3. CASE DeclareErr(n, d) /\ UNCHANGED <<local_definitions, nonlocal_definitions>>
  BY <1>1, <1>2, <1>3, FrameStep DEF DeclareErr, Errors
<1>4. CASE /\ Accepts(n, d)
           /\ imports' = ImportsWith(n, d)
           /\ DefineIn(DeclarationsWith(n, d), n, data, <<>>)
  <2>1. /\ DeclarationsWith(n, d) \in [Names -> InternalDecls]
        /\ \A m \in Names : DeclarationsWith(n, d)[m].defined = declarations[m].defined
    BY <1>4, DeclarationFacts DEF IInv
  <2>2. \A def \in AllDefinitions :
          DeclarationsWith(n, d)[def.name] = declarations[def.name]
    BY <1>4, DeclareDefined, Zenon
  <2>3. /\ declarations' \in [Names -> InternalDecls]
        /\ \A m \in Names : declarations'[m].decl = DeclarationsWith(n, d)[m].decl
        /\ result' \in Errors \cup {"Ok"}
        /\ local_definitions' \in SUBSET Definitions
        /\ nonlocal_definitions' \in SUBSET Definitions
        /\ DefinitionsCurrent'
    BY <1>4, <2>1, <2>2, NoSymbolsAssumption, DefineStep
  <2>4. imports' \in Seq(Imports) /\ ImportsListed'
    BY <1>4, <2>3, DeclareImports, Zenon DEF IInv
  <2>5. LinksResolve'
    BY <1>2, <1>4, <2>3, DeclareLinks DEF IInv
  <2>6. TypeOK'
    BY <1>1, <1>2, <2>3, <2>4, Zenon DEF IInv, TypeOK, Injective
  <2> QED
    BY <2>3, <2>4, <2>5, <2>6, Zenon DEF IInv
<1> QED
  BY <1>3, <1>4 DEF DeclareWith

\* link_with preserves the invariant: it appends a link only between declared
\* names and never from an import.
LEMMA LinkWithIInv ==
  ASSUME IInv, NEW from \in Names, NEW to \in Names, NEW at \in Ats, NEW reloc \in Relocs,
         LinkWith(from, to, at, reloc)
  PROVE  IInv'
<1> DEFINE link == [from |-> from, to |-> to, at |-> at, reloc |-> reloc]
<1>1. strings' \in Seq(Names) /\ Injective(strings')
  <2>1. Intern(strings, from) \in Seq(Names) /\ Injective(Intern(strings, from))
    BY InternStep
  <2>2. strings' = Intern(Intern(strings, from), to)
    BY Zenon DEF LinkWith
  <2> QED
    BY <2>1, <2>2, InternType
<1>2. /\ UNCHANGED <<declarations, imports, local_definitions, nonlocal_definitions, todo>>
      /\ result' = LinkResult(from, to)
      /\ links' = IF result' = "Ok" THEN Append(links, link) ELSE links
  BY Zenon DEF LinkWith
<1>3. result' \in Errors \cup {"Ok"}
  BY <1>2, Zenon DEF LinkResult, Errors
<1>4. todo' \in Seq(Batch)
  BY <1>2, Zenon DEF IInv, TypeOK
<1>5. CASE result' # "Ok"
  BY <1>1, <1>2, <1>3, <1>4, <1>5, FrameStep
<1>6. CASE result' = "Ok"
  <2>1. links' = Append(links, link)
    BY <1>2, <1>6, Zenon
  <2>2. Declared(from) /\ Declared(to) /\ ~IsImport(declarations[from].decl)
    BY <1>2, <1>6, Zenon DEF LinkResult
  <2>3. links \in Seq(Links) /\ link \in Links
    BY Zenon DEF IInv, TypeOK, Links
  <2>4. TypeOK'
    BY <1>1, <1>2, <1>3, <1>4, <2>1, <2>3 DEF IInv, TypeOK, Injective
  <2>5. LinksResolve'
    <3>1. /\ DOMAIN links' = 1..(Len(links) + 1)
          /\ \A i \in 1..Len(links) : links'[i] = links[i]
          /\ links'[Len(links) + 1] = link
      BY <2>1, <2>3
    <3>2. \A i \in DOMAIN links : /\ Declared(links[i].from)
                                  /\ ~IsImport(declarations[links[i].from].decl)
                                  /\ Declared(links[i].to)
      BY Zenon DEF IInv, LinksResolve
    <3>3. DOMAIN links = 1..Len(links) /\ Len(links) \in Nat
      BY <2>3
    <3>4. link.from = from /\ link.to = to
      OBVIOUS
    <3>5. ASSUME NEW i \in DOMAIN links'
          PROVE  /\ Declared(links'[i].from)
                 /\ ~IsImport(declarations[links'[i].from].decl)
                 /\ Declared(links'[i].to)
      <4> HIDE DEF link
      <4>1. i \in 1..Len(links) \/ i = Len(links) + 1
        BY <3>1, <3>3, <3>5
      <4>2. CASE i \in 1..Len(links)
        BY <3>1, <3>2, <3>3, <4>2, Zenon
      <4>3. CASE i = Len(links) + 1
        <5>1. links'[i] = link
          BY <3>1, <4>3, Zenon
        <5> QED
          BY <2>2, <3>4, <5>1, Zenon
      <4> QED
        BY <4>1, <4>2, <4>3
    <3>6. declarations' = declarations
      BY <1>2
    <3> QED
      BY <3>5, <3>6, Zenon DEF LinksResolve, Declared
  <2>6. ImportsListed'
    BY <1>2, Zenon DEF IInv, ImportsListed, ImportIndices
  <2>7. DefinitionsCurrent'
    BY <1>2, Zenon DEF IInv, DefinitionsCurrent, AllDefinitions
  <2> QED
    BY <2>4, <2>5, <2>6, <2>7, Zenon DEF IInv
<1> QED
  BY <1>5, <1>6

\* Every call preserves the invariant.
LEMMA NextIInv == IInv /\ [Next]_vars => IInv'
<1> SUFFICES ASSUME IInv, [Next]_vars PROVE IInv'
  BY Zenon
<1>0. /\ strings \in Seq(Names) /\ Injective(strings)
      /\ todo \in Seq(Batch) /\ result \in Errors \cup {"Ok"}
  BY DEF IInv, TypeOK, Injective
<1>1. CASE \E n \in Names, d \in Decls : Declare(n, d)
  BY <1>1, DeclareIInv
<1>2. CASE \E n \in Names, d \in Decls : IsImport(d) /\ Import(n, d.kind)
  <2>1. PICK n \in Names, d \in Decls : IsImport(d) /\ Import(n, d.kind)
    BY <1>2
  <2>2. d = ImportDecl(d.kind)
    BY <2>1, DeclTags, DeclsAssumption
  <2>3. Declare(n, d)
    BY <2>1, <2>2, Zenon DEF Import
  <2> QED
    BY <2>3, DeclareIInv
<1>3. CASE \E batch \in UNION {[1..k -> Batch] : k \in 1..MaxBatch} :
             StartDeclarations(batch)
  <2>1. PICK batch \in UNION {[1..k -> Batch] : k \in 1..MaxBatch} :
               StartDeclarations(batch)
    BY <1>3, Zenon
  <2>2. PICK k \in 1..MaxBatch : batch \in [1..k -> Batch]
    OBVIOUS
  <2>3. batch \in Seq(Batch)
    BY <2>2, BoundsAssumption
  <2> QED
    BY <1>0, <2>1, <2>3, FrameStep DEF StartDeclarations
<1>4. CASE DeclareNext
  BY <1>4, DeclareNextIInv
<1>5. CASE \E n \in Names, data \in Datas, symbols \in SymbolMaps : Define(n, data, symbols)
  BY <1>5, DefineIInv
<1>6. CASE \E n \in Names, d \in Decls, data \in Datas : DeclareWith(n, d, data)
  BY <1>6, DeclareWithIInv
<1>7. CASE \E from, to \in Names, at \in Ats, reloc \in Relocs : LinkWith(from, to, at, reloc)
  BY <1>7, LinkWithIInv
<1>8. CASE \E format \in Formats : EmitAs(format)
  BY <1>0, <1>8, FrameStep DEF EmitAs, EmitResult, Errors
<1>9. CASE UNCHANGED vars
  BY <1>0, <1>9, FrameStep DEF vars
<1> QED
  BY <1>1, <1>2, <1>3, <1>4, <1>5, <1>6, <1>7, <1>8, <1>9, Zenon DEF Next

\* The inductive invariant holds after any sequence of calls of the API.
THEOREM Invariance == Spec => []IInv
BY InitIInv, NextIInv, PTL DEF Spec

\* Whatever the client declares, defines and links, in any order and with any
\* failing calls in between, the fields of the artifact keep their types.
THEOREM TypeCorrect == Spec => []TypeOK
BY Invariance, PTL DEF IInv

\* The `expect' in declare never fails: the list of imports always holds
\* exactly the names whose declaration is an import.
THEOREM ImportsAreListed == Spec => []ImportsListed
BY Invariance, PTL DEF IInv

\* No definition ever disagrees with the declaration of its name.
THEOREM DefinitionsStayCurrent == Spec => []DefinitionsCurrent
BY Invariance, PTL DEF IInv

\* links() can always resolve both ends, and never from an import.
THEOREM LinksStayResolved == Spec => []LinksResolve
BY Invariance, PTL DEF IInv

\* Without undefined symbols, the declared ends of links are defined or listed.
LEMMA IInvEmit == IInv => EmitFindsLinkEnds
<1> SUFFICES ASSUME IInv, undefined_symbols = {}, NEW i \in DOMAIN links
             PROVE  /\ \E def \in AllDefinitions : def.name = links[i].from
                    /\ \/ \E def \in AllDefinitions : def.name = links[i].to
                       \/ ImportIndices(links[i].to) # {}
  BY Zenon DEF EmitFindsLinkEnds
<1>1. links[i] \in Links
  BY DEF IInv, TypeOK
<1>2. links[i].from \in Names /\ links[i].to \in Names
  BY <1>1 DEF Links
<1>3. /\ Declared(links[i].from) /\ ~IsImport(declarations[links[i].from].decl)
      /\ Declared(links[i].to)
  BY Zenon DEF IInv, LinksResolve
<1>4. \A n \in Names : Declared(n) /\ ~IsImport(declarations[n].decl) =>
        \E def \in AllDefinitions : def.name = n
  <2> SUFFICES ASSUME NEW n \in Names, Declared(n), ~IsImport(declarations[n].decl)
               PROVE  \E def \in AllDefinitions : def.name = n
    OBVIOUS
  <2>1. declarations[n].defined
    BY Zenon DEF undefined_symbols
  <2> QED
    BY <2>1, Zenon DEF IInv, DefinitionsCurrent
<1>5. \A n \in Names : IsImport(declarations[n].decl) => ImportIndices(n) # {}
  BY DEF IInv, ImportsListed
<1> QED
  BY <1>2, <1>3, <1>4, <1>5

\* An artifact that emit accepts has both ends of every link in the tables the
\* backends build from its definitions and imports.
THEOREM EmitAlwaysFindsLinkEnds == Spec => []EmitFindsLinkEnds
BY Invariance, IInvEmit, PTL


-----------------------------------------------------------------------------
(* What no call does *)

\* One entry changes at most, and only the way absorb allows.
LEMMA AcceptsUpgrade ==
  ASSUME IInv, NEW n \in Names, NEW d \in Decls, Accepts(n, d), NEW m \in Names
  PROVE  Declared(m) =>
           \/ DeclarationsWith(n, d)[m].decl = declarations[m].decl
           \/ Upgrades(declarations[m].decl, DeclarationsWith(n, d)[m].decl)
<1>1. CASE m # n
  BY ZenonT(30), <1>1, DeclarationFacts DEF IInv
<1>2. CASE m = n
  <2>1. DeclarationsWith(n, d)[n].decl = Declaration(n, d)
    BY DeclarationFacts DEF IInv
  <2> QED
    BY <1>2, <2>1, Zenon DEF Declaration, Absorb
<1> QED
  BY <1>1, <1>2, Zenon

\* define changes no declaration and clears no `defined' flag.
LEMMA DefineFlags ==
  ASSUME NEW n \in Names, NEW data \in Datas, NEW symbols \in SymbolMaps,
         NEW decls \in [Names -> InternalDecls],
         DefineIn(decls, n, data, symbols)
  PROVE  \A m \in Names : /\ declarations'[m].decl = decls[m].decl
                          /\ decls[m].defined => declarations'[m].defined
<1>1. CASE declarations' = decls
  BY <1>1
<1>2. CASE declarations' = [decls EXCEPT ![n].defined = TRUE]
  <2>1. decls[n] \in InternalDecls
    OBVIOUS
  <2>2. /\ declarations'[n].decl = decls[n].decl
        /\ declarations'[n].defined = TRUE
        /\ \A m \in Names \ {n} : declarations'[m] = decls[m]
    BY <1>2, <2>1 DEF InternalDecls
  <2> QED
    BY <2>2
<1> QED
  BY <1>1, <1>2 DEF DefineIn

\* No call takes a declaration or a definition back.
LEMMA NextUpgrades == IInv /\ Next => UpgradeStep
<1> SUFFICES ASSUME IInv, Next PROVE UpgradeStep
  BY Zenon
<1>0. declarations \in [Names -> InternalDecls]
  BY Zenon DEF IInv, TypeOK
<1>1. ASSUME NEW n \in Names, NEW d \in Decls, DeclareOk(n, d) PROVE UpgradeStep
  <2>1. Accepts(n, d) /\ declarations' = DeclarationsWith(n, d)
    BY <1>1, Zenon DEF DeclareOk
  <2>2. \A m \in Names : declarations'[m].defined = declarations[m].defined
    BY <2>1, DeclarationFacts DEF IInv
  <2>3. \A m \in Names :
          Declared(m) => \/ declarations'[m].decl = declarations[m].decl
                         \/ Upgrades(declarations[m].decl, declarations'[m].decl)
    BY <2>1, AcceptsUpgrade, Zenon
  <2> QED
    BY <2>2, <2>3 DEF UpgradeStep
<1>2. ASSUME UNCHANGED declarations PROVE UpgradeStep
  BY <1>2 DEF UpgradeStep
<1>3. ASSUME NEW n \in Names, NEW d \in Decls, Declare(n, d) PROVE UpgradeStep
  BY <1>1, <1>2, <1>3 DEF Declare, DeclareErr
<1>4. ASSUME NEW n \in Names, NEW d \in Decls, IsImport(d), Import(n, d.kind)
      PROVE  UpgradeStep
  <2>1. d = ImportDecl(d.kind)
    BY <1>4, DeclTags, DeclsAssumption, Zenon
  <2> QED
    BY <1>3, <1>4, <2>1, Zenon DEF Import
<1>5. ASSUME DeclareNext PROVE UpgradeStep
  <2>1. Head(todo) \in Batch
    BY <1>5 DEF DeclareNext, IInv, TypeOK
  <2>2. Head(todo).name \in Names /\ Head(todo).decl \in Decls
    BY <2>1, Zenon DEF Batch
  <2> QED
    BY <1>1, <1>2, <1>5, <2>2 DEF DeclareNext, DeclareErr
<1>6. ASSUME NEW n \in Names, NEW data \in Datas, NEW symbols \in SymbolMaps,
             Define(n, data, symbols)
      PROVE  UpgradeStep
  BY <1>0, <1>6, DefineFlags, Zenon DEF Define, UpgradeStep
<1>7. ASSUME NEW n \in Names, NEW d \in Decls, NEW data \in Datas, DeclareWith(n, d, data)
      PROVE  UpgradeStep
  <2>1. CASE DeclareErr(n, d)
    BY <1>2, <2>1 DEF DeclareErr
  <2>2. CASE Accepts(n, d) /\ DefineIn(DeclarationsWith(n, d), n, data, <<>>)
    <3>1. /\ DeclarationsWith(n, d) \in [Names -> InternalDecls]
          /\ \A m \in Names : DeclarationsWith(n, d)[m].defined = declarations[m].defined
      BY <2>2, DeclarationFacts DEF IInv
    <3>2. \A m \in Names :
            /\ declarations'[m].decl = DeclarationsWith(n, d)[m].decl
            /\ DeclarationsWith(n, d)[m].defined => declarations'[m].defined
      BY <2>2, <3>1, NoSymbolsAssumption, DefineFlags
    <3> QED
      BY <2>2, <3>1, <3>2, AcceptsUpgrade, Zenon DEF UpgradeStep
  <2> QED
    BY <1>7, <2>1, <2>2 DEF DeclareWith
<1> QED
  BY <1>2, <1>3, <1>4, <1>5, <1>6, <1>7, Zenon
     DEF Next, StartDeclarations, LinkWith, EmitAs

\* A declaration is never taken back, only an import upgraded to its kind.
THEOREM DeclarationsUpgrade == Spec => DeclarationsOnlyUpgrade
<1>1. IInv /\ [Next]_vars => [UpgradeStep]_vars
  BY NextUpgrades
<1> QED
  BY <1>1, Invariance, PTL DEF Spec, DeclarationsOnlyUpgrade

\* A name without a definition in force is not marked as defined.
LEMMA UndefinedFlag ==
  ASSUME IInv, NEW n \in Names, ~Declared(n) \/ IsImport(declarations[n].decl)
  PROVE  declarations[n].defined = FALSE
<1> SUFFICES ASSUME declarations[n].defined # FALSE PROVE FALSE
  BY Zenon
<1>1. declarations[n] \in InternalDecls
  BY DEF IInv, TypeOK
<1>2. declarations[n].defined
  BY <1>1, Zenon DEF InternalDecls
<1>3. PICK def \in AllDefinitions : def.name = n
  BY <1>2 DEF IInv, DefinitionsCurrent
<1>4. def \in Definitions
  BY Zenon DEF IInv, TypeOK, AllDefinitions
<1>5. declarations[n] = [decl |-> def.decl, defined |-> TRUE]
  BY <1>3, Zenon DEF IInv, DefinitionsCurrent
<1>6. ~IsImport(def.decl) /\ def.decl # NoDecl
  BY <1>4, DefinedTags, DeclTags, Zenon DEF Definitions
<1> QED
  BY <1>5, <1>6 DEF Declared

-----------------------------------------------------------------------------
(* The life of a name *)

\* What an entry of `declarations' says of a name's life.
LifeIn(e) ==
  [phase |-> IF e.decl = NoDecl THEN "Unknown"
             ELSE IF IsImport(e.decl) THEN "Imported"
             ELSE IF e.defined THEN "Defined" ELSE "Declared",
   decl |-> e.decl]

LifeNow == [n \in Names |-> LifeOf(n)]
UsesNow == {<<links[i].from, links[i].to>> : i \in DOMAIN links}

\* The definitions, the imports list and the declarations tell one story.
LEMMA LifeIsInEntry == IInv => \A n \in Names : LifeOf(n) = LifeIn(declarations[n])
<1> SUFFICES ASSUME IInv, NEW n \in Names PROVE LifeOf(n) = LifeIn(declarations[n])
  OBVIOUS
<1>1. /\ declarations[n].decl \in AllDecls \cup {NoDecl}
      /\ declarations[n].defined \in BOOLEAN
      /\ \A def \in AllDefinitions : def.decl \in DefinedDecls
  BY DeclsAssumption DEF IInv, TypeOK, InternalDecls, Definitions, AllDefinitions
<1>2. CASE \E def \in AllDefinitions : def.name = n
  <2>1. Definition(n) \in AllDefinitions /\ Definition(n).name = n
    BY <1>2, Zenon DEF Definition
  <2>2. declarations[n] = [decl |-> Definition(n).decl, defined |-> TRUE]
    BY <2>1, Zenon DEF IInv, DefinitionsCurrent
  <2>3. ~IsImport(Definition(n).decl) /\ Definition(n).decl # NoDecl
    BY <1>1, <2>1, DefinedTags, DeclTags
  <2> QED
    BY <1>2, <2>2, <2>3 DEF LifeOf, LifeIn
<1>3. CASE ~\E def \in AllDefinitions : def.name = n
  <2>1. ~declarations[n].defined
    BY <1>3, Zenon DEF IInv, DefinitionsCurrent
  <2>2. CASE ImportIndices(n) # {}
    <3> DEFINE i == CHOOSE i \in ImportIndices(n) : TRUE
    <3>1. i \in DOMAIN imports /\ imports[i].name = n
      BY <2>2 DEF ImportIndices
    <3> HIDE DEF i
    <3>2. declarations[n].decl = ImportDecl(imports[i].kind)
      BY <3>1, Zenon DEF IInv, ImportsListed
    <3>3. IsImport(declarations[n].decl) /\ declarations[n].decl # NoDecl
      BY <3>2 DEF ImportDecl, IsImport, NoDecl
    <3>4. LifeOf(n) = [phase |-> "Imported", decl |-> ImportDecl(imports[i].kind)]
      BY <1>3, <2>2, Zenon DEF LifeOf, i
    <3> QED
      BY <3>2, <3>3, <3>4 DEF LifeIn
  <2>3. CASE ImportIndices(n) = {}
    <3>1. ~IsImport(declarations[n].decl)
      BY <2>3, Zenon DEF IInv, ImportsListed
    <3> QED
      BY <1>3, <2>1, <2>3, <3>1 DEF LifeOf, LifeIn, Declared
  <2> QED
    BY <2>2, <2>3
<1> QED
  BY <1>2, <1>3

\* Read from the entries, now and after a step.
LEMMA LivesInEntries ==
  ASSUME IInv, IInv'
  PROVE  /\ LifeNow = [n \in Names |-> LifeIn(declarations[n])]
         /\ LifeNow' = [n \in Names |-> LifeIn(declarations'[n])]
<1>1. (IInv => \A n \in Names : LifeOf(n) = LifeIn(declarations[n]))'
  BY LifeIsInEntry, PTL
<1>2. \A n \in Names : LifeOf(n)' = LifeIn(declarations'[n])
  BY <1>1 DEF LifeIn
<1> QED
  BY LifeIsInEntry, <1>2 DEF LifeNow

\* Changing one field of an entry, written as an entry.
LEMMA EntryFields ==
  ASSUME NEW e \in InternalDecls, NEW x
  PROVE  /\ [e EXCEPT !.decl = x] = [decl |-> x, defined |-> e.defined]
         /\ [e EXCEPT !.defined = x] = [decl |-> e.decl, defined |-> x]
BY DEF InternalDecls

\* Declaring n as d, with or without a definition, moves n forward or leaves it.
LEMMA DeclareMoves ==
  ASSUME IInv, IInv', UNCHANGED links,
         NEW n \in Names, NEW d \in Decls, Accepts(n, d), NEW defined \in BOOLEAN,
         declarations' = [declarations EXCEPT
                            ![n] = [decl |-> Declaration(n, d), defined |-> defined]],
         declarations[n].defined => defined,
         defined => ~IsImport(Declaration(n, d))
  PROVE  Life!LifeNext \/ UNCHANGED <<LifeNow, UsesNow>>
<1> DEFINE old == declarations[n]
           new == Declaration(n, d)
<1>1. /\ LifeNow = [m \in Names |-> LifeIn(declarations[m])]
      /\ LifeNow' = [m \in Names |-> LifeIn(declarations'[m])]
  BY LivesInEntries
<1>2. /\ declarations \in [Names -> InternalDecls]
      /\ old.defined \in BOOLEAN
      /\ old.decl \in AllDecls \cup {NoDecl} /\ new \in Decls /\ new \in AllDecls
  BY DeclarationFacts, DeclsAssumption DEF IInv, TypeOK, InternalDecls
<1>3. LifeNow' = [LifeNow EXCEPT ![n] = LifeIn([decl |-> new, defined |-> defined])]
  BY <1>1, <1>2
<1>4. UsesNow' = UsesNow
  BY DEF UsesNow
<1>5. new # NoDecl
  BY <1>2, DeclTags
<1>6. LifeNow[n] = LifeIn(old)
  BY <1>1
<1>7. CASE ~Declared(n)
  <2>1. old.decl = NoDecl /\ old.defined = FALSE /\ LifeNow[n] = Life!Unknown
    <3>1. old.decl = NoDecl /\ old.defined = FALSE
      BY <1>7, UndefinedFlag, Zenon DEF Declared
    <3> QED
      BY <1>6, <3>1, Zenon DEF LifeIn, NoDecl, Life!Unknown, Life!NoDecl
  <2>2. CASE IsImport(new)
    <3>1. LifeIn([decl |-> new, defined |-> defined]) = Life!Phase("Imported", new)
      BY <1>5, <2>2 DEF LifeIn, Life!Phase
    <3>2. Life!Introduce(n, new)
      BY <1>3, <1>4, <2>1, <2>2, <3>1, Zenon
         DEF Life!Introduce, Life!IsImport, IsImport, LifeNow, UsesNow
    <3> QED
      BY <1>2, <3>2, Zenon DEF Life!LifeNext
  <2>3. CASE ~IsImport(new)
    <3>1. \E phase \in {"Declared", "Defined"} :
            LifeIn([decl |-> new, defined |-> defined]) = Life!Phase(phase, new)
      BY <1>5, <2>3 DEF LifeIn, Life!Phase
    <3>2. Life!Promise(n, new)
      BY <1>3, <1>4, <2>1, <2>3, <3>1, Zenon
         DEF Life!Promise, Life!IsImport, IsImport, Life!ImportDecl, ImportDecl, LifeNow, UsesNow
    <3> QED
      BY <1>2, <3>2, Zenon DEF Life!LifeNext
  <2> QED
    BY <2>2, <2>3
<1>8. CASE Declared(n) /\ IsImport(old.decl)
  <2>1. old.decl \in AllDecls /\ old.defined = FALSE
    BY <1>2, <1>8, UndefinedFlag, Zenon DEF Declared
  <2>2. CASE IsImport(new)
    <3>1. new = old.decl
      BY <1>8, <2>2, DeclarationFacts DEF IInv
    <3>2. LifeIn([decl |-> new, defined |-> defined]) = LifeIn(old)
      BY <2>2, <3>1 DEF LifeIn
    <3>3. LifeNow' = LifeNow
      BY <1>3, <1>6, <3>2, LifeNow = [LifeNow EXCEPT ![n] = LifeNow[n]], Zenon DEF LifeNow
    <3> QED
      BY <1>4, <3>3
  <2>3. CASE ~IsImport(new)
    <3>1. old.decl = ImportDecl(new.tag)
      BY <1>2, <1>8, <2>1, <2>3, DeclTags
         DEF Declaration, Accepts, Absorb, Absorbs, Upgrades, IsImport, ImportDecl
    <3>2. LifeNow[n] = Life!Phase("Imported", ImportDecl(new.tag))
      BY <1>6, <1>8, <2>1, <3>1, DeclTags DEF LifeIn, Life!Phase
    <3>3. \E phase \in {"Declared", "Defined"} :
            LifeIn([decl |-> new, defined |-> defined]) = Life!Phase(phase, new)
      BY <1>5, <2>3 DEF LifeIn, Life!Phase
    <3>4. Life!Promise(n, new)
      BY <1>3, <1>4, <2>3, <3>2, <3>3, Zenon
         DEF Life!Promise, Life!IsImport, IsImport, Life!ImportDecl, ImportDecl, LifeNow, UsesNow
    <3> QED
      BY <1>2, <3>4, Zenon DEF Life!LifeNext
  <2> QED
    BY <2>2, <2>3
<1>9. CASE Declared(n) /\ ~IsImport(old.decl)
  <2>1. new = old.decl
    BY <1>9, DeclarationFacts DEF IInv
  <2>2. CASE defined = old.defined
    <3>1. LifeIn([decl |-> new, defined |-> defined]) = LifeIn(old)
      BY <2>1, <2>2 DEF LifeIn
    <3>2. LifeNow' = LifeNow
      BY <1>3, <1>6, <3>1, LifeNow = [LifeNow EXCEPT ![n] = LifeNow[n]], Zenon DEF LifeNow
    <3> QED
      BY <1>4, <3>2
  <2>3. CASE defined # old.defined
    <3>1. ~old.defined /\ defined
      BY <1>2, <2>3
    <3>2. /\ LifeNow[n] = [phase |-> "Declared", decl |-> new]
          /\ LifeIn([decl |-> new, defined |-> defined]) = [LifeNow[n] EXCEPT !.phase = "Defined"]
      BY <1>5, <1>6, <1>9, <2>1, <3>1 DEF LifeIn
    <3>3. LifeNow' = [LifeNow EXCEPT ![n].phase = "Defined"] /\ LifeNow[n].phase = "Declared"
      <4>1. [LifeNow EXCEPT ![n].phase = "Defined"]
              = [LifeNow EXCEPT ![n] = [LifeNow[n] EXCEPT !.phase = "Defined"]]
        BY Zenon
      <4>2. LifeNow' = [LifeNow EXCEPT ![n] = [LifeNow[n] EXCEPT !.phase = "Defined"]]
        BY <1>3, <3>2, Zenon
      <4>3. LifeNow[n].phase = "Declared"
        BY <3>2
      <4> QED
        BY <4>1, <4>2, <4>3, Zenon
    <3>4. Life!Fulfil(n)
      BY <1>4, <3>3, Zenon DEF Life!Fulfil, LifeNow, UsesNow
    <3> QED
      BY <3>4, Zenon DEF Life!LifeNext
  <2> QED
    BY <2>2, <2>3
<1> QED
  BY <1>7, <1>8, <1>9

-----------------------------------------------------------------------------
(* The steps of Artifact *)

\* A step that leaves declarations and links alone leaves lives and uses alone.
LEMMA QuietMoves ==
  ASSUME IInv, IInv', UNCHANGED <<declarations, links>>
  PROVE  UNCHANGED <<LifeNow, UsesNow>>
<1>1. LifeNow' = LifeNow
  BY LivesInEntries
<1>2. UsesNow' = UsesNow
  BY DEF UsesNow
<1> QED
  BY <1>1, <1>2

\* declare alone, as a call and as an item of a batch.
LEMMA DeclareOkMoves ==
  ASSUME IInv, IInv', UNCHANGED links, NEW n \in Names, NEW d \in Decls,
         DeclareOk(n, d) \/ DeclareErr(n, d)
  PROVE  Life!LifeNext \/ UNCHANGED <<LifeNow, UsesNow>>
<1>1. CASE DeclareErr(n, d)
  BY <1>1, QuietMoves DEF DeclareErr
<1>2. CASE DeclareOk(n, d)
  <2>1. declarations \in [Names -> InternalDecls] /\ declarations[n].defined \in BOOLEAN
    BY DEF IInv, TypeOK, InternalDecls
  <2>2. Accepts(n, d) /\ declarations' = DeclarationsWith(n, d)
    BY <1>2, Zenon DEF DeclareOk
  <2>3. declarations' = [declarations EXCEPT
          ![n] = [decl |-> Declaration(n, d), defined |-> declarations[n].defined]]
    <3>1. [declarations[n] EXCEPT !.decl = Declaration(n, d)]
            = [decl |-> Declaration(n, d), defined |-> declarations[n].defined]
      BY <2>1, EntryFields, Zenon
    <3> QED
      BY <2>2, <3>1, Zenon DEF DeclarationsWith
  <2>4. declarations[n].defined => ~IsImport(Declaration(n, d))
    <3>1. declarations[n].defined => Declared(n) /\ ~IsImport(declarations[n].decl)
      BY <2>1, UndefinedFlag, Zenon
    <3> QED
      BY <2>2, <3>1, DeclarationFacts DEF IInv
  <2> QED
    BY <2>1, <2>2, <2>3, <2>4, DeclareMoves, Zenon
<1> QED
  BY <1>1, <1>2

\* define marks an entry whose declaration stays.
LEMMA DefineMoves ==
  ASSUME IInv, IInv', UNCHANGED links, NEW n \in Names, NEW data, NEW symbols,
         DefineIn(declarations, n, data, symbols)
  PROVE  Life!LifeNext \/ UNCHANGED <<LifeNow, UsesNow>>
<1>1. CASE declarations' = declarations
  BY <1>1, QuietMoves
<1>2. CASE declarations' # declarations
  <2>1. declarations \in [Names -> InternalDecls] /\ declarations[n].defined \in BOOLEAN
    BY DEF IInv, TypeOK, InternalDecls
  <2>2. /\ declarations' = [declarations EXCEPT ![n].defined = TRUE]
        /\ DefineResult(declarations[n], data, symbols) = "Ok"
    BY <1>2 DEF DefineIn
  <2>3. declarations[n].decl # NoDecl /\ ~IsImport(declarations[n].decl)
    BY <2>2 DEF DefineResult
  <2>4. declarations[n].decl \in Decls /\ declarations[n].decl \in AllDecls
    BY <2>1, <2>3, DeclsAssumption DEF InternalDecls
  <2> DEFINE d == declarations[n].decl
  <2>5. Accepts(n, d) /\ Declaration(n, d) = d
    BY <2>3, <2>4, AbsorbIsAJoin DEF Accepts, Declaration, Declared
  <2>6. declarations' = [declarations EXCEPT ![n] = [decl |-> Declaration(n, d), defined |-> TRUE]]
    <3>1. [declarations[n] EXCEPT !.defined = TRUE] = [decl |-> d, defined |-> TRUE]
      BY <2>1, EntryFields, Zenon
    <3> QED
      BY <2>2, <2>5, <3>1, Zenon
  <2> QED
    BY <2>3, <2>4, <2>5, <2>6, DeclareMoves, Zenon
<1> QED
  BY <1>1, <1>2

\* declare_with declares and then defines, in one call.
LEMMA DeclareWithMoves ==
  ASSUME IInv, IInv', NEW n \in Names, NEW d \in Decls, NEW data \in Datas,
         DeclareWith(n, d, data)
  PROVE  Life!LifeNext \/ UNCHANGED <<LifeNow, UsesNow>>
<1>0. links' = links
  BY Zenon DEF DeclareWith
<1>1. CASE DeclareErr(n, d)
  BY <1>0, <1>1, DeclareOkMoves
<1>2. CASE Accepts(n, d) /\ DefineIn(DeclarationsWith(n, d), n, data, <<>>)
  <2> DEFINE decls == DeclarationsWith(n, d)
             new == Declaration(n, d)
  <2>1. declarations \in [Names -> InternalDecls] /\ declarations[n].defined \in BOOLEAN
    BY DEF IInv, TypeOK, InternalDecls
  <2>2. /\ decls = [declarations EXCEPT
                     ![n] = [decl |-> new, defined |-> declarations[n].defined]]
        /\ decls[n] = [decl |-> new, defined |-> declarations[n].defined]
    <3>1. decls = [declarations EXCEPT
                     ![n] = [decl |-> new, defined |-> declarations[n].defined]]
      <4>1. [declarations[n] EXCEPT !.decl = new]
              = [decl |-> new, defined |-> declarations[n].defined]
        BY <2>1, EntryFields, Zenon
      <4> QED
        BY <4>1, Zenon DEF DeclarationsWith
    <3> QED
      BY <2>1, <3>1
  <2>3. CASE DefineResult(decls[n], data, <<>>) = "Ok"
    <3>1. declarations' = [decls EXCEPT ![n].defined = TRUE]
      BY <1>2, <2>3, Zenon DEF DefineIn
    <3>2. declarations' = [declarations EXCEPT ![n] = [decl |-> new, defined |-> TRUE]]
      <4>1. decls \in [Names -> InternalDecls]
        BY <1>2, DeclarationFacts DEF IInv
      <4>2. declarations' = [decls EXCEPT ![n] = [decl |-> decls[n].decl, defined |-> TRUE]]
        <5>1. [decls[n] EXCEPT !.defined = TRUE] = [decl |-> decls[n].decl, defined |-> TRUE]
          BY <4>1, EntryFields, Zenon
        <5> QED
          BY <3>1, <5>1, Zenon
      <4>3. decls[n].decl = new
        BY <2>2
      <4>4. declarations' = [decls EXCEPT ![n] = [decl |-> new, defined |-> TRUE]]
        BY <4>2, <4>3, Zenon
      <4> HIDE DEF decls, new
      <4> QED
        BY <2>1, <2>2, <4>4, Zenon
    <3>3. ~IsImport(new)
      BY <2>2, <2>3 DEF DefineResult
    <3> QED
      BY <1>0, <1>2, <3>2, <3>3, DeclareMoves, Zenon
  <2>4. CASE DefineResult(decls[n], data, <<>>) # "Ok"
    <3>1. declarations' = decls
      BY <1>2, <2>4, Zenon DEF DefineIn
    <3>2. declarations[n].defined => Declared(n) /\ ~IsImport(declarations[n].decl)
      BY <2>1, UndefinedFlag, Zenon
    <3>3. declarations[n].defined => ~IsImport(new)
      BY <1>2, <3>2, DeclarationFacts DEF IInv
    <3> QED
      BY <1>0, <1>2, <2>1, <2>2, <3>1, <3>3, DeclareMoves, Zenon
  <2> QED
    BY <2>3, <2>4
<1> QED
  BY <1>1, <1>2, Zenon DEF DeclareWith

\* link_with records a use of names it found declared, and not from an import.
LEMMA LinkMoves ==
  ASSUME IInv, IInv', NEW from \in Names, NEW to \in Names, NEW at \in Ats, NEW reloc \in Relocs,
         LinkWith(from, to, at, reloc)
  PROVE  Life!LifeNext \/ UNCHANGED <<LifeNow, UsesNow>>
<1>0. declarations' = declarations
  BY Zenon DEF LinkWith
<1>1. CASE LinkResult(from, to) # "Ok"
  <2>1. links' = links
    BY <1>1, Zenon DEF LinkWith
  <2> QED
    BY <1>0, <2>1, QuietMoves
<1>2. CASE LinkResult(from, to) = "Ok"
  <2> DEFINE link == [from |-> from, to |-> to, at |-> at, reloc |-> reloc]
  <2>1. links' = Append(links, link)
    BY <1>2, Zenon DEF LinkWith
  <2>2. links \in Seq(Links) /\ link \in Links
    BY DEF IInv, TypeOK, Links
  <2>3. UsesNow' = UsesNow \cup {<<from, to>>}
    <3> HIDE DEF link
    <3>1. /\ DOMAIN links' = DOMAIN links \cup {Len(links) + 1}
          /\ \A i \in DOMAIN links : links'[i] = links[i]
          /\ links'[Len(links) + 1] = link
      BY <2>1, <2>2
    <3>2. link.from = from /\ link.to = to
      BY DEF link
    <3> QED
      BY <3>1, <3>2 DEF UsesNow
  <2>4. Declared(from) /\ Declared(to) /\ ~IsImport(declarations[from].decl)
    BY <1>2 DEF LinkResult
  <2>5. LifeNow' = LifeNow /\ LifeNow = [n \in Names |-> LifeIn(declarations[n])]
    BY <1>0, LivesInEntries
  <2>6. LifeNow[from].phase \in {"Declared", "Defined"}
    BY <2>4, <2>5 DEF LifeIn, Declared
  <2>7. LifeNow[to] # Life!Unknown
    BY <2>4, <2>5 DEF LifeIn, Declared, Life!Unknown, Life!NoDecl, NoDecl
  <2>8. Life!Use(from, to)
    BY <2>3, <2>5, <2>6, <2>7, Zenon DEF Life!Use, LifeNow, UsesNow
  <2> QED
    BY <2>8, Zenon DEF Life!LifeNext
<1> QED
  BY <1>1, <1>2

\* Every step of Artifact is a step of SymbolLife or leaves it alone.
LEMMA StepMoves ==
  IInv /\ IInv' /\ [Next]_vars => Life!LifeNext \/ UNCHANGED <<LifeNow, UsesNow>>
<1> SUFFICES ASSUME IInv, IInv', [Next]_vars
             PROVE  Life!LifeNext \/ UNCHANGED <<LifeNow, UsesNow>>
  BY Zenon
<1>1. ASSUME NEW n \in Names, NEW d \in Decls, Declare(n, d)
      PROVE  Life!LifeNext \/ UNCHANGED <<LifeNow, UsesNow>>
  <2>1. links' = links /\ (DeclareOk(n, d) \/ DeclareErr(n, d))
    BY <1>1, Zenon DEF Declare
  <2> QED
    BY <2>1, DeclareOkMoves
<1>2. ASSUME NEW n \in Names, NEW d \in Decls, IsImport(d), Import(n, d.kind)
      PROVE  Life!LifeNext \/ UNCHANGED <<LifeNow, UsesNow>>
  <2>1. ImportDecl(d.kind) = d
    BY <1>2, DeclTags, DeclsAssumption
  <2>2. Declare(n, d)
    BY <1>2, <2>1, Zenon DEF Import
  <2> QED
    BY <1>1, <2>2, Zenon
<1>3. ASSUME NEW batch, StartDeclarations(batch) PROVE UNCHANGED <<LifeNow, UsesNow>>
  <2>1. declarations' = declarations /\ links' = links
    BY <1>3, Zenon DEF StartDeclarations
  <2> QED
    BY <2>1, QuietMoves
<1>4. CASE DeclareNext
  <2> DEFINE n == Head(todo).name
             d == Head(todo).decl
  <2>1. Head(todo) \in Batch
    BY <1>4 DEF DeclareNext, IInv, TypeOK
  <2>2. n \in Names /\ d \in Decls
    BY <2>1 DEF Batch
  <2>3. links' = links /\ (DeclareOk(n, d) \/ DeclareErr(n, d))
    BY <1>4, Zenon DEF DeclareNext
  <2> HIDE DEF n, d
  <2> QED
    BY <2>2, <2>3, DeclareOkMoves
<1>5. ASSUME NEW n \in Names, NEW data \in Datas, NEW symbols \in SymbolMaps,
             Define(n, data, symbols)
      PROVE  Life!LifeNext \/ UNCHANGED <<LifeNow, UsesNow>>
  <2>1. links' = links /\ DefineIn(declarations, n, data, symbols)
    BY <1>5, Zenon DEF Define
  <2> QED
    BY <2>1, DefineMoves
<1>6. ASSUME NEW n \in Names, NEW d \in Decls, NEW data \in Datas, DeclareWith(n, d, data)
      PROVE  Life!LifeNext \/ UNCHANGED <<LifeNow, UsesNow>>
  BY <1>6, DeclareWithMoves
<1>7. ASSUME NEW from \in Names, NEW to \in Names, NEW at \in Ats, NEW reloc \in Relocs,
             LinkWith(from, to, at, reloc)
      PROVE  Life!LifeNext \/ UNCHANGED <<LifeNow, UsesNow>>
  BY <1>7, LinkMoves
<1>8. ASSUME NEW format, EmitAs(format) PROVE UNCHANGED <<LifeNow, UsesNow>>
  <2>1. declarations' = declarations /\ links' = links
    BY <1>8, Zenon DEF EmitAs
  <2> QED
    BY <2>1, QuietMoves
<1>9. CASE UNCHANGED vars
  <2>1. declarations' = declarations /\ links' = links
    BY <1>9, Zenon DEF vars
  <2> QED
    BY <2>1, QuietMoves
<1> QED
  BY <1>1, <1>2, <1>3, <1>4, <1>5, <1>6, <1>7, <1>8, <1>9, Zenon DEF Next

\* A new artifact has only unknown names and no uses.
LEMMA InitLife == Init => Life!LifeInit
<1> SUFFICES ASSUME Init PROVE Life!LifeInit
  OBVIOUS
<1>1. \A n \in Names : LifeOf(n) = LifeIn(declarations[n])
  BY InitIInv, LifeIsInEntry
<1>2. \A n \in Names : LifeIn(declarations[n]) = Life!Unknown
  BY DEF Init, LifeIn, Life!Unknown, Life!NoDecl, NoDecl
<1>3. {<<links[i].from, links[i].to>> : i \in DOMAIN links} = {}
  BY DEF Init
<1> QED
  BY <1>1, <1>2, <1>3, Zenon DEF Life!LifeInit

\* Whatever the client calls, in any order, the artifact keeps the promise of
\* SymbolLife: names only move forward, are held to one definition, and are
\* referred to only when they can be resolved.
THEOREM ArtifactImplementsLife == Spec => ImplementsLife
<1>1. Init => Life!LifeInit
  BY InitLife
<1>2. IInv /\ IInv' /\ [Next]_vars
        => [Life!LifeNext]_<<[n \in Names |-> LifeOf(n)],
                            {<<links[i].from, links[i].to>> : i \in DOMAIN links}>>
  BY StepMoves, Zenon DEF LifeNow, UsesNow
<1> QED
  BY <1>1, <1>2, Invariance, PTL DEF Spec, ImplementsLife, Life!LifeSpec

=============================================================================
