----------------------------- MODULE CallProofs -----------------------------
(***************************************************************************)
(* What a failing call leaves, from its beginning to its end, and that a   *)
(* batch can be tried again.  The history variables of ArtifactCalls are   *)
(* tied to the artifact by CallInv, on top of the artifact's own IInv.     *)
(***************************************************************************)
EXTENDS ArtifactProofs, ArtifactCalls

\* Declaring p again would be accepted and leave its name as it is declared.
Redundant(p) ==
  /\ Declared(p.name)
  /\ Absorbs(declarations[p.name].decl, p.decl)
  /\ Absorb(declarations[p.name].decl, p.decl) = declarations[p.name].decl

\* Between calls `before' is the artifact itself.  During a batch definitions
\* and links are still those of its beginning, and a name has the entry it had
\* there or the one an accepted pair gave it; accepted pairs stay redundant.
CallInv ==
  /\ IInv
  /\ before.declarations \in [Names -> InternalDecls]
  /\ todo = <<>> => before.declarations = declarations
  /\ before.links = links
  /\ before.local = local_definitions /\ before.nonlocal = nonlocal_definitions
  /\ accepted \in SUBSET Batch
  /\ \A n \in Names : declarations[n] = before.declarations[n] \/ Accepted(n)
  /\ \A p \in accepted : Redundant(p)

-----------------------------------------------------------------------------
(* Redundant declarations *)

\* What absorb has left absorbs the same declaration again.
LEMMA AbsorbAgain ==
  ASSUME NEW x \in AllDecls, NEW y \in AllDecls, Absorbs(x, y)
  PROVE  Absorbs(Absorb(x, y), y) /\ Absorb(Absorb(x, y), y) = Absorb(x, y)
BY DEF Absorbs, Absorb, Upgrades, AllDecls, ImportDecls, ImportKinds,
       DefinedDecls, FunctionDecls, DataDecls, SectionDecls

\* A declaration that adds nothing to an import adds nothing to its upgrade.
LEMMA UpgradeKeepsRedundant ==
  ASSUME NEW x \in AllDecls, NEW y \in AllDecls, NEW z \in AllDecls,
         Absorbs(x, y), Absorb(x, y) = x, Upgrades(x, z)
  PROVE  Absorbs(z, y) /\ Absorb(z, y) = z
BY DEF Absorbs, Absorb, Upgrades, AllDecls, ImportDecls, ImportKinds,
       DefinedDecls, FunctionDecls, DataDecls, SectionDecls

\* The declaration of a declared name is one the client passed.
LEMMA DeclaredDecl ==
  ASSUME TypeOK, NEW n \in Names, Declared(n)
  PROVE  declarations[n].decl \in AllDecls
<1>1. declarations[n] \in InternalDecls
  BY DEF TypeOK
<1> QED
  BY <1>1, DeclsAssumption, Zenon DEF Declared, InternalDecls

\* A pair that declare accepts is redundant from then on.
LEMMA DeclareMakesRedundant ==
  ASSUME IInv, NEW p \in Batch, DeclareOk(p.name, p.decl)
  PROVE  Redundant(p)'
<1>1. p.name \in Names /\ p.decl \in Decls /\ p.decl \in AllDecls
  BY DeclsAssumption DEF Batch
<1>2. Accepts(p.name, p.decl) /\ declarations' = DeclarationsWith(p.name, p.decl)
  BY Zenon DEF DeclareOk
<1>3. TypeOK
  BY Zenon DEF IInv
<1>4. /\ declarations'[p.name].decl = Declaration(p.name, p.decl)
      /\ Declaration(p.name, p.decl) \in Decls
  BY <1>1, <1>2, <1>3, DeclarationFacts, Zenon
<1>5. Declaration(p.name, p.decl) # NoDecl
  BY <1>4, DeclTags, DeclsAssumption, Zenon
<1>6. /\ Absorbs(Declaration(p.name, p.decl), p.decl)
      /\ Absorb(Declaration(p.name, p.decl), p.decl) = Declaration(p.name, p.decl)
  <2>1. CASE Declared(p.name)
    BY <1>1, <1>2, <1>3, <2>1, DeclaredDecl, AbsorbAgain, Zenon DEF Accepts, Declaration
  <2>2. CASE ~Declared(p.name)
    BY <1>1, <2>2, AbsorbIsAJoin, Zenon DEF Declaration
  <2> QED
    BY <2>1, <2>2, Zenon
<1> QED
  BY <1>4, <1>5, <1>6, Zenon DEF Redundant, Declared

\* No call makes a redundant declaration one that adds something.
LEMMA RedundantStays ==
  ASSUME IInv, IInv', UpgradeStep, NEW p \in Batch, Redundant(p)
  PROVE  Redundant(p)'
<1>1. p.name \in Names /\ p.decl \in AllDecls
  BY DeclsAssumption DEF Batch
<1>2. declarations[p.name].decl \in AllDecls
  BY <1>1, DeclaredDecl, Zenon DEF Redundant, IInv
<1>3. CASE declarations'[p.name].decl = declarations[p.name].decl
  BY <1>3, Zenon DEF Redundant, Declared
<1>4. CASE Upgrades(declarations[p.name].decl, declarations'[p.name].decl)
  <2>1. declarations'[p.name] \in InternalDecls
    BY <1>1 DEF IInv, TypeOK
  <2>2. declarations'[p.name].decl # NoDecl
    BY <1>2, <1>4 DEF Upgrades, NoDecl, AllDecls, ImportDecls, ImportKinds,
                      DefinedDecls, FunctionDecls, DataDecls, SectionDecls
  <2>3. declarations'[p.name].decl \in AllDecls
    BY <2>1, <2>2, DeclsAssumption, Zenon DEF InternalDecls
  <2>4. /\ Absorbs(declarations[p.name].decl, p.decl)
        /\ Absorb(declarations[p.name].decl, p.decl) = declarations[p.name].decl
    BY Zenon DEF Redundant
  <2>5. /\ Absorbs(declarations'[p.name].decl, p.decl)
        /\ Absorb(declarations'[p.name].decl, p.decl) = declarations'[p.name].decl
    BY <1>1, <1>2, <1>4, <2>3, <2>4, UpgradeKeepsRedundant, Zenon
  <2> QED
    BY <2>2, <2>5, Zenon DEF Redundant, Declared
<1> QED
  BY <1>1, <1>3, <1>4, Zenon DEF UpgradeStep, Redundant

-----------------------------------------------------------------------------
(* One step that fails *)

\* declare_with fails after its declare only on a name that is defined already,
\* whose entry declare leaves alone, or that is left an import.
LEMMA DeclareWithFailure ==
  ASSUME IInv, NEW n \in Names, NEW d \in Decls, NEW data \in Datas, ~data.zero_init,
         Accepts(n, d),
         DefineResult(DeclarationsWith(n, d)[n], data, <<>>) # "Ok"
  PROVE  \/ DeclarationsWith(n, d)[n] = declarations[n]
         \/ /\ ~Declared(n) /\ IsImport(DeclarationsWith(n, d)[n].decl)
            /\ ~DeclarationsWith(n, d)[n].defined
<1> DEFINE entry == DeclarationsWith(n, d)[n]
<1>0. /\ Declared(n) /\ ~IsImport(declarations[n].decl) =>
           Declaration(n, d) = declarations[n].decl
      /\ IsImport(Declaration(n, d)) =>
           ~Declared(n) \/ Declaration(n, d) = declarations[n].decl
  <2>1. TypeOK
    BY DEF IInv
  <2> QED
    BY <2>1, DeclarationFacts, Zenon
<1>1. /\ entry \in InternalDecls /\ entry.decl = Declaration(n, d)
      /\ entry.defined = declarations[n].defined
      /\ declarations[n] \in InternalDecls
      /\ Declaration(n, d) \in Decls
  BY DeclarationFacts, Zenon DEF IInv, TypeOK
<1>2. entry.decl # NoDecl
  BY <1>1, DeclTags, DeclsAssumption, Zenon
<1>3. entry.defined \/ IsImport(entry.decl)
  BY <1>2, Zenon DEF DefineResult
<1>4. CASE IsImport(entry.decl)
  <2>1. ~Declared(n) \/ entry.decl = declarations[n].decl
    BY <1>0, <1>1, <1>4, Zenon
  <2>2. CASE entry.decl = declarations[n].decl
    BY <1>1, <2>2 DEF InternalDecls
  <2>3. CASE ~Declared(n)
    BY <1>1, <1>4, <2>3, UndefinedFlag, Zenon
  <2> QED
    BY <2>1, <2>2, <2>3, Zenon
<1>5. CASE entry.defined
  <2>1. Declared(n) /\ ~IsImport(declarations[n].decl)
    BY <1>1, <1>5, UndefinedFlag, Zenon
  <2>2. entry.decl = declarations[n].decl
    BY <1>0, <1>1, <2>1, Zenon
  <2> QED
    BY <1>1, <2>2 DEF InternalDecls
<1> QED
  BY <1>3, <1>4, <1>5, Zenon


\* Between calls, a failing call leaves at most an import; a failing turn of
\* the loop in declarations() leaves everything as it found it.
LEMMA StepFails ==
  ASSUME IInv, Next, result' \in Errors, todo' = <<>>
  PROVE  /\ UNCHANGED <<links, local_definitions, nonlocal_definitions>>
         /\ todo # <<>> => UNCHANGED declarations
         /\ \A n \in Names : \/ declarations'[n] = declarations[n]
                             \/ /\ ~Declared(n) /\ IsImport(declarations'[n].decl)
                                /\ ~declarations'[n].defined
<1> DEFINE Goal ==
         /\ UNCHANGED <<links, local_definitions, nonlocal_definitions>>
         /\ todo # <<>> => UNCHANGED declarations
         /\ \A n \in Names : \/ declarations'[n] = declarations[n]
                             \/ /\ ~Declared(n) /\ IsImport(declarations'[n].decl)
                                /\ ~declarations'[n].defined
<1>0. result' # "Ok"
  BY DEF Errors
<1>1. ASSUME UNCHANGED <<declarations, links, local_definitions, nonlocal_definitions>>
      PROVE  Goal
  BY <1>1
<1> SUFFICES Goal
  OBVIOUS
<1> HIDE DEF Goal
<1>2. ASSUME NEW n, NEW d, Declare(n, d) PROVE Goal
  BY <1>0, <1>1, <1>2, Zenon DEF Declare, DeclareOk, DeclareErr
<1>3. ASSUME DeclareNext PROVE Goal
  BY <1>0, <1>1, <1>3 DEF DeclareNext, DeclareOk, DeclareErr
<1>4. ASSUME NEW n \in Names, NEW data \in Datas, NEW symbols \in SymbolMaps,
             Define(n, data, symbols)
      PROVE  Goal
  BY <1>0, <1>1, <1>4 DEF Define, DefineIn
<1>5. ASSUME NEW n \in Names, NEW d \in Decls, NEW data \in Datas, DeclareWith(n, d, data)
      PROVE  Goal
  <2>1. CASE DeclareErr(n, d) /\ UNCHANGED <<local_definitions, nonlocal_definitions>>
    BY <1>1, <1>5, <2>1, Zenon DEF DeclareWith, DeclareErr
  <2>2. CASE Accepts(n, d) /\ DefineIn(DeclarationsWith(n, d), n, data, <<>>)
    <3>1. /\ DefineResult(DeclarationsWith(n, d)[n], data, <<>>) # "Ok"
          /\ declarations' = DeclarationsWith(n, d)
          /\ UNCHANGED <<links, local_definitions, nonlocal_definitions>>
          /\ todo = <<>>
      BY <1>0, <1>5, <2>2 DEF DefineIn, DeclareWith
    <3>2. \/ declarations'[n] = declarations[n]
          \/ /\ ~Declared(n) /\ IsImport(declarations'[n].decl)
             /\ ~declarations'[n].defined
      BY <1>5, <2>2, <3>1, DeclareWithFailure, Zenon DEF DeclareWith
    <3>3. \A m \in Names \ {n} : declarations'[m] = declarations[m]
      BY <2>2, <3>1, DeclarationFacts, Zenon DEF IInv
    <3> QED
      BY <3>1, <3>2, <3>3, Zenon DEF Goal
  <2> QED
    BY <1>5, <2>1, <2>2, Zenon DEF DeclareWith
<1>6. ASSUME NEW from, NEW to, NEW at, NEW reloc, LinkWith(from, to, at, reloc)
      PROVE  Goal
  BY <1>0, <1>1, <1>6 DEF LinkWith
<1> QED
  BY <1>1, <1>2, <1>3, <1>4, <1>5, <1>6 DEF Next, Import, StartDeclarations, EmitAs

-----------------------------------------------------------------------------
(* The invariant *)

\* A new artifact has nothing behind it.
LEMMA InitCallInv == CallInit => CallInv
<1> SUFFICES ASSUME CallInit PROVE CallInv
  OBVIOUS
<1>1. IInv
  BY InitIInv DEF CallInit
<1>2. /\ before.declarations = declarations /\ before.links = links
      /\ before.local = local_definitions /\ before.nonlocal = nonlocal_definitions
      /\ accepted = {}
  BY DEF CallInit, Contents
<1>3. declarations \in [Names -> InternalDecls]
  BY <1>1 DEF IInv, TypeOK
<1> QED
  BY <1>1, <1>2, <1>3 DEF CallInv

\* A step that ends a call, or begins a batch, leaves `before' the artifact it
\* ends with.
LEMMA EndOfCall ==
  ASSUME IInv', Remember, todo' = <<>>
  PROVE  /\ before'.declarations = declarations'
         /\ before'.declarations \in [Names -> InternalDecls]
         /\ before'.links = links'
         /\ before'.local = local_definitions' /\ before'.nonlocal = nonlocal_definitions'
<1>1. before' = [declarations |-> declarations', links |-> links',
                 local |-> local_definitions', nonlocal |-> nonlocal_definitions']
  BY DEF Remember, Contents
<1>2. declarations' \in [Names -> InternalDecls]
  BY DEF IInv, TypeOK
<1> QED
  BY <1>1, <1>2

\* A turn of the loop that succeeds gives the name it declares the entry it
\* had at the beginning, or one of the accepted declarations.
LEMMA TurnEntries ==
  ASSUME CallInv, NEW p \in Batch, DeclareOk(p.name, p.decl),
         accepted' = accepted \cup {p}, before' = before
  PROVE  \A n \in Names : declarations'[n] = before'.declarations[n] \/ Accepted(n)'
<1>1. p.name \in Names /\ p.decl \in Decls
  BY DEF Batch
<1>2. Accepts(p.name, p.decl) /\ declarations' = DeclarationsWith(p.name, p.decl) /\ TypeOK
  BY Zenon DEF DeclareOk, CallInv, IInv
<1>3. /\ \A m \in Names \ {p.name} : declarations'[m] = declarations[m]
      /\ declarations'[p.name] \in InternalDecls
      /\ declarations'[p.name].decl \in {declarations[p.name].decl, p.decl}
      /\ declarations'[p.name].defined = declarations[p.name].defined
      /\ declarations[p.name] \in InternalDecls
  <2>1. /\ \A m \in Names \ {p.name} : declarations'[m] = declarations[m]
        /\ declarations' \in [Names -> InternalDecls]
        /\ declarations'[p.name].decl \in {declarations[p.name].decl, p.decl}
        /\ declarations'[p.name].defined = declarations[p.name].defined
    BY <1>1, <1>2, DeclarationFacts
  <2>2. declarations \in [Names -> InternalDecls]
    BY <1>2 DEF TypeOK
  <2> QED
    BY <1>1, <2>1, <2>2
<1>4. ASSUME NEW n \in Names, declarations'[n] = declarations[n]
      PROVE  declarations'[n] = before'.declarations[n] \/ Accepted(n)'
  BY <1>4, Zenon DEF CallInv, Accepted
<1>5. CASE declarations'[p.name].decl = declarations[p.name].decl
  <2>1. declarations'[p.name] = declarations[p.name]
    BY <1>3, <1>5 DEF InternalDecls
  <2> QED
    BY <1>3, <1>4, <2>1, Zenon
<1>6. CASE declarations'[p.name].decl = p.decl
  <2>1. /\ before.declarations[p.name] \in InternalDecls
        /\ declarations[p.name].defined = before.declarations[p.name].defined
    <3>1. before.declarations[p.name] \in InternalDecls
      BY <1>1 DEF CallInv
    <3>2. \/ declarations[p.name] = before.declarations[p.name]
          \/ Accepted(p.name)
      BY <1>1, Zenon DEF CallInv
    <3> QED
      BY <3>1, <3>2 DEF Accepted, InternalDecls
  <2>2. declarations'[p.name] = [before.declarations[p.name] EXCEPT !.decl = p.decl]
    BY <1>3, <1>6, <2>1 DEF InternalDecls
  <2>3. Accepted(p.name)'
    BY <2>2, Zenon DEF Accepted
  <2> QED
    BY <1>3, <1>4, <2>3, Zenon
<1> QED
  BY <1>3, <1>5, <1>6, Zenon

\* While a batch is under way nothing else runs, and beginning one changes
\* nothing but what is left to do.
LEMMA BatchSteps ==
  ASSUME Next
  PROVE  /\ todo # <<>> => DeclareNext
         /\ todo = <<>> /\ todo' # <<>> =>
              UNCHANGED <<declarations, links, local_definitions, nonlocal_definitions>>
<1>1. ASSUME todo # <<>> PROVE DeclareNext
  BY <1>1, Zenon DEF Next, Declare, Import, StartDeclarations, Define, DeclareWith, LinkWith,
                     EmitAs
<1>2. ASSUME todo = <<>>, todo' # <<>>
      PROVE  UNCHANGED <<declarations, links, local_definitions, nonlocal_definitions>>
  BY <1>2, Zenon DEF Next, Declare, Import, StartDeclarations, DeclareNext, Define,
                     DeclareWith, LinkWith, EmitAs
<1> QED
  BY <1>1, <1>2, Zenon

\* Each turn of the loop in declarations() preserves the invariant.
LEMMA TurnCallInv ==
  ASSUME CallInv, IInv', UpgradeStep, DeclareNext, Remember
  PROVE  CallInv'
<1>0. todo # <<>> /\ Head(todo) \in Batch
  BY DEF DeclareNext, CallInv, IInv, TypeOK
<1>1. PICK p \in Batch : p = Head(todo)
  BY <1>0, Zenon
<1>2. UNCHANGED <<links, local_definitions, nonlocal_definitions>>
  BY Zenon DEF DeclareNext
<1>3. accepted \in SUBSET Batch /\ \A q \in accepted : Redundant(q)'
  BY RedundantStays, Zenon DEF CallInv
<1>4. /\ accepted' \in SUBSET Batch
      /\ \A q \in accepted' : Redundant(q)'
      /\ result' = "Ok" => accepted' = accepted \cup {p} /\ DeclareOk(p.name, p.decl)
  <2>1. CASE DeclareErr(p.name, p.decl)
    <3>1. result' # "Ok"
      BY <2>1 DEF DeclareErr
    <3>2. accepted' = accepted
      BY <1>0, <3>1 DEF Remember
    <3> QED
      BY <1>3, <3>1, <3>2, Zenon
  <2>2. CASE DeclareOk(p.name, p.decl)
    <3>1. Redundant(p)'
      BY <2>2, DeclareMakesRedundant, Zenon DEF CallInv
    <3>2. accepted' = accepted \cup {p}
      BY <1>0, <1>1, <2>2 DEF Remember, DeclareOk
    <3> QED
      BY <1>3, <2>2, <3>1, <3>2, Zenon
  <2> QED
    BY <1>1, <2>1, <2>2, Zenon DEF DeclareNext
<1>5. CASE todo' = <<>>
  BY <1>4, <1>5, EndOfCall, Zenon DEF CallInv
<1>6. CASE todo' # <<>>
  <2>1. before' = before /\ result' = "Ok"
    BY <1>6, Zenon DEF Remember, DeclareNext, DeclareOk
  <2>2. \A n \in Names : declarations'[n] = before'.declarations[n] \/ Accepted(n)'
    BY <1>1, <1>4, <2>1, TurnEntries, Zenon
  <2> QED
    BY <1>2, <1>4, <1>6, <2>1, <2>2, Zenon DEF CallInv
<1> QED
  BY <1>5, <1>6, Zenon

\* Every step of every call preserves the invariant.
LEMMA NextCallInv == CallInv /\ [Next /\ Remember]_callVars => CallInv'
<1>1. ASSUME CallInv, Next, Remember PROVE CallInv'
  <2>1. IInv /\ IInv' /\ UpgradeStep
    BY <1>1, NextIInv, NextUpgrades, Zenon DEF CallInv
  <2>2. CASE todo # <<>>
    BY <1>1, <2>1, <2>2, BatchSteps, TurnCallInv, Zenon
  <2>3. CASE todo = <<>> /\ todo' = <<>>
    <3>1. accepted' = accepted
      BY <1>1, <2>3, Zenon DEF Remember
    <3>2. accepted \in SUBSET Batch /\ \A p \in accepted : Redundant(p)'
      BY <1>1, <2>1, RedundantStays, Zenon DEF CallInv
    <3> QED
      BY <1>1, <2>1, <2>3, <3>1, <3>2, EndOfCall, Zenon DEF CallInv
  <2>4. CASE todo = <<>> /\ todo' # <<>>
    <3>1. UNCHANGED <<declarations, links, local_definitions, nonlocal_definitions>>
      BY <1>1, <2>4, BatchSteps, Zenon
    <3>2. before' = before /\ accepted' = {}
      BY <1>1, <2>4, Zenon DEF Remember
    <3> QED
      BY <1>1, <2>1, <2>4, <3>1, <3>2, Zenon DEF CallInv
  <2> QED
    BY <2>2, <2>3, <2>4, Zenon
<1>2. ASSUME CallInv, UNCHANGED callVars PROVE CallInv'
  <2>1. UNCHANGED <<vars, before, accepted>>
    BY <1>2, Zenon DEF callVars
  <2>2. IInv'
    BY <1>2, <2>1, NextIInv, Zenon DEF CallInv
  <2> QED
    BY <1>2, <2>1, <2>2, Zenon DEF CallInv, vars, Accepted, Redundant, Declared
<1> QED
  BY <1>1, <1>2, Zenon

\* The history agrees with the artifact after any sequence of calls.
THEOREM CallInvariance == CallSpec => []CallInv
BY InitCallInv, NextCallInv, PTL DEF CallSpec

-----------------------------------------------------------------------------
(* What failing calls leave, and trying again *)

\* No call that fails leaves more than declarations that were accepted.
LEMMA CallFails == CallInv /\ Next => FailureStep
<1> SUFFICES ASSUME CallInv, Next, todo' = <<>>, result' \in Errors
             PROVE  FailureStep
  BY Zenon DEF FailureStep
<1>1. /\ UNCHANGED <<links, local_definitions, nonlocal_definitions>>
      /\ todo # <<>> => UNCHANGED declarations
      /\ \A n \in Names : \/ declarations'[n] = declarations[n]
                          \/ /\ ~Declared(n) /\ IsImport(declarations'[n].decl)
                             /\ ~declarations'[n].defined
  BY StepFails, Zenon DEF CallInv
<1>2. CASE todo # <<>>
  BY <1>1, <1>2, Zenon DEF FailureStep, CallInv
<1>3. CASE todo = <<>>
  <2>1. before.declarations = declarations
    BY <1>3, Zenon DEF CallInv
  <2> QED
    BY <1>1, <1>3, <2>1, Zenon DEF FailureStep, CallInv, Declared
<1> QED
  BY <1>2, <1>3, Zenon

\* Whatever a client's calls have done before, one that fails adds no
\* definition and no link: a batch keeps the declarations it accepted, any
\* other call at most an import.
THEOREM FailuresLeaveOnlyDeclarations == CallSpec => FailureLeavesOnlyDeclarations
<1>1. CallInv /\ [Next /\ Remember]_callVars => [FailureStep]_callVars
  BY CallFails, Zenon
<1> QED
  BY <1>1, CallInvariance, PTL DEF CallSpec, FailureLeavesOnlyDeclarations

\* A redundant pair can be declared again without effect.
LEMMA CallInvRetry == CallInv => RetryChangesNothing
<1> SUFFICES ASSUME CallInv, NEW p \in accepted
             PROVE  /\ Accepts(p.name, p.decl)
                    /\ DeclarationsWith(p.name, p.decl) = declarations
                    /\ ImportsWith(p.name, p.decl) = imports
  BY Zenon DEF RetryChangesNothing
<1>1. p.name \in Names /\ p.decl \in Decls
  BY DEF CallInv, Batch
<1>2. TypeOK /\ ImportsListed /\ Redundant(p)
  BY Zenon DEF CallInv, IInv
<1>3. Accepts(p.name, p.decl) /\ Declaration(p.name, p.decl) = declarations[p.name].decl
  BY <1>2, Zenon DEF Redundant, Accepts, Declaration
<1>4. declarations \in [Names -> InternalDecls] /\ declarations[p.name] \in InternalDecls
  BY <1>1, <1>2 DEF TypeOK
<1>5. DeclarationsWith(p.name, p.decl) = declarations
  BY <1>1, <1>3, <1>4 DEF DeclarationsWith, InternalDecls
<1>6. ImportsWith(p.name, p.decl) = imports
  BY <1>1, <1>2, <1>3, Zenon DEF ImportsWith, ImportsListed
<1> QED
  BY <1>3, <1>5, <1>6, Zenon

\* After any calls, and however a batch ended, the pairs it accepted can be
\* passed again: they are accepted and change nothing.
THEOREM RetriesChangeNothing == CallSpec => []RetryChangesNothing
BY CallInvariance, CallInvRetry, PTL

=============================================================================
