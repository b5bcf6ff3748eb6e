----------------------------- MODULE MCEmission -----------------------------
(***************************************************************************)
(* Artifacts to emit: each a choice of definitions from a pool, in the     *)
(* order definitions() gives them, with imports and links between them.    *)
(***************************************************************************)
EXTENDS Emission
LOCAL INSTANCE SequencesExt
LOCAL INSTANCE FiniteSetsExt

Blob(n) == [zero_init |-> FALSE, size |-> n]
Zeros(n) == [zero_init |-> TRUE, size |-> n]
Def(name, decl, data, syms) == [name |-> name, decl |-> decl, symbols |-> syms, data |-> data]

\* The derived order of definitions(), names standing for their ids.
Before(x, y) ==
  IF IsGlobal(x.decl) # IsGlobal(y.decl) THEN IsGlobal(y.decl)
  ELSE LexLess(DeclKey(x.decl), DeclKey(y.decl))

Bound(b) == [name |-> b.name, decl |-> b.decl]
Bindings(defs, imps) ==
  {Bound(d) : d \in defs} \cup {[name |-> i.name, decl |-> ImportDecl(i.kind)] : i \in Range(imps)}

LinkSeqs(froms, tos, ats, relocs, k) ==
  UNION {[1..m -> [from : froms, to : tos, at : ats, reloc : relocs]] : m \in 0..k}

\* All artifacts of at most n definitions and k links.
ArtifactsOf(names, pool, n, imports, ats, relocs, k) ==
  UNION {UNION {{[name |-> nm, definitions |-> SetToSortSeq(defs, Before),
                  imports |-> imps, links |-> ls] :
                   nm \in names,
                   ls \in LinkSeqs({Bound(d) : d \in defs}, Bindings(defs, imps), ats, relocs, k)} :
                imps \in imports} :
         defs \in UNION {kSubset(m, pool) : m \in 1..n}}

Auto == [kind |-> "Auto"]
Debug(size) == [kind |-> "Debug", size |-> size, addend |-> 1]
Raw(reloc) == [kind |-> "Raw", reloc |-> reloc, addend |-> 0]

Alone(def) == ArtifactsOf({"a.o"}, {def}, 1, {<<>>}, {}, {}, 0)
Both(x, y) == ArtifactsOf({"a.o"}, {x, y}, 2, {<<>>}, {}, {}, 0)

=============================================================================
