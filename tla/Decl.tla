-------------------------------- MODULE Decl --------------------------------
(***************************************************************************)
(* Declarations (src/src/artifact/decl.rs): what a name of an artifact     *)
(* stands for, and which redeclarations are accepted.                      *)
(*                                                                         *)
(* A declaration is a record tagged by its variant.  An absent alignment   *)
(* (None) is 0; a present one is the power of two the client asked for     *)
(* (set_align asserts it in debug builds).                                 *)
(***************************************************************************)
EXTENDS Naturals, Sequences

ImportKinds == {"Function", "Data"}
Scopes == {"Global", "Local", "Weak"}
Visibilities == {"Default", "Protected", "Hidden"}
DataTypes == {"Bytes", "String"}
SectionKinds == {"Data", "Debug", "Text"}
MaxAlignExponent == 30   \* u64 in the code; 2^30 is what TLC's integers hold
Alignments == {0} \cup {2^k : k \in 0..MaxAlignExponent}

ImportDecls == [tag : {"Import"}, kind : ImportKinds]
FunctionDecls ==
  [tag : {"Function"}, scope : Scopes, visibility : Visibilities, align : Alignments]
DataDecls ==
  [tag : {"Data"}, scope : Scopes, visibility : Visibilities,
   writable : BOOLEAN, datatype : DataTypes, align : Alignments]
SectionDecls ==
  [tag : {"Section"}, kind : SectionKinds, datatype : DataTypes, align : Alignments]
DefinedDecls == FunctionDecls \cup DataDecls \cup SectionDecls
AllDecls == ImportDecls \cup DefinedDecls

NoDecl == [tag |-> "None"]   \* what a name has before it is declared

-----------------------------------------------------------------------------
(* The builders, with the defaults they start from. *)

ImportDecl(kind) == [tag |-> "Import", kind |-> kind]
FunctionDecl ==
  [tag |-> "Function", scope |-> "Local", visibility |-> "Default", align |-> 0]
DataDecl ==
  [tag |-> "Data", scope |-> "Local", visibility |-> "Default",
   writable |-> FALSE, datatype |-> "Bytes", align |-> 0]
CStringDecl == [DataDecl EXCEPT !.datatype = "String"]
SectionDecl(kind) ==
  [tag |-> "Section", kind |-> kind, datatype |-> "Bytes", align |-> 0]

WithScope(d, scope) == [d EXCEPT !.scope = scope]
WithAlign(d, align) == [d EXCEPT !.align = align]
Writable(d) == [d EXCEPT !.writable = TRUE]

-----------------------------------------------------------------------------
(* Accessors. *)

IsImport(d) == d.tag = "Import"
IsSection(d) == d.tag = "Section"
IsGlobal(d) == d.tag \in {"Function", "Data"} /\ d.scope = "Global"
IsWritable(d) ==
  \/ d.tag = "Data" /\ d.writable
  \/ d.tag = "Section" /\ d.kind = "Data"

-----------------------------------------------------------------------------
(* Decl::absorb.  An import is upgraded by a definition of its own kind; a *)
(* definition ignores an import of its kind; otherwise only an equal       *)
(* declaration is accepted.  The error leaves the old declaration alone.   *)

Upgrades(old, new) == old.tag = "Import" /\ new.tag = old.kind

\* Mutant: a definition refuses an import of its kind.
AbsorbsForward(old, new) == Upgrades(old, new) \/ old = new

Absorbs(old, new) == Upgrades(old, new) \/ Upgrades(new, old) \/ old = new

\* Mutant: the last declaration wins.
AbsorbLatest(old, new) == new

Absorb(old, new) == IF Upgrades(old, new) THEN new ELSE old

-----------------------------------------------------------------------------
(* The derived Ord of DefinedDecl: the variant, then the fields in the     *)
(* order they are declared.  Rank gives a variant's place in its enum.     *)

Rank(order, x) == CHOOSE i \in DOMAIN order : order[i] = x

ScopeRank(d) == Rank(<<"Global", "Local", "Weak">>, d.scope)
VisibilityRank(d) == Rank(<<"Default", "Protected", "Hidden">>, d.visibility)
DataTypeRank(d) == Rank(<<"Bytes", "String">>, d.datatype)
SectionKindRank(d) == Rank(<<"Data", "Debug", "Text">>, d.kind)

DeclKey(d) ==
  CASE d.tag = "Function" -> <<1, ScopeRank(d), VisibilityRank(d), d.align>>
    [] d.tag = "Data" ->
         <<2, ScopeRank(d), VisibilityRank(d), IF d.writable THEN 1 ELSE 0,
           DataTypeRank(d), d.align>>
    [] d.tag = "Section" -> <<3, SectionKindRank(d), DataTypeRank(d), d.align>>

LexLess(k, l) ==
  \E i \in DOMAIN k \cap DOMAIN l :
    k[i] < l[i] /\ \A j \in 1..(i - 1) : k[j] = l[j]

=============================================================================
