--------------------------- MODULE ArtifactCalls ----------------------------
(***************************************************************************)
(* What a whole call of the artifact's API leaves behind when it fails.    *)
(* A declarations() call is several steps of Artifact and one call of the  *)
(* client, so two history variables remember what the steps forget.  They  *)
(* change nothing of what Artifact does.                                   *)
(***************************************************************************)
EXTENDS Artifact

VARIABLES
  before,     \* what the artifact held when the call in progress began
  accepted    \* the pairs that the last declarations() call has declared

callVars == <<vars, before, accepted>>

Contents == [declarations |-> declarations, links |-> links,
             local |-> local_definitions, nonlocal |-> nonlocal_definitions]

CallInit == Init /\ before = Contents /\ accepted = {}

\* A step that leaves nothing to do ends a call, and the next begins there.
Remember ==
  /\ before' = IF todo' = <<>> THEN Contents' ELSE before
  /\ accepted' = IF todo # <<>>
                 THEN accepted \cup (IF result' = "Ok" THEN {Head(todo)} ELSE {})
                 ELSE IF todo' = <<>> THEN accepted ELSE {}

CallSpec == CallInit /\ [][Next /\ Remember]_callVars

-----------------------------------------------------------------------------
(* Properties *)

\* The declaration of n is, in this state, the one an accepted pair gave.
Accepted(n) ==
  \E p \in accepted :
    p.name = n /\ declarations[n] = [before.declarations[n] EXCEPT !.decl = p.decl]

FailureStep ==
  todo' = <<>> /\ result' \in Errors =>
    /\ links' = before.links
    /\ local_definitions' = before.local
    /\ nonlocal_definitions' = before.nonlocal
    /\ \A n \in Names :
         \/ declarations'[n] = before.declarations[n]
         \/ /\ todo = <<>>
            /\ before.declarations[n].decl = NoDecl
            /\ IsImport(declarations'[n].decl) /\ ~declarations'[n].defined
         \/ todo # <<>> /\ declarations'[n] = declarations[n] /\ Accepted(n)

\* A call that returns an error, from its beginning to its end, adds no
\* definition and no link and marks no name defined.  A declarations() call
\* keeps what it declared before the pair that was refused: a name it leaves
\* changed has the declaration of a pair that was accepted for it, never of
\* the one that was not.  Every other call leaves at most one trace, the
\* import that declare_with declared before define refused it.
FailureLeavesOnlyDeclarations == [][FailureStep]_callVars

\* A client whose batch failed may drop the pair that was refused and pass the
\* others again: each pair that was accepted is accepted again and leaves the
\* declarations and the imports as they are, whatever was called in between.
RetryChangesNothing ==
  \A p \in accepted :
    /\ Accepts(p.name, p.decl)
    /\ DeclarationsWith(p.name, p.decl) = declarations
    /\ ImportsWith(p.name, p.decl) = imports

=============================================================================
