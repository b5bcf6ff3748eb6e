----------------------------- MODULE MCArtifact -----------------------------
(* Constants for model-checking Artifact. *)
EXTENDS ArtifactRefinement

CONSTANTS a, b

MCDecls ==
  {ImportDecl("Function"), ImportDecl("Data"), FunctionDecl,
   WithScope(FunctionDecl, "Global"), DataDecl, SectionDecl("Debug")}

MCDatas == {[zero_init |-> FALSE, size |-> 1], [zero_init |-> TRUE, size |-> 1]}

MCSymbolMaps == {<<>>, <<[symbol |-> a, offset |-> 0]>>}

=============================================================================
