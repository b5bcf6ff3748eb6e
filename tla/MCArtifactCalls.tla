--------------------------- MODULE MCArtifactCalls --------------------------
(* Constants for model-checking ArtifactCalls. *)
EXTENDS ArtifactCalls, TLC

CONSTANTS a, b, c

MCDecls ==
  {ImportDecl("Function"), ImportDecl("Data"), WithScope(FunctionDecl, "Global")}

MCDatas == {[zero_init |-> FALSE, size |-> 1]}
MCSymbolMaps == {<<>>}

NameSymmetry == Permutations(Names)

=============================================================================
