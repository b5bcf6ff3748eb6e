------------------------------ MODULE MCFaerie ------------------------------
EXTENDS Faerie

MCDecls ==
  {ImportDecl("Function"), ImportDecl("Data"), FunctionDecl,
   WithScope(FunctionDecl, "Global"), WithScope(DataDecl, "Weak"), SectionDecl("Debug")}
MCDatas == {[zero_init |-> FALSE, size |-> 1]}
MCSymbolMaps == {<<>>}
MCRelocs == {[kind |-> "Auto"], [kind |-> "Debug", size |-> 4, addend |-> 0]}

=============================================================================
