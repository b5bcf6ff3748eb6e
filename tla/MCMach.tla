------------------------------- MODULE MCMach -------------------------------
EXTENDS MachFile, MCEmission
LOCAL INSTANCE SequencesExt

Custom == <<[symbol |-> "x", offset |-> 0], [symbol |-> "y", offset |-> 3]>>
Fun == Def("f", FunctionDecl, Blob(3), <<>>)
Text == Def("s", WithScope(CStringDecl, "Global"), Blob(2), <<>>)
Pool ==
  {Fun, Text,
   Def("g", WithAlign(WithScope(FunctionDecl, "Global"), 32), Blob(17), <<>>),
   Def("d", Writable(DataDecl), Blob(5), <<>>),
   Def("e", WithAlign(WithScope(DataDecl, "Global"), 16), Blob(8), <<>>),
   Def("t", WithAlign(CStringDecl, 4), Blob(1), <<>>),
   Def("z", Writable(WithAlign(DataDecl, 16)), Zeros(8), <<>>),
   Def(".debug_line_str", SectionDecl("Debug"), Blob(6), Custom),
   Def("consts", SectionDecl("Data"), Blob(4), <<>>),
   Def(".debug_gnu_pubnames", SectionDecl("Debug"), Blob(1), <<>>)}

ImportLists == {<<>>, <<[name |-> "p", kind |-> "Function"], [name |-> "q", kind |-> "Data"]>>}

\* Artifacts whose links' relocations belong where build_relocations files them.
FiledOnly(as) == {a \in as : LinksFiled({a})}

Relocs == {Auto, Debug(4), Debug(5), Raw("R_ABS"), Raw("BRANCH")}

MCArtifacts == FiledOnly(ArtifactsOf({"a.o"}, Pool, 2, ImportLists, {1}, Relocs, 1)
                           \cup ArtifactsOf({"a.o"}, Pool, 2, {<<>>}, {0}, {Auto}, 2)
                           \cup ArtifactsOf({"a.o"}, Pool, 4, {<<>>}, {}, {}, 0))

\* They are artifacts the theorems are about.
ASSUME MCArtifactsFit ==
  /\ DefaultNamesShort
  /\ NoDefaultNames(MCArtifacts) /\ SymbolNamesDiffer(MCArtifacts)
  /\ EmptySectionsDiffer(MCArtifacts) /\ LinksFiled(MCArtifacts)

\* Artifacts on which the code departs from what the repository says.
StringLinks == ArtifactsOf({"a.o"}, {Fun, Text}, 2, {<<>>}, {0}, {Auto}, 1)
AlignedAlone == Alone(Def("e", WithAlign(WithScope(DataDecl, "Global"), 16), Blob(8), <<>>))
WeakAlone == Alone(Def("w", WithScope(FunctionDecl, "Weak"), Blob(1), <<>>))

=============================================================================
