------------------------------- MODULE MCElf --------------------------------
EXTENDS ElfFile, MCEmission

Pool ==
  {Def("f", FunctionDecl, Blob(3), <<>>),
   Def("g", WithScope(FunctionDecl, "Global"), Blob(1), <<>>),
   Def("s", WithScope(CStringDecl, "Global"), Blob(2), <<>>),
   Def("d", Writable(DataDecl), Blob(5), <<>>),
   Def("z", Writable(WithAlign(DataDecl, 16)), Zeros(8), <<>>),
   Def(".debug_str", SectionDecl("Debug"), Blob(4), <<>>)}

ImportLists == {<<>>, <<[name |-> "p", kind |-> "Function"], [name |-> "q", kind |-> "Data"]>>}

\* The name of the artifact may be one of its symbols.
MCArtifacts == ArtifactsOf({"f"}, Pool, 3, ImportLists, {1}, {Auto}, 1)
                 \cup ArtifactsOf({"a.o"}, Pool, 2, ImportLists, {1}, {Auto, Debug(4)}, 2)

\* Weak definitions, a section with symbols of its own, one named like the
\* artifact, and the other kinds of relocation.
Custom == <<[symbol |-> "a.o", offset |-> 0], [symbol |-> "y", offset |-> 2]>>
Section == Def("data", SectionDecl("Data"), Blob(4), Custom)
Weak == Def("w", WithScope(FunctionDecl, "Weak"), Blob(0), <<>>)
Pool2 ==
  {Section, Weak,
   Def("v", WithScope(DataDecl, "Weak"), Blob(3), <<>>),
   Def(".rela.text.w", SectionDecl("Debug"), Blob(1), <<>>)}
MCArtifacts2 == ArtifactsOf({"a.o"}, Pool2, 4, {<<[name |-> "p", kind |-> "Data"]>>}, {1},
                            {Auto, Raw("R_X86_64_NONE"), Debug(8), Debug(5)}, 1)
                  \cup ArtifactsOf({"a.o"}, Pool2, 2, {<<>>}, {0}, {Raw("R_X86_64_NONE")}, 3)

\* Artifacts on which the code departs from what the repository says.
Fun == Def("f", FunctionDecl, Blob(3), <<>>)
Zeroed == Def("z", Writable(WithAlign(DataDecl, 16)), Zeros(8), <<>>)
WeakArtifacts == Both(Fun, Weak)
ZeroArtifacts == Both(Fun, Zeroed)
ClashingSections == Both(Fun, Def(".text.f", SectionDecl("Text"), Blob(2), <<>>))

=============================================================================
