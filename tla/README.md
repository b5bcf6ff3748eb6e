# A TLA+ model of faerie

faerie builds object files. A client fills an `Artifact` (declare, define,
import, link) and then asks for its bytes; a backend turns the artifact into an
ELF or a Mach-O file. Nothing runs concurrently: the methods take `&mut self`
(or `&self` for emission) and run to their end. What makes the code hard to
test is the number of orders in which names can be declared, redeclared, linked
and defined, and the number of counts, offsets and indices a backend computes
ahead of what it writes.

## The parts of the system

| part | source | modules |
|---|---|---|
| declarations and `absorb` | `src/src/artifact/decl.rs` | `Decl`; proofs in `ArtifactProofs` |
| the artifact | `src/src/artifact.rs` | `Artifact`, `ArtifactCalls`, `SymbolLife`, `ArtifactRefinement`; proofs in `ArtifactProofs`, `CallProofs` |
| what a backend is given | `src/src/artifact.rs` | `Emission`, `Layout`; lemmas in `EmissionLemmas` |
| the ELF backend | `src/src/elf.rs` | `IndexMap`, `Elf`, `ElfFile` |
| the Mach-O backend | `src/src/mach.rs` | `IndexMap`, `Mach`, `MachFile`; proofs in `MachLemmas`, `MachProofs`, `MachLayout`, `MachParts` |
| artifact and backends together | all three | `Faerie` |
| container choice | `src/src/target.rs` | the constant `Big` of `Emission` |
| crate root, examples, `ArtifactBuilder` | `src/src/lib.rs`, `src/examples` | not modelled: re-exports, clients, setters |

The artifact hands a backend three iterators: `definitions()` (the local set,
then the nonlocal one, each in the derived order), `imports()` and `links()`
(with both ends resolved to their declarations as they are at that moment).
`Emittable` of module `Emission` states what the backends need of them;
`Faerie` checks that every artifact without undefined symbols provides it.

## The modules

**`Decl`** holds declarations as tagged records, their builders and accessors,
the derived order, and `absorb` as two operators: `Absorbs` (is the
redeclaration accepted) and `Absorb` (what is left).

**`Artifact`** has one action per method. `strings` is the interner,
`declarations` a total function in which a missing entry is `NoDecl`, and
`result` what the last call returned. `declarations()` is a loop that may stop
at an error, so it is a start and one `DeclareNext` step per pair, with `todo`
what is left; no other call runs meanwhile. Names are compared and never looked
into; the bytes of a definition are reduced to their number; the order of the
`declarations` map, which only orders the names in an error, is left out.

**`ArtifactCalls`** adds two history variables that change nothing of what the
artifact does: `before`, what the artifact held when the call in progress began,
and `accepted`, the pairs that the last `declarations()` call has declared. With
them a property can compare the end of a batch with its beginning, which the
steps of the loop taken one at a time do not show.

**`SymbolLife`** is the abstract promise: a name goes from unknown to imported,
declared and defined, never back, and references are recorded only between
names they can be resolved for. `ArtifactRefinement` maps the artifact to it,
reading each phase from the structure specific to it.

**`Emission`** is what passes from artifact to backend: definitions, imports and
links with their types, and `Emittable`. Names are real strings here, since both
backends derive names from them that may coincide. `Layout` places parts one
after the other. `IndexMap` gives the containers of other crates the behaviour
the code relies on (an insert under an existing key replaces in place).

**`Elf`** is the builder: `New`, then one step per definition, import and link,
as `to_bytes` calls them. A failed `expect` and an unsupported relocation lead to
status `panic`. The field `imports` of `Elf` is written and never read, and is
left out. **`ElfFile`** adds `Write`: the offsets computed ahead, the headers,
symbols and strings with the places they are really written at, and the
assertions that compare the two. `SHN_LORESERVE` is a constant so that a run can
reach it.

**`Mach`** is `Mach::new`. `stage` says which of its loops runs: the partition of
the definitions (0), the default sections `__text`, `__data`, `__cstring` and
`__bss` (1 to 4), then custom sections, imports and links (5); `pos` counts the
items done. Each iteration is one step and does all that the loop body does:
`build_section` inserts a symbol, records the padding before the next definition
and raises the exponent of the section. `open` holds the locals of the build
function that runs. **`MachFile`** adds `Write`: the offsets announced in the
load commands, and the places where headers, contents, padding, symbols, names
and relocations are really written.

The reading operators of `ElfFile` and `MachFile` look at the file as a linker
does, by offset and index, and know nothing of the builder's tables.

**`Faerie`** composes them: `EmitElf` and `EmitMach` test for undefined symbols
and start the backend on the artifact as it is; the artifact is frozen until the
emission returns, and the client may go on building and emit again, in either
format.

The `MC` modules give the constants values. Operators marked `Mutant` are
changed versions of a definition that break a property; they belong to no
specification.

## What the runs check

| run | instance | shows |
|---|---|---|
| `artifact` | 2 names, 6 declarations, batches of 1, 2 links, blobs, zero-init and custom symbols | types, definitions never stale, links stay resolved, emission finds all ends, declarations only upgrade, `SymbolLife` is implemented |
| `artifact_calls` | 3 names up to symmetry, 3 declarations, 1 link, batches of 2 | imports list and declarations agree; a failing call, batch or not, leaves only declarations it accepted; those can be declared again without effect |
| `elf` | up to 3 of 6 definitions with 1 link, up to 2 with 2 links, 64 bits, `SHN_LORESERVE` = 5 | the file reads back to the artifact |
| `elf32` | up to 4 definitions: weak ones, custom symbols, empty data; all relocation kinds, 32 bits, `SHN_LORESERVE` = 6 | the same, and panics only on unsupported relocations |
| `mach` | a pool of 10 definitions, 64 bits: up to 2 with imports and a link of any kind, up to 2 with 2 links, up to 4 without links | the tables agree at every step, the file reads back to the artifact, panics only on what is unsupported |
| `faerie` | 2 names, 6 declarations (weak data and a debug section among them), 2 links of two kinds, repeated emission | every emitted file, ELF or Mach-O, shows the declarations and links as they are |

The bounds suffice for the interactions the code has: `declare`, `define` and
`link` relate at most two names; losing an import to `swap_remove` takes three;
a relocation section is created by a first link and extended by a second; the
index shifts of the ELF symbol table appear with one section and one import.
User sections have the indices 3 to 5 in `elf` and 3 to 6 in `elf32`; four more
sections are always there. So with `SHN_LORESERVE` at 5 and 6 a file may need no
`.symtab_shndx`, need it with no index to escape, or hold symbols whose index is
`SHN_XINDEX`, and the limit itself is one of the indices. A batch of two is
enough to fail after a pair that was accepted; what came before it may be any
call. In Mach-O an offset depends on all that precedes it, and four definitions
put two padded ones in one section and others behind it; the pool has section
names on both sides of the 16 bytes a section header holds. `MaxLinks` and
`MaxBatch` bound the artifact, `MaxAlignExponent` keeps alignments in TLC's
integers. `Emittable` is an assumption TLC evaluates on every artifact that the
ELF and Mach-O runs emit.

No run assumes fairness. What the code promises is safety: a call runs to its end
in the thread of its caller, over finite iterators, and waits for nobody.

A failing call is not undone. `declarations()` stops at the first pair that is
refused and keeps what it declared before, upgraded imports included, so that a
name may be left declared and undefined and the artifact refuse to emit
(`tests/artifact.rs:51` leaves `f` like that). `FailureLeavesOnlyDeclarations` says
that this is all: definitions, links and `defined` flags are those from before
the call, and a name has its old declaration or one the batch accepted for it,
never the refused one. Any other call leaves at most the import that
`declare_with` declared before `define` refused it. `RetryChangesNothing` says
that the client can recover: it may leave out the refused pair and pass the
batch again.

### Where the code and its documentation differ

Six runs are expected to fail, each on one statement of the repository:

| run | what happens |
|---|---|
| `elf_weak` | a weak definition is counted as local, so it lies below `sh_info` |
| `elf_bss_size` | zero-initialised data is emitted with size 0 |
| `elf_section_clash` | section `.text.f` beside function `f`: assertion after the code fails |
| `mach_weak` | a weak definition becomes a private symbol of the Mach-O file |
| `mach_link_origin` | a link from a string is filed as a relocation of `__data`, at the string's offset in `__cstring` |
| `mach_align` | the alignment of the first definition of a section does not reach the section |

Both backends have more departures of the same kinds, without a run of their
own. In ELF, the custom symbols of a section are local and not counted, so they
lie above `sh_info`; zero-initialised data also loses its alignment; a custom
section of mutable data is neither writable nor allocated; and of a custom
symbol `f` and a function `f` only one reaches the file. In Mach-O, a custom
symbol named like a definition is ignored, and a custom section named like a
default one takes its place and shifts the addresses and ordinals of the others.

The passing runs leave those inputs out where they matter. ELF: weak and custom
symbols only where `LocalsBelowShInfo` is not checked, no two definitions with
the same section or symbol name, and no artifact named `.strtab` or `.symtab`,
which `Elf::new` counts twice so that the assertion after the string table
fails. Mach-O: no sections under a default name, no custom symbols named like a
definition, no links but debug ones from strings or zero-initialised data, and
raw relocations only from the group under whose section they are filed.
Weak definitions are in the `faerie` run, where `NlistShowsDeclarations` says
nothing of their being external or private. `DefinitionsAligned` speaks of offsets within a section, `AlignmentKept` (only in
`mach_align`) of the alignment of the section itself.

## What is proved

**The artifact.** `ArtifactProofs` proves, for every set of names, declarations,
data, offsets and every bound, each invariant and action property of run
`artifact` and `ImportsListed`, and that the artifact implements `SymbolLife`;
`CallProofs` the two properties of whole calls. The assumptions
are those of `Artifact`: declarations are declarations, the empty symbol map is
allowed, bounds are natural numbers. Alignments are powers of two up to 2^30,
where the code allows any of a `u64`.

The inductive invariant is `TypeOK /\ ImportsListed /\ DefinitionsCurrent /\
LinksResolve`. The argument turns on `declare`: `Absorb` returns one of its two
arguments, never an import once there was a definition (`AbsorbFacts`), so a
defined name keeps its entry (`DeclareDefined`), a link's origin never becomes
an import (`DeclareLinks`), and the list changes exactly with the declaration
(`DeclareImports`, on `SwapRemoveFacts`). `define` adds the one definition whose
declaration is in force (`DefineStep`). `EmitFindsLinkEnds` is not inductive and
follows from the conjunction. `DeclarationsOnlyUpgrade` is proved one step at a
time from the invariant.

Calls need `CallInv`, which ties the history to the artifact: between calls
`before` is the artifact; during a batch definitions and links are those of
`before`, every name has the entry it had there or one that an accepted pair gave
it, and declaring an accepted pair again would change nothing. The last is
inductive because declarations only upgrade, and what adds nothing to an import
adds nothing to its upgrade either (`UpgradeKeepsRedundant`).

`ArtifactImplementsLife` needs the same invariant: the refinement mapping reads
imported from the imports list, declared from the declarations and defined from
the definitions, and the invariant makes the three agree, so that the phase of a
name can be read from its declarations entry alone (`LifeIsInEntry`). One lemma
per call then shows which phase that entry moves to.

`AbsorbIsAJoin` shows `absorb` idempotent, commutative and associative, errors
included.

**The Mach-O tables.** `MachProofs` proves `TablesAgree`, `SymbolsPlaced` and
`DefinitionsAligned` at every step of every emission, for every set of artifacts
that are `Emittable` (an assumption of `Emission`) and either container. The
theorems have two hypotheses: `NamesHaveLength`, that the length of a name is a
natural number, since the prover knows nothing of the characters of a string;
and `NoDefaultNames`, that no section is declared under the name of a default
one, without which `SymbolsPlaced` is false.

None of the three is inductive alone. `IInv` in `MachLemmas` adds what each loop
relies on. `GroupsInv`: the groups hold different definitions, each in the right
one, so that no insert of a section replaces another. `SectionsInv`: the sections
made are the default ones and then the custom ones, so that the ordinal given to
a symbol is the place of its section. `StageInv`: the definition that comes next
in the open section has been padded for, because `build_section` pads after each
definition for its successor; this is what makes alignment inductive, with
`PadToUnit` on the padding it computes and `MaxAligned` for the least alignment
of a section. `MachProofs` has one lemma per kind of step.

**The Mach-O file.** `MachLayout` proves `PanicsOnlyOnUnsupported` and `MachParts`
proves `PartsFit`, for the same artifacts, with one more hypothesis that is a fact
about four literal strings the prover cannot look into: `DefaultNamesShort`.
`MCMach` assumes the hypotheses of its artifacts, so that TLC evaluates them on
every Mach-O run (all but `NamesHaveLength`, which speaks of every name).

Both rest on `LayoutInv`, which adds to `IInv` what `write` uses of the builder.
`FilingInv`: every definition is in the group it belongs to, and `bss_size` is
the sum of those in memory alone. `SectionsMade`: a default section has the name
and flags of its place, a custom one the name, segment and size of its
definition. `PadsKnown`: padding is recorded only for definitions already laid
out. `OffsetInv`: the running offset is the end of the bytes `write` will put
there for what is laid out, and the section of zero-initialised data takes none.
`FileWritten`: the file is what `Write` makes of the final tables. With them
`AnnouncedIsActual` shows that the offsets announced in the load commands,
computed from counts, are those reached by writing; `SectionsEnd`, `RelocsEnd`
and `NamesEnd` are its three parts. `PartsFit` also needs that the relocations
counted section by section are those written, which is an induction over the
sections (`RelocationsCounted`).

Offsets are ends of runs of parts (`Ends` in `Layout`), a function defined by
recursion on a sequence's indices. What it computes for every sequence is proved
by induction, in `EmissionLemmas`: `Induction` states the principle for a set of
numbers, not for a predicate, and follows from the well-foundedness of the order
on the natural numbers.

**Only model-checked.** What a reader finds in a Mach-O file (`DefinitionsFound`,
`LinksFound`), all that is said of the ELF backend (`Elf`, `ElfFile`), the
composition (`Faerie`).

## Not modelled

- Byte encodings (goblin), endianness, header constants, logging and writing to
  disk. A part of a file is its place and its size.
- The panics for an architecture without an ELF machine number or a Mach-O CPU
  type: they depend on the target alone.
- The zero byte the Mach-O writer puts after the relocations, which no offset
  refers to.
- The debug assertion that a raw Mach-O relocation number fits in a byte: the
  numbers are names in the model.
- The packing of Mach-O symbol numbers into 24 bits and of addresses into 32,
  which the code does without a check; instances that reach it are out of TLC's
  range.
- `ArtifactBuilder` (setters for a name, a target and a flag nothing reads),
  `lib.rs` (re-exports) and the examples (clients whose calls are behaviours of
  `Artifact`).
