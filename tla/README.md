# Portable Systems Lisp: verification project

This directory holds TLA+ models of Portable Systems Lisp (PSL): of its hosted
runtime in C (`runtime/`), of the native compiler written in PSL itself
(`bootstrap/`) and, where the two have to agree, of the Stage 0 compiler in Common
Lisp (`src/`). The models are checked with TLC on small instances. Every invariant
and every action property that the passing runs check is also proved with TLAPS for every
value of the constants; the four liveness properties are model-checked, and what bounds
the number of steps in them is proved.

`PROJECT.json` is the index: components, runs, mutants, the correspondence between
definitions and source lines, findings, hazards and theorems.

    tlc -workers 2 -config MCCollector_objects.cfg MCCollector   # one run
    tlapm Collector_proofs.tla                                   # one proof module

## 1. The system

PSL is a statically typed systems Lisp. A source unit goes through the following parts.

| Part | State | Operations | Talks to |
|---|---|---|---|
| Source loader (`bootstrap/host/source_*`) | list of canonical paths with an *active* flag, stack of frames, assembled bytes, list of C paths | load a file, splice an include, add an FFI source, release | file system; reader |
| Compiler controller (`bootstrap/host/compiler*.lisp`, `driver.lisp`, storage files) | compiler state, five groups of arenas, IR capture buffer, error codes of the last attempt | load, prepare, compile, grow and start over, publish, flush, release | loader, unit pipeline, publication |
| Compile-time environment (`bootstrap/frontend/environment`) | tables of packages, symbols, presence and use records, nicknames, names; hash chains; current package; latched error | 12 package and symbol operations, token reading | reader, package forms, macros |
| Package forms (`bootstrap/frontend/package_form*.lisp`) | the form being applied, its package | validate a `defpackage`, apply its seven phases, select a package | environment, reader |
| Macros, parser, typed analysis, effects | trees and registries in fixed arenas | one pass each over the forms of a unit | environment, runtime heap (macro values) |
| Root lowering (`bootstrap/ir/root_*.lisp`, `backend/*roots.lisp`) | the instruction array of a function, its root count; at run time the shadow words of a stack frame | count, expand in place, verify; initialise, push, publish, pop | LIR, backends, runtime heap |
| HIR, SSA, LIR, backends, object writers | arrays of nodes and instructions | passes over one function at a time | each other in sequence |
| Publication (`bootstrap/host/platform_toolchain.c`, `output.lisp`) | private directories, staged files, the output path | compile C inputs, merge, link, rename, clean up | C tools, file system, other compilers |
| Runtime module selection (`driver.lisp`, `compiler_link.lisp`, `toolchain.lisp`) | a mask of modules | collect, scan, close, compile | publication |
| Runtime (`runtime/*.c`) | object list, root frames, permanent roots, handles, collection limit | constructors, stores, handles, two kinds of collection | generated code |

What is hard here. The runtime is single threaded, but a collection can happen inside
any constructor: a value in a C local is stale afterwards unless it is rooted. The
loader and the controller own dozens of blocks and may fail between any two of them;
the controller starts a compilation over, keeping some blocks and replacing others.
Several compilers may publish at one path, and may be killed at any step. The
environment refuses changes that would make a name ambiguous by local checks whose
combination nobody tests. A `defpackage` form runs up to seven kinds of these operations in a fixed
order and stops without undoing anything. Several tables of the runtime's modules are
kept in step by hand. Generated code keeps managed words where the collector can see
them only because a pass that rewrites its own array put the right operation in front
of every call.

What makes each part correct.

- *Runtime heap*: nothing reachable is freed, nothing else survives, no handle token
  comes back, a collection and a constructor end, the collector's own array suffices; a
  vector that grows loses no item, a text is interned once in a package, a fixnum comes
  back as the number it was made from.
- *Loader*: accepts exactly the well-formed include graphs, splices every file once and
  in source order, loses no block whatever fails, terminates on cycles.
- *Controller*: the exit status tells the truth about artifact and IR text; everything is
  released once; a retry always has more room, is enough when enough exists, and its sizes
  do not wrap around.
- *Publication*: the output path holds a complete artifact at all times, no temporary
  file survives a return, the status is truthful.
- *Module selection*: no undefined symbol; agreement with Stage 0 up to differences that
  are known and listed.
- *Environment*: no name becomes ambiguous, index and lists agree, homes hold the
  symbols, tables are never overrun.
- *Package forms*: a form that succeeds did all it says, the order of its options does
  not matter, other packages are left alone whatever fails.
- *Root lowering*: the expansion loses no instruction, the verifier agrees with the pass,
  and every managed word is registered whenever something may collect.
- *Not yet modelled*: see sections 6 and 7.

The component list with the state of each part is in `PROJECT.json`; so is the list of
hazards, each at the line where it bites, with the properties that cover it.

## 2. Modules

| Module | Models | Lines mapped to |
|---|---|---|
| `HeapGraph` | values, objects, traced words, reachability (pure) | `runtime/gc.c`, `psl_runtime.h` |
| `Collector` | the runtime heap, step by step | `runtime/gc.c`, `cons.c`, `string.c`, `symbol.c`, `package.c`, `closure.c`, `vector.c`, `values.c` |
| `Values` | fixnum words (pure) | `runtime/value.c` |
| `ManagedHeap` | what a program may rely on (abstract specification) | implemented by `Collector` |
| `SourceUnit` | the loader | `bootstrap/host/source_*.lisp` |
| `CompilerController` | one run of the compiler | `bootstrap/host/compiler*.lisp`, `driver*.lisp`, `storage*.lisp` |
| `Publication` | processes publishing at one path | `platform_toolchain.c`, `output.lisp` |
| `RuntimeLink` | module selection, natively and in Stage 0 | `driver.lisp`, `runtime_signatures.lisp`, `compiler_link.lisp`, `platform_toolchain.c`, `src/ffi/toolchain.lisp`, the functions of `runtime/*.c` |
| `Environment` | packages and symbols of a compilation | `bootstrap/frontend/environment/*.lisp` |
| `PackageForms` | the package forms of a unit between its tokens; extends `Environment` | `package_form*.lisp`, `source_reader.lisp` |
| `RootLowering` | the pass, its verifier and the frame of the emitted function | `ir/root_*.lisp`, `backend/root_frame.lisp`, `backend/x86_roots.lisp` |
| `Collector_proofs` (with `Values`), `SourceUnit_proofs`, `CompilerController_proofs`, `Publication_proofs`, `Environment_proofs`, `PackageForms_proofs`, `RootLowering_proofs`, `RuntimeLink_proofs` | theorems | |
| `MC...` | small instances for TLC | |

Definitions named `Mutant...`, or after another one with a suffix such as
`Compute_unpublished`, are not part of a model. Each is a plausible mistake in the
definition that follows it; with it in place TLC finds the property named in
`PROJECT.json` violated, which shows that the property depends on that code.

### Collector

`objects` is the object list as a set, `obj` the memory, `frames` the chain of
`psl_root` records, `permanent` the roots of `values.c`, `handles`/`nextHandle` the value
handles, `stack` the C stack words that only a conservative scan sees, `limit` is
`collection_limit`. `phase` says where the runtime is: in the program, in
`allocate_object`, marking the registered roots, the stack or the work array, or about
to create the object; `request` is the suspended constructor with the words of its own
root frame. One action is one call of `mark_value`, one iteration of the loop over
the work array, the sweep, or one call of the mutator. `relied` records whether the
program may still rely on unregistered stack words: a precise collection, or the use of
a `_precise` constructor, ends that. A word of the stack may keep the bits of a freed
object whose address is used again; `Held` restricts what the program may *use* to its
roots and what one accessor call reads from a root (of a vector only the items up to its
length); repeated accessor calls reach the rest. That is the contract of `psl_runtime.h`.

A vector is a header whose slot is its storage and whose `data` is its length. A push
into a full storage suspends the vector's push (`request.kind = "grow"`) with vector and
item in the root frame of `grow_vector` and the old storage in `local`, a C local that no
collection sees; `NewGrown` copies from it afterwards. A string has a text that
`psl_rt_string_set_byte` may change. `MustAllocate` is the walk of `intern_symbol` along
the chain of a package, before the allocation that may collect; `NewInterned` puts the
symbol at the head of the chain.

Abstractions: a fixnum, NIL, T and the zero word are immediates; the text of a string is
a number; a batch of roots is marked in any order (the code walks lists, and only the
order in the work array depends on it).

### ManagedHeap

Three actions: the program moves values among what it can reach (`Use`), an object
appears (`Allocate`), some objects disappear provided the rest is closed and contains
what the roots denote (`Collect`). Phases, marking, thresholds and handles are invisible.

### SourceUnit

The recursion of `source_load_file` is an explicit stack. Files, spellings and
`realpath` are constants, so that two spellings and a link may denote one file. Every
allocation and read may fail for texts that are not `Reliable`; `live` is the set of
blocks not yet freed and `faulty` a double free or a lost block. Byte sizes and the
reader's classification of a form are abstracted.

### CompilerController

`native_compile_unit` is one step: a function of the unit and of the room it gets (arena
capacity, capture buffer). A unit is its length, the capacity its macros need, the length
of its IR text after each function, and the function that does not compile. Integers have
the width `Bits`; growth arithmetic is modelled with its overflow guards. Each of the
five storage groups is represented by two arrays so that a group can fail half-way.

### Publication

What a mode of publication does is a sequence of steps (`Steps`), as the C functions are
sequences of calls with `goto cleanup`; each step may fail, each process may be killed.
An inode has two halves, so that a reader can find a file half old and half new when it
is written in place; a file renamed into place has the parts it was put together from.
`held` records which processes have had their complete artifact at the output path: after
the second half of a write in place only if the first is still their own.

### RuntimeLink

A mask is a number and `MaskUnion` is the subtraction and addition of the code. The
operation `bits-and` is the compiler's own and is stated through the sets of modules that
its operands select (`ModulesOf`, `MaskOf`), which is exact as long as one of them has no
bit beyond the eleven modules; every constant mask of the tables is one of those.

A unit refers to the runtime in four ways: its code calls some of the 28 functions of the
compiler's catalogue (`used`), it imports runtime functions by name (`imports`), and its C
sources and link inputs have undefined symbols (`sources`, `inputs`). `ValueFile` ...
`VectorFile` say what each C file of the runtime defines and calls in others. The masks
per function, the rows of `runtime_symbol_module`, the dependency rows of
`compiler_link.lisp`, and the symbol table and the dependency edges of Stage 0 are five
tables, transcribed one by one. `Stage0Modules` and `Stage0Fails` are what Stage 0
does with the same references.

### Environment

Packages, symbols and presence records are table indices as in the code. Lists and
hash chains are sets: a new record goes to the front and removal keeps the order, so
both are ordered by decreasing index and the front is the largest. `Candidates` follows
the code in searching the chain when there is an index and the list when there is none.
An operation that finds nothing to do is a stuttering step. Every error code is kept.
`Reading`, `Defining` and `Withdrawing` group the operations by who calls them: the
reader and `in-package`, `defpackage`, and clients of the component only.
The six standard packages are cut down to a sequence of two or more (the first is CL,
the last the source package, one in between may be KEYWORD), the catalogue to the names
in `SeedNames`.

### PackageForms

A form is its name and its options, an option its kind and its designators. `Define` is
`native_package_define` up to the phases: validation of the whole form, then the new
package. `todo` is what is left of the form; `Apply` takes the earliest argument (by
phase, then as written) and runs the operation of `Environment` that the code calls for
it. Tokens are read between forms only. The first failure ends the unit: the stage
becomes "failed" and nothing is undone. A designator that is a string is decoded into the
name table whenever the code looks at it, so a form of strings can fail for room where one
of symbols does not.
`decoded` remembers, between the intern and the export of one `:export` argument, that it
has been decoded.

### RootLowering

`code` is the instruction array with its free part. One action is one turn of the loop
of `native_root_expand_function`. An instruction keeps its kind, destination and targets;
everything that computes a word is "value". After `Verify` the emitted function is
executed: its stack frame is an array of words in the layout of the x86 backend (locals,
shadow words and the four-word header, at their slots; on Windows the control is the same
but the shadow words ascend above a header that lies behind a scratch word, with one slot
more, `win64_roots.lisp`), labels and "sync" are no machine
code. Words are numbers, distinct for each register and argument. Callees are external
and either collect or not, as `hir_call_allocation_free_p` says. `BodyValid` is what
`lir_verify_function` makes sure of in the body: results go to registers of the catalogue,
labels are bound once, targets are bound, every block ends with its only terminator. Not
modelled of it: the operands and types of ordinary instructions, and that every block is
reached and every register defined.

## 3. Runs

Twelve runs, ten that pass and two that show a disagreement between code and docs.

| Run | Instance | Shows |
|---|---|---|
| `collector_objects` | 3 addresses, lists, closures and vectors of up to 2 items, 1 frame, 1 stack word, limit 2 | conservative and precise collections at every allocation: `WorkFits`, `CountWithinLimit`, `SweepIsExact`, refinement of `ManagedHeap`; vectors are complete and lose nothing when they grow (`VectorsComplete`, `ItemsPreserved`) |
| `collector_services` | 2 addresses, 2 handle tokens, vectors of one item (which may be the vector itself), weak fairness | handles opened, closed and reopened, permanent roots, both kinds of explicit collection: `NoDangling`, tokens are never reused, up to the last one; collections and constructors end, on cyclic heaps too |
| `collector_symbols` | 5 addresses, 2 texts, limit 5 | strings whose text changes, packages, interning: the chain of a package holds exactly its symbols, no text is interned twice |
| `loader` | all file systems of 3 sources with up to 2 forms that include each other (reliable), all of 2 sources with every form, with faults | acceptance, splicing, order, ownership, termination |
| `loader_null_result` | 2 sources with 1 form, with faults | *violation*, section 5 |
| `controller` | 6-bit sizes, units of up to 3 functions at every interesting length, with and without faults | exit status, ownership, growth within the size type, termination |
| `publication` | 2 processes, every mode, 1 C source, 1 runtime module, kills | completeness of the output, status, residue, order of map and artifact, stability of open files |
| `runtime_link` | up to 2 references among the calls, the explicit imports, the C sources and the link inputs of a unit, over all functions of the runtime, an unknown symbol and an unreadable file | no undefined symbol, agreement with Stage 0 |
| `environment_visibility` | 3 packages, 3 names of which 2 collide in an index of 2 chains, 2 symbols, 2 presence records, 2 uses | operations and reads of interned symbols in every order: ambiguity, homes, index, stability of meanings |
| `package_forms` | KEYWORD, 3 standard and 2 defined packages, name table of 9 bytes, no index; forms with every pair of options and some of three in every order, and one that uses KEYWORD and another package | tokens, `in-package` and `defpackage` until tables are full: what a form promises, order of options, other packages |
| `environment_keyword` | KEYWORD, 4 packages, indexed | *violation*, section 5 |
| `root_lowering` | all functions of one or two blocks with up to two operations over 2 registers and 2 parameters, 4 to 6 free instructions | expansion, verifier, and the words registered at every call |

Why the bounds are enough. A collection that loses or keeps an object wrongly needs a
root, an object and a child of it; with three addresses an object can be freed and its
address used again while both others live, and a limit of 2 makes the third allocation
collect. A loader fault shows with one include inside another, and two spellings. The
controller needs two rounds of each kind of growth and lengths on both sides of every
guard; 6 bits give both. Two processes suffice for races at one path because a third
can only repeat what either does. An ambiguous name needs one name, two symbols, three
packages and a package that uses the two others; a chain that holds a record too many or
too few needs two names in it, and one in another chain. Reading an uninterned token, which
touches no list, is left to `package_forms`. A wrong row of a table shows with one
reference, a wrong union of masks with two. An interned symbol needs a package, two strings, a symbol and
room to collect one and make another. Interactions of `defpackage` phases are pairwise,
except that an export needs a symbol that another option brings; the run has all pairs and
those triples. A move of the expansion can only overwrite what is at most two places per
widened instruction away: functions with none to four widened instructions have each
distance; a loop back and a branch are the ways a path can miss a publication.

Deadlock is checked in `environment_visibility`: some operation can always be tried.
Elsewhere it is off: a compiler run ends, a program may stop or have used all its
addresses, the collection of a source ends with its first error, an emitted function
returns.

### Fairness

`FairSpec` of `Collector` assumes weak fairness of the collector's own steps only: the
runtime is single threaded and the mutator is suspended inside it. The program owes
nothing. `FairSpec` of `SourceUnit` and `CompilerController` assumes that the sequential
process goes on while it can; each library call it makes returns, with or without
success. `Publication`, `RuntimeLink`, `Environment`, `PackageForms` and `RootLowering` are checked
for safety only.

## 4. Proofs

Each component has one assumption on its constants (`HeapAssumption`,
`CollectorAssumption`, `SourceUnitAssumption`, `ControllerAssumption`,
`PublicationAssumption`, `EnvironmentAssumption`, `FormsAssumption`,
`RootLoweringAssumption`, `RuntimeLinkAssumption`), and TLC evaluates it in every run of the module. They give the
constants their types and otherwise say what the code establishes: the address set is
finite and the two thresholds of the collector are ordered; `SizeMax` is the largest
number of `Bits` bits; the spelling of an include form joined to its file is a path, which
may lead nowhere, and a file has at most `MaxForms` forms, any number; the tables hold the
standard packages; functions to lower begin with the entry label, hold no root operation
and pass the verifier's checks of their body. The inductive invariants `Inductive` (and
`FrameInductive`, `MarkedReached`, `WalkHolds`, `ChainsListed`) are defined in the modules
of the components (that of `RuntimeLink` in its proof module), so that TLC can evaluate
them; they were checked on the instances of section 3 before they were proved, and so were
the variants.

**The heap** (`Collector_proofs`), for any number of objects, frames, stack
words and any thresholds:

- `TypeCorrect`, `LimitRespected`, `WorkArraySuffices`, `StaleTokensStayStale`;
- `VectorsHaveRoom` and `GrowthKeepsItems`: what the runs check of vectors;
- `CollectorImplementsManagedHeap`: `Spec => Heap!Spec` with the roots mapped to the
  registered words, and the stack words as long as the program relies on them;
- `Safety` (what `ManagedHeap` promises is enough for memory safety) and from both
  `NothingDangles`;
- `CollectionIsExact`: a sweep frees exactly what the scanned roots do not reach;
- `InternsOnce` and `WalksAreExact`: the walk of `intern_symbol` finds exactly the symbols
  of its package, and its answer is still true when the symbol is made.

The inductive invariant is `TypeOK /\ RequestOK /\ MarkingOK /\ CountWithinLimit /\
VectorsComplete`. `NoDangling` is not inductive: that a sweep frees nothing reachable
depends on how far marking has come. `MarkingOK` is the tricolour argument: the work array
lists the marked objects once each, which bounds it by the object count taken at the
start; the words of scanned objects denote marked or pending objects, so that the marked
set is closed when nothing is pending. `RequestOK` says that what a constructor checked
before it allocated is still true afterwards, since its own frame roots it. For a vector
that grows it also says that the storage in the C local is still the vector's, which keeps
it alive; from this `GrowthKeepsItems` follows. Marking steps are stutters of
`ManagedHeap`; the sweep is its `Collect`. Safety is then proved once, on the abstract
heap, in a few lines.

The other direction, that nothing unreachable survives, needs `MarkedReached`: what is
marked or pending is reachable from the roots that are scanned, which do not change while
the mutator is suspended. For symbols two more invariants are added to these. `WalkHolds`
says that while `intern_symbol` allocates, its name is a live string and the package has
no symbol of that text: the collector changes no text and no package, and the program does
not run. `ChainsListed` says that the symbols of a package can be numbered so that each
links to the next, which turns "the walk along links finds all" into a statement about an
enumeration, without induction over the chain; a sweep keeps it because a live package
keeps its whole chain (`NoDangling`).

**Fixnums** (`Values`, proved in `Collector_proofs`), for any word width:
`FixnumRoundTrip` and `FixnumOnto`.

**The loader** (`SourceUnit_proofs`), for any file system, include graph and point of
failure: `UnitsAreAccepted`, `FormsAreSplicedOnce`, `SpliceKeepsOrder`,
`BlocksAreAccounted`. The invariant describes the loader half-way. `StackOK`: the frames
are a chain of includes of different, active files from the root to the current one, so
that a file found active is on a cycle. `LoadedOK`: as long as nothing has failed, the
finished files are closed under includes and free of cycles, so that what is finished at
the end is everything the root reaches. `SplicedOK`: the output holds exactly the forms
passed so far (`Passed`: all of a finished file, and of a file on the stack those before
its next one), each once, and every two of them in source order. `RejectedOK`: a failure
without a fault has its reason in the unit. What is allocated is a function of these parts
(`Owned`), so that ownership is proved for each step by what it adds and removes.

**The controller** (`CompilerController_proofs`), for any unit, any size type and any
failure: `StatusIsTrue`, `OwnershipIsExact`, `RetriesMakeProgress`, `GrowthIsComplete`.
`BlocksOK` says what the run owns in each phase; `RetryOK` that every room tried before is
smaller than the current one in one of its two sizes and larger in neither; `GrowthOK`
that the arena capacity is a doubling of the first one and that no smaller doubling was
enough. The last is why a guard that fails to double further means that no capacity would
do, which is the hard direction of `GrowthSuffices`.

**Publication** (`Publication_proofs`), for any number of processes, C sources and runtime
modules, with kills and failures at every step: `OutputIsComplete`, `AnswersAreTrue`,
`CleanupIsComplete`, `MapComesFirst`, `RenamingReplaces`. The steps of each mode are
computed from the job, so the proof first describes where in the sequence each kind of
step stands. `ResidueOK` says that whatever a running process has left is what its next
cleanup removes; `FilesOK` that a file produced and not yet removed holds what it was
produced from; `HeldOK` that the artifact of a process has been at the output path exactly
when it has passed its rename, and that nobody has the file open before; `StreamOK` that a
process that writes in place writes to the file at the output path, and the half it has
written is its own, unless another one has renamed over it or opened it too
(`Disturbed`).

**The environment** (`Environment_proofs`), for any number of packages, symbols, names,
records and hash chains, and for the complete next-state relation including reading,
package creation and error recovery:

- `TypeCorrect`: no table is overrun and no stored reference is unused;
- `IndexCorrect`, `HomesHold`, `NamesCoherent`;
- `AddingStable`: a step that withdraws nothing and adds no shadowing record changes no
  meaning.

The inductive invariant is `TypeOK /\ IndexAgrees /\ Exclusive /\ HomeHolds /\ Coherent`.
`Coherent` alone is not inductive: it speaks of records, the guards of what lookups find.
`IndexAgrees` makes a lookup find the one record of a name (lemmas `Found`,
`InheritedSymbols`, `CandidateSees`); `Exclusive` makes a change to one record a change to
one package; the bounds of `TypeOK` make the lists of a package not yet created empty. The
proof names four changes of the records (added, replaced, removed, uses changed), proves
once for each that it preserves the parts of the invariant under the condition the code
checks, and shows of every operation that it makes one of these changes. `Coherent` leaves
KEYWORD aside, because with it the statement is false (section 5). For `AddingStable`,
`Means` says in terms of records what a lookup answers. A step that only adds keeps the
record that gave the answer, and what joins it agrees with it since `Coherent` holds after
the step too. `Orderly` is what this needs to know of a step: symbols keep their names, at
most one record is new, and a package that comes to use another one has looked at all it
exports (`UseExportsValid`).

**Package forms** (`PackageForms_proofs`), for any forms: `FormsAreOperations` shows that
every step of a unit's source is a step of `Environment` or leaves it alone, so that
`FormSpec` implements `Environment!Spec` and inherits its invariant, also when a form
fails in the middle of any phase; `FormsTypeCorrect` and `FormsCoherent` follow, the
latter, as `Coherent` itself, with what is inherited from KEYWORD left aside. Three
more theorems are about what a form promises, and rest on `FormInvariant`.

- `FormsLeaveOthersAlone`. Every operation a form calls is `Local` to its package, and
  nobody uses that package while the form is applied (`Unused`), so no meaning elsewhere
  can depend on it.
- `FormsAreHonoured`. `Held` says what is true when the arguments `T` are left: each
  argument taken is still honoured (`Kept`), every record of the package has its reason in
  the form (`Provenance`: a record that shadows was asked for, one that does not came
  after the phases for shadowing and use), and every package used is named by the form.
  Neither part is inductive alone: an import could replace what `:shadow` made if
  validation did not keep their names apart (`WellFormed`), and the phases come in an
  order (`Before`) in which none undoes an earlier one. Only a shadowing import can
  replace the symbol of an earlier one (`Overridden`).
- `ConflictsAreReal`. From `Provenance`, what the package sees under a name when an
  operation is refused was asked for by this form. The proof of an earlier version of
  `ConflictIsReal` failed for one case: a form that imports from a package in which the
  name is already ambiguous through KEYWORD (section 5) meets that conflict without asking
  for two symbols itself. The property now names this case (`Ambiguous`), and the run
  `package_forms` has a form that makes it happen.

**Root lowering** (`RootLowering_proofs`), for any function, any number of registers and
any room: `LoweringInvariant`, and from it `ExpansionLosesNothing` and
`VerifierAgreesWithPass`. `Place(i)` is where instruction `i` belongs; the argument is
that `Place` grows faster than the index, so that a move never reaches an instruction that
is still to be moved, and that the target of the loop is `Place(cursor)`, so that it ends
at 3 exactly. `Inductive` adds to the two properties that what has been moved leaves no
holes (`Filled`), which the verifier needs for the instructions *between* those it names,
and that the catalogue counted before the loop is the one counted after it.
`FrameInvariant` goes on with the emitted function: `RunOK` says from which instruction on
the shadow words equal the registers they stand for and the header describes them, and
that the frame is registered until a return is next. A result is stored in its register
and its shadow in one operation; the argument about paths is that every transfer of
control ends behind the three instructions that set the frame up and never between a "pop"
and its return (`BodyValid`, and the canonical places that the verifier demands).
`PathsHoldRoots` is `RootsHeld`, for every path.

**Module selection** (`RuntimeLink_proofs`), for any number of references:
`NothingUndefined`, `LinksAsStage0`. The masks are turned into sets first. `ModulesOf`
undoes `MaskOf` (`ModulesOfMask`), and then `MaskUnion` is the
union, `BitsAnd` the intersection and a row of `native_runtime_link_dependencies` adds
what one module leads to. `Reach` is, for every module, the set it leads to; the lemmas say
that it agrees with the masks per function, the rows of `compiler_link.lisp`, the edges
of Stage 0 and the calls of the C files; the two symbol tables are compared with what the
files define (`Rows`, `SignatureRows`). `ClosureIsLeast`
shows of the loop of Stage 0 that eleven rounds reach the least closed set. `Inductive`
says for every phase which set of modules the mask stands for; both properties follow at
the end, because `ReachOf` of what is referenced is closed and least.

**Variants**. Three components have to come to an end. That they do needs fairness; that
there are only so many steps they can take does not, and is proved:

- `ServicesAreBounded` (`Collector_proofs`): inside a constructor or a collection every
  step lowers, in lexicographic order, the objects still to make (two for a vector), the
  part of the allocation that runs, the live objects not yet scanned and the words left in
  the batch. The third is a natural number because the work array lists each object once
  (`MarkingOK`); the mutator takes no step inside a service.
- `LoadsAreBounded` (`SourceUnit_proofs`): a step of the loader lists a file, passes a
  form, leaves a frame or comes closer to the answer about an include, and listed files and
  passed forms stay so. Both are bounded by the file system (`WithinUnit`), so that a cycle
  of includes cannot keep it going.
- `RunsAreBounded` (`CompilerController_proofs`): a step of a run comes closer to the end
  of its attempt, or takes some of what arenas and capture buffer can still grow by. The
  sizes are bounded by the size type, since no growth wraps around.

**Only model-checked**. Liveness itself (`CollectionEnds`, `ConstructorEnds`,
`Terminates`, `Ends`): fairness and ENABLED are beyond the prover, and so is the induction
along a variant; the theorems above are what remains of these properties without them. The
two violations of section 5 need no proof.

## 5. Findings

- `loader_null_result`. `docs/core.md:590-592` says that errors return null and release
  everything. If the very last allocation fails (one byte for a unit without forms), the
  result is null but the C path list is handed to the caller. The controller releases
  it; another caller might not.
- `environment_keyword`. `docs/core.md:768` says that visibility conflicts are checked
  before graph changes are committed. A symbol interned in KEYWORD is external at once
  and no package that uses KEYWORD is looked at, so that a name may become ambiguous
  there; the next lookup fails with error 3.

Observed while reading, and not checked as findings:

- A lone object is written in place and can be torn (`OutputComplete` excepts this mode).
  If a second compiler opens the same file meanwhile, the first answers success over a
  torn or replaced object; `StatusTruthful` names exactly this exception.
- The link map is replaced before the artifact, and output and map paths are compared as
  text.
- `psl_rt_live_value_handles` has a row in `runtime_symbol_module` and none in the table of
  Stage 0, which refuses it in a link input and ignores it in a C source.
- An unknown `psl_rt_` symbol in a C source of the unit ends a native link; Stage 0 ignores
  it there and refuses it only in a link input.
- `docs/runtime.md:100-102` says of the linker that it recognizes known runtime imports in
  the PSL object itself. Stage 0 does; the native link reads only the C inputs, so a
  function that a unit imports by name is linked only if something else selects its
  module, and a hosted unit that imports one of the 28 names of the catalogue is refused.
  `NoUndefined` and `AgreesWithStage0` except these imports.

## 6. Not modelled

`PROJECT.json` lists every component with its reason. In short: diagnostics, examples
and linker scripts are I/O or data; float literals need wide arithmetic; instruction
encodings are tables. The compiler's passes between parser and object writer are
sequential functions and come later in the plan, as operators checked against a
reference definition rather than as state machines. The Windows host's linking is a stub.

## 7. Plan

In order of importance; finished items first.

1. *Done*: `HeapGraph`, `Collector` with vectors, strings and interning, `ManagedHeap` with
   refinement and proofs; `Values`; `SourceUnit`; `CompilerController`; `Publication`;
   `RuntimeLink`; `Environment` with proofs; `PackageForms` and `RootLowering` with proofs.
2. *Done*: proofs of the loader, the controller, publication, the rest of the collector,
   `AddingStable`, what package forms promise, and `RootsHeld`; module selection, and the
   variants of the collector, the loader and the controller.
3. *Macros*: registry, argument binding, expansion with rollback of the node arenas.
4. *Paths in publication*: output and map path as spellings of files.
5. *Unit pipeline*: effects fixpoint, closure captures, SSA folding, liveness,
   compaction, inlining, PHI edge copies and branch fixups as operators against
   reference meanings, in one run.
6. *Arithmetic*: capacities of loader, storage and output; layouts of records; ELF and
   COFF section layout.
