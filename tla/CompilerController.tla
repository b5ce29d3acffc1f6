------------------------- MODULE CompilerController -------------------------
(***************************************************************************)
(* bootstrap/host/compiler.lisp, compiler_ir.lisp, driver.lisp and the     *)
(* storage files: one run of the native compiler, from the allocation of   *)
(* its state to the release of everything it owns.  A unit that outgrows   *)
(* its arenas or its IR capture buffer is compiled again from the same     *)
(* source bytes with more room.  native_compile_unit is one step, a        *)
(* function of the unit and of the room it gets.                           *)
(***************************************************************************)
EXTENDS Naturals, Sequences

CONSTANTS
    SizeMax, Bits,  \* the largest usize and its width
    Units,       \* the units examined, see IsUnit
    Catalogue,   \* native_runtime_catalogue_minimum_capacity, or 0
    DumpFactor, DumpBase,    \* 64 and 4096 of compiler_ir_buffer_capacity
    CountFactor, CountBase   \* 80 and 1049600 of native_output_counts_fit

\* A source unit: its length, the arena capacity its macros need, the length of
\* the IR text after each function, and the function that does not compile (one
\* past the last: the object cannot be written; 0: none).  With faults, allocations,
\* files and tools may fail while it is compiled.
IsUnit(u) ==
    /\ u.length \in 0..SizeMax /\ u.need \in Nat
    /\ u.ends \in Seq(0..SizeMax)
    /\ \A i, j \in 1..Len(u.ends) : i <= j => u.ends[i] <= u.ends[j]
    /\ u.bad \in 0..(Len(u.ends) + 1)
    /\ u.faults \in BOOLEAN

\* A size and what doubling it makes of it, up to Bits times.
Doubled(size) == LET d[n \in 0..Bits] == IF n = 0 THEN size ELSE 2 * d[n - 1] IN d

ASSUME ControllerAssumption ==
    /\ SizeMax \in Nat /\ Bits \in Nat /\ SizeMax + 1 = Doubled(1)[Bits]
    /\ Catalogue \in 0..SizeMax
    /\ DumpFactor \in Nat \ {0} /\ DumpBase \in 1..SizeMax
    /\ CountFactor \in Nat \ {0} /\ CountBase \in Nat \ {0}
    /\ \A u \in Units : IsUnit(u)

VARIABLES
    unit,       \* what the source file says
    options,    \* cli: started by native_compiler_main, else by a
                \* native_run_compiler function; help: only help is asked for;
                \* dump: --dump-ir was given; direct: an object without C
                \* sources is asked for
    phase,
    live,       \* blocks and handles the run has allocated
    faulty,     \* one was freed twice, overwritten or used after its release, or
                \* a unit was compiled in records left over from an attempt
    capacity,   \* state.driver_capacity
    dumpcap,    \* state.ir_output.capacity
    captured,   \* state.ir_output.length
    required,   \* state.ir_dump.required
    dumpError,  \* state.ir_dump.error
    macroError, \* driver.context.macro_call.error
    artifact,   \* what the output path holds: "old", "new" or "torn"
    printed,    \* length of the IR text written to stdout, or NoText
    fresh,      \* the records of the driver are as initialization leaves them
    tried,      \* history: the rooms given to native_compile_unit
    exit        \* the value native_compiler_main returns

vars == <<unit, options, phase, live, faulty, capacity, dumpcap, captured,
          required, dumpError, macroError, artifact, printed, fresh, tried, exit>>

-----------------------------------------------------------------------------
(* Storage of the driver: five groups, each allocated as a whole and then  *)
(* checked; two arrays stand for the arrays of a group, and the macros are *)
(* kept alive by two handles of the managed runtime.                       *)

Frontend == {<<"frontend", 1>>, <<"frontend", 2>>}
Ir == {<<"ir", 1>>, <<"ir", 2>>}
Output == {<<"output", 1>>, <<"output", 2>>}
Environment == {<<"environment", 1>>, <<"environment", 2>>}
Macros == {<<"definition_handle", 1>>, <<"binding_handle", 2>>}

\* In the order of allocation.
Groups == <<Frontend, Ir, Output, Environment, Macros>>
Driver == Frontend \cup Ir \cup Output \cup Environment \cup Macros
Upto(g) == UNION {Groups[i] : i \in 1..(g - 1)}

State == <<"state", 0>>
Inputs == <<"inputs", 0>>
Source == <<"source", 0>>
CPaths == <<"c_sources", 0>>
Dump == <<"dump", 0>>
NoText == SizeMax + 1

Allocate(S) ==
    /\ live' = live \cup S
    /\ faulty' = (faulty \/ S \cap live # {})
KeepBlocks == UNCHANGED <<live, faulty>>

Goto(p) == phase' = p
\* A return from compiler_load_and_prepare with its status.
Fail(status) == phase' = "release" /\ exit' = status

Init ==
    /\ unit \in Units
    /\ options \in {o \in [cli : BOOLEAN, help : BOOLEAN, dump : BOOLEAN,
                           direct : BOOLEAN] : o.help \/ o.dump => o.cli}
    /\ phase = "start" /\ live = {} /\ faulty = FALSE
    /\ capacity = 0 /\ dumpcap = 0 /\ captured = 0 /\ required = 0
    /\ dumpError = 0 /\ macroError = 0
    /\ artifact = "old" /\ printed = NoText
    /\ fresh = FALSE /\ tried = {} /\ exit = 0

-----------------------------------------------------------------------------
(* native_compiler_main: the state and the table of link inputs; --help or *)
(* a command line that does not parse ends the run here.                   *)
(* native_run_compiler_profile has no link inputs and checks its arguments.*)

Base == IF options.cli THEN {State, Inputs} ELSE {State}

Start ==
    /\ phase = "start"
    /\ \/ ~ options.help /\ Goto("load") /\ Allocate(Base) /\ UNCHANGED exit
       \/ options.help /\ Goto("done") /\ KeepBlocks /\ UNCHANGED exit
       \/ unit.faults /\ Goto("done") /\ exit' \in {1, 2} /\ KeepBlocks
    /\ UNCHANGED <<unit, options, capacity, dumpcap, captured, required,
                   dumpError, macroError, artifact, printed, fresh, tried>>

\* The source with its NUL; 0 when the sum wraps.
SourceCapacity == (unit.length + 1) % (SizeMax + 1)
FirstCapacity == IF SourceCapacity < Catalogue THEN Catalogue ELSE SourceCapacity

\* compiler_load_and_prepare: SourceUnit's result.  A null buffer may come with
\* C paths, when the empty buffer of a unit without forms was not to be had.
Load ==
    /\ phase = "load"
    /\ \/ /\ Allocate({Source} \cup (IF options.direct THEN {} ELSE {CPaths}))
          /\ capacity' = FirstCapacity
          /\ Goto("prepare")
          /\ UNCHANGED exit
       \/ /\ unit.faults
          /\ \E got \in SUBSET {CPaths} : Allocate(got)
          /\ Fail(2)
          /\ UNCHANGED capacity
    /\ UNCHANGED <<unit, options, dumpcap, captured, required, dumpError,
                   macroError, artifact, printed, fresh, tried>>

\* The checks of native_prepare_driver_capacity before it allocates.
CountsFit ==
    /\ Source \in live
    /\ SourceCapacity # 0
    /\ capacity >= SourceCapacity
    /\ capacity * CountFactor + CountBase <= SizeMax

\* native_initialize_driver: every cursor, count, capacity and error of the
\* scanner, the parser, the contexts and the arenas.
InitializeDriver == fresh' = TRUE

\* native_prepare_driver_capacity.  A group that is not complete ends it, and
\* what was allocated stays in the driver; so does a failure to seed the
\* packages, after native_initialize_driver.
Prepare ==
    /\ phase = "prepare"
    /\ \/ /\ CountsFit
          /\ Allocate(Driver)
          /\ InitializeDriver
          /\ Goto("configure")
          /\ UNCHANGED exit
       \/ /\ ~ CountsFit
          /\ KeepBlocks
          /\ Fail(2) /\ UNCHANGED fresh
       \/ /\ CountsFit /\ unit.faults
          /\ \E g \in 1..Len(Groups) : \E got \in SUBSET Groups[g] :
                Allocate(Upto(g) \cup got)
          /\ Fail(2) /\ UNCHANGED fresh
    /\ UNCHANGED <<unit, options, capacity, dumpcap, captured, required,
                   dumpError, macroError, artifact, printed, tried>>

-----------------------------------------------------------------------------
(* compiler_ir.lisp.                                                       *)

\* compiler_ir_buffer_capacity: 0 when the product would overflow.
IrBufferCapacity ==
    IF SizeMax < DumpBase \/ (SizeMax - DumpBase) \div DumpFactor < unit.length
      THEN 0 ELSE unit.length * DumpFactor + DumpBase

\* compiler_ir_reset_request.
ResetRequest ==
    /\ captured' = 0 /\ required' = 0 /\ dumpError' = 0

\* compiler_resize_ir_dump: a fresh buffer replaces the old one.
ResizeIrDump(n) ==
    /\ n # 0
    /\ dumpcap' = n
    /\ live' = live \cup {Dump}
    /\ faulty' = faulty
    /\ ResetRequest

KeepDump == UNCHANGED <<dumpcap, captured, required, dumpError>>

\* compiler_configure_driver with compiler_setup_ir_dump.
Configure ==
    /\ phase = "configure"
    /\ \/ /\ ~ options.dump
          /\ Goto("compile") /\ KeepBlocks /\ KeepDump /\ UNCHANGED exit
       \/ /\ options.dump /\ Dump \in live
          /\ ResetRequest
          /\ Goto("compile") /\ KeepBlocks /\ UNCHANGED <<dumpcap, exit>>
       \/ /\ options.dump /\ Dump \notin live
          /\ ResizeIrDump(IrBufferCapacity)
          /\ Goto("compile") /\ UNCHANGED exit
       \/ /\ options.dump /\ Dump \notin live
          /\ IrBufferCapacity = 0 \/ unit.faults
          /\ Fail(2) /\ KeepBlocks /\ KeepDump
    /\ UNCHANGED <<unit, options, capacity, macroError, artifact, printed, fresh, tried>>

\* The functions whose text does not fit, and the first of them.
Over == {k \in 1..Len(unit.ends) : captured + unit.ends[k] > dumpcap}
FirstOver == CHOOSE k \in Over : \A j \in Over : k <= j
Captures(k) == IF k = 0 THEN 0 ELSE unit.ends[k]

\* native_compile_unit: macro expansion in a full arena latches error 3 of
\* macro_call; otherwise the functions are compiled in order, each one's text
\* is sized and then written behind the previous one's.
Compile ==
    /\ phase = "compile"
    /\ tried' = tried \cup {<<capacity, dumpcap>>}
    /\ faulty' = (faulty \/ ~ fresh \/ ~ (Driver \cup {Source}) \subseteq live)
    /\ fresh' = FALSE
    /\ \/ /\ capacity < unit.need
          /\ macroError' = 3
          /\ Goto("failed")
          /\ KeepDump
       \/ /\ capacity >= unit.need
          /\ options.dump /\ Over # {} /\ (unit.bad = 0 \/ FirstOver < unit.bad)
          /\ macroError' = 0
          /\ dumpError' = 2 /\ required' = captured + unit.ends[FirstOver]
          /\ captured' = captured + Captures(FirstOver - 1)
          /\ Goto("failed")
          /\ UNCHANGED dumpcap
       \/ /\ capacity >= unit.need
          /\ unit.bad # 0
          /\ options.dump /\ Over # {} => unit.bad <= FirstOver
          /\ macroError' = 0
          /\ captured' = captured + IF options.dump THEN Captures(unit.bad - 1) ELSE 0
          /\ required' = captured'
          /\ Goto("failed")
          /\ UNCHANGED <<dumpcap, dumpError>>
       \/ /\ capacity >= unit.need
          /\ unit.bad = 0
          /\ options.dump => Over = {}
          /\ macroError' = 0
          /\ captured' = captured + IF options.dump THEN Captures(Len(unit.ends)) ELSE 0
          /\ required' = captured'
          /\ Goto("publish")
          /\ UNCHANGED <<dumpcap, dumpError>>
    /\ UNCHANGED <<unit, options, live, capacity, artifact, printed, exit>>

\* Mutant: the buffer is asked for again with the size it has.
MutantGrownDump == dumpcap
\* Mutant: the doubling is not checked for overflow.
MutantGrowthSum ==
    IF dumpcap + dumpcap < required THEN required ELSE dumpcap + dumpcap
\* compiler_grow_ir_dump, the size asked for.
GrownDump ==
    LET grown == IF SizeMax - dumpcap < dumpcap THEN SizeMax ELSE dumpcap + dumpcap
    IN IF grown < required THEN required ELSE grown

\* compiler_grow_driver_capacity succeeds.
CanDouble == SizeMax - capacity >= capacity /\ capacity + capacity # capacity

\* What compiler_compile_with_growth does about a failed attempt: more capture
\* room, more arena room, or compiler_report_compile_failure.
Growth ==
    /\ phase = "failed"
    /\ \/ /\ dumpError = 2 /\ dumpcap < required
          /\ ResizeIrDump(GrownDump)
          /\ Goto("reprepare")
          /\ UNCHANGED <<capacity, exit>>
       \/ /\ dumpError = 2 /\ (dumpcap >= required \/ unit.faults)
          /\ Fail(2)
          /\ KeepBlocks /\ KeepDump /\ UNCHANGED capacity
       \/ /\ dumpError # 2 /\ macroError = 3 /\ CanDouble
          /\ capacity' = capacity + capacity
          /\ Goto("reprepare")
          /\ KeepBlocks /\ KeepDump /\ UNCHANGED exit
       \/ /\ dumpError # 2 /\ macroError = 3 /\ ~ CanDouble
          /\ Fail(2)
          /\ KeepBlocks /\ KeepDump /\ UNCHANGED capacity
       \/ /\ dumpError # 2 /\ macroError # 3
          /\ Fail(1)
          /\ KeepBlocks /\ KeepDump /\ UNCHANGED capacity
    /\ UNCHANGED <<unit, options, macroError, artifact, printed, fresh, tried>>

\* Mutant: the arenas of the last attempt are not released.
MutantReprepare ==
    /\ phase = "reprepare"
    /\ Goto("prepare")
    /\ UNCHANGED <<unit, options, live, faulty, capacity, dumpcap, captured,
                   required, dumpError, macroError, artifact, printed, fresh, tried,
                   exit>>
\* Mutant: the source goes with the arenas.
MutantSource ==
    /\ phase = "reprepare"
    /\ live' = live \ (Driver \cup {Source})
    /\ Goto("prepare")
    /\ UNCHANGED <<unit, options, faulty, capacity, dumpcap, captured, required,
                   dumpError, macroError, artifact, printed, fresh,
                   tried, exit>>
\* compiler_reprepare_driver: the source is taken out of the driver while
\* native_release_driver frees what is there, then put back.
Reprepare ==
    /\ phase = "reprepare"
    /\ live' = live \ Driver
    /\ Goto("prepare")
    /\ UNCHANGED <<unit, options, faulty, capacity, dumpcap, captured, required,
                   dumpError, macroError, artifact, printed, fresh,
                   tried, exit>>

-----------------------------------------------------------------------------
(* compiler_emit_object after a successful compilation.                    *)

\* compiler_publish_compiled_output: an object without C sources is written in
\* place, everything else is renamed from a staging directory (Publication).
Publish ==
    /\ phase = "publish"
    /\ faulty' = (faulty \/ ~ Driver \subseteq live)
    /\ \/ artifact' = "new" /\ Goto("flush") /\ UNCHANGED exit
       \/ /\ unit.faults
          /\ artifact' \in {"old"} \cup (IF options.direct THEN {"torn"} ELSE {})
          /\ Fail(2)
    /\ UNCHANGED <<unit, options, live, capacity, dumpcap, captured, required,
                   dumpError, macroError, printed, fresh, tried>>

\* Mutant: a short write goes unnoticed.
MutantFlush ==
    /\ phase = "flush"
    /\ faulty' = (faulty \/ (options.dump /\ Dump \notin live))
    /\ Fail(0)
    /\ printed' \in IF options.dump THEN 0..captured ELSE {printed}
    /\ UNCHANGED <<unit, options, live, capacity, dumpcap, captured, required,
                   dumpError, macroError, artifact, fresh, tried>>
\* compiler_flush_ir_dump; a short write may leave a prefix on stdout.
Flush ==
    /\ phase = "flush"
    /\ faulty' = (faulty \/ (options.dump /\ Dump \notin live))
    /\ \/ ~ options.dump /\ Fail(0) /\ UNCHANGED printed
       \/ options.dump /\ printed' = captured /\ Fail(0)
       \/ options.dump /\ unit.faults /\ Fail(1) /\ printed' \in 0..captured
    /\ UNCHANGED <<unit, options, live, capacity, dumpcap, captured, required,
                   dumpError, macroError, artifact, fresh, tried>>

\* The end of compiler_run_cli_state, and of compiler_run_profile, which has no
\* capture buffer to release.
Released == Driver \cup {Source, CPaths} \cup Base
            \cup IF options.cli THEN {Dump} ELSE {}
Release ==
    /\ phase = "release"
    /\ live' = live \ Released
    /\ faulty' = (faulty \/ ~ Base \subseteq live)
    /\ Goto("done")
    /\ UNCHANGED <<unit, options, capacity, dumpcap, captured, required,
                   dumpError, macroError, artifact, printed, fresh,
                   tried, exit>>

Next ==
    \/ Start \/ Load \/ Prepare \/ Configure \/ Compile \/ Growth
    \/ Reprepare \/ Publish \/ Flush \/ Release

Spec == Init /\ [][Next]_vars

\* One sequential process; every call it makes returns.
FairSpec == Spec /\ WF_vars(Next)

-----------------------------------------------------------------------------
(* Properties.                                                             *)

Text == Captures(Len(unit.ends))

\* What the exit status tells: 0 means that the new artifact is in place and the
\* whole IR text, of one attempt only, is on stdout.  A failure leaves the old
\* artifact and no text, except that an object written in place may be torn and
\* that a stdout error is found after publication.
Outcome ==
    /\ exit = 0 => artifact = "new" /\ printed = (IF options.dump THEN Text ELSE NoText)
    /\ exit # 0 /\ artifact = "new" => options.dump
    /\ artifact # "new" => printed = NoText
    /\ artifact = "torn" => options.direct
    /\ unit.bad # 0 => artifact = "old" /\ exit # 0
ExitStatus == phase = "done" /\ ~ options.help => Outcome

\* Whatever fails, at the first attempt or at a later one, every block and every
\* runtime handle is released exactly once, none is overwritten while it is
\* owned and no attempt uses released arenas.
ReleasedOnce == ~ faulty /\ (phase = "done" => live = {})

\* An attempt is never repeated with the room of an earlier one: semantic errors
\* are not retried, a stale error of an earlier attempt is not acted upon, one
\* kind of growth does not undo the other, and no sum or doubling of a size goes
\* beyond the largest usize, where it would wrap.
NoFutileRetry ==
    phase = "compile" => /\ <<capacity, dumpcap>> \notin tried
                         /\ capacity <= SizeMax /\ dumpcap <= SizeMax

\* The arena capacities that doubling reaches for this unit.
Doublings == {Doubled(FirstCapacity)[n] : n \in 0..Bits} \cap 1..SizeMax
Fits(c) == c * CountFactor + CountBase <= SizeMax
Enough == {c \in Doublings : c >= unit.need /\ Fits(c)}

\* When nothing fails, a unit that compiles is compiled if some doubling of its
\* first capacity both suffices and can be sized, and its text can be sized; the
\* two kinds of growth do not undo each other.
Compilable ==
    /\ unit.bad = 0
    /\ SourceCapacity # 0 /\ Enough # {}
    /\ options.dump => IrBufferCapacity # 0
GrowthSuffices ==
    phase = "done" /\ ~ unit.faults /\ ~ options.help => (exit = 0 <=> Compilable)

\* Every run ends, however often it has to start over.
Ends == <>(phase = "done")

-----------------------------------------------------------------------------
(* The inductive invariant of the proofs.                                  *)

Compiling == {"compile", "failed", "reprepare", "publish", "flush"}
Preparing == {"prepare", "configure"}
Ending == {"release", "done"}

\* The sizes; what one attempt leaves behind does not reach the next one.
SizesOK ==
    /\ unit \in Units
    /\ options \in [cli : BOOLEAN, help : BOOLEAN, dump : BOOLEAN, direct : BOOLEAN]
    /\ options.help \/ options.dump => options.cli
    /\ phase \in {"start", "load"} \cup Preparing \cup Compiling \cup Ending
    /\ {capacity, dumpcap, captured, required} \subseteq 0..SizeMax
    /\ phase = "compile" => captured = 0
    /\ phase \in {"compile", "publish", "flush"} => dumpError = 0
    /\ ~ options.dump => captured = 0 /\ dumpError = 0

\* What the run owns in each phase.
Loaded == Base \cup {Source} \cup (IF options.direct THEN {} ELSE {CPaths})
BlocksOK ==
    /\ ~ faulty
    /\ phase \in {"start", "done"} => live = {}
    /\ phase = "load" => live = Base
    /\ phase = "prepare" => live \ {Dump} = Loaded
    /\ phase = "configure" => live \ {Dump} = Loaded \cup Driver
    /\ phase \in Compiling => live \ {Dump} = Loaded \cup Driver
    /\ phase = "release" => Base \subseteq live /\ live \subseteq Released
    /\ Dump \in live => options.dump
    /\ phase \in Compiling /\ options.dump => Dump \in live
    /\ phase \in {"configure", "compile"} => fresh

\* How far the run has come.
OutcomeOK ==
    /\ phase \notin Ending => exit = 0 /\ printed = NoText
    /\ phase \notin {"flush"} \cup Ending => artifact = "old"
    /\ phase # "start" /\ phase # "done" => ~ options.help
    /\ phase \in {"publish", "flush"} =>
          unit.bad = 0 /\ captured = (IF options.dump THEN Text ELSE 0)
    /\ phase = "flush" => artifact = "new"
    /\ phase \in Ending /\ ~ options.help => Outcome

\* Every room tried is smaller than the next one.
RetryOK ==
    /\ \A t \in tried : t \in Nat \X Nat /\ t[1] <= capacity /\ t[2] <= dumpcap
    /\ phase \in {"start", "load"} => tried = {}
    /\ phase \in Preparing /\ options.dump /\ Dump \notin live => tried = {}
    /\ phase \in Preparing \cup {"reprepare", "compile"} =>
          \A t \in tried : t[1] < capacity \/ t[2] < dumpcap

\* The capacity is a doubling of the first one, and no smaller one was enough.
CapacityOK ==
    /\ \E n \in 0..Bits : capacity = Doubled(FirstCapacity)[n]
    /\ capacity >= SourceCapacity
    /\ \A c \in Doublings : c < capacity => c < unit.need
GrowthOK ==
    /\ phase \notin {"start", "load"} \cup Ending => CapacityOK
    /\ phase \in {"configure", "compile", "failed", "publish", "flush"} =>
          SourceCapacity # 0 /\ Fits(capacity)
    /\ phase \in Compiling /\ options.dump => IrBufferCapacity # 0
    /\ phase \in Preparing /\ Dump \in live => IrBufferCapacity # 0
    /\ phase = "failed" =>
          \/ dumpError = 2 /\ dumpcap < required
          \/ dumpError # 2 /\ macroError = 3 /\ capacity < unit.need
          \/ dumpError # 2 /\ macroError # 3 /\ unit.bad # 0
    /\ phase \in {"publish", "flush"} => capacity >= unit.need
    /\ phase \in Ending /\ ~ unit.faults /\ ~ options.help => (exit = 0 <=> Compilable)

Inductive == SizesOK /\ BlocksOK /\ OutcomeOK /\ RetryOK /\ GrowthOK
=============================================================================
