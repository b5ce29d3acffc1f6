---------------------------- MODULE RuntimeLink ----------------------------
(***************************************************************************)
(* Which runtime modules a hosted artifact is linked with.  The native     *)
(* compiler collects a mask from the runtime functions its unit references *)
(* (bootstrap/driver.lisp), the host adds what the C inputs reference      *)
(* (platform_toolchain.c) and compiler_link.lisp adds dependencies, all on *)
(* u64 masks.  Stage 0 (src/ffi/toolchain.lisp) looks the undefined        *)
(* symbols of its objects up in a table of its own and closes a set of     *)
(* modules under dependency edges.  The tables are kept by hand.           *)
(* A function is named here without its prefix psl_rt_.                    *)
(***************************************************************************)
EXTENDS Integers

CONSTANT MaxReferences  \* bound: runtime functions and C symbols referenced

ASSUME RuntimeLinkAssumption == MaxReferences \in Nat

VARIABLES
    used,    \* ids of the runtime signatures that the unit references
    imports, \* runtime functions that the unit imports by ffi:import-function
    sources, \* runtime symbols that the C sources of the unit reference
    inputs,  \* runtime symbols that the link inputs reference
    index,   \* the signature native_collect_runtime_dependencies looks at
    mask,    \* context.runtime_modules, then the roots, then their closure
    phase,
    objects  \* runtime modules compiled for the link

refs == <<used, imports, sources, inputs>>
vars == <<refs, index, mask, phase, objects>>

-----------------------------------------------------------------------------
(* The modules and their bits in a mask.                                   *)

ModuleSet == {"value", "cons", "string", "symbol", "package", "closure", "values",
              "gc", "startup", "platform", "vector"}
Bit ==
    [m \in ModuleSet |->
        CASE m = "value" -> 1 [] m = "cons" -> 2 [] m = "string" -> 4
          [] m = "symbol" -> 8 [] m = "package" -> 16 [] m = "closure" -> 32
          [] m = "values" -> 64 [] m = "gc" -> 128 [] m = "startup" -> 256
          [] m = "platform" -> 512 [] OTHER -> 1024]
ModuleCount == 11

\* The modules whose bit is set in a mask, and the bits of a set of modules.
ModulesOf(modules) == {m \in ModuleSet : (modules \div Bit[m]) % 2 = 1}
MaskOf(S) ==
    LET Part(m) == IF m \in S THEN Bit[m] ELSE 0
    IN Part("value") + Part("cons") + Part("string") + Part("symbol") + Part("package")
         + Part("closure") + Part("values") + Part("gc") + Part("startup")
         + Part("platform") + Part("vector")

\* bits-and, of masks of which one has no other bits than those of the modules.
BitsAnd(left, right) == MaskOf(ModulesOf(left) \cap ModulesOf(right))

\* native_runtime_name: the function of each runtime signature.
Ids == 1..28
RuntimeName ==
    <<"cons_precise", "car", "cdr", "fixnum", "unbox_fixnum", "collect_precise",
      "push_roots", "pop_roots", "eq", "truthy", "make_string_precise", "string_byte",
      "string_set_byte", "make_string_from_bytes_precise", "make_symbol_precise",
      "symbol_name", "make_package_precise", "package_name", "intern_precise",
      "values2", "nth_value", "make_closure_precise", "call_closure",
      "make_value_vector_precise", "value_vector_length", "value_vector_ref",
      "value_vector_set", "value_vector_push_precise">>

-----------------------------------------------------------------------------
(* What each C file of the runtime defines, and calls in other files.      *)

ValueFile ==
    [defines |-> {"fixnum", "unbox_fixnum", "fixnum_p", "nil_p", "truthy", "eq"},
     calls |-> {}]
ConsFile ==
    [defines |-> {"cons", "cons_precise", "car", "cdr"},
     calls |-> {"allocate", "allocate_precise", "expect_object", "push_roots",
                "pop_roots"}]
StringFile ==
    [defines |-> {"make_string", "make_string_precise", "make_string_from_bytes",
                  "make_string_from_bytes_precise", "string_length", "string_byte",
                  "string_set_byte", "strings_equal"},
     calls |-> {"allocate", "allocate_precise", "expect_object"}]
SymbolFile ==
    [defines |-> {"make_symbol", "make_symbol_precise", "symbol_name"},
     calls |-> {"allocate", "allocate_precise", "expect_object", "push_roots",
                "pop_roots"}]
PackageFile ==
    [defines |-> {"make_package", "make_package_precise", "package_name", "intern",
                  "intern_precise"},
     calls |-> {"allocate", "allocate_precise", "expect_object", "push_roots",
                "pop_roots", "make_symbol", "make_symbol_precise", "strings_equal"}]
ClosureFile ==
    [defines |-> {"make_closure", "make_closure_precise", "call_closure"},
     calls |-> {"allocate", "allocate_precise", "expect_object", "push_roots",
                "pop_roots"}]
ValuesFile ==
    [defines |-> {"values2", "nth_value", "value_count"},
     calls |-> {"register_permanent_roots"}]
GcFile ==
    [defines |-> {"expect_object", "kind", "push_roots", "pop_roots",
                  "register_permanent_roots", "value_handle_open", "value_handle_get",
                  "value_handle_set", "value_handle_close", "live_value_handles",
                  "collect", "collect_precise", "live_objects", "allocate",
                  "allocate_precise"},
     calls |-> {"stack_top"}]
StartupFile == [defines |-> {"stack_top"}, calls |-> {"platform_stack_top"}]
PlatformFile == [defines |-> {"platform_stack_top"}, calls |-> {}]
VectorFile ==
    [defines |-> {"make_value_vector_precise", "value_vector_length",
                  "value_vector_ref", "value_vector_set", "value_vector_push_precise"},
     calls |-> {"allocate_precise", "expect_object", "push_roots", "pop_roots"}]

\* runtime_filename: the C file of a module.
File ==
    [m \in ModuleSet |->
        CASE m = "value" -> ValueFile [] m = "cons" -> ConsFile
          [] m = "string" -> StringFile [] m = "symbol" -> SymbolFile
          [] m = "package" -> PackageFile [] m = "closure" -> ClosureFile
          [] m = "values" -> ValuesFile [] m = "gc" -> GcFile
          [] m = "startup" -> StartupFile [] m = "platform" -> PlatformFile
          [] OTHER -> VectorFile]

-----------------------------------------------------------------------------
(* Symbol tables: the functions that select a module.                      *)

\* The rows of runtime_symbol_module.
NativeRows ==
    [m \in ModuleSet |->
        CASE m = "value" ->
               {"fixnum", "unbox_fixnum", "fixnum_p", "nil_p", "truthy", "eq"}
          [] m = "cons" -> {"cons", "cons_precise", "car", "cdr"}
          [] m = "string" ->
               {"make_string", "make_string_precise", "make_string_from_bytes",
                "make_string_from_bytes_precise", "string_length", "string_byte",
                "string_set_byte"}
          [] m = "symbol" -> {"make_symbol", "make_symbol_precise", "symbol_name"}
          [] m = "package" ->
               {"make_package", "make_package_precise", "package_name", "intern",
                "intern_precise"}
          [] m = "closure" -> {"make_closure", "make_closure_precise", "call_closure"}
          [] m = "values" -> {"values2", "nth_value", "value_count"}
          [] m = "gc" ->
               {"collect", "collect_precise", "live_objects", "live_value_handles",
                "value_handle_open", "value_handle_get", "value_handle_set",
                "value_handle_close", "push_roots", "pop_roots", "kind"}
          [] m = "vector" ->
               {"make_value_vector_precise", "value_vector_length", "value_vector_ref",
                "value_vector_set", "value_vector_push_precise"}
          [] OTHER -> {}]

\* *runtime-symbol-modules* of Stage 0.
Stage0Rows ==
    [m \in ModuleSet |->
        CASE m = "value" ->
               {"fixnum", "unbox_fixnum", "fixnum_p", "nil_p", "truthy", "eq"}
          [] m = "cons" -> {"cons", "cons_precise", "car", "cdr"}
          [] m = "string" ->
               {"make_string", "make_string_from_bytes",
                "make_string_from_bytes_precise", "make_string_precise",
                "string_length", "string_byte", "string_set_byte"}
          [] m = "symbol" -> {"make_symbol", "make_symbol_precise", "symbol_name"}
          [] m = "package" ->
               {"make_package", "make_package_precise", "package_name", "intern",
                "intern_precise"}
          [] m = "closure" -> {"make_closure", "make_closure_precise", "call_closure"}
          [] m = "vector" ->
               {"make_value_vector_precise", "value_vector_length", "value_vector_ref",
                "value_vector_set", "value_vector_push_precise"}
          [] m = "gc" ->
               {"value_handle_open", "value_handle_get", "value_handle_set",
                "value_handle_close", "collect", "collect_precise", "live_objects",
                "push_roots", "pop_roots", "kind"}
          [] m = "values" -> {"values2", "nth_value", "value_count"}
          [] OTHER -> {}]

\* The modules that the symbols of S select, and the symbols without a row.
Roots(rows, S) == {m \in ModuleSet : rows[m] \cap S # {}}
Unknown(rows, S) == S \ UNION {rows[m] : m \in ModuleSet}

\* *runtime-dependencies* of Stage 0.
Dependencies ==
    [m \in ModuleSet |->
        CASE m \in {"value", "platform"} -> {}
          [] m = "startup" -> {"platform"}
          [] m = "gc" -> {"startup"}
          [] m = "symbol" -> {"string"}
          [] m = "package" -> {"symbol"}
          [] OTHER -> {"gc"}]

\* runtime-module-closure of Stage 0: the roots and what they lead to.
ModuleClosure(roots) ==
    LET visited[n \in 0..ModuleCount] ==
          IF n = 0 THEN roots
          ELSE visited[n - 1] \cup UNION {Dependencies[m] : m \in visited[n - 1]}
    IN visited[ModuleCount]

-----------------------------------------------------------------------------
(* The native compiler.                                                    *)

\* native_runtime_module_mask, one row off.
MutantModuleMask(id) ==
    CASE id < 4 -> 898 [] id \in 4..5 -> 1 [] id \in 6..8 -> 896
      [] id \in 9..10 -> 1 [] id \in 11..14 -> 900 [] id \in 15..17 -> 908
      [] id \in 18..19 -> 924 [] id \in 20..21 -> 960 [] id \in 22..23 -> 928
      [] OTHER -> 1920
\* native_runtime_module_mask.
ModuleMask(id) ==
    CASE id < 4 -> 898 [] id \in 4..5 -> 1 [] id \in 6..8 -> 896
      [] id \in 9..10 -> 1 [] id \in 11..14 -> 900 [] id \in 15..16 -> 908
      [] id \in 17..19 -> 924 [] id \in 20..21 -> 960 [] id \in 22..23 -> 928
      [] OTHER -> 1920

\* Mutant: the masks are added.
MutantMaskUnion(left, right) == (left + right) % 2048
\* native_runtime_mask_union, also in native_collect_runtime_dependencies.
MaskUnion(left, right) == left + (right - BitsAnd(left, right))

\* native_runtime_add_dependencies.
AddDependencies(modules, roots, selected, dependencies) ==
    IF BitsAnd(roots, selected) > 0 THEN MaskUnion(modules, dependencies) ELSE modules

\* native_runtime_link_dependencies.
LinkDependencies(roots) ==
    LET Add(modules, selected, dependencies) ==
          AddDependencies(modules, roots, selected, dependencies)
    IN Add(Add(Add(Add(Add(Add(Add(Add(Add(Add(
         roots, 2, 898), 4, 896), 8, 900), 16, 908), 32, 896),
         64, 896), 128, 896), 256, 512), 512, 512), 1024, 896)

\* What an object may reference: the functions of the runtime, or a psl_rt_ symbol
\* that no file defines; "unreadable" stands for a C source that does not compile
\* or an input that nm refuses.
Functions == UNION {File[m].defines : m \in ModuleSet}
Symbols == Functions \cup {"other", "unreadable"}

\* The sets of at most n members of S.
UpTo(n, S) == {{}} \cup {{u[i] : i \in 1..n} : u \in [1..n -> S]}

Init ==
    /\ \E n, i, k, l \in 0..MaxReferences :
          /\ n + i + k + l <= MaxReferences
          /\ used \in UpTo(n, Ids)
          /\ imports \in UpTo(i, Functions)
          /\ sources \in UpTo(k, Symbols)
          /\ inputs \in UpTo(l, Symbols)
    /\ index = 1 /\ mask = 0 /\ phase = "register" /\ objects = {}

\* native_register_runtime_signatures: the names of the runtime signatures are the
\* compiler's own, a unit that declares one of them is refused.
Register ==
    /\ phase = "register"
    /\ phase' = IF \E id \in Ids : RuntimeName[id] \in imports
                  THEN "failed" ELSE "collect"
    /\ UNCHANGED <<refs, index, mask, objects>>

\* native_collect_runtime_dependencies, one signature.
Collect ==
    /\ phase = "collect" /\ index \in Ids
    /\ index' = index + 1
    /\ mask' = IF index \in used THEN MaskUnion(mask, ModuleMask(index)) ELSE mask
    /\ UNCHANGED <<refs, phase, objects>>

\* native_host_runtime_roots and the union with its result: a psl_rt_ symbol that
\* is not in the table of runtime_symbol_module, or an input that cannot be read,
\* ends the link; the bits of the others are or-ed.  The unit's own object is not
\* read.
ScanInputs ==
    /\ phase = "collect" /\ index \notin Ids
    /\ IF Unknown(NativeRows, sources \cup inputs) # {}
         THEN phase' = "failed" /\ UNCHANGED mask
         ELSE /\ phase' = "close"
              /\ mask' = MaskUnion(mask, MaskOf(Roots(NativeRows, sources \cup inputs)))
    /\ UNCHANGED <<refs, index, objects>>

\* compiler_link_output.
CloseRoots ==
    /\ phase = "close"
    /\ mask' = LinkDependencies(mask)
    /\ phase' = "compile"
    /\ UNCHANGED <<refs, index, objects>>

\* native_host_link_artifact: an unknown bit is refused, every selected module
\* is compiled.
CompileModules ==
    /\ phase = "compile"
    /\ IF mask >= 2048  \* 1 << NATIVE_RUNTIME_MODULE_COUNT
         THEN phase' = "failed" /\ UNCHANGED objects
         ELSE /\ phase' = "linked"
              /\ objects' = ModulesOf(mask)
    /\ UNCHANGED <<refs, index, mask>>

Next == Register \/ Collect \/ ScanInputs \/ CloseRoots \/ CompileModules

Spec == Init /\ [][Next]_vars

-----------------------------------------------------------------------------
(* Stage 0 on the same references.                                         *)

\* The runtime functions that the code of the unit calls.
UnitCalls == {RuntimeName[id] : id \in used}

\* selected-runtime-modules: the unit and its C sources are one object, of which a
\* symbol without a row is ignored; in a link input it is an error.
Stage0Modules ==
    ModuleClosure(Roots(Stage0Rows, UnitCalls \cup imports \cup sources \cup inputs))
Stage0Fails ==
    "unreadable" \in sources \/ Unknown(Stage0Rows, inputs) # {}

-----------------------------------------------------------------------------
(* Properties.                                                             *)

\* The system linker finds every runtime function that the code of the unit and
\* the C inputs call, and every one that the linked runtime modules call
\* (native_host_link_artifact).  What a unit imports by name is not among them: the
\* native link reads the undefined symbols of the C inputs only.
NoUndefined ==
    phase = "linked" =>
        \A s \in UnitCalls \cup sources \cup inputs
                  \cup UNION {File[m].calls : m \in objects} :
            \E m \in objects : s \in File[m].defines

\* The function with a row in runtime_symbol_module and none in Stage 0.
OnlyNative == {"live_value_handles"}

\* "The linker compiles the transitive dependency closure of the modules used by
\* the source" (docs/runtime.md), in both compilers: the mask arithmetic and the
\* native tables select what Stage 0 selects, up to the modules of the functions
\* that the unit imports by name, which only Stage 0 looks for, and of the one that
\* only the native table has.  A link that Stage 0 refuses and the native compiler
\* does not, or the other way round, is one of these or has a symbol without a row
\* in a C source, or an import of one of the compiler's own names.
AgreesWithStage0 ==
    /\ phase = "linked" =>
         /\ objects \cup ModuleClosure(Roots(Stage0Rows, imports)) =
              Stage0Modules
                \cup ModuleClosure(Roots(NativeRows, OnlyNative \cap (sources \cup inputs)))
         /\ Stage0Fails => OnlyNative \cap inputs # {}
    /\ phase = "failed" =>
         \/ Stage0Fails
         \/ Unknown(Stage0Rows, sources) # {}
         \/ \E id \in Ids : RuntimeName[id] \in imports
=============================================================================
