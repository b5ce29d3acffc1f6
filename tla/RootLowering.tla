----------------------------- MODULE RootLowering -----------------------------
(***************************************************************************)
(* bootstrap/ir/root_*.lisp and backend/x86_roots.lisp: how a compiled     *)
(* function gets the root frame that the precise collector of the runtime  *)
(* relies on.  The pass widens the instructions of a function in their own *)
(* array, from the last to the first; the verifier accepts or refuses the  *)
(* result; the emitted code keeps a shadow of every managed word in its    *)
(* stack frame and registers it with psl_rt_push_roots.                    *)
(*                                                                         *)
(* An instruction keeps what the pass, the verifier and the frame tell     *)
(* apart: its kind, its destination and its targets.  Every operation that *)
(* computes a word is "value"; its operands are left out.                  *)
(***************************************************************************)
EXTENDS Integers, Sequences, FiniteSets

CONSTANTS
    Functions,  \* bound: the functions to lower, as records of code, types
                \* and parameters
    Spare,      \* bound: free instructions behind the code of a function
    Free,       \* callees that hir_call_allocation_free_p accepts
    NoRef       \* 0: no instruction, register, label or function

\* LIR kinds 100, 101, 102, 103, 7 and the root operations 110 to 113.
Kind == {"label", "jump", "branch", "return", "call", "value",
         "init", "push", "sync", "pop"}
RootKind == {"init", "push", "sync", "pop"}
Instruction == [kind : Kind, destination : Nat, target : Nat, right : Nat]

\* Scalar code 15 with and without kind 17, and every other scalar code.
Type == {"managed", "chain", "plain"}
Function == [code : Seq(Instruction), types : Seq(Type),
             parameters : Seq({"managed", "plain"})]

\* The function indices of psl_rt_push_roots and psl_rt_pop_roots.
PushRoots == 1
PopRoots == 2

\* lir_entry_p.
IsEntry(op) == op.kind = "label" /\ op.target = 1

\* lir_terminal_kind_p.
Terminal == {"jump", "branch", "return"}

\* lir_verify_shapes, lir_scan_blocks and lir_verify_ranges of the first n
\* instructions: operations and calls have a register of the catalogue to
\* store to, labels are bound once, jumps go to bound labels, and every block
\* ends with its only terminator.
BoundAt(ops, n, l) == {i \in 1..n : ops[i].kind = "label" /\ ops[i].target = l}
InstructionValid(ops, n, types, i) ==
    /\ IF ops[i].kind \in {"value", "call"}
       THEN ops[i].destination \in DOMAIN types /\ types[ops[i].destination] # "chain"
       ELSE ops[i].destination = NoRef
    /\ ops[i].kind = "label" => BoundAt(ops, n, ops[i].target) = {i}
    /\ ops[i].kind \in {"jump", "branch"} => BoundAt(ops, n, ops[i].target) # {}
    /\ ops[i].kind = "branch" => BoundAt(ops, n, ops[i].right) # {}
    /\ ops[i].kind \in Terminal <=> i = n \/ ops[i + 1].kind = "label"
BodyValid(ops, n, types) == \A i \in 1..n : InstructionValid(ops, n, types, i)

\* The input is what lir_lower_function makes of a function: root operations
\* are not among it, and its body is valid.
ASSUME RootLoweringAssumption ==
    /\ NoRef = 0
    /\ Functions \subseteq Function
    /\ Spare \subseteq Nat
    /\ Free \subseteq Nat
    /\ \A f \in Functions : /\ f.code # <<>> /\ IsEntry(f.code[1])
                            /\ \A i \in DOMAIN f.code : f.code[i].kind \notin RootKind
                            /\ BodyValid(f.code, Len(f.code), f.types)

VARIABLES
    function,  \* what is lowered
    runtime,   \* the catalogue of the unit holds push and pop
    code,      \* instructions of the arena, as long as its capacity
    count,     \* how many of them are used
    rootCount, \* root_count of the arena
    cursor,    \* root_cursor: the next instruction to move
    extra,     \* root_extra: where it goes
    total,     \* the length and the roots of the expanded function, as
    required,  \* computed before the loop
    phase,     \* "lower", "expand", "lowered", "verified", "failed",
               \* "running", "returned" or "aborted"
    pc,        \* the instruction the emitted function executes
    memory,    \* words of its stack frame, slot 1 the highest
    roots      \* the runtime's list of root frames

arenaVars == <<function, runtime, code, count, rootCount>>
loopVars == <<cursor, extra, total, required>>
passVars == <<arenaVars, loopVars>>
runVars == <<pc, memory, roots>>
vars == <<passVars, phase, runVars>>

-----------------------------------------------------------------------------
(* The root catalogue *)

\* The registers native_root_value_p accepts, and the managed parameters.
ManagedValues == {v \in DOMAIN function.types : function.types[v] = "managed"}
ManagedParameters ==
    {p \in DOMAIN function.parameters : function.parameters[p] = "managed"}

\* native_root_collecting_call_p.
Collecting(op) == op.kind = "call" /\ op.target \notin Free
CollectingCall == \E i \in 1..count : Collecting(code[i])

\* native_root_required_count.
RequiredCount ==
    IF CollectingCall THEN Cardinality(ManagedValues) + Cardinality(ManagedParameters)
    ELSE 0

-----------------------------------------------------------------------------
(* Lowering *)

\* The instructions that get a root operation in front of them.
Widened(op) == op.kind \in {"call", "return"}

Control(kind, target) ==
    [kind |-> kind, destination |-> NoRef, target |-> target, right |-> NoRef]

\* The operation in front of a widened instruction.
Guard(op) == IF op.kind = "call" THEN Control("sync", NoRef) ELSE Control("pop", PopRoots)

\* Mutant: returns are not counted.
ExtraInstructions_calls ==
    2 + Cardinality({i \in 1..count : code[i].kind = "call"})

\* native_root_extra_instructions.
ExtraInstructions == 2 + Cardinality({i \in 1..count : Widened(code[i])})

\* native_lower_roots up to the loop.  A function that needs no roots stays as
\* it is; the room is checked before the first instruction moves.
Lower ==
    /\ phase = "lower"
    /\ IF \E i \in 1..count : code[i].kind \in RootKind
       THEN phase' = "failed" /\ UNCHANGED loopVars
       ELSE IF RequiredCount = 0
       THEN phase' = "lowered" /\ UNCHANGED loopVars
       ELSE IF ~runtime \/ Len(code) - count < ExtraInstructions
       THEN phase' = "failed" /\ UNCHANGED loopVars
       ELSE /\ phase' = "expand"
            /\ cursor' = count
            /\ total' = count + ExtraInstructions
            /\ extra' = total'
            /\ required' = RequiredCount
    /\ UNCHANGED <<arenaVars, runVars>>

\* Mutant: the operation in front of a return is one for a call.
ExpandInstruction_sync ==
    /\ phase = "expand" /\ 1 < cursor
    /\ LET op == code[cursor] IN
       IF Widened(op)
       THEN /\ code' = [code EXCEPT ![extra] = op, ![extra - 1] = Control("sync", NoRef)]
            /\ extra' = extra - 2
       ELSE code' = [code EXCEPT ![extra] = op] /\ extra' = extra - 1
    /\ cursor' = cursor - 1
    /\ UNCHANGED <<function, runtime, count, rootCount, total, required, phase, runVars>>

\* native_root_expand_instruction: one turn of the loop.
ExpandInstruction ==
    /\ phase = "expand" /\ 1 < cursor
    /\ LET op == code[cursor] IN
       IF Widened(op)
       THEN /\ code' = [code EXCEPT ![extra] = op, ![extra - 1] = Guard(op)]
            /\ extra' = extra - 2
       ELSE code' = [code EXCEPT ![extra] = op] /\ extra' = extra - 1
    /\ cursor' = cursor - 1
    /\ UNCHANGED <<function, runtime, count, rootCount, total, required, phase, runVars>>

\* The end of native_root_expand_function.
ExpandEntry ==
    /\ phase = "expand" /\ cursor <= 1
    /\ IF extra = 3
       THEN /\ code' = [code EXCEPT ![2] = Control("init", NoRef),
                                    ![3] = Control("push", PushRoots)]
            /\ count' = total
            /\ rootCount' = required
            /\ phase' = "lowered"
       ELSE phase' = "failed" /\ UNCHANGED <<code, count, rootCount>>
    /\ UNCHANGED <<function, runtime, loopVars, runVars>>

-----------------------------------------------------------------------------
(* Verification *)

\* native_root_control_shape_p: a root operation calls its own function, or none.
Callee(kind) == CASE kind = "push" -> PushRoots [] kind = "pop" -> PopRoots [] OTHER -> NoRef
ShapeValid(i) ==
    code[i].kind \in RootKind => code[i] = Control(code[i].kind, Callee(code[i].kind))

\* native_root_instruction_lifetime_p.
LifetimeValid(i) ==
    /\ i = 2 => code[i].kind = "init"
    /\ i = 3 => code[i].kind = "push"
    /\ i \notin {2, 3} => code[i].kind \notin {"init", "push"}
    /\ code[i].kind = "call" => 1 < i /\ code[i - 1].kind = "sync"
    /\ code[i].kind = "return" => 1 < i /\ code[i - 1].kind = "pop"
    /\ code[i].kind = "sync" => i < count /\ code[i + 1].kind = "call"
    /\ code[i].kind = "pop" => i < count /\ code[i + 1].kind = "return"
    /\ code[i].kind = "jump" => code[i].target # 1
    /\ code[i].kind = "branch" => 1 \notin {code[i].target, code[i].right}

\* native_verify_root_catalogue.
RootsValid ==
    /\ rootCount = RequiredCount
    /\ IF rootCount = 0 THEN \A i \in 1..count : code[i].kind \notin RootKind
       ELSE 4 <= count /\ \A i \in 1..count : LifetimeValid(i)

\* lir_verify_function after the pass, but for operands and reachability.
FunctionValid ==
    /\ IsEntry(code[1])
    /\ BodyValid(code, count, function.types)
    /\ \A i \in 1..count : ShapeValid(i)
    /\ RootsValid

Verify ==
    /\ phase = "lowered"
    /\ phase' = IF FunctionValid THEN "verified" ELSE "failed"
    /\ UNCHANGED <<passVars, runVars>>

-----------------------------------------------------------------------------
(* The emitted function *)

NIL == 2
Junk == 0

\* native_root_frame_slots: locals, four words of header, shadow words.
FrameSlots == LET values == Len(function.types)
              IN IF rootCount = 0 THEN values ELSE values + rootCount + 4

\* Slots of the header and of the shadow words; addresses grow as slots fall.
HeaderSlot == FrameSlots
ShadowSlot(index) == HeaderSlot - 4 - index

\* native_root_shadow_index, and the order of x86_root_copy_parameters.
ShadowIndex(v) == Cardinality({w \in ManagedValues : w < v})
ParameterIndex(p) ==
    Cardinality(ManagedValues) + Cardinality({q \in ManagedParameters : q < p})

\* The words of the arguments, and a word a register did not hold before.
Argument(p) == 16 * (Len(function.types) + p)
Fresh(v) == IF memory[v] = 16 * v THEN 16 * v + 8 ELSE 16 * v

\* The emitted function is called by one that has a root frame.
Enter ==
    /\ phase = "verified"
    /\ phase' = "running"
    /\ pc' = 1
    /\ memory' = [s \in 1..FrameSlots |-> Junk]
    /\ roots' = <<"caller">>
    /\ UNCHANGED passVars

\* x86_root_initialize.
Initialized ==
    [s \in DOMAIN memory |->
        IF \/ s \in ManagedValues
           \/ \E v \in ManagedValues : s = ShadowSlot(ShadowIndex(v))
        THEN NIL
        ELSE IF \E p \in ManagedParameters : s = ShadowSlot(ParameterIndex(p))
        THEN Argument(CHOOSE p \in ManagedParameters : s = ShadowSlot(ParameterIndex(p)))
        ELSE memory[s]]

InitializeRoots ==
    /\ phase = "running" /\ code[pc].kind = "init"
    /\ memory' = Initialized
    /\ pc' = pc + 1
    /\ UNCHANGED <<passVars, phase, roots>>

\* x86_root_enter and psl_rt_push_roots: previous, values and count.
EnterRoots ==
    /\ phase = "running" /\ code[pc].kind = "push"
    /\ memory' = [memory EXCEPT ![HeaderSlot] = Len(roots),
                                ![HeaderSlot - 1] = ShadowSlot(0),
                                ![HeaderSlot - 2] = rootCount]
    /\ roots' = Append(roots, "own")
    /\ pc' = pc + 1
    /\ UNCHANGED <<passVars, phase>>

\* x86_root_leave and psl_rt_pop_roots, which aborts unless the frame is the
\* innermost one.
LeaveRoots ==
    /\ phase = "running" /\ code[pc].kind = "pop"
    /\ IF roots[Len(roots)] = "own"
       THEN /\ roots' = SubSeq(roots, 1, memory[HeaderSlot])
            /\ pc' = pc + 1 /\ UNCHANGED phase
       ELSE phase' = "aborted" /\ UNCHANGED <<roots, pc>>
    /\ UNCHANGED <<passVars, memory>>

\* Mutant: results are not published.
Compute_unpublished ==
    /\ phase = "running" /\ code[pc].kind \in {"value", "call"}
    /\ memory' = [memory EXCEPT ![code[pc].destination] = Fresh(code[pc].destination)]
    /\ pc' = pc + 1
    /\ UNCHANGED <<passVars, phase, roots>>

\* An operation or a call stores its result in its register, and
\* x86_root_publish_result in the shadow of a managed register.
Compute ==
    /\ phase = "running" /\ code[pc].kind \in {"value", "call"}
    /\ LET v == code[pc].destination
           shadows == {s \in DOMAIN memory : /\ rootCount > 0 /\ v \in ManagedValues
                                             /\ s = ShadowSlot(ShadowIndex(v))}
       IN memory' = [s \in DOMAIN memory |->
                        IF s = v \/ s \in shadows THEN Fresh(v) ELSE memory[s]]
    /\ pc' = pc + 1
    /\ UNCHANGED <<passVars, phase, roots>>

\* Where the label l is bound.
Bound(l) == CHOOSE i \in BoundAt(code, count, l) : TRUE

\* A label and a "sync" are no machine code; jumps, branches and returns.
Transfer ==
    /\ phase = "running"
    /\ \/ code[pc].kind \in {"label", "sync"} /\ pc' = pc + 1 /\ UNCHANGED phase
       \/ /\ code[pc].kind = "jump"
          /\ pc' = Bound(code[pc].target) /\ UNCHANGED phase
       \/ /\ code[pc].kind = "branch"
          /\ pc' \in {Bound(code[pc].target), Bound(code[pc].right)} /\ UNCHANGED phase
       \/ code[pc].kind = "return" /\ phase' = "returned" /\ UNCHANGED pc
    /\ UNCHANGED <<passVars, memory, roots>>

-----------------------------------------------------------------------------
\* lir_lower_function has filled the arena.
Init ==
    /\ function \in Functions
    /\ runtime \in BOOLEAN
    /\ \E spare \in Spare :
          code = [i \in 1..(Len(function.code) + spare) |->
                     IF i <= Len(function.code) THEN function.code[i]
                     ELSE Control("label", NoRef)]
    /\ count = Len(function.code)
    /\ rootCount = 0
    /\ cursor = 0 /\ extra = 0 /\ total = 0 /\ required = 0
    /\ phase = "lower"
    /\ pc = 0 /\ memory = <<>> /\ roots = <<>>

Pass == Lower \/ ExpandInstruction \/ ExpandEntry \/ Verify
Execute == Enter \/ InitializeRoots \/ EnterRoots \/ LeaveRoots \/ Compute \/ Transfer

Next == Pass \/ Execute

Spec == Init /\ [][Next]_vars

-----------------------------------------------------------------------------
(* Properties *)

\* Where the i-th instruction of the input belongs.
Place(i) == i + 2 + Cardinality({j \in 1..i : Widened(function.code[j])})

\* The instructions from first on are in their places, with what belongs in
\* front of them.
Moved(first) ==
    \A i \in first..Len(function.code) :
       /\ code[Place(i)] = function.code[i]
       /\ Widened(function.code[i]) => code[Place(i) - 1] = Guard(function.code[i])

\* The expansion works in its own array and loses nothing: what the loop has
\* not read yet is still there, what it has moved stays in its place, and when
\* it is done every call and every return of the function has its root
\* operation directly in front of it and the array was long enough.
ExpansionExact ==
    /\ phase = "expand" =>
          /\ \A i \in 1..cursor : code[i] = function.code[i]
          /\ Moved(cursor + 1)
          /\ extra = Place(cursor)
          /\ total = Place(Len(function.code)) /\ total <= Len(code)
    /\ phase = "lowered" /\ rootCount > 0 =>
          /\ code[1] = function.code[1]
          /\ code[2] = Control("init", NoRef) /\ code[3] = Control("push", PushRoots)
          /\ Moved(2)
          /\ count = Place(Len(function.code)) /\ count <= Len(code)

\* The jumps of the input that go back to its entry.
EntryJumps ==
    {i \in DOMAIN function.code :
        \/ function.code[i].kind = "jump" /\ function.code[i].target = 1
        \/ function.code[i].kind = "branch" /\ 1 \in {function.code[i].target, function.code[i].right}}

\* The verifier and the pass agree: a function is refused only when the array
\* or the runtime lacks what its roots need, or when a jump would register its
\* frame twice; and what is accepted has a root frame if it needs one.
VerifierAgrees ==
    /\ phase = "failed" => \/ EntryJumps # {} \/ ~runtime
                           \/ Len(code) - Len(function.code) < ExtraInstructions
    /\ phase = "verified" => \/ RequiredCount = 0
                             \/ rootCount = RequiredCount /\ EntryJumps = {}

\* The whole of the array behind `from` is what the moved instructions fill.
Filled(from, first) ==
    \A k \in from..total : \E i \in first..Len(function.code) :
       k = Place(i) \/ (Widened(function.code[i]) /\ k = Place(i) - 1)

\* The inductive invariant of the pass: what is in the array in each phase, and
\* that the catalogue counted before the loop is the one counted after it.
Untouched ==
    /\ count = Len(function.code) /\ count <= Len(code) /\ rootCount = 0
    /\ \A i \in 1..count : code[i] = function.code[i]

Inductive ==
    /\ function \in Functions /\ code \in Seq(Instruction)
    /\ phase = "lower" => Untouched
    /\ phase = "expand" =>
          /\ count = Len(function.code) /\ rootCount = 0
          /\ cursor \in 1..count
          /\ Filled(extra + 1, cursor + 1)
          /\ \E i \in DOMAIN function.code : Collecting(function.code[i])
          /\ required = Cardinality(ManagedValues) + Cardinality(ManagedParameters)
          /\ required > 0
    /\ phase = "lowered" =>
          \/ Untouched /\ RequiredCount = 0
          \/ /\ rootCount > 0 /\ rootCount = RequiredCount
             /\ count = total /\ Len(function.code) > 1
             /\ Filled(4, 2)
    /\ ExpansionExact /\ VerifierAgrees

\* The words the runtime finds through the innermost root frame.
RegisteredWords ==
    {memory[memory[HeaderSlot - 1] - i] : i \in 0..(memory[HeaderSlot - 2] - 1)}

\* The contract of psl_rt_collect_precise: when an emitted function calls
\* something that may collect, every managed register and every managed
\* argument is a word of its registered frame, on every path through the
\* function; the frame is registered once, and gone when the function returns.
RootsHeld ==
    /\ phase = "running" /\ Collecting(code[pc]) /\ rootCount > 0 =>
          /\ roots = <<"caller", "own">>
          /\ {memory[v] : v \in ManagedValues} \cup {Argument(p) : p \in ManagedParameters}
                \subseteq RegisteredWords
    /\ phase = "running" /\ Collecting(code[pc]) /\ rootCount = 0 =>
          ManagedValues = {} /\ ManagedParameters = {}
    /\ phase = "returned" => roots = <<"caller">>
    /\ phase # "aborted"

-----------------------------------------------------------------------------
(* The inductive invariant of the emitted function. *)

\* What the verifier has accepted.
AcceptedOK ==
    phase \in {"verified", "running", "returned", "aborted"} =>
        FunctionValid /\ count \in 1..Len(code)

\* The shadow of a managed register holds its word, that of a managed parameter
\* the argument, and the header describes all of them.
ShadowsOK ==
    /\ \A v \in ManagedValues : memory[ShadowSlot(ShadowIndex(v))] = memory[v]
    /\ \A p \in ManagedParameters : memory[ShadowSlot(ParameterIndex(p))] = Argument(p)
HeaderOK ==
    /\ memory[HeaderSlot] = 1
    /\ memory[HeaderSlot - 1] = ShadowSlot(0)
    /\ memory[HeaderSlot - 2] = rootCount

\* The frame is initialised behind instruction 2, registered behind 3, and
\* registered until a return is next.
Registered == rootCount > 0 /\ pc > 3 /\ code[pc].kind # "return"
RunOK ==
    /\ phase = "running" =>
          /\ pc \in 1..count /\ DOMAIN memory = 1..FrameSlots
          /\ roots = IF Registered THEN <<"caller", "own">> ELSE <<"caller">>
          /\ rootCount > 0 /\ pc > 2 => ShadowsOK
          /\ rootCount > 0 /\ pc > 3 => HeaderOK
    /\ phase = "returned" => roots = <<"caller">>
    /\ phase # "aborted"

FrameInductive == Inductive /\ AcceptedOK /\ RunOK
=============================================================================
