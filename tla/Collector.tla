------------------------------ MODULE Collector ------------------------------
(***************************************************************************)
(* runtime/gc.c at the grain of mark_value: registered root frames, the    *)
(* permanent roots, value handles, the conservative and the precise        *)
(* collection, and the constructors of cons.c, string.c, symbol.c,         *)
(* package.c, closure.c and vector.c that allocate through it.             *)
(*                                                                         *)
(* The runtime is single threaded: the mutator runs only in phase "run",   *)
(* a constructor suspends it until its object exists.  The order in which  *)
(* one batch of words is passed to mark_value is left open: the code walks *)
(* lists, and nothing but the order of the work array depends on it.       *)
(***************************************************************************)
EXTENDS HeapGraph

CONSTANTS
    MinLimit,    \* 256: collection_limit at start and for a small heap
    SmallHeap,   \* 128: below it the limit goes back to MinLimit
    SizeMax,     \* SIZE_MAX, the last value of next_value_handle
    MaxFrames,   \* bound: root frames the mutator nests
    FrameWidth,  \* words in a root frame of the mutator
    StackWords,  \* words of the C stack outside any registered frame
    MaxItems,    \* the items that fit in an object: (SIZE_MAX - 56) / 8
    FirstItems,  \* 4: the capacity an empty storage grows to
    Texts,       \* bound: the texts of strings, as numbers
    Calls,       \* bound: the entry points the mutator of this instance uses
    Closed       \* marks a handle token that is not active

Constructor == {"cons", "string", "symbol", "intern", "package", "closure",
                "vector"}
Service == {"stack", "push", "text", "values2", "handle", "collect", "collect_precise"}

ASSUME CollectorAssumption ==
    /\ MinLimit \in Nat \ {0} /\ SmallHeap \in Nat \ {0}
    /\ SmallHeap <= MinLimit
    /\ SizeMax \in Nat \ {0} /\ MaxFrames \in Nat
    /\ FrameWidth \in Nat \ {0} /\ StackWords \in Nat \ {0}
    /\ MaxItems \in Nat /\ FirstItems \in Nat \ {0} /\ Texts \subseteq Nat
    /\ Calls \subseteq Constructor \cup Service
    /\ Closed \notin Value

VARIABLES
    objects,   \* the list `objects`, as a set; object_count is its size
    obj,       \* contents of memory at each address
    frames,    \* root frames of the mutator, innermost last
    permanent, \* words registered as permanent roots (values.c), or <<>>
    handles,   \* value_handles: token -> value, or Closed
    nextHandle,\* next_value_handle
    stack,     \* unregistered words of the C stack
    relied,    \* no precise collection ran: the mutator may rely on stack
    limit,     \* collection_limit
    phase,     \* "run", "allocate", "roots", "stack", "trace", "new" or
               \* "aborted"
    request,   \* the constructor that is running: what it builds next, the
               \* values in its root frame, its length or text argument, an
               \* unregistered C local, and where its result goes
    scan,      \* scan_stack of the running allocation or collection
    marked,    \* objects with marked = 1
    work,      \* the work array up to `used`
    capacity,  \* its allocated length
    index,     \* how many work items mark_children has been called on
    pending    \* objects that the words of the current batch denote and that
               \* mark_value has not been called on yet

rootVars == <<frames, permanent, handles, nextHandle, stack>>
markVars == <<marked, work, capacity, index, pending>>
controlVars == <<phase, request, scan>>
vars == <<objects, obj, rootVars, relied, limit, controlVars, markVars>>

-----------------------------------------------------------------------------
(* Roots *)

Token == 1..SizeMax
Frame == [1..FrameWidth -> Value]

Request == [kind : Constructor \cup {"none", "storage", "grow"}, args : Seq(Value),
            data : Nat, local : Value, dest : 0..FrameWidth]
NoRequest == [kind |-> "none", args |-> <<>>, data |-> 0, local |-> NIL, dest |-> 0]

FrameValues == UNION {Words(frames[i]) : i \in 1..Len(frames)}
HandleValues == {handles[t] : t \in Token} \ {Closed}

\* Mutant: constructors do not register their arguments.
RegisteredValues_noArguments == FrameValues \cup Words(permanent) \cup HandleValues

\* Everything mark_registered_roots visits.  The root frame a constructor
\* pushes for its own arguments is registered exactly while it runs.
RegisteredValues ==
    FrameValues \cup Words(permanent) \cup HandleValues \cup Words(request.args)

\* The words a mutator may keep values in: the registered ones, and in a
\* program that only ever collects conservatively any word of its stack.
Roots == RegisteredValues \cup (IF relied THEN Words(stack) ELSE {})

\* expect_vector and vector_storage answer.
IsVector(v) == /\ IsObject(v, "vector", objects, obj)
               /\ IsObject(obj[v].slots[1], "storage", objects, obj)

\* The storage of a vector, and its items.
Storage(v) == obj[v].slots[1]
Items(v) == SubSeq(obj[Storage(v)].slots, 1, obj[v].data)

\* What the accessors read from an object: the items of a vector (its storage
\* is never handed out), the words of any other.
Readable(o) == IF IsVector(o) THEN Words(Items(o)) ELSE ChildValues(obj[o])

\* What a mutator that obeys the root contract can hold: immediates, its roots
\* and what accessors read from the objects they denote.
Held == Imm \cup Roots \cup UNION {Readable(o) : o \in Roots \cap objects}

-----------------------------------------------------------------------------
(* The mutator *)

PushRoots ==
    /\ phase = "run"
    /\ Len(frames) < MaxFrames
    /\ frames' = Append(frames, [i \in 1..FrameWidth |-> NIL])
    /\ UNCHANGED <<objects, obj, permanent, handles, nextHandle, stack, relied,
                   limit, controlVars, markVars>>

\* psl_rt_pop_roots(root): aborts unless root is the innermost frame.
PopRoots(f) ==
    /\ phase = "run"
    /\ IF f = Len(frames)
       THEN /\ frames' = SubSeq(frames, 1, Len(frames) - 1)
            /\ UNCHANGED phase
       ELSE phase' = "aborted" /\ UNCHANGED frames
    /\ UNCHANGED <<objects, obj, permanent, handles, nextHandle, stack, relied,
                   limit, request, scan, markVars>>

\* The program that uses the runtime writes a word of one of its registered
\* frames (psl_rt_call_closure is such a program too: it fills a frame with the
\* closure and its argument before it calls the code).
StoreRoot(f, i, v) ==
    /\ phase = "run"
    /\ v \in Held
    /\ frames' = [frames EXCEPT ![f][i] = v]
    /\ UNCHANGED <<objects, obj, permanent, handles, nextHandle, stack, relied,
                   limit, controlVars, markVars>>

\* An unregistered word of the C stack receives a value.
StoreStack(i, v) ==
    /\ phase = "run"
    /\ v \in Held
    /\ stack' = [stack EXCEPT ![i] = v]
    /\ UNCHANGED <<objects, obj, frames, permanent, handles, nextHandle, relied,
                   limit, controlVars, markVars>>

\* psl_rt_value_vector_set with index i - 1; the bound is the length of the
\* vector and not the capacity of its storage.
VectorSet(v, i, item) ==
    /\ phase = "run"
    /\ {v, item} \subseteq Held
    /\ IF IsVector(v) /\ i <= obj[v].data
       THEN obj' = [obj EXCEPT ![Storage(v)].slots[i] = item] /\ UNCHANGED phase
       ELSE phase' = "aborted" /\ UNCHANGED obj
    /\ UNCHANGED <<objects, rootVars, relied, limit, request, scan, markVars>>

\* grown_capacity for one item more than a full storage holds: one doubling is
\* enough, and a storage is too small to double past SIZE_MAX.
GrownCapacity(current) == IF current = 0 THEN FirstItems ELSE 2 * current

\* psl_rt_value_vector_push_precise up to make_storage: an item that fits is
\* stored at once.  grow_vector keeps the old storage in a C local, which the
\* precise collection inside make_storage does not see.
Push(v, item) ==
    /\ phase = "run"
    /\ {v, item} \subseteq Held
    /\ \/ /\ ~IsVector(v)
          /\ phase' = "aborted" /\ UNCHANGED <<obj, request, scan>>
       \/ /\ IsVector(v) /\ obj[v].data < Len(obj[Storage(v)].slots)
          /\ obj' = [obj EXCEPT ![Storage(v)].slots[obj[v].data + 1] = item,
                                ![v].data = obj[v].data + 1]
          /\ UNCHANGED controlVars
       \/ /\ IsVector(v) /\ obj[v].data >= Len(obj[Storage(v)].slots)
          /\ IF GrownCapacity(Len(obj[Storage(v)].slots)) > MaxItems
             THEN phase' = "aborted" /\ UNCHANGED <<request, scan>>
             ELSE /\ phase' = "allocate"
                  /\ request' = [kind |-> "grow", args |-> <<v, item>>, data |-> 0,
                                 local |-> Storage(v), dest |-> 0]
                  /\ scan' = FALSE
          /\ UNCHANGED obj
    /\ UNCHANGED <<objects, rootVars, relied, limit, markVars>>

\* psl_rt_string_set_byte: strings are mutable, the names of symbols too.  It
\* aborts for any other object, and for an index past the end of the text.
StringSet(v, text) ==
    /\ phase = "run"
    /\ v \in Held
    /\ \/ /\ IsObject(v, "string", objects, obj)
          /\ obj' = [obj EXCEPT ![v].data = text] /\ UNCHANGED phase
       \/ phase' = "aborted" /\ UNCHANGED obj
    /\ UNCHANGED <<objects, rootVars, relied, limit, request, scan, markVars>>

\* psl_rt_values2: the pair buffer is registered once and then overwritten.
Values2(v, w) ==
    /\ phase = "run"
    /\ {v, w} \subseteq Held
    /\ permanent' = <<v, w>>
    /\ UNCHANGED <<objects, obj, frames, handles, nextHandle, stack, relied,
                   limit, controlVars, markVars>>

HandleOpen ==
    /\ phase = "run"
    /\ IF nextHandle = SizeMax
       THEN phase' = "aborted" /\ UNCHANGED <<handles, nextHandle>>
       ELSE /\ handles' = [handles EXCEPT ![nextHandle] = NIL]
            /\ nextHandle' = nextHandle + 1
            /\ UNCHANGED phase
    /\ UNCHANGED <<objects, obj, frames, permanent, stack, relied, limit,
                   request, scan, markVars>>

\* psl_rt_value_handle_set: find_value_handle aborts for an inactive token.
HandleSet(t, v) ==
    /\ phase = "run"
    /\ v \in Held
    /\ IF handles[t] = Closed
       THEN phase' = "aborted" /\ UNCHANGED handles
       ELSE handles' = [handles EXCEPT ![t] = v] /\ UNCHANGED phase
    /\ UNCHANGED <<objects, obj, frames, permanent, nextHandle, stack, relied,
                   limit, request, scan, markVars>>

\* Mutant: a closed token is handed out again.
HandleClose_reuse(t) ==
    /\ phase = "run"
    /\ handles[t] # Closed
    /\ handles' = [handles EXCEPT ![t] = Closed]
    /\ nextHandle' = t
    /\ UNCHANGED <<objects, obj, frames, permanent, stack, relied, limit,
                   controlVars, markVars>>

HandleClose(t) ==
    /\ phase = "run"
    /\ IF handles[t] = Closed
       THEN phase' = "aborted" /\ UNCHANGED handles
       ELSE handles' = [handles EXCEPT ![t] = Closed] /\ UNCHANGED phase
    /\ UNCHANGED <<objects, obj, frames, permanent, nextHandle, stack, relied,
                   limit, request, scan, markVars>>

-----------------------------------------------------------------------------
(* Allocation *)

Arity(kind) ==
    CASE kind \in {"cons", "intern"} -> 2
      [] kind \in {"symbol", "package", "closure", "vector"} -> 1
      [] kind = "string" -> 0

\* The psl_rt_expect_object calls a constructor makes before it allocates.
ArgumentsValid(kind, args) ==
    /\ kind \in {"symbol", "package"} => IsObject(args[1], "string", objects, obj)
    /\ kind = "intern" => /\ IsObject(args[1], "package", objects, obj)
                          /\ IsObject(args[2], "string", objects, obj)

\* The symbols the chain walk of intern_symbol can answer with: those of the
\* package whose name has the same text.  ChainExact says that the walk passes
\* every one of them.
Interned(package, name) ==
    {s \in objects : /\ obj[s].kind = "symbol" /\ obj[s].slots[2] = package
                     /\ IsObject(obj[s].slots[1], "string", objects, obj)
                     /\ obj[obj[s].slots[1]].data = obj[name].data}

\* Mutant: the walk compares the name strings instead of their texts.
MustAllocate_identity(kind, args) ==
    kind = "intern" /\ ArgumentsValid(kind, args) =>
       ~\E s \in objects : /\ obj[s].kind = "symbol"
                           /\ obj[s].slots[1] = args[2] /\ obj[s].slots[2] = args[1]

\* intern_symbol allocates only when its walk finds nothing; when it finds a
\* symbol it returns it, which is a StoreRoot or a StoreStack of a value that
\* accessors reach.
MustAllocate(kind, args) ==
    kind = "intern" /\ ArgumentsValid(kind, args) => Interned(args[1], args[2]) = {}

\* The length or text arguments of a constructor.
DataArguments(kind) ==
    CASE kind = "string" -> Texts
      [] kind = "vector" -> 0..(MaxItems + 1)
      [] OTHER -> {0}

\* A constructor is called.  dest is the word of the innermost frame that will
\* receive the result; with 0 it stays in an unregistered stack word.  Vectors
\* have only the precise entry.
Construct(kind, args, data, conservative, dest) ==
    /\ phase = "run"
    /\ Words(args) \subseteq Held
    /\ kind = "vector" => ~conservative
    /\ dest > 0 => Len(frames) > 0
    /\ MustAllocate(kind, args)
    /\ IF ArgumentsValid(kind, args)
       THEN /\ phase' = "allocate"
            /\ request' = [kind |-> kind, args |-> args, data |-> data, local |-> NIL,
                           dest |-> dest]
            /\ scan' = conservative
       ELSE phase' = "aborted" /\ UNCHANGED <<request, scan>>
    /\ UNCHANGED <<objects, obj, rootVars, relied, limit, markVars>>

\* collect_objects up to the first mark_value: the work array gets one element
\* per live object (malloc(0) is avoided).
StartCollect(conservative) ==
    /\ capacity' = IF objects = {} THEN 1 ELSE Cardinality(objects)
    /\ work' = <<>>
    /\ index' = 0
    /\ marked' = {}
    /\ pending' = RegisteredValues \cap objects
    /\ phase' = "roots"
    /\ scan' = conservative
    /\ relied' = (relied /\ conservative)

\* psl_rt_collect and psl_rt_collect_precise, called by the mutator.
Collect(conservative) ==
    /\ phase = "run"
    /\ StartCollect(conservative)
    /\ UNCHANGED <<objects, obj, rootVars, limit, request>>

\* Mutant: > instead of >=.
AllocateObject_late ==
    /\ phase = "allocate"
    /\ IF Cardinality(objects) > limit
       THEN StartCollect(scan)
       ELSE phase' = "new" /\ UNCHANGED <<relied, scan, markVars>>
    /\ UNCHANGED <<objects, obj, rootVars, limit, request>>

\* allocate_object: collect when object_count has reached the limit.
AllocateObject ==
    /\ phase = "allocate"
    /\ IF Cardinality(objects) >= limit
       THEN StartCollect(scan)
       ELSE phase' = "new" /\ UNCHANGED <<relied, scan, markVars>>
    /\ UNCHANGED <<objects, obj, rootVars, limit, request>>

-----------------------------------------------------------------------------
(* Marking *)

Collecting == {"roots", "stack", "trace"}

\* Mutant: the marked flag is not tested.
MarkValue_unflagged(v) ==
    /\ phase \in Collecting /\ v \in pending
    /\ pending' = pending \ {v}
    /\ marked' = marked \cup {v} /\ work' = Append(work, v)
    /\ UNCHANGED <<objects, obj, rootVars, relied, limit, controlVars, capacity,
                   index>>

\* mark_value of a word that denotes the object v (for any other word
\* find_object answers NULL and nothing happens).
MarkValue(v) ==
    /\ phase \in Collecting /\ v \in pending
    /\ pending' = pending \ {v}
    /\ IF v \notin marked
       THEN marked' = marked \cup {v} /\ work' = Append(work, v)
       ELSE UNCHANGED <<marked, work>>
    /\ UNCHANGED <<objects, obj, rootVars, relied, limit, controlVars, capacity,
                   index>>

\* Mutant: a conservative collection does not scan the stack.
EndRoots_unscanned ==
    /\ phase = "roots" /\ pending = {}
    /\ phase' = "trace"
    /\ UNCHANGED <<objects, obj, rootVars, relied, limit, request, scan, markVars>>

\* mark_registered_roots is done: scan the stack or go on to the work array.
EndRoots ==
    /\ phase = "roots" /\ pending = {}
    /\ phase' = IF scan THEN "stack" ELSE "trace"
    /\ pending' = IF scan THEN Words(stack) \cap objects ELSE {}
    /\ UNCHANGED <<objects, obj, rootVars, relied, limit, request, scan, marked,
                   work, capacity, index>>

EndStack ==
    /\ phase = "stack" /\ pending = {}
    /\ phase' = "trace"
    /\ UNCHANGED <<objects, obj, rootVars, relied, limit, request, scan, markVars>>

\* Mutants: only the first word is followed; the loop does not advance.
MarkChildren_first ==
    /\ phase = "trace" /\ pending = {}
    /\ index < Len(work)
    /\ index' = index + 1
    /\ pending' = {obj[work[index + 1]].slots[i] :
                     i \in 1..(IF TracedCount(obj[work[index + 1]]) > 0 THEN 1 ELSE 0)}
                     \cap objects
    /\ UNCHANGED <<objects, obj, rootVars, relied, limit, controlVars, marked,
                   work, capacity>>
MarkChildren_stuck ==
    /\ phase = "trace" /\ pending = {}
    /\ index < Len(work)
    /\ pending' = ChildValues(obj[work[index + 1]]) \cap objects
    /\ UNCHANGED <<objects, obj, rootVars, relied, limit, controlVars, marked,
                   work, capacity, index>>

\* One turn of the loop over the work array: mark_children(work[index]).
MarkChildren ==
    /\ phase = "trace" /\ pending = {}
    /\ index < Len(work)
    /\ index' = index + 1
    /\ pending' = ChildValues(obj[work[index + 1]]) \cap objects
    /\ UNCHANGED <<objects, obj, rootVars, relied, limit, controlVars, marked,
                   work, capacity>>

NewLimit(count) == IF count < SmallHeap THEN MinLimit ELSE count * 2

\* Mutant: the allocation is retried from its threshold test, and the limit is
\* what survived.
Sweep_retry ==
    /\ phase = "trace" /\ pending = {}
    /\ index = Len(work)
    /\ objects' = marked
    /\ obj' = [a \in Addr |-> IF a \in objects \ marked THEN Blank ELSE obj[a]]
    /\ limit' = IF marked = {} THEN MinLimit ELSE Cardinality(marked)
    /\ marked' = {} /\ work' = <<>> /\ index' = 0 /\ capacity' = 0
    /\ phase' = IF request = NoRequest THEN "run" ELSE "allocate"
    /\ UNCHANGED <<rootVars, relied, request, scan, pending>>

\* The loop is done: free(work), sweep_objects, and the new limit.  Control
\* goes back to the allocation that triggered the collection, or to the caller
\* of psl_rt_collect.
Sweep ==
    /\ phase = "trace" /\ pending = {}
    /\ index = Len(work)
    /\ objects' = marked
    /\ obj' = [a \in Addr |-> IF a \in objects \ marked THEN Blank ELSE obj[a]]
    /\ limit' = NewLimit(Cardinality(marked))
    /\ marked' = {} /\ work' = <<>> /\ index' = 0 /\ capacity' = 0
    /\ phase' = IF request = NoRequest THEN "run" ELSE "new"
    /\ UNCHANGED <<rootVars, relied, request, scan, pending>>

-----------------------------------------------------------------------------
(* new_object and the rest of the constructor *)

\* The words a one-object constructor leaves in its calloc'ed object.
InitialSlots(kind, args) ==
    CASE kind = "cons"    -> <<args[1], args[2], ZERO>>
      [] kind = "string"  -> <<ZERO, ZERO, ZERO>>
      [] kind = "symbol"  -> <<args[1], NIL, NIL>>
      [] kind = "package" -> <<args[1], NIL, ZERO>>
      [] kind = "closure" -> <<args[1], ZERO, ZERO>>

\* The constructor pops its root frame and hands v to its caller.
Return(v) ==
    /\ phase' = "run"
    /\ request' = NoRequest
    /\ IF request.dest > 0
       THEN /\ frames' = [frames EXCEPT ![Len(frames)][request.dest] = v]
            /\ UNCHANGED stack
       ELSE stack' = [stack EXCEPT ![1] = v] /\ UNCHANGED frames
    /\ UNCHANGED <<permanent, handles, nextHandle>>

\* calloc returns a; any address without an object, a freed one included.
NewObject(a) ==
    /\ phase = "new"
    /\ request.kind \in {"cons", "string", "symbol", "package", "closure"}
    /\ objects' = objects \cup {a}
    /\ obj' = [obj EXCEPT ![a] = [kind |-> request.kind,
                                  slots |-> InitialSlots(request.kind, request.args),
                                  data |-> request.data]]
    /\ Return(a)
    /\ UNCHANGED <<relied, limit, scan, markVars>>

\* Mutant: the new symbol does not continue the chain.
NewInterned_cut(a) ==
    /\ phase = "new"
    /\ request.kind = "intern"
    /\ objects' = objects \cup {a}
    /\ obj' = [obj EXCEPT
          ![a] = [kind |-> "symbol", slots |-> <<request.args[2], request.args[1], NIL>>,
                  data |-> 0],
          ![request.args[1]].slots[2] = a]
    /\ Return(a)
    /\ UNCHANGED <<relied, limit, scan, markVars>>

\* intern_symbol after its chain walk found no symbol of that name: the new
\* symbol becomes the head of the package's chain.
NewInterned(a) ==
    /\ phase = "new"
    /\ request.kind = "intern"
    /\ objects' = objects \cup {a}
    /\ LET package == request.args[1]
           symbol == [kind |-> "symbol",
                      slots |-> <<request.args[2], package, obj[package].slots[2]>>,
                      data |-> 0]
       IN obj' = [obj EXCEPT ![a] = symbol, ![package].slots[2] = a]
    /\ Return(a)
    /\ UNCHANGED <<relied, limit, scan, markVars>>

\* psl_rt_make_value_vector_precise has its header: it replaces the NIL in the
\* root frame and gets its length, and make_storage allocates again unless
\* vector_storage_bytes aborts.
NewVector(a) ==
    /\ phase = "new"
    /\ request.kind = "vector"
    /\ objects' = objects \cup {a}
    /\ obj' = [obj EXCEPT ![a] = [kind |-> "vector", slots |-> <<ZERO, ZERO, ZERO>>,
                                  data |-> request.data]]
    /\ request' = [request EXCEPT !.kind = "storage",
                                  !.args = <<a, request.args[1]>>]
    /\ phase' = IF request.data > MaxItems THEN "aborted" ELSE "allocate"
    /\ UNCHANGED <<rootVars, relied, limit, scan, markVars>>

\* Mutant: the storage is not published in the header.
NewStorage_lost(a) ==
    /\ phase = "new"
    /\ request.kind = "storage"
    /\ objects' = objects \cup {a}
    /\ obj' = [obj EXCEPT ![a] = [kind |-> "storage", data |-> 0,
                 slots |-> [i \in 1..request.data |-> request.args[2]]]]
    /\ Return(request.args[1])
    /\ UNCHANGED <<relied, limit, scan, markVars>>

NewStorage(a) ==
    /\ phase = "new"
    /\ request.kind = "storage"
    /\ objects' = objects \cup {a}
    /\ LET vector == request.args[1]
           storage == [kind |-> "storage", data |-> 0,
                       slots |-> [i \in 1..request.data |-> request.args[2]]]
       IN obj' = [obj EXCEPT ![a] = storage, ![vector].slots[1] = a]
    /\ Return(request.args[1])
    /\ UNCHANGED <<relied, limit, scan, markVars>>

\* Mutant: the memcpy copies one item too few.
GrownItems_short(old, item) ==
    [i \in 1..GrownCapacity(Len(old)) |->
        IF i < Len(old) THEN old[i] ELSE IF i = Len(old) + 1 THEN item ELSE NIL]

\* The items of the storage a push makes: the old ones, the new one, NIL.
GrownItems(old, item) ==
    [i \in 1..GrownCapacity(Len(old)) |->
        IF i <= Len(old) THEN old[i] ELSE IF i = Len(old) + 1 THEN item ELSE NIL]

\* make_storage has the larger storage: grow_vector fills and publishes it, and
\* the push stores its item.  The caller gets an index, which is no psl_value.
NewGrown(a) ==
    /\ phase = "new"
    /\ request.kind = "grow"
    /\ objects' = objects \cup {a}
    /\ LET vector == request.args[1]
           storage == [kind |-> "storage", data |-> 0,
                       slots |-> GrownItems(obj[request.local].slots, request.args[2])]
       IN obj' = [obj EXCEPT ![a] = storage,
                             ![vector].slots[1] = a,
                             ![vector].data = obj[vector].data + 1]
    /\ phase' = "run"
    /\ request' = NoRequest
    /\ UNCHANGED <<rootVars, relied, limit, scan, markVars>>

\* calloc in new_object, or malloc of the work array, returns NULL.
OutOfMemory ==
    /\ phase = "new" \/ (phase = "roots" /\ marked = {})
    /\ phase' = "aborted"
    /\ UNCHANGED <<objects, obj, rootVars, relied, limit, request, scan, markVars>>

-----------------------------------------------------------------------------
Init ==
    /\ objects = {}
    /\ obj = [a \in Addr |-> Blank]
    /\ frames = <<>>
    /\ permanent = <<>>
    /\ handles = [t \in Token |-> Closed]
    /\ nextHandle = 1
    /\ stack = [i \in 1..StackWords |-> ZERO]
    /\ relied = TRUE
    /\ limit = MinLimit
    /\ phase = "run"
    /\ request = NoRequest
    /\ scan = FALSE
    /\ marked = {} /\ work = <<>> /\ capacity = 0 /\ index = 0 /\ pending = {}

Mutate ==
    \/ PushRoots
    \/ \E f \in 1..Len(frames) : PopRoots(f)
    \/ \E f \in 1..Len(frames), i \in 1..FrameWidth, v \in Value : StoreRoot(f, i, v)
    \/ "stack" \in Calls /\ \E i \in 1..StackWords, v \in Value : StoreStack(i, v)
    \/ "push" \in Calls /\ \E v \in Addr, item \in Value :
          Push(v, item) \/ \E i \in 1..(MaxItems + 1) : VectorSet(v, i, item)
    \/ "text" \in Calls /\ \E v \in Addr, text \in Texts : StringSet(v, text)
    \/ "values2" \in Calls /\ \E v, w \in Value : Values2(v, w)
    \/ "handle" \in Calls /\ \/ HandleOpen
                             \/ \E t \in Token, v \in Value : HandleSet(t, v)
                             \/ \E t \in Token : HandleClose(t)
    \/ \E kind \in Calls \cap Constructor, dest \in 0..FrameWidth :
          \E args \in [1..Arity(kind) -> Value], data \in DataArguments(kind),
             conservative \in BOOLEAN :
                Construct(kind, args, data, conservative, dest)
    \/ "collect" \in Calls /\ Collect(TRUE)
    \/ "collect_precise" \in Calls /\ Collect(FALSE)

CollectorStep ==
    \/ AllocateObject
    \/ \E v \in pending : MarkValue(v)
    \/ EndRoots
    \/ EndStack
    \/ MarkChildren
    \/ Sweep
    \/ \E a \in Addr \ objects :
          \/ NewObject(a) \/ NewInterned(a)
          \/ NewVector(a) \/ NewStorage(a) \/ NewGrown(a)
    \/ OutOfMemory

Next == Mutate \/ CollectorStep

Spec == Init /\ [][Next]_vars

\* The thread that runs the collector is not suspended by the runtime.
FairSpec == Spec /\ WF_vars(CollectorStep)

-----------------------------------------------------------------------------
(* Properties *)

Phase == {"run", "allocate", "roots", "stack", "trace", "new", "aborted"}

\* The type of every variable, and that nothing of a collection is left
\* outside it.
TypeOK ==
    /\ objects \subseteq Addr
    /\ obj \in [Addr -> Object]
    /\ frames \in Seq(Frame)
    /\ permanent \in Seq(Value)
    /\ handles \in [Token -> Value \cup {Closed}]
    /\ nextHandle \in Token
    /\ stack \in [1..StackWords -> Value]
    /\ relied \in BOOLEAN /\ scan \in BOOLEAN
    /\ limit \in Nat \ {0}
    /\ phase \in Phase
    /\ request \in Request
    /\ marked \subseteq Addr
    /\ work \in Seq(Addr)
    /\ capacity \in Nat /\ index \in Nat
    /\ pending \subseteq Addr

Valid(v) == v \in Imm \/ v \in objects

\* No word a program may use dangles: every registered root, every stack word
\* of a conservatively collected program and every traced word of a live object
\* is an immediate or denotes a live object, in the middle of a collection and
\* in the middle of a constructor too.  find_object would abort, or answer with
\* a reused address, for a word that dangles.
NoDangling ==
    /\ \A v \in Roots : Valid(v)
    /\ \A o \in objects : \A v \in ChildValues(obj[o]) : Valid(v)

\* mark_value never writes beyond the work array collect_objects allocated from
\* the object count it saw at the start.
WorkFits == phase \in Collecting => Len(work) <= capacity

\* The count of objects exceeds the collection limit at no time, and is below
\* it when an object is about to be added: one collection is enough to allow
\* one allocation.
CountWithinLimit ==
    /\ Cardinality(objects) <= limit
    /\ phase = "new" => Cardinality(objects) < limit

\* What is known of the running constructor: the objects it checked before it
\* allocated are still there afterwards, because its own frame roots them, and
\* the old storage of a growing vector is, because the vector's header does.
RequestOK ==
    /\ phase = "run" => request = NoRequest
    /\ request.kind = "none" => request = NoRequest
    /\ phase \in {"allocate", "new"} => request.kind # "none"
    /\ request.kind \in Constructor => Len(request.args) = Arity(request.kind)
    /\ request.kind = "intern" => IsObject(request.args[1], "package", objects, obj)
    /\ request.kind = "storage" => /\ Len(request.args) = 2
                                   /\ IsObject(request.args[1], "vector", objects, obj)
                                   /\ obj[request.args[1]].data = request.data
                                   /\ obj[request.args[1]].slots[1] = ZERO
    /\ request.kind = "grow" =>
          /\ Len(request.args) = 2
          /\ IsObject(request.args[1], "vector", objects, obj)
          /\ IsObject(request.local, "storage", objects, obj)
          /\ obj[request.args[1]].slots[1] = request.local
          /\ obj[request.args[1]].data = Len(obj[request.local].slots)
    /\ request.dest > 0 => Len(frames) > 0

\* The tricolour argument: the work array lists the marked objects once each,
\* those before index are scanned, and a word of a scanned object or of a batch
\* already started denotes a marked object or one still pending.
MarkingOK ==
    phase \in Collecting =>
       /\ marked \subseteq objects /\ pending \subseteq objects
       /\ marked = Words(work)
       /\ Len(work) = Cardinality(marked)
       /\ Cardinality(objects) <= capacity
       /\ index <= Len(work)
       /\ phase \in {"roots", "stack"} => index = 0
       /\ RegisteredValues \cap objects
             \subseteq marked \cup (IF phase = "roots" THEN pending ELSE {})
       /\ phase # "roots" /\ scan =>
             Words(stack) \cap objects
                \subseteq marked \cup (IF phase = "stack" THEN pending ELSE {})
       /\ \A i \in 1..index : ChildValues(obj[work[i]]) \cap objects
                                \subseteq marked \cup pending
       /\ relied => scan

\* Every live vector has a live storage with room for its length, except the
\* one whose storage is being allocated (a collection may run in between): no
\* index below the length reads past the storage.
VectorsComplete ==
    \A v \in objects :
       obj[v].kind = "vector" =>
          \/ /\ IsObject(obj[v].slots[1], "storage", objects, obj)
             /\ obj[v].data <= Len(obj[obj[v].slots[1]].slots)
          \/ request.kind = "storage" /\ request.args[1] = v

\* The inductive invariant of the proofs.
Inductive == TypeOK /\ RequestOK /\ MarkingOK /\ CountWithinLimit /\ VectorsComplete

\* Growing a vector is invisible: whatever collections run inside make_storage,
\* the items of a live vector change only by one item being set or added at the
\* end.
ItemsPreserved ==
    [][\A v \in objects \cap objects' :
          IsVector(v) =>
             \/ Items(v)' = Items(v)
             \/ \E i \in 1..obj[v].data, item \in Value :
                   Items(v)' = [Items(v) EXCEPT ![i] = item]
             \/ \E item \in Value : Items(v)' = Append(Items(v), item)]_vars

\* The chain of a package is walked to its end: its n-th symbol, or NIL.
ChainAt(package) ==
    LET f[n \in 1..(Cardinality(Addr) + 1)] ==
          IF n = 1 THEN obj[package].slots[2]
          ELSE IF f[n - 1] \in objects THEN obj[f[n - 1]].slots[3] ELSE NIL
    IN f

\* The chain of a live package ends in NIL and visits exactly the live symbols
\* that name the package as theirs: the walk of intern_symbol meets no other
\* object, does not go round, and misses no symbol it should find.
ChainExact ==
    \A p \in objects :
       obj[p].kind = "package" =>
          LET chain == ChainAt(p) IN
          /\ chain[Cardinality(Addr) + 1] = NIL
          /\ {chain[n] : n \in DOMAIN chain} \ {NIL}
                = {s \in objects : obj[s].kind = "symbol" /\ obj[s].slots[2] = p}

\* The same with the chain written out, as the proof needs it: c lists the
\* symbols S once each, the word head denotes the first and the third word of
\* each the next.
Link(c, n, i) == IF i <= n THEN c[i] ELSE NIL
Lists(c, n, S, head, memory) ==
    /\ \A s \in S : \E i \in 1..n : c[i] = s
    /\ head = Link(c, n, 1)
    /\ \A i \in 1..n : memory[c[i]].slots[3] = Link(c, n, i + 1)
IsChain(S, head, memory) ==
    \E c \in [1..Cardinality(S) -> S] : Lists(c, Cardinality(S), S, head, memory)
SymbolsOf(package) ==
    {s \in objects : obj[s].kind = "symbol" /\ obj[s].slots[2] = package}
ChainsListed ==
    \A p \in objects :
       obj[p].kind = "package" => IsChain(SymbolsOf(p), obj[p].slots[2], obj)

\* While intern_symbol allocates, its name is a live string and the package has
\* no symbol of that text: the answer of its chain walk is not stale.
WalkHolds ==
    request.kind = "intern" =>
       /\ IsObject(request.args[2], "string", objects, obj)
       /\ Interned(request.args[1], request.args[2]) = {}

\* Only what is reachable from the scanned roots is marked or about to be.
MarkedReached ==
    phase \in Collecting =>
       marked \cup pending \subseteq
          Reachable(RegisteredValues \cup (IF scan THEN Words(stack) ELSE {}),
                    objects, obj)

\* intern_symbol adds a symbol only under a text the package has no symbol for,
\* also after names were changed (psl_rt_string_set_byte) and collections ran
\* between its walk and the new symbol.
InternedOnce ==
    [][\A a \in objects' \ objects :
          (obj[a].kind = "symbol" /\ obj[a].slots[2] # NIL =>
              Interned(obj[a].slots[2], obj[a].slots[1]) = {a})']_vars

\* A collection frees exactly the objects that are not reachable from the roots
\* it was asked to scan, and leaves the words of the others alone.
SweepIsExact ==
    [][Sweep => LET R == RegisteredValues \cup (IF scan THEN Words(stack) ELSE {})
                IN /\ objects' = Reachable(R, objects, obj)
                   /\ \A o \in objects' : obj'[o] = obj[o]]_vars

\* The collector implements the heap a program may rely on: marking and
\* sweeping in steps, the thresholds and the handle list are invisible.
Heap == INSTANCE ManagedHeap WITH roots <- Roots
ImplementsManagedHeap == Heap!Spec

\* Handle tokens are never reused: the counter only grows, and a token below it
\* that is closed stays closed.
TokensNeverReused ==
    [][/\ nextHandle' >= nextHandle
       /\ \A t \in Token : (handles[t] = Closed /\ t < nextHandle)
                              => handles'[t] = Closed]_vars

\* A collection ends, on a cyclic heap too (a vector that holds itself): marking
\* visits every object at most once.
CollectionEnds == phase \in Collecting ~> phase \in {"run", "new", "aborted"}

\* A constructor returns (or the program aborts): one collection per allocation
\* is enough.
ConstructorEnds == request # NoRequest ~> (request = NoRequest \/ phase = "aborted")
=============================================================================
