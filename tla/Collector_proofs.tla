--------------------------- MODULE Collector_proofs ---------------------------
(***************************************************************************)
(* Proofs about Collector, for every size of the heap, of the root frames, *)
(* of the C stack and of the thresholds, and about fixnums of any width.   *)
(***************************************************************************)
EXTENDS Collector, Values, FiniteSetTheorems, SequenceTheorems,
        NaturalsInduction, WellFoundedInduction, TLAPS

-----------------------------------------------------------------------------
(* Objects and words *)

\* mark_children follows words that exist.
LEMMA TracedIsStored ==
    ASSUME NEW o \in Object
    PROVE  /\ TracedCount(o) \in Nat
           /\ TracedCount(o) <= Len(o.slots)
           /\ ChildValues(o) \subseteq Value
<1>1. o.kind \in Kind /\ o.slots \in Seq(Value)
  BY DEF Object
<1>a. o.kind # "storage" => Len(o.slots) = 3
  BY DEF Object
<1>b. o.kind = "storage" \/ TracedCount(o) \in 0..3
  BY <1>1 DEF Kind, TracedCount
<1>c. o.kind = "storage" => TracedCount(o) = Len(o.slots)
  BY DEF TracedCount
<1>2. TracedCount(o) \in Nat /\ TracedCount(o) <= Len(o.slots)
  <2>1. CASE o.kind = "storage"
    <3>1. Len(o.slots) \in Nat
      BY <1>1
    <3> QED
      BY <2>1, <3>1, <1>c
  <2>2. CASE o.kind # "storage"
    <3>1. TracedCount(o) \in 0..3 /\ Len(o.slots) = 3
      BY <2>2, <1>a, <1>b
    <3> QED
      BY <3>1
  <2> QED
    BY <2>1, <2>2
<1> QED
  BY <1>1, <1>2 DEF ChildValues

LEMMA BlankIsObject == Blank \in Object
  BY HeapAssumption DEF Blank, Object, Kind, Value

\* An object with another word in one of its slots.
WithSlot(o, i, v) == [o EXCEPT !.slots[i] = v]

\* Writing one word of an object keeps its kind and changes no other word.
LEMMA SlotUpdate ==
    ASSUME NEW o \in Object, NEW i \in 1..Len(o.slots), NEW v \in Value
    PROVE  /\ WithSlot(o, i, v) \in Object
           /\ WithSlot(o, i, v).kind = o.kind /\ WithSlot(o, i, v).data = o.data
           /\ WithSlot(o, i, v).slots = [o.slots EXCEPT ![i] = v]
           /\ Len(WithSlot(o, i, v).slots) = Len(o.slots)
           /\ ChildValues(WithSlot(o, i, v)) \subseteq ChildValues(o) \cup {v}
<1> DEFINE u == WithSlot(o, i, v)
<1>1. o.kind \in Kind /\ o.slots \in Seq(Value) /\ o.data \in Nat
  BY DEF Object
<1>2. u = [kind |-> o.kind, slots |-> [o.slots EXCEPT ![i] = v], data |-> o.data]
  BY <1>1 DEF Object, WithSlot
<1> HIDE DEF u
<1>3. [o.slots EXCEPT ![i] = v] \in Seq(Value) /\ Len([o.slots EXCEPT ![i] = v]) = Len(o.slots)
  BY <1>1
<1>4. /\ u \in Object /\ u.kind = o.kind /\ u.data = o.data
      /\ u.slots = [o.slots EXCEPT ![i] = v] /\ Len(u.slots) = Len(o.slots)
  BY <1>1, <1>2, <1>3 DEF Object
<1>5. TracedCount(u) = TracedCount(o)
  BY <1>1, <1>2, <1>3 DEF TracedCount, Kind
<1>6. \A j \in 1..TracedCount(o) : u.slots[j] \in ChildValues(o) \cup {v}
  BY <1>1, <1>2, TracedIsStored DEF ChildValues
<1> QED
  BY <1>4, <1>5, <1>6 DEF ChildValues, u

\* A new length or text leaves the words of an object alone.
LEMMA DataUpdate ==
    ASSUME NEW o \in Object, NEW d \in Nat, NEW u, u = [o EXCEPT !.data = d]
    PROVE  /\ u \in Object
           /\ u.kind = o.kind /\ u.slots = o.slots /\ u.data = d
           /\ ChildValues(u) = ChildValues(o)
<1>1. o.kind \in Kind /\ o.slots \in Seq(Value)
  BY DEF Object
<1>2. u = [kind |-> o.kind, slots |-> o.slots, data |-> d]
  BY <1>1 DEF Object
<1>3. u \in Object /\ u.kind = o.kind /\ u.slots = o.slots /\ u.data = d
  BY <1>1, <1>2 DEF Object
<1>4. TracedCount(u) = TracedCount(o)
  BY <1>1, <1>3 DEF TracedCount, Kind
<1> QED
  BY <1>3, <1>4 DEF ChildValues

LEMMA WordsOfSeq ==
    ASSUME NEW S, NEW s \in Seq(S)
    PROVE  Words(s) \subseteq S
  BY DEF Words

LEMMA WordsOfFrame ==
    ASSUME NEW S, NEW n \in Nat, NEW f \in [1..n -> S]
    PROVE  f \in Seq(S) /\ Len(f) = n /\ Words(f) \subseteq S
<1>1. f \in Seq(S) /\ Len(f) = n
  OBVIOUS
<1> QED
  BY <1>1, WordsOfSeq

LEMMA WordsAppend ==
    ASSUME NEW S, NEW s \in Seq(S), NEW v
    PROVE  Words(Append(s, v)) = Words(s) \cup {v}
  BY DEF Words

-----------------------------------------------------------------------------
(* The values a mutator handles are values *)

\* A vector the mutator can use has room for its length, and its items are
\* words the collector follows.
LEMMA VectorRoom ==
    ASSUME Inductive, NEW v, IsVector(v)
    PROVE  /\ v \in objects /\ v \in Addr /\ obj[v] \in Object
           /\ Storage(v) \in objects /\ Storage(v) \in Addr
           /\ obj[Storage(v)] \in Object /\ Storage(v) # v
           /\ obj[v].kind = "vector" /\ obj[Storage(v)].kind = "storage"
           /\ Storage(v) \in ChildValues(obj[v])
           /\ obj[v].data \in Nat /\ Len(obj[Storage(v)].slots) \in Nat
           /\ obj[v].data <= Len(obj[Storage(v)].slots)
           /\ Items(v) \in Seq(Value) /\ Len(Items(v)) = obj[v].data
           /\ \A i \in 1..obj[v].data : Items(v)[i] = obj[Storage(v)].slots[i]
           /\ Words(Items(v)) \subseteq ChildValues(obj[Storage(v)])
<1> DEFINE st == obj[v].slots[1]
           s == obj[st].slots
           d == obj[v].data
<1>1. /\ v \in objects /\ v \in Addr /\ obj[v] \in Object /\ obj[v].kind = "vector"
      /\ st \in objects /\ st \in Addr /\ obj[st] \in Object /\ obj[st].kind = "storage"
  BY DEF IsVector, IsObject, Inductive, TypeOK
<1>2. d \in Nat /\ s \in Seq(Value) /\ Len(s) \in Nat
  BY <1>1 DEF Object
<1>3. d <= Len(s)
  <2>1. ~(request.kind = "storage" /\ request.args[1] = v)
    BY <1>1, HeapAssumption DEF Inductive, RequestOK, TypeOK
  <2> QED
    BY <1>1, <2>1 DEF Inductive, VectorsComplete
<1>4. TracedCount(obj[v]) = 1 /\ TracedCount(obj[st]) = Len(s)
  BY <1>1 DEF TracedCount
<1>5. st \in ChildValues(obj[v])
  BY <1>4 DEF ChildValues
<1>6. /\ SubSeq(s, 1, d) \in Seq(Value) /\ Len(SubSeq(s, 1, d)) = d
      /\ \A i \in 1..d : SubSeq(s, 1, d)[i] = s[i]
  BY <1>2, <1>3
<1>7. Words(SubSeq(s, 1, d)) \subseteq ChildValues(obj[st])
  <2>1. \A i \in 1..d : s[i] \in ChildValues(obj[st])
    BY SMTT(40), <1>2, <1>3, <1>4 DEF ChildValues
  <2> QED
    BY <1>6, <2>1 DEF Words
<1> QED
  BY <1>1, <1>2, <1>3, <1>5, <1>6, <1>7 DEF Storage, Items

LEMMA ObjectsFinite ==
    ASSUME TypeOK, NEW S \in SUBSET objects
    PROVE  IsFiniteSet(S) /\ Cardinality(S) \in Nat /\ Cardinality(S) <= Cardinality(objects)
           /\ Cardinality(objects) \in Nat
<1>1. IsFiniteSet(objects)
  BY HeapAssumption, FS_Subset DEF TypeOK
<1> QED
  BY <1>1, FS_Subset, FS_CardinalityType

-----------------------------------------------------------------------------
(* The inductive invariant *)

LEMMA InitInductive == Init => Inductive
<1> SUFFICES ASSUME Init PROVE Inductive
  OBVIOUS
<1>1. TypeOK
  <2>1. objects \subseteq Addr /\ obj \in [Addr -> Object]
    BY BlankIsObject DEF Init
  <2>2. frames \in Seq(Frame) /\ permanent \in Seq(Value)
    BY DEF Init
  <2>3. /\ handles \in [Token -> Value \cup {Closed}]
        /\ nextHandle \in Token
        /\ stack \in [1..StackWords -> Value]
    BY CollectorAssumption, HeapAssumption DEF Init, Token, Value
  <2>4. request \in Request
    BY CollectorAssumption, HeapAssumption DEF Init, NoRequest, Request, Value
  <2>5. /\ relied \in BOOLEAN /\ scan \in BOOLEAN /\ limit \in Nat \ {0}
        /\ phase \in Phase /\ capacity \in Nat /\ index \in Nat
    BY CollectorAssumption DEF Init, Phase
  <2>6. marked \subseteq Addr /\ work \in Seq(Addr) /\ pending \subseteq Addr
    BY DEF Init
  <2> QED
    BY <2>1, <2>2, <2>3, <2>4, <2>5, <2>6 DEF TypeOK
<1>2. RequestOK
  BY DEF Init, RequestOK, NoRequest, Constructor
<1>3. MarkingOK
  BY DEF Init, MarkingOK, Collecting
<1>4. CountWithinLimit
  BY FS_EmptySet, CollectorAssumption DEF Init, CountWithinLimit
<1>5. VectorsComplete
  BY DEF Init, VectorsComplete
<1> QED
  BY <1>1, <1>2, <1>3, <1>4, <1>5 DEF Inductive

\* Every vector but x, and every storage, stays as it was.
LEMMA VectorsKept ==
    ASSUME Inductive, NEW x,
           \A o \in objects' : o # x /\ obj'[o].kind = "vector" =>
              /\ o \in objects /\ obj[o].kind = "vector"
              /\ obj'[o].slots[1] = obj[o].slots[1] /\ obj'[o].data = obj[o].data
              /\ ~(request.kind = "storage" /\ request.args[1] = o),
           \A o \in objects : obj[o].kind = "storage" =>
              /\ o \in objects' /\ obj'[o].kind = "storage"
              /\ Len(obj'[o].slots) = Len(obj[o].slots),
           x \in objects' /\ obj'[x].kind = "vector" =>
              \/ /\ IsObject(obj'[x].slots[1], "storage", objects', obj')
                 /\ obj'[x].data <= Len(obj'[obj'[x].slots[1]].slots)
              \/ request'.kind = "storage" /\ request'.args[1] = x
    PROVE  VectorsComplete'
<1> SUFFICES ASSUME NEW v \in objects', obj'[v].kind = "vector"
             PROVE  \/ /\ IsObject(obj'[v].slots[1], "storage", objects', obj')
                       /\ obj'[v].data <= Len(obj'[obj'[v].slots[1]].slots)
                    \/ request'.kind = "storage" /\ request'.args[1] = v
  BY DEF VectorsComplete
<1>1. CASE v = x
  BY <1>1
<1>2. CASE v # x
  BY <1>2 DEF Inductive, VectorsComplete, IsObject
<1> QED
  BY <1>1, <1>2

\* A step of the mutator that starts neither a constructor nor a collection,
\* and frees nothing: what has to be shown of it is its typing.
LEMMA QuietStep ==
    ASSUME Inductive, phase = "run", phase' \in {"run", "aborted"},
           UNCHANGED <<objects, limit, request>>, TypeOK',
           obj' = obj \/ VectorsComplete'
    PROVE  Inductive'
<1>1. request = NoRequest
  BY DEF Inductive, RequestOK
<1>2. RequestOK'
  BY <1>1 DEF RequestOK, NoRequest, Constructor
<1>3. MarkingOK'
  BY DEF MarkingOK, Collecting
<1>4. CountWithinLimit'
  BY DEF Inductive, CountWithinLimit
<1>5. VectorsComplete'
  BY DEF Inductive, VectorsComplete
<1> QED
  BY <1>2, <1>3, <1>4, <1>5 DEF Inductive

\* The steps of the mutator that leave the collector alone.
LEMMA MutatorInductive ==
    ASSUME Inductive,
           \/ PushRoots
           \/ \E f \in 1..Len(frames) : PopRoots(f)
           \/ \E f \in 1..Len(frames), i \in 1..FrameWidth, v \in Value : StoreRoot(f, i, v)
           \/ \E i \in 1..StackWords, v \in Value : StoreStack(i, v)
           \/ \E v \in Addr, i \in 1..(MaxItems + 1), item \in Value : VectorSet(v, i, item)
           \/ \E v \in Addr, text \in Texts : StringSet(v, text)
           \/ \E v, w \in Value : Values2(v, w)
           \/ HandleOpen
           \/ \E t \in Token, v \in Value : HandleSet(t, v)
           \/ \E t \in Token : HandleClose(t)
    PROVE  Inductive'
<1> USE DEF rootVars, markVars, controlVars
<1>t. TypeOK
  BY DEF Inductive
<1>n. NIL \in Value
  BY HeapAssumption DEF Value
<1>1. CASE PushRoots
  <2>1. frames' \in Seq(Frame)
    <3> DEFINE new == [i \in 1..FrameWidth |-> NIL]
    <3>1. new \in Frame
      BY <1>n DEF Frame
    <3>2. frames' = Append(frames, new)
      BY <1>1 DEF PushRoots
    <3>3. frames \in Seq(Frame)
      BY <1>t DEF TypeOK
    <3> HIDE DEF new
    <3> QED
      BY <3>1, <3>2, <3>3
  <2>2. TypeOK'
    BY <1>1, <1>t, <2>1 DEF PushRoots, TypeOK
  <2> QED
    BY <1>1, <2>2, QuietStep DEF PushRoots
<1>2. ASSUME NEW f \in 1..Len(frames), PopRoots(f)
      PROVE  Inductive'
  <2>1. frames' \in Seq(Frame)
    <3>1. frames \in Seq(Frame) /\ Len(frames) \in Nat
      BY <1>t DEF TypeOK
    <3>2. SubSeq(frames, 1, Len(frames) - 1) \in Seq(Frame)
      BY <3>1, SubSeqProperties
    <3> QED
      BY <3>1, <3>2, <1>2 DEF PopRoots
  <2>2. TypeOK'
    BY <1>2, <1>t, <2>1 DEF PopRoots, TypeOK, Phase
  <2> QED
    BY <1>2, <2>2, QuietStep DEF PopRoots
<1>3. ASSUME NEW f \in 1..Len(frames), NEW i \in 1..FrameWidth, NEW v \in Value,
             StoreRoot(f, i, v)
      PROVE  Inductive'
  <2>1. frames' \in Seq(Frame)
    <3>1. frames[f] \in Frame
      BY <1>t DEF TypeOK
    <3>2. frames' = [frames EXCEPT ![f] = [frames[f] EXCEPT ![i] = v]]
      BY <1>3 DEF StoreRoot
    <3>3. [frames[f] EXCEPT ![i] = v] \in Frame
      BY <3>1 DEF Frame
    <3> QED
      BY <3>2, <3>3, <1>t DEF TypeOK
  <2>2. TypeOK'
    BY <1>3, <1>t, <2>1 DEF StoreRoot, TypeOK
  <2> QED
    BY <1>3, <2>2, QuietStep DEF StoreRoot
<1>4. ASSUME NEW i \in 1..StackWords, NEW v \in Value, StoreStack(i, v)
      PROVE  Inductive'
  <2>1. TypeOK'
    BY <1>4, <1>t DEF StoreStack, TypeOK
  <2> QED
    BY <1>4, <2>1, QuietStep DEF StoreStack
<1>5. ASSUME NEW v \in Addr, NEW i \in 1..(MaxItems + 1), NEW item \in Value,
             VectorSet(v, i, item)
      PROVE  Inductive'
  <2>1. CASE IsVector(v) /\ i <= obj[v].data
    <3> DEFINE st == Storage(v)
               written == WithSlot(obj[st], i, item)
    <3>1. i \in 1..Len(obj[st].slots) /\ i \in Nat
      BY <2>1, VectorRoom, CollectorAssumption
    <3>w. obj[st] \in Object /\ obj[st].kind = "storage"
      BY <2>1, VectorRoom
    <3>2. /\ written \in Object /\ written.kind = "storage"
          /\ Len(written.slots) = Len(obj[st].slots)
      <4>1. PICK o \in Object : o = obj[st]
        BY <3>w
      <4>2. i \in 1..Len(o.slots) /\ item \in Value
        BY <3>1, <4>1
      <4>3. /\ WithSlot(o, i, item) \in Object /\ WithSlot(o, i, item).kind = o.kind
            /\ Len(WithSlot(o, i, item).slots) = Len(o.slots)
        <5> HIDE DEF written, st
        <5> QED
          BY ZenonT(60), <4>2, SlotUpdate
      <4> QED
        BY <3>w, <4>1, <4>3
    <3>3. obj' = [obj EXCEPT ![st] = written]
      BY <1>5, <2>1 DEF VectorSet, WithSlot
    <3>4. UNCHANGED <<objects, request>> /\ phase = "run" /\ phase' = "run"
      BY <1>5, <2>1 DEF VectorSet
    <3> HIDE DEF written
    <3>5. /\ obj' \in [Addr -> Object]
          /\ \A o \in objects : o # st => obj'[o] = obj[o]
          /\ obj'[st] = written
      BY <2>1, <3>2, <3>3, <1>t, VectorRoom DEF TypeOK
    <3>6. VectorsComplete'
      <4>1. request.kind # "storage"
        BY <3>4 DEF Inductive, RequestOK, NoRequest
      <4> QED
        BY <2>1, <3>2, <3>4, <3>5, <4>1, VectorsKept
    <3>7. TypeOK'
      BY <1>5, <1>t, <3>4, <3>5 DEF VectorSet, TypeOK, Phase
    <3> QED
      BY <1>5, <3>4, <3>6, <3>7, QuietStep DEF VectorSet
  <2>2. CASE ~(IsVector(v) /\ i <= obj[v].data)
    <3>1. TypeOK'
      BY <1>5, <1>t, <2>2 DEF VectorSet, TypeOK, Phase
    <3> QED
      BY <1>5, <2>2, <3>1, QuietStep DEF VectorSet
  <2> QED
    BY <2>1, <2>2
<1>10. ASSUME NEW v \in Addr, NEW text \in Texts, StringSet(v, text)
       PROVE  Inductive'
  <2>1. CASE /\ IsObject(v, "string", objects, obj)
             /\ obj' = [obj EXCEPT ![v].data = text] /\ UNCHANGED phase
    <3> DEFINE written == [obj[v] EXCEPT !.data = text]
    <3>1. obj[v] \in Object /\ text \in Nat /\ obj[v].kind = "string"
      BY <2>1, <1>t, CollectorAssumption DEF TypeOK, IsObject
    <3>2. written \in Object /\ written.kind = "string"
      BY <3>1, DataUpdate
    <3>3. obj' = [obj EXCEPT ![v] = written]
      BY <1>10, <2>1 DEF StringSet
    <3>4. UNCHANGED <<objects, request>> /\ phase = "run" /\ phase' = "run"
      BY <1>10, <2>1 DEF StringSet
    <3> HIDE DEF written
    <3>5. /\ obj' \in [Addr -> Object]
          /\ \A o \in objects : o # v => obj'[o] = obj[o]
          /\ obj'[v] = written
      BY <3>2, <3>3, <1>t DEF TypeOK
    <3>6. VectorsComplete'
      <4>1. request.kind # "storage"
        BY <3>4 DEF Inductive, RequestOK, NoRequest
      <4> QED
        BY <3>1, <3>2, <3>4, <3>5, <4>1, VectorsKept
    <3>7. TypeOK'
      BY <1>10, <1>t, <3>4, <3>5 DEF StringSet, TypeOK, Phase
    <3> QED
      BY <1>10, <3>4, <3>6, <3>7, QuietStep DEF StringSet
  <2>2. CASE phase' = "aborted" /\ UNCHANGED obj
    <3>1. TypeOK'
      BY <1>10, <1>t, <2>2 DEF StringSet, TypeOK, Phase
    <3> QED
      BY <1>10, <2>2, <3>1, QuietStep DEF StringSet
  <2> QED
    BY <1>10, <2>1, <2>2 DEF StringSet
<1>6. ASSUME NEW v \in Value, NEW w \in Value, Values2(v, w)
      PROVE  Inductive'
  <2>1. TypeOK'
    BY <1>6, <1>t DEF Values2, TypeOK
  <2> QED
    BY <1>6, <2>1, QuietStep DEF Values2
<1>7. CASE HandleOpen
  <2>1. nextHandle' \in Token /\ handles' \in [Token -> Value \cup {Closed}]
    BY <1>7, <1>t, <1>n, CollectorAssumption DEF HandleOpen, TypeOK, Token
  <2>2. TypeOK'
    BY <1>7, <1>t, <2>1 DEF HandleOpen, TypeOK, Phase
  <2> QED
    BY <1>7, <2>2, QuietStep DEF HandleOpen
<1>8. ASSUME NEW t \in Token, NEW v \in Value, HandleSet(t, v)
      PROVE  Inductive'
  <2>1. TypeOK'
    BY <1>8, <1>t DEF HandleSet, TypeOK, Phase
  <2> QED
    BY <1>8, <2>1, QuietStep DEF HandleSet
<1>9. ASSUME NEW t \in Token, HandleClose(t)
      PROVE  Inductive'
  <2>1. TypeOK'
    BY <1>9, <1>t DEF HandleClose, TypeOK, Phase
  <2> QED
    BY <1>9, <2>1, QuietStep DEF HandleClose
<1> QED
  BY <1>1, <1>2, <1>3, <1>4, <1>5, <1>6, <1>7, <1>8, <1>9, <1>10

\* A push stores its item in the storage of its vector, aborts, or asks for a
\* larger storage; the full old one is then what RequestOK remembers.
LEMMA PushInductive ==
    ASSUME Inductive, NEW v \in Addr, NEW item \in Value, Push(v, item)
    PROVE  Inductive'
<1> USE DEF rootVars, markVars, controlVars
<1>t. TypeOK
  BY DEF Inductive
<1>q. /\ phase = "run" /\ request.kind # "storage" /\ request = NoRequest
      /\ UNCHANGED <<objects, rootVars, relied, limit, markVars>>
  BY DEF Push, Inductive, RequestOK, NoRequest
<1> DEFINE st == Storage(v)
           room == Len(obj[st].slots)
<1>1. CASE ~IsVector(v)
  <2>1. phase' = "aborted" /\ UNCHANGED <<obj, request, scan>>
    BY <1>1 DEF Push
  <2>2. TypeOK'
    BY <1>t, <1>q, <2>1 DEF TypeOK, Phase
  <2> QED
    BY <1>q, <2>1, <2>2, QuietStep
<1>2. CASE IsVector(v) /\ obj[v].data < room
  <2> DEFINE i == obj[v].data + 1
             written == WithSlot(obj[st], i, item)
             longer == [obj[v] EXCEPT !.data = i]
  <2>1. i \in 1..room /\ i \in Nat
    BY <1>2, VectorRoom
  <2>w. /\ obj[st] \in Object /\ obj[st].kind = "storage" /\ obj[v] \in Object
        /\ obj[v].kind = "vector"
    BY <1>2, VectorRoom
  <2>2. written \in Object /\ written.kind = "storage" /\ Len(written.slots) = room
    BY ZenonT(60), <2>1, <2>w, SlotUpdate
  <2>3. /\ longer \in Object /\ longer.kind = "vector" /\ longer.slots = obj[v].slots
        /\ longer.data = i
    BY <2>1, <2>w, DataUpdate
  <2>4. obj' = [obj EXCEPT ![st] = written, ![v] = longer]
    <3>1. obj' = [obj EXCEPT ![Storage(v)].slots[obj[v].data + 1] = item,
                             ![v].data = obj[v].data + 1]
      BY <1>2, VectorRoom DEF Push
    <3>2. st \in Addr /\ st # v
      BY <1>2, VectorRoom
    <3> QED
      BY <3>1, <3>2, <1>t DEF TypeOK, WithSlot
  <2>5. UNCHANGED <<phase, request, scan>>
    BY <1>2, VectorRoom DEF Push
  <2> HIDE DEF written, longer
  <2>6. /\ obj' \in [Addr -> Object]
        /\ \A o \in objects : o # st /\ o # v => obj'[o] = obj[o]
        /\ obj'[st] = written /\ obj'[v] = longer
    BY <1>2, <2>2, <2>3, <2>4, <1>t, VectorRoom DEF TypeOK
  <2>7. VectorsComplete'
    <3>1. /\ IsObject(obj'[v].slots[1], "storage", objects', obj')
          /\ obj'[v].data <= Len(obj'[obj'[v].slots[1]].slots)
      BY <1>2, <1>q, <2>1, <2>2, <2>3, <2>6, VectorRoom DEF IsObject, Storage
    <3>2. \A o \in objects : obj[o].kind = "storage" =>
              /\ o \in objects' /\ obj'[o].kind = "storage"
              /\ Len(obj'[o].slots) = Len(obj[o].slots)
      BY <1>2, <1>q, <2>2, <2>6, VectorRoom
    <3>3. \A o \in objects' : o # v /\ obj'[o].kind = "vector" =>
              /\ o \in objects /\ obj[o].kind = "vector"
              /\ obj'[o].slots[1] = obj[o].slots[1] /\ obj'[o].data = obj[o].data
              /\ ~(request.kind = "storage" /\ request.args[1] = o)
      BY <1>2, <1>q, <2>2, <2>6, VectorRoom
    <3> QED
      BY <3>1, <3>2, <3>3, VectorsKept
  <2>8. TypeOK'
    BY <1>t, <1>q, <2>5, <2>6 DEF TypeOK
  <2> QED
    BY <1>q, <2>5, <2>7, <2>8, QuietStep
<1>3. CASE IsVector(v) /\ ~(obj[v].data < room)
  <2>1. obj' = obj /\ obj[v].data = room
    BY <1>3, VectorRoom DEF Push
  <2>2. CASE GrownCapacity(room) > MaxItems
    <3>1. phase' = "aborted" /\ UNCHANGED <<request, scan>>
      BY <1>3, <2>2 DEF Push
    <3>2. TypeOK'
      BY <1>t, <1>q, <2>1, <3>1 DEF TypeOK, Phase
    <3> QED
      BY <1>q, <2>1, <3>1, <3>2, QuietStep
  <2>3. CASE ~(GrownCapacity(room) > MaxItems)
    <3>1. /\ phase' = "allocate" /\ scan' = FALSE
          /\ request' = [kind |-> "grow", args |-> <<v, item>>, data |-> 0,
                         local |-> st, dest |-> 0]
      BY <1>3, <2>3 DEF Push
    <3>2. /\ v \in objects /\ st \in objects /\ st \in Value
          /\ <<v, item>> \in Seq(Value) /\ Len(<<v, item>>) = 2
          /\ IsObject(v, "vector", objects, obj) /\ IsObject(st, "storage", objects, obj)
      BY <1>3, VectorRoom DEF Value, IsObject
    <3>3. request' \in Request
      BY <3>1, <3>2, CollectorAssumption DEF Request
    <3>4. TypeOK'
      BY <1>t, <1>q, <2>1, <3>1, <3>3 DEF TypeOK, Phase
    <3>5. RequestOK'
      BY <1>q, <2>1, <3>1, <3>2 DEF RequestOK, Constructor, Storage
    <3>6. MarkingOK' /\ CountWithinLimit' /\ VectorsComplete'
      BY <1>q, <2>1, <3>1
         DEF Inductive, MarkingOK, Collecting, CountWithinLimit, VectorsComplete
    <3> QED
      BY <3>4, <3>5, <3>6 DEF Inductive
  <2> QED
    BY <2>2, <2>3
<1> QED
  BY <1>1, <1>2, <1>3

\* A constructor is called: the arguments it checked and the arity of its root
\* frame are what RequestOK remembers.
LEMMA ConstructInductive ==
    ASSUME Inductive, NEW kind \in Calls \cap Constructor,
           NEW args \in [1..Arity(kind) -> Value], NEW data \in DataArguments(kind),
           NEW conservative \in BOOLEAN, NEW dest \in 0..FrameWidth,
           Construct(kind, args, data, conservative, dest)
    PROVE  Inductive'
<1> USE DEF rootVars, markVars
<1>1. Arity(kind) \in Nat
  BY DEF Arity, Constructor
<1>2. args \in Seq(Value) /\ Len(args) = Arity(kind)
  BY <1>1, WordsOfFrame
<1>d. data \in Nat /\ NIL \in Value
  BY CollectorAssumption, HeapAssumption DEF DataArguments, Value
<1>3. TypeOK'
  <2>1. request' \in Request
    BY <1>2, <1>d DEF Construct, Inductive, TypeOK, Request
  <2> QED
    BY <2>1 DEF Construct, Inductive, TypeOK, Phase
<1>4. RequestOK'
  <2>1. CASE ArgumentsValid(kind, args)
    <3>1. /\ request' = [kind |-> kind, args |-> args, data |-> data, local |-> NIL,
                         dest |-> dest]
          /\ phase' = "allocate" /\ UNCHANGED <<objects, obj, frames>>
          /\ dest > 0 => Len(frames) > 0
      BY <2>1 DEF Construct
    <3>2. kind \notin {"none", "storage", "grow"} /\ kind \in Constructor
      BY DEF Constructor
    <3>3. kind = "intern" => IsObject(args[1], "package", objects, obj)
      BY <2>1 DEF ArgumentsValid
    <3> QED
      BY <3>1, <3>2, <3>3, <1>2 DEF RequestOK
  <2>2. CASE ~ArgumentsValid(kind, args)
    BY <2>2 DEF Construct, Inductive, RequestOK, NoRequest, Constructor
  <2> QED
    BY <2>1, <2>2
<1>5. MarkingOK'
  BY DEF Construct, MarkingOK, Collecting
<1>6. CountWithinLimit'
  BY DEF Construct, Inductive, CountWithinLimit
<1>7. VectorsComplete'
  BY DEF Construct, Inductive, RequestOK, NoRequest, VectorsComplete
<1> QED
  BY <1>3, <1>4, <1>5, <1>6, <1>7 DEF Inductive

\* A collection starts, called by the mutator or from allocate_object: nothing
\* is marked, and all registered roots are pending.
LEMMA StartCollectInductive ==
    ASSUME Inductive, NEW conservative \in BOOLEAN, StartCollect(conservative),
           phase \in {"run", "allocate"},
           UNCHANGED <<objects, obj, rootVars, limit, request>>
    PROVE  Inductive'
<1> USE DEF rootVars
<1>1. Cardinality(objects) \in Nat
  BY ObjectsFinite DEF Inductive
<1>2. TypeOK'
  <2>1. capacity' \in Nat /\ index' \in Nat
    BY <1>1 DEF StartCollect
  <2>2. work' \in Seq(Addr) /\ marked' \subseteq Addr /\ pending' \subseteq Addr
    BY DEF StartCollect, Inductive, TypeOK
  <2>3. relied' \in BOOLEAN /\ scan' \in BOOLEAN /\ phase' \in Phase
    BY DEF StartCollect, Inductive, TypeOK, Phase
  <2> QED
    BY <2>1, <2>2, <2>3 DEF Inductive, TypeOK
<1>3. RequestOK'
  BY DEF StartCollect, Inductive, RequestOK, NoRequest, Constructor
<1>4. MarkingOK'
  <2>1. Cardinality({}) = 0 /\ Len(<<>>) = 0 /\ Words(<<>>) = {}
    BY FS_EmptySet DEF Words
  <2>2. RegisteredValues' = RegisteredValues
    BY DEF RegisteredValues, FrameValues, HandleValues
  <2>3. Cardinality(objects) <= capacity'
    <3>1. CASE objects = {}
      <4>1. Cardinality(objects) = 0
        BY <3>1, <2>1
      <4>2. capacity' = 1
        BY <3>1 DEF StartCollect
      <4> QED
        BY <4>1, <4>2
    <3>2. CASE objects # {}
      <4>1. capacity' = Cardinality(objects)
        BY <3>2 DEF StartCollect
      <4> QED
        BY <4>1, <1>1
    <3> QED
      BY <3>1, <3>2
  <2>4. /\ phase' = "roots" /\ marked' = {} /\ work' = <<>> /\ index' = 0
        /\ pending' = RegisteredValues \cap objects
        /\ relied' = (relied /\ conservative) /\ scan' = conservative
    BY DEF StartCollect
  <2>5. relied' => scan'
    BY <2>4
  <2> QED
    BY <2>1, <2>2, <2>3, <2>4, <2>5 DEF MarkingOK
<1>5. CountWithinLimit' /\ VectorsComplete'
  BY DEF StartCollect, Inductive, CountWithinLimit, VectorsComplete
<1> QED
  BY <1>2, <1>3, <1>4, <1>5 DEF Inductive

LEMMA AllocateInductive ==
    ASSUME Inductive, AllocateObject
    PROVE  Inductive'
<1>1. CASE Cardinality(objects) >= limit
  BY <1>1, StartCollectInductive DEF AllocateObject, Inductive, TypeOK
<1>2. CASE ~(Cardinality(objects) >= limit)
  <2> USE DEF rootVars, markVars
  <2>1. /\ phase = "allocate" /\ phase' = "new"
        /\ UNCHANGED <<objects, obj, rootVars, relied, limit, request, scan, markVars>>
    BY <1>2 DEF AllocateObject
  <2>2. TypeOK'
    BY <2>1 DEF Inductive, TypeOK, Phase
  <2>3. RequestOK'
    BY <2>1 DEF Inductive, RequestOK
  <2>4. MarkingOK'
    BY <2>1 DEF MarkingOK, Collecting
  <2>5. Cardinality(objects) \in Nat /\ limit \in Nat
    BY ObjectsFinite DEF Inductive, TypeOK
  <2>6. CountWithinLimit' /\ VectorsComplete'
    BY <2>1, <2>5, <1>2 DEF Inductive, CountWithinLimit, VectorsComplete
  <2> QED
    BY <2>2, <2>3, <2>4, <2>6 DEF Inductive
<1> QED
  BY <1>1, <1>2

-----------------------------------------------------------------------------
(* Marking and sweeping *)

\* One object of a batch is marked and enters the work array, unless it is there.
LEMMA MarkValueInductive ==
    ASSUME Inductive, NEW v \in pending, MarkValue(v)
    PROVE  Inductive'
<1> USE DEF rootVars, controlVars
<1>1. /\ UNCHANGED <<objects, obj, rootVars, relied, limit, phase, request, scan,
                     capacity, index>>
      /\ pending' = pending \ {v}
      /\ v \in objects /\ v \in Addr /\ phase \in Collecting
  BY DEF MarkValue, Inductive, MarkingOK, TypeOK
<1>2. RegisteredValues' = RegisteredValues
  BY <1>1 DEF RegisteredValues, FrameValues, HandleValues
<1>3. RequestOK' /\ CountWithinLimit' /\ VectorsComplete'
  BY <1>1 DEF Inductive, RequestOK, CountWithinLimit, VectorsComplete
<1>4. CASE v \in marked
  <2>1. UNCHANGED <<marked, work>>
    BY <1>4 DEF MarkValue
  <2>2. TypeOK'
    BY <1>1, <2>1 DEF Inductive, TypeOK
  <2>3. MarkingOK'
    BY <1>1, <1>2, <1>4, <2>1 DEF Inductive, MarkingOK
  <2> QED
    BY <1>3, <2>2, <2>3 DEF Inductive
<1>5. CASE v \notin marked
  <2>1. marked' = marked \cup {v} /\ work' = Append(work, v)
    BY <1>5 DEF MarkValue
  <2>2. /\ work \in Seq(Addr) /\ work' \in Seq(Addr)
        /\ Len(work') = Len(work) + 1 /\ Len(work) \in Nat
        /\ \A i \in 1..Len(work) : work'[i] = work[i]
    BY <2>1, <1>1, AppendProperties DEF Inductive, TypeOK
  <2>3. TypeOK'
    BY <1>1, <2>1, <2>2 DEF Inductive, TypeOK
  <2>4. Words(work') = marked'
    BY <1>1, <2>1, <2>2, WordsAppend DEF Inductive, MarkingOK
  <2>5. Cardinality(marked') = Cardinality(marked) + 1
    <3>1. IsFiniteSet(marked)
      BY <1>1, ObjectsFinite DEF Inductive, MarkingOK
    <3> QED
      BY <3>1, <2>1, <1>5, FS_AddElement
  <2>6. index \in Nat /\ index <= Len(work)
    BY <1>1 DEF Inductive, MarkingOK, TypeOK
  <2>7. \A i \in 1..index : ChildValues(obj[work'[i]]) \cap objects
                               \subseteq marked' \cup pending'
    <3>1. \A i \in 1..index : work'[i] = work[i]
      BY <2>2, <2>6
    <3> QED
      BY <3>1, <2>1, <1>1 DEF Inductive, MarkingOK
  <2>8. /\ RegisteredValues \cap objects
             \subseteq marked' \cup (IF phase = "roots" THEN pending' ELSE {})
        /\ phase # "roots" /\ scan =>
             Words(stack) \cap objects
                \subseteq marked' \cup (IF phase = "stack" THEN pending' ELSE {})
    BY <2>1, <1>1 DEF Inductive, MarkingOK
  <2>9. MarkingOK'
    <3>1. Cardinality(objects') <= capacity' /\ (relied' => scan')
      BY <1>1 DEF Inductive, MarkingOK
    <3>2. marked' \subseteq objects' /\ pending' \subseteq objects'
      BY <1>1, <2>1 DEF Inductive, MarkingOK
    <3>3. Len(work') = Cardinality(marked') /\ index' <= Len(work')
      BY <1>1, <2>2, <2>5, <2>6 DEF Inductive, MarkingOK
    <3>4. phase' \in {"roots", "stack"} => index' = 0
      BY <1>1 DEF Inductive, MarkingOK
    <3> QED
      BY <1>1, <1>2, <2>4, <2>7, <2>8, <3>1, <3>2, <3>3, <3>4 DEF MarkingOK
  <2> QED
    BY <1>3, <2>3, <2>9 DEF Inductive
<1> QED
  BY <1>4, <1>5

\* Between two batches, and one turn of the loop over the work array.
LEMMA BatchInductive ==
    ASSUME Inductive, EndRoots \/ EndStack \/ MarkChildren
    PROVE  Inductive'
<1> USE DEF rootVars, controlVars, markVars
<1>1. /\ UNCHANGED <<objects, obj, rootVars, relied, limit, request, scan, marked,
                     work, capacity>>
      /\ phase \in Collecting /\ phase' \in Collecting
      /\ pending = {}
  BY DEF EndRoots, EndStack, MarkChildren, Collecting, Inductive, TypeOK
<1>2. RegisteredValues' = RegisteredValues
  BY <1>1 DEF RegisteredValues, FrameValues, HandleValues
<1>3. RequestOK' /\ CountWithinLimit' /\ VectorsComplete'
  BY <1>1 DEF Inductive, RequestOK, CountWithinLimit, VectorsComplete, Collecting
<1>4. CASE EndRoots
  <2>1. TypeOK'
    BY <1>1, <1>4 DEF EndRoots, Inductive, TypeOK, Phase
  <2>2. MarkingOK'
    BY <1>1, <1>2, <1>4 DEF EndRoots, Inductive, MarkingOK, TypeOK
  <2> QED
    BY <1>3, <2>1, <2>2 DEF Inductive
<1>5. CASE EndStack
  <2>1. TypeOK'
    BY <1>1, <1>5 DEF EndStack, Inductive, TypeOK, Phase
  <2>2. MarkingOK'
    BY <1>1, <1>2, <1>5 DEF EndStack, Inductive, MarkingOK
  <2> QED
    BY <1>3, <2>1, <2>2 DEF Inductive
<1>6. CASE MarkChildren
  <2>1. /\ index' = index + 1 /\ index < Len(work) /\ phase = "trace"
        /\ UNCHANGED phase
        /\ pending' = ChildValues(obj[work[index + 1]]) \cap objects
    BY <1>6 DEF MarkChildren
  <2>2. index \in Nat /\ Len(work) \in Nat
    BY DEF Inductive, TypeOK
  <2>3. TypeOK'
    BY <1>1, <2>1, <2>2 DEF Inductive, TypeOK
  <2>4. \A i \in 1..index' : ChildValues(obj[work[i]]) \cap objects
                                \subseteq marked \cup pending'
    <3>1. \A i \in 1..index' : i \in 1..index \/ i = index + 1
      BY <2>1, <2>2
    <3>2. \A i \in 1..index : ChildValues(obj[work[i]]) \cap objects \subseteq marked
      BY <1>1 DEF Inductive, MarkingOK
    <3> QED
      BY <3>1, <3>2, <2>1
  <2>5. MarkingOK'
    BY <1>1, <1>2, <2>1, <2>2, <2>4 DEF Inductive, MarkingOK
  <2> QED
    BY <1>3, <2>3, <2>5 DEF Inductive
<1> QED
  BY <1>4, <1>5, <1>6

\* When the loop over the work array is done, the marked objects contain what
\* the scanned words denote and are closed under the words of their members.
LEMMA MarkedIsClosed ==
    ASSUME Inductive, phase = "trace", pending = {}, index = Len(work)
    PROVE  /\ marked \subseteq objects
           /\ ClosedFrom(RegisteredValues, marked, objects, obj)
           /\ scan => Words(stack) \cap objects \subseteq marked
           /\ ClosedFrom(Roots, marked, objects, obj)
<1>1. /\ marked \subseteq objects /\ marked = Words(work)
      /\ RegisteredValues \cap objects \subseteq marked
      /\ scan => Words(stack) \cap objects \subseteq marked
      /\ relied => scan
      /\ \A i \in 1..index : ChildValues(obj[work[i]]) \cap objects \subseteq marked
  BY DEF Inductive, MarkingOK, Collecting
<1>2. \A o \in marked : \E i \in 1..index : o = work[i]
  BY <1>1 DEF Words
<1>3. \A o \in marked : ChildValues(obj[o]) \cap objects \subseteq marked
  BY <1>1, <1>2
<1>4. Roots \cap objects \subseteq marked
  BY <1>1 DEF Roots
<1> QED
  BY <1>1, <1>3, <1>4 DEF ClosedFrom

LEMMA SweepInductive ==
    ASSUME Inductive, Sweep
    PROVE  Inductive'
<1> USE DEF rootVars
<1>1. /\ phase = "trace" /\ objects' = marked
      /\ obj' = [a \in Addr |-> IF a \in objects \ marked THEN Blank ELSE obj[a]]
      /\ limit' = NewLimit(Cardinality(marked))
      /\ marked' = {} /\ work' = <<>> /\ index' = 0 /\ capacity' = 0
      /\ phase' = IF request = NoRequest THEN "run" ELSE "new"
      /\ UNCHANGED <<rootVars, relied, request, scan, pending>>
  BY DEF Sweep
<1>2. /\ marked \subseteq objects
      /\ RegisteredValues \cap objects \subseteq marked
      /\ \A o \in marked : ChildValues(obj[o]) \cap objects \subseteq marked
  BY MarkedIsClosed DEF Sweep, ClosedFrom
<1>3. Cardinality(marked) \in Nat
  BY <1>2, ObjectsFinite DEF Inductive
<1>4. /\ limit' \in Nat \ {0}
      /\ Cardinality(marked) < limit'
  BY <1>1, <1>3, CollectorAssumption DEF NewLimit
<1>5. TypeOK'
  <2>1. objects' \subseteq Addr /\ obj' \in [Addr -> Object]
    BY <1>1, <1>2, BlankIsObject DEF Inductive, TypeOK
  <2>2. /\ marked' \subseteq Addr /\ work' \in Seq(Addr)
        /\ capacity' \in Nat /\ index' \in Nat /\ phase' \in Phase
    BY <1>1 DEF Phase
  <2> QED
    BY <1>1, <1>4, <2>1, <2>2 DEF Inductive, TypeOK
<1>s. \A o \in marked : obj'[o] = obj[o]
  BY <1>1, <1>2 DEF Inductive, TypeOK
<1>v. \A v \in marked : obj[v].kind = "vector" /\ obj[v].slots[1] \in objects
                           => obj[v].slots[1] \in marked
  <2> SUFFICES ASSUME NEW v \in marked, obj[v].kind = "vector"
               PROVE  obj[v].slots[1] \in ChildValues(obj[v])
    BY <1>2
  <2> QED
    BY DEF ChildValues, TracedCount
<1>6. RequestOK'
  <2>2. request.kind \in {"intern", "storage", "grow"} =>
           request.args[1] \in RegisteredValues \cap objects
    <3>1. request.kind \in {"intern", "storage", "grow"} =>
             /\ Len(request.args) = 2
             /\ request.args[1] \in objects
      BY DEF Inductive, RequestOK, Arity, IsObject, Constructor
    <3> QED
      BY <3>1 DEF RegisteredValues, Words
  <2>3. /\ request.kind = "intern" => IsObject(request.args[1], "package", objects', obj')
        /\ request.kind \in {"storage", "grow"} =>
              /\ IsObject(request.args[1], "vector", objects', obj')
              /\ obj'[request.args[1]] = obj[request.args[1]]
    BY <1>1, <1>2, <1>s, <2>2 DEF Inductive, RequestOK, IsObject
  <2>4. request.kind = "grow" => /\ IsObject(request.local, "storage", objects', obj')
                                 /\ obj'[request.local] = obj[request.local]
    BY <1>1, <1>2, <1>s, <1>v, <2>2 DEF Inductive, RequestOK, IsObject
  <2>5. request.kind = "none" => request = NoRequest
    BY <1>1 DEF Inductive, RequestOK
  <2> QED
    BY <1>1, <2>3, <2>4, <2>5 DEF Inductive, RequestOK
<1>7. MarkingOK'
  BY <1>1 DEF MarkingOK, Collecting
<1>8. CountWithinLimit'
  BY <1>1, <1>3, <1>4 DEF CountWithinLimit
<1>9. VectorsComplete'
  <2> SUFFICES ASSUME NEW v \in marked, obj[v].kind = "vector",
                      ~(request.kind = "storage" /\ request.args[1] = v)
               PROVE  /\ IsObject(obj[v].slots[1], "storage", marked, obj')
                      /\ obj[v].data <= Len(obj'[obj[v].slots[1]].slots)
    BY <1>1, <1>s DEF VectorsComplete
  <2> QED
    BY <1>2, <1>s, <1>v DEF Inductive, VectorsComplete, IsObject
<1> QED
  BY <1>5, <1>6, <1>7, <1>8, <1>9 DEF Inductive

-----------------------------------------------------------------------------
(* New objects *)

\* The object that allocate_object made room for: one more than before, within
\* the limit.
LEMMA OneMoreObject ==
    ASSUME Inductive, phase = "new", NEW a \in Addr \ objects,
           objects' = objects \cup {a}, limit' = limit, phase' # "new"
    PROVE  CountWithinLimit' /\ objects' \subseteq Addr
<1>1. IsFiniteSet(objects) /\ Cardinality(objects) \in Nat
  BY ObjectsFinite DEF Inductive
<1>2. Cardinality(objects') = Cardinality(objects) + 1
  BY <1>1, FS_AddElement
<1>3. limit \in Nat /\ Cardinality(objects) < limit
  BY DEF Inductive, TypeOK, CountWithinLimit
<1> QED
  BY <1>1, <1>2, <1>3 DEF CountWithinLimit, Inductive, TypeOK

\* A constructor returns.
LEMMA ReturnInductive ==
    ASSUME Inductive, phase = "new", NEW a \in Addr \ objects, NEW v \in Value,
           objects' = objects \cup {a}, obj' \in [Addr -> Object], VectorsComplete',
           Return(v), UNCHANGED <<relied, limit, scan, markVars>>
    PROVE  Inductive'
<1> USE DEF markVars
<1>1. /\ phase' = "run" /\ request' = NoRequest
      /\ UNCHANGED <<permanent, handles, nextHandle>>
  BY DEF Return
<1>2. frames' \in Seq(Frame) /\ stack' \in [1..StackWords -> Value]
  <2>1. CASE request.dest > 0
    <3>1. frames \in Seq(Frame) /\ Len(frames) \in 1..Len(frames)
      BY <2>1 DEF Inductive, TypeOK, RequestOK
    <3>2. frames[Len(frames)] \in Frame /\ request.dest \in 1..FrameWidth
      BY <3>1, <2>1, CollectorAssumption DEF Inductive, TypeOK, Request
    <3>3. [frames[Len(frames)] EXCEPT ![request.dest] = v] \in Frame
      BY <3>2 DEF Frame
    <3>4. frames' = [frames EXCEPT ![Len(frames)] =
                        [frames[Len(frames)] EXCEPT ![request.dest] = v]]
      BY <2>1 DEF Return
    <3>5. frames' \in Seq(Frame)
      BY <3>1, <3>3, <3>4
    <3> QED
      BY <2>1, <3>5 DEF Return, Inductive, TypeOK
  <2>2. CASE ~(request.dest > 0)
    <3>1. stack' = [stack EXCEPT ![1] = v] /\ frames' = frames
      BY <2>2 DEF Return
    <3>2. stack \in [1..StackWords -> Value] /\ frames \in Seq(Frame)
      BY DEF Inductive, TypeOK
    <3> QED
      BY <3>1, <3>2
  <2> QED
    BY <2>1, <2>2
<1>3. NoRequest \in Request
  BY CollectorAssumption, HeapAssumption DEF NoRequest, Request, Value
<1>4. CountWithinLimit' /\ objects' \subseteq Addr
  BY <1>1, OneMoreObject
<1>5. TypeOK'
  BY <1>1, <1>2, <1>3, <1>4 DEF Inductive, TypeOK, Phase
<1>6. RequestOK'
  BY <1>1 DEF RequestOK, NoRequest, Constructor
<1>7. MarkingOK'
  BY <1>1 DEF MarkingOK, Collecting
<1> QED
  BY <1>4, <1>5, <1>6, <1>7 DEF Inductive

\* An object of three words.
LEMMA TripleObject ==
    ASSUME NEW kind \in Kind \ {"storage"}, NEW x \in Value, NEW y \in Value,
           NEW z \in Value, NEW d \in Nat, NEW o,
           o = [kind |-> kind, slots |-> <<x, y, z>>, data |-> d]
    PROVE  o \in Object /\ ChildValues(o) \subseteq {x, y, z}
<1>1. <<x, y, z>> \in Seq(Value) /\ Len(<<x, y, z>>) = 3
  OBVIOUS
<1>2. o \in [kind : Kind, slots : Seq(Value), data : Nat] /\ o.kind = kind /\ o.slots = <<x, y, z>>
  BY <1>1
<1>3. o \in Object
  BY <1>1, <1>2 DEF Object
<1>4. TracedCount(o) \in Nat /\ TracedCount(o) <= 3
  BY <1>1, <1>2, <1>3, TracedIsStored
<1>5. \A i \in 1..TracedCount(o) : o.slots[i] \in {x, y, z}
  BY <1>2, <1>4
<1> QED
  BY <1>3, <1>5 DEF ChildValues

\* The words a constructor writes are its arguments or immediates.
LEMMA InitialSlotsTyped ==
    ASSUME NEW kind \in {"cons", "string", "symbol", "package", "closure"},
           NEW args \in Seq(Value), Len(args) = Arity(kind), NEW d \in Nat,
           NEW o, o = [kind |-> kind, slots |-> InitialSlots(kind, args), data |-> d]
    PROVE  o \in Object /\ ChildValues(o) \subseteq Words(args) \cup Imm
<1>n. NIL \in Value /\ ZERO \in Value /\ NIL \in Imm /\ ZERO \in Imm
  BY HeapAssumption DEF Value
<1>a. \A i \in 1..Len(args) : args[i] \in Value /\ args[i] \in Words(args)
  BY DEF Words
<1>k. kind \in Kind \ {"storage"}
  BY DEF Kind
<1>1. CASE kind = "cons"
  <2>1. args[1] \in Value \cap Words(args) /\ args[2] \in Value \cap Words(args)
    BY <1>1, <1>a DEF Arity
  <2>2. o = [kind |-> kind, slots |-> <<args[1], args[2], ZERO>>, data |-> d]
    BY <1>1 DEF InitialSlots
  <2>x. PICK x \in Value, y \in Value : x = args[1] /\ y = args[2]
    BY <2>1
  <2>y. o = [kind |-> kind, slots |-> <<x, y, ZERO>>, data |-> d]
    BY <2>x, <2>2
  <2>3. o \in Object /\ ChildValues(o) \subseteq {x, y, ZERO}
    BY <2>y, <1>n, <1>k, TripleObject, Zenon
  <2> QED
    BY <2>1, <2>x, <2>3, <1>n
<1>2. CASE kind = "string"
  <2>1. o = [kind |-> kind, slots |-> <<ZERO, ZERO, ZERO>>, data |-> d]
    BY <1>2 DEF InitialSlots
  <2> QED
    BY <2>1, <1>n, <1>k, TripleObject
<1>3. CASE kind \in {"symbol", "package", "closure"}
  <2>1. args[1] \in Value \cap Words(args)
    BY <1>3, <1>a DEF Arity
  <2>2. \E y, z \in {NIL, ZERO} :
           o = [kind |-> kind, slots |-> <<args[1], y, z>>, data |-> d]
    BY <1>3 DEF InitialSlots
  <2>3. PICK y \in {NIL, ZERO}, z \in {NIL, ZERO} :
           o = [kind |-> kind, slots |-> <<args[1], y, z>>, data |-> d]
    BY <2>2
  <2>4. y \in Value /\ z \in Value /\ y \in Imm /\ z \in Imm
    BY <1>n
  <2>5. o \in Object /\ ChildValues(o) \subseteq {args[1], y, z}
    BY <2>1, <2>3, <2>4, <1>k, TripleObject
  <2> QED
    BY <2>1, <2>4, <2>5
<1> QED
  BY <1>1, <1>2, <1>3

\* What the program may hold contains the constructor's arguments, and what the
\* accessors read from the objects among them.
LEMMA ArgumentsHeld ==
    /\ Words(request.args) \subseteq Held
    /\ Imm \subseteq Held
    /\ \A o \in Words(request.args) \cap objects : Readable(o) \subseteq Held
  BY DEF Held, Roots, RegisteredValues

\* The five ways an object is completed.  Its words are values the program may
\* hold; in objects that existed before, at most a reference to it is new.
LEMMA NewObjectContents ==
    ASSUME Inductive, NEW a \in Addr \ objects, NewObject(a)
    PROVE  /\ obj' \in [Addr -> Object]
           /\ VectorsComplete'
           /\ ChildValues(obj'[a]) \subseteq Held
           /\ \A o \in objects : ChildValues(obj'[o]) \subseteq ChildValues(obj[o]) \cup {a}
<1> DEFINE o == [kind |-> request.kind,
                 slots |-> InitialSlots(request.kind, request.args),
                 data |-> request.data]
<1>1. /\ request.args \in Seq(Value) /\ Len(request.args) = Arity(request.kind)
      /\ request.data \in Nat
  BY DEF NewObject, Inductive, TypeOK, Request, RequestOK, Constructor
<1>2. /\ o \in Object /\ ChildValues(o) \subseteq Words(request.args) \cup Imm
      /\ o.kind # "vector"
  BY <1>1, InitialSlotsTyped DEF NewObject
<1>3. /\ obj' = [obj EXCEPT ![a] = o] /\ objects' = objects \cup {a}
      /\ request.kind # "storage"
  BY DEF NewObject
<1> HIDE DEF o
<1>4. /\ obj' \in [Addr -> Object] /\ obj'[a] = o
      /\ \A x \in objects : obj'[x] = obj[x]
  BY <1>2, <1>3 DEF Inductive, TypeOK
<1>5. VectorsComplete'
  BY <1>2, <1>3, <1>4, VectorsKept
<1> QED
  BY <1>2, <1>4, <1>5, ArgumentsHeld

LEMMA NewInternedContents ==
    ASSUME Inductive, NEW a \in Addr \ objects, NewInterned(a)
    PROVE  /\ obj' \in [Addr -> Object]
           /\ VectorsComplete'
           /\ ChildValues(obj'[a]) \subseteq Held
           /\ \A o \in objects : ChildValues(obj'[o]) \subseteq ChildValues(obj[o]) \cup {a}
<1> DEFINE package == request.args[1]
           name == request.args[2]
           head == obj[package].slots[2]
           symbol == [kind |-> "symbol", slots |-> <<name, package, head>>, data |-> 0]
           linked == WithSlot(obj[package], 2, a)
<1>1. /\ request.args \in Seq(Value) /\ Len(request.args) = 2
      /\ package \in objects /\ obj[package].kind = "package"
  BY DEF NewInterned, Inductive, TypeOK, Request, RequestOK, Constructor, Arity, IsObject
<1>2. /\ package \in Words(request.args) /\ name \in Words(request.args)
      /\ package \in Addr /\ name \in Value
  BY <1>1 DEF Words, Inductive, TypeOK
<1>3. obj[package] \in Object /\ Len(obj[package].slots) = 3 /\ TracedCount(obj[package]) = 2
  BY <1>1, <1>2 DEF Inductive, TypeOK, Object, TracedCount
<1>4. head \in ChildValues(obj[package]) /\ head \in Value
  BY <1>3, TracedIsStored DEF ChildValues
<1>5. /\ symbol \in Object /\ ChildValues(symbol) \subseteq {name, package, head}
      /\ symbol.kind = "symbol"
  <2>1. "symbol" \in Kind \ {"storage"} /\ package \in Value
    BY <1>2 DEF Kind, Value
  <2> QED
    BY <2>1, <1>2, <1>4, TripleObject
<1>6. /\ linked \in Object /\ linked.kind = "package"
      /\ ChildValues(linked) \subseteq ChildValues(obj[package]) \cup {a}
  <2>1. a \in Value /\ 2 \in 1..Len(obj[package].slots) /\ obj[package] \in Object
    BY <1>3 DEF Value
  <2>2. PICK o \in Object : o = obj[package]
    BY <2>1
  <2>3. 2 \in 1..Len(o.slots) /\ a \in Value
    BY <2>1, <2>2
  <2>4. /\ WithSlot(o, 2, a) \in Object /\ WithSlot(o, 2, a).kind = o.kind
        /\ ChildValues(WithSlot(o, 2, a)) \subseteq ChildValues(o) \cup {a}
    BY ZenonT(60), <2>3, SlotUpdate
  <2> QED
    BY <1>1, <2>2, <2>4
<1>7. obj' = [obj EXCEPT ![a] = symbol, ![package] = linked]
  BY <1>1 DEF NewInterned, Inductive, TypeOK, WithSlot
<1>o. objects' = objects \cup {a} /\ request.kind # "storage"
  BY DEF NewInterned
<1> HIDE DEF symbol, linked
<1>8. {name, package, head} \subseteq Held
  <2>1. Readable(package) = ChildValues(obj[package])
    BY <1>1 DEF Readable, IsVector, IsObject
  <2> QED
    BY <1>1, <1>2, <1>4, <2>1, ArgumentsHeld
<1>9. /\ obj' \in [Addr -> Object] /\ obj'[a] = symbol /\ obj'[package] = linked
      /\ \A o \in objects : o # package => obj'[o] = obj[o]
  BY <1>1, <1>2, <1>5, <1>6, <1>7 DEF Inductive, TypeOK
<1>10. VectorsComplete'
  BY <1>1, <1>5, <1>6, <1>9, <1>o, VectorsKept
<1> QED
  BY <1>5, <1>6, <1>8, <1>9, <1>10

LEMMA NewVectorContents ==
    ASSUME Inductive, NEW a \in Addr \ objects, NewVector(a)
    PROVE  /\ obj' \in [Addr -> Object]
           /\ obj'[a].kind = "vector" /\ obj'[a].data = request.data
           /\ obj'[a].slots[1] = ZERO
           /\ VectorsComplete'
           /\ ChildValues(obj'[a]) \subseteq Held
           /\ \A o \in objects : ChildValues(obj'[o]) \subseteq ChildValues(obj[o]) \cup {a}
<1> DEFINE header == [kind |-> "vector", slots |-> <<ZERO, ZERO, ZERO>>,
                      data |-> request.data]
<1>1. header \in Object /\ ChildValues(header) \subseteq {ZERO}
  <2>1. "vector" \in Kind \ {"storage"} /\ ZERO \in Value /\ request.data \in Nat
    BY HeapAssumption DEF Kind, Value, Inductive, TypeOK, Request
  <2> QED
    BY <2>1, TripleObject
<1>2. /\ header.kind = "vector" /\ header.data = request.data /\ header.slots[1] = ZERO
      /\ ZERO \in Held
  BY HeapAssumption, ArgumentsHeld
<1>3. obj' = [obj EXCEPT ![a] = header] /\ objects' = objects \cup {a}
  BY DEF NewVector
<1>4. request.kind = "vector" /\ request'.kind = "storage" /\ request'.args[1] = a
  BY DEF NewVector, Inductive, TypeOK, Request
<1> HIDE DEF header
<1>5. /\ obj' \in [Addr -> Object] /\ obj'[a] = header
      /\ \A o \in objects : obj'[o] = obj[o]
  BY <1>1, <1>3 DEF Inductive, TypeOK
<1>6. VectorsComplete'
  BY <1>3, <1>4, <1>5, VectorsKept
<1> QED
  BY <1>1, <1>2, <1>5, <1>6

LEMMA NewStorageContents ==
    ASSUME Inductive, NEW a \in Addr \ objects, NewStorage(a)
    PROVE  /\ obj' \in [Addr -> Object]
           /\ VectorsComplete'
           /\ ChildValues(obj'[a]) \subseteq Held
           /\ \A o \in objects : ChildValues(obj'[o]) \subseteq ChildValues(obj[o]) \cup {a}
           /\ request.args[1] \in Addr \cap Held
<1> DEFINE vector == request.args[1]
           item == request.args[2]
           n == request.data
           items == [i \in 1..n |-> item]
           storage == [kind |-> "storage", slots |-> items, data |-> 0]
           header == WithSlot(obj[vector], 1, a)
<1>1. /\ request.args \in Seq(Value) /\ Len(request.args) = 2 /\ n \in Nat
      /\ vector \in objects /\ obj[vector].kind = "vector" /\ obj[vector].data = n
  BY DEF NewStorage, Inductive, TypeOK, Request, RequestOK, IsObject
<1>2. /\ vector \in Words(request.args) /\ item \in Words(request.args)
      /\ vector \in Addr /\ item \in Value
  BY <1>1 DEF Words, Inductive, TypeOK
<1>3. items \in Seq(Value) /\ Len(items) = n
  BY <1>1, <1>2
<1>4. /\ storage \in Object /\ ChildValues(storage) \subseteq {item}
      /\ storage.kind = "storage" /\ Len(storage.slots) = n
  <2>1. storage \in [kind : Kind, slots : Seq(Value), data : Nat]
    BY <1>3 DEF Kind
  <2>2. TracedCount(storage) = n
    BY <1>3 DEF TracedCount
  <2> QED
    BY <1>3, <2>1, <2>2 DEF Object, ChildValues
<1>5. obj[vector] \in Object /\ Len(obj[vector].slots) = 3
  BY <1>1, <1>2 DEF Inductive, TypeOK, Object
<1>6. /\ header \in Object /\ header.kind = "vector" /\ header.data = n
      /\ header.slots[1] = a
      /\ ChildValues(header) \subseteq ChildValues(obj[vector]) \cup {a}
  <2>1. a \in Value /\ 1 \in 1..Len(obj[vector].slots) /\ obj[vector] \in Object
    BY <1>5 DEF Value
  <2>2. /\ header \in Object /\ header.kind = obj[vector].kind
        /\ header.data = obj[vector].data
        /\ header.slots = [obj[vector].slots EXCEPT ![1] = a]
        /\ ChildValues(header) \subseteq ChildValues(obj[vector]) \cup {a}
    BY <2>1, SlotUpdate
  <2>3. header.slots[1] = a
    BY <2>1, <2>2 DEF Object
  <2> QED
    BY <1>1, <2>2, <2>3
<1>7. obj' = [obj EXCEPT ![a] = storage, ![vector] = header]
  BY <1>1 DEF NewStorage, Inductive, TypeOK, WithSlot
<1>o. objects' = objects \cup {a}
  BY DEF NewStorage
<1> HIDE DEF storage, header
<1>8. /\ obj' \in [Addr -> Object] /\ obj'[a] = storage /\ obj'[vector] = header
      /\ \A o \in objects : o # vector => obj'[o] = obj[o]
  BY <1>1, <1>2, <1>4, <1>6, <1>7 DEF Inductive, TypeOK
<1>9. VectorsComplete'
  <2>1. IsObject(obj'[vector].slots[1], "storage", objects', obj')
    BY <1>4, <1>6, <1>8, <1>o DEF IsObject
  <2>2. obj'[vector].data <= Len(obj'[obj'[vector].slots[1]].slots)
    BY <1>1, <1>4, <1>6, <1>8
  <2> QED
    BY ZenonT(60), <2>1, <2>2, <1>1, <1>4, <1>8, <1>o, VectorsKept
<1> QED
  BY <1>1, <1>2, <1>4, <1>6, <1>8, <1>9, ArgumentsHeld

\* What grow_vector finds after make_storage: the vector and its full old
\* storage are still there.
LEMMA GrowingVector ==
    ASSUME Inductive, request.kind = "grow"
    PROVE  /\ request.args \in Seq(Value) /\ Len(request.args) = 2
           /\ request.args[2] \in Value /\ request.args[2] \in Words(request.args)
           /\ request.args[1] \in Words(request.args)
           /\ IsVector(request.args[1])
           /\ request.local = Storage(request.args[1])
           /\ Items(request.args[1]) = obj[request.local].slots
           /\ obj[request.args[1]].data = Len(obj[request.local].slots)
<1> DEFINE v == request.args[1]
<1>1. /\ request.args \in Seq(Value) /\ Len(request.args) = 2
      /\ IsVector(v) /\ request.local = Storage(v)
      /\ obj[v].data = Len(obj[request.local].slots)
  BY DEF Inductive, TypeOK, Request, RequestOK, IsVector, IsObject, Storage
<1>2. /\ request.args[2] \in Value /\ request.args[2] \in Words(request.args)
      /\ v \in Words(request.args)
  BY <1>1 DEF Words
<1>3. obj[request.local].slots \in Seq(Value)
  BY <1>1, VectorRoom DEF Object
<1>4. Items(v) = obj[request.local].slots
  BY <1>1, <1>3 DEF Items
<1> QED
  BY <1>1, <1>2, <1>4

LEMMA GrownItemsTyped ==
    ASSUME NEW old \in Seq(Value), NEW item \in Value
    PROVE  /\ GrownItems(old, item) \in Seq(Value)
           /\ Len(GrownItems(old, item)) >= Len(old) + 1
           /\ \A i \in 1..Len(old) : GrownItems(old, item)[i] = old[i]
           /\ GrownItems(old, item)[Len(old) + 1] = item
           /\ Words(GrownItems(old, item)) \subseteq Words(old) \cup {item, NIL}
<1> DEFINE n == GrownCapacity(Len(old))
           new == GrownItems(old, item)
<1>1. Len(old) \in Nat /\ n \in Nat /\ n >= Len(old) + 1
  BY CollectorAssumption DEF GrownCapacity
<1>2. NIL \in Value /\ \A i \in 1..Len(old) : old[i] \in Value
  BY HeapAssumption DEF Value
<1>3. new = [i \in 1..n |-> IF i <= Len(old) THEN old[i]
                            ELSE IF i = Len(old) + 1 THEN item ELSE NIL]
  BY DEF GrownItems
<1>4. \A i \in 1..n : new[i] = IF i <= Len(old) THEN old[i]
                               ELSE IF i = Len(old) + 1 THEN item ELSE NIL
  BY <1>3
<1>5. \A i \in 1..n : new[i] \in Value
  BY <1>1, <1>2, <1>4
<1>6. new \in Seq(Value) /\ Len(new) = n
  BY <1>1, <1>3, <1>5
<1> HIDE DEF n, new
<1>7. Words(new) \subseteq Words(old) \cup {item, NIL}
  BY <1>1, <1>4, <1>6 DEF Words
<1> QED
  BY <1>1, <1>4, <1>6, <1>7 DEF new

LEMMA NewGrownContents ==
    ASSUME Inductive, NEW a \in Addr \ objects, NewGrown(a)
    PROVE  /\ obj' \in [Addr -> Object]
           /\ VectorsComplete'
           /\ ChildValues(obj'[a]) \subseteq Held
           /\ \A o \in objects : ChildValues(obj'[o]) \subseteq ChildValues(obj[o]) \cup {a}
           /\ \A o \in objects : o # request.args[1] => obj'[o] = obj[o]
           /\ obj'[request.args[1]].slots[1] = a
           /\ obj'[request.args[1]].data = obj[request.args[1]].data + 1
           /\ obj'[a].slots = GrownItems(obj[request.local].slots, request.args[2])
<1> DEFINE v == request.args[1]
           item == request.args[2]
           old == obj[request.local].slots
           new == GrownItems(old, item)
           storage == [kind |-> "storage", slots |-> new, data |-> 0]
           moved == WithSlot(obj[v], 1, a)
           header == [moved EXCEPT !.data = obj[v].data + 1]
<1>1. /\ v \in objects /\ v \in Addr /\ obj[v] \in Object /\ obj[v].kind = "vector"
      /\ obj[v].data = Len(old) /\ Len(old) \in Nat /\ old \in Seq(Value)
      /\ item \in Value /\ item \in Words(request.args) /\ v \in Words(request.args)
      /\ Readable(v) = Words(old)
      /\ request.local \in objects
  BY GrowingVector, VectorRoom DEF NewGrown, Object, Readable
<1>2. /\ new \in Seq(Value) /\ Len(new) >= Len(old) + 1
      /\ Words(new) \subseteq Words(old) \cup {item, NIL}
  BY <1>1, GrownItemsTyped
<1>3. /\ storage \in Object /\ storage.kind = "storage" /\ storage.slots = new
      /\ ChildValues(storage) = Words(new)
  <2> HIDE DEF new
  <2>1. storage \in [kind : Kind, slots : Seq(Value), data : Nat]
    BY <1>2 DEF Kind
  <2>2. TracedCount(storage) = Len(new)
    BY DEF TracedCount
  <2> QED
    BY <2>1, <2>2 DEF Object, ChildValues, Words
<1>4. /\ moved \in Object /\ moved.kind = "vector" /\ moved.slots[1] = a
      /\ ChildValues(moved) \subseteq ChildValues(obj[v]) \cup {a}
  <2>0. Len(obj[v].slots) = 3
    BY <1>1 DEF Object
  <2>1. a \in Value /\ 1 \in 1..Len(obj[v].slots) /\ obj[v] \in Object
    BY <1>1, <2>0 DEF Value
  <2>2. /\ moved \in Object /\ moved.kind = obj[v].kind
        /\ moved.slots = [obj[v].slots EXCEPT ![1] = a]
        /\ ChildValues(moved) \subseteq ChildValues(obj[v]) \cup {a}
    BY <2>1, SlotUpdate
  <2>3. moved.slots[1] = a
    BY <2>1, <2>2 DEF Object
  <2> QED
    BY <1>1, <2>2, <2>3
<1>5. /\ header \in Object /\ header.kind = "vector" /\ header.slots[1] = a
      /\ header.data = obj[v].data + 1
      /\ ChildValues(header) \subseteq ChildValues(obj[v]) \cup {a}
  <2>1. obj[v].data + 1 \in Nat
    BY <1>1
  <2> HIDE DEF moved
  <2> QED
    BY <1>4, <2>1, DataUpdate
<1>6. obj' = [obj EXCEPT ![a] = storage, ![v] = header]
  <2>1. obj' = [obj EXCEPT ![a] = storage, ![v].slots[1] = a, ![v].data = obj[v].data + 1]
    BY DEF NewGrown
  <2>2. a # v /\ obj \in [Addr -> Object]
    BY <1>1 DEF Inductive, TypeOK
  <2> HIDE DEF storage
  <2> QED
    BY <1>1, <2>1, <2>2 DEF WithSlot
<1>o. objects' = objects \cup {a} /\ request.kind # "storage"
  BY DEF NewGrown
<1> HIDE DEF storage, header, new
<1>7. /\ obj' \in [Addr -> Object] /\ obj'[a] = storage /\ obj'[v] = header
      /\ \A o \in objects : o # v => obj'[o] = obj[o]
  BY <1>1, <1>3, <1>5, <1>6 DEF Inductive, TypeOK
<1>8. VectorsComplete'
  <2>1. IsObject(obj'[v].slots[1], "storage", objects', obj')
    BY <1>3, <1>5, <1>7, <1>o DEF IsObject
  <2>2. obj'[v].data <= Len(obj'[obj'[v].slots[1]].slots)
    BY <1>1, <1>2, <1>3, <1>5, <1>7
  <2>3. \A o \in objects' : o # v /\ obj'[o].kind = "vector" =>
              /\ o \in objects /\ obj[o].kind = "vector"
              /\ obj'[o].slots[1] = obj[o].slots[1] /\ obj'[o].data = obj[o].data
              /\ ~(request.kind = "storage" /\ request.args[1] = o)
    BY <1>3, <1>7, <1>o
  <2>4. \A o \in objects : obj[o].kind = "storage" =>
              /\ o \in objects' /\ obj'[o].kind = "storage"
              /\ Len(obj'[o].slots) = Len(obj[o].slots)
    BY <1>1, <1>7, <1>o
  <2> QED
    BY <2>1, <2>2, <2>3, <2>4, VectorsKept
<1>9. Words(new) \subseteq Held
  BY <1>1, <1>2, ArgumentsHeld, HeapAssumption
<1> QED
  BY <1>1, <1>3, <1>5, <1>7, <1>8, <1>9 DEF new

LEMMA NewInductive ==
    ASSUME Inductive, NEW a \in Addr \ objects,
           NewObject(a) \/ NewInterned(a) \/ NewVector(a) \/ NewStorage(a) \/ NewGrown(a)
    PROVE  Inductive'
<1>a. a \in Value
  BY DEF Value
<1>1. CASE NewObject(a)
  BY <1>1, <1>a, NewObjectContents, ReturnInductive DEF NewObject
<1>2. CASE NewInterned(a)
  BY ZenonT(60), <1>2, <1>a, NewInternedContents, ReturnInductive DEF NewInterned
<1>3. CASE NewStorage(a)
  <2>1. request.args[1] \in Value
    BY <1>3, NewStorageContents DEF Value
  <2>2. obj' \in [Addr -> Object] /\ VectorsComplete'
    BY <1>3, NewStorageContents
  <2>3. /\ phase = "new" /\ objects' = objects \cup {a} /\ Return(request.args[1])
        /\ UNCHANGED <<relied, limit, scan, markVars>>
    BY <1>3 DEF NewStorage
  <2> QED
    BY <2>1, <2>2, <2>3, ReturnInductive
<1>4. CASE NewVector(a)
  <2> USE DEF rootVars, markVars
  <2> DEFINE args == <<a, request.args[1]>>
  <2>1. /\ phase = "new" /\ phase' \in {"allocate", "aborted"}
        /\ objects' = objects \cup {a} /\ request.kind = "vector"
        /\ request' = [request EXCEPT !.kind = "storage", !.args = args]
        /\ UNCHANGED <<rootVars, relied, limit, scan, markVars>>
    BY <1>4 DEF NewVector
  <2>2. request.args[1] \in Value /\ args \in Seq(Value) /\ Len(args) = 2 /\ args[1] = a
    BY <2>1, <1>a DEF Inductive, TypeOK, Request, RequestOK, Constructor, Arity
  <2> HIDE DEF args
  <2>3. request' = [kind |-> "storage", args |-> args, data |-> request.data,
                    local |-> request.local, dest |-> request.dest]
    BY <2>1 DEF Inductive, TypeOK, Request
  <2>4. CountWithinLimit' /\ objects' \subseteq Addr
    BY <2>1, OneMoreObject
  <2>5. TypeOK'
    <3>1. request' \in Request
      BY <2>2, <2>3 DEF Inductive, TypeOK, Request
    <3> QED
      BY <1>4, <2>1, <2>4, <3>1, NewVectorContents DEF Inductive, TypeOK, Phase
  <2>6. RequestOK'
    <3>1. /\ IsObject(a, "vector", objects', obj')
          /\ obj'[a].data = request.data /\ obj'[a].slots[1] = ZERO
      BY <1>4, <2>1, NewVectorContents DEF IsObject
    <3> QED
      BY <2>1, <2>2, <2>3, <3>1 DEF Inductive, RequestOK, Constructor
  <2>7. MarkingOK' /\ VectorsComplete'
    BY <1>4, <2>1, NewVectorContents DEF MarkingOK, Collecting
  <2> QED
    BY <2>4, <2>5, <2>6, <2>7 DEF Inductive
<1>5. CASE NewGrown(a)
  <2> USE DEF rootVars, markVars
  <2>1. /\ phase = "new" /\ phase' = "run" /\ objects' = objects \cup {a}
        /\ request' = NoRequest
        /\ UNCHANGED <<rootVars, relied, limit, scan, markVars>>
    BY <1>5 DEF NewGrown
  <2>2. NoRequest \in Request
    BY CollectorAssumption, HeapAssumption DEF NoRequest, Request, Value
  <2>3. CountWithinLimit' /\ objects' \subseteq Addr
    BY <2>1, OneMoreObject
  <2>4. TypeOK'
    BY <1>5, <2>1, <2>2, <2>3, NewGrownContents DEF Inductive, TypeOK, Phase
  <2>5. RequestOK'
    BY <2>1 DEF RequestOK, NoRequest, Constructor
  <2>6. MarkingOK' /\ VectorsComplete'
    BY <1>5, <2>1, NewGrownContents DEF MarkingOK, Collecting
  <2> QED
    BY <2>3, <2>4, <2>5, <2>6 DEF Inductive
<1> QED
  BY <1>1, <1>2, <1>3, <1>4, <1>5

LEMMA AbortInductive ==
    ASSUME Inductive, OutOfMemory
    PROVE  Inductive'
<1> USE DEF rootVars, markVars
<1>1. /\ phase' = "aborted"
      /\ UNCHANGED <<objects, obj, rootVars, relied, limit, request, scan, markVars>>
  BY DEF OutOfMemory
<1>2. TypeOK'
  BY <1>1 DEF Inductive, TypeOK, Phase
<1>3. RequestOK'
  BY <1>1 DEF Inductive, RequestOK
<1>4. MarkingOK' /\ CountWithinLimit' /\ VectorsComplete'
  BY <1>1 DEF Inductive, MarkingOK, Collecting, CountWithinLimit, VectorsComplete
<1> QED
  BY <1>2, <1>3, <1>4 DEF Inductive

LEMMA StutterInductive ==
    ASSUME Inductive, UNCHANGED vars
    PROVE  Inductive'
<1> USE DEF vars, rootVars, controlVars, markVars
<1>1. TypeOK'
  BY DEF Inductive, TypeOK
<1>2. RequestOK'
  BY DEF Inductive, RequestOK
<1>3. RegisteredValues' = RegisteredValues
  BY DEF RegisteredValues, FrameValues, HandleValues
<1>4. MarkingOK' /\ CountWithinLimit' /\ VectorsComplete'
  BY <1>3 DEF Inductive, MarkingOK, CountWithinLimit, VectorsComplete
<1> QED
  BY <1>1, <1>2, <1>4 DEF Inductive

LEMMA NextInductive ==
    ASSUME Inductive, [Next]_vars
    PROVE  Inductive'
<1>1. CASE Mutate
  <2>1. ASSUME NEW kind \in Calls \cap Constructor, NEW dest \in 0..FrameWidth,
               NEW args \in [1..Arity(kind) -> Value], NEW data \in DataArguments(kind),
               NEW conservative \in BOOLEAN,
               Construct(kind, args, data, conservative, dest)
        PROVE  Inductive'
    BY <2>1, ConstructInductive
  <2>2. ASSUME NEW conservative \in BOOLEAN, Collect(conservative)
        PROVE  Inductive'
    BY <2>2, StartCollectInductive DEF Collect
  <2> QED
    BY <1>1, <2>1, <2>2, MutatorInductive, PushInductive DEF Mutate
<1>2. CASE CollectorStep
  BY <1>2, AllocateInductive, MarkValueInductive, BatchInductive, SweepInductive,
     NewInductive, AbortInductive DEF CollectorStep
<1>3. CASE UNCHANGED vars
  BY <1>3, StutterInductive
<1> QED
  BY <1>1, <1>2, <1>3 DEF Next

\* gc.c keeps the inductive invariant: the marking loop is always half way of a
\* correct marking, and the constructor that triggered it keeps its arguments.
THEOREM InductiveInvariant == Spec => []Inductive
  BY InitInductive, NextInductive, PTL DEF Spec

\* Every variable keeps its type, whatever the constructors write.
THEOREM TypeCorrect == Spec => []TypeOK
<1>1. Inductive => TypeOK
  BY DEF Inductive
<1> QED
  BY <1>1, InductiveInvariant, PTL

\* mark_value never writes beyond the array that collect_objects allocated.
THEOREM WorkArraySuffices == Spec => []WorkFits
<1>1. Inductive => WorkFits
  <2> SUFFICES ASSUME Inductive, phase \in Collecting
               PROVE  Len(work) <= capacity
    BY DEF WorkFits
  <2>1. /\ marked \subseteq objects /\ Len(work) = Cardinality(marked)
        /\ Cardinality(objects) <= capacity /\ capacity \in Nat
    BY DEF Inductive, MarkingOK, TypeOK
  <2>2. /\ Cardinality(marked) <= Cardinality(objects)
        /\ Cardinality(marked) \in Nat /\ Cardinality(objects) \in Nat
    BY <2>1, ObjectsFinite DEF Inductive
  <2> QED
    BY <2>1, <2>2
<1> QED
  BY <1>1, InductiveInvariant, PTL

\* object_count never exceeds collection_limit, and one collection always makes
\* room for the allocation that asked for it.
THEOREM LimitRespected == Spec => []CountWithinLimit
<1>1. Inductive => CountWithinLimit
  BY DEF Inductive
<1> QED
  BY <1>1, InductiveInvariant, PTL

\* A handle token is never active again after it was closed.
THEOREM StaleTokensStayStale == Spec => TokensNeverReused
<1> DEFINE A == /\ nextHandle' >= nextHandle
                /\ \A t \in Token : (handles[t] = Closed /\ t < nextHandle)
                                       => handles'[t] = Closed
<1>1. Inductive /\ [Next]_vars => [A]_vars
  <2> SUFFICES ASSUME Inductive, Next
               PROVE  A
    OBVIOUS
  <2> USE DEF rootVars
  <2>t. handles \in [Token -> Value \cup {Closed}] /\ nextHandle \in Nat
    BY DEF Inductive, TypeOK, Token
  <2>1. CASE HandleOpen
    BY <2>1, <2>t DEF HandleOpen
  <2>2. ASSUME NEW t \in Token, NEW v \in Value, HandleSet(t, v)
        PROVE  A
    BY <2>2, <2>t DEF HandleSet
  <2>3. ASSUME NEW t \in Token, HandleClose(t)
        PROVE  A
    BY <2>3, <2>t DEF HandleClose
  <2>4. CASE UNCHANGED <<handles, nextHandle>>
    BY <2>4, <2>t
  <2>5. CASE Mutate
    BY <2>5, <2>1, <2>2, <2>3, <2>4
       DEF Mutate, PushRoots, PopRoots, StoreRoot, StoreStack, VectorSet, Push,
           StringSet, Values2, Construct, Collect
  <2>6. CASE CollectorStep
    BY ZenonT(60), <2>6, <2>4
       DEF CollectorStep, AllocateObject, MarkValue, EndRoots, EndStack, MarkChildren,
           Sweep, NewObject, NewInterned, NewVector, NewStorage, NewGrown, Return,
           OutOfMemory
  <2> QED
    BY <2>5, <2>6 DEF Next
<1> QED
  BY <1>1, InductiveInvariant, PTL DEF Spec, TokensNeverReused

\* A vector has room for its items in a live storage, except while that storage
\* is being allocated.
THEOREM VectorsHaveRoom == Spec => []VectorsComplete
<1>1. Inductive => VectorsComplete
  BY DEF Inductive
<1> QED
  BY <1>1, InductiveInvariant, PTL

-----------------------------------------------------------------------------
(* The items of a vector *)

\* One step of the items of v: unchanged, one set, or one added.
ItemsStep(v) ==
    \/ Items(v)' = Items(v)
    \/ \E i \in 1..obj[v].data, item \in Value :
          Items(v)' = [Items(v) EXCEPT ![i] = item]
    \/ \E item \in Value : Items(v)' = Append(Items(v), item)

\* A step that touches neither the header nor the storage of v.
LEMMA ItemsUntouched ==
    ASSUME NEW v, obj'[v] = obj[v], obj'[Storage(v)] = obj[Storage(v)]
    PROVE  ItemsStep(v)
  BY DEF ItemsStep, Items, Storage

\* A word of the storage of v is written, its length stays.
LEMMA ItemsWritten ==
    ASSUME Inductive, NEW v, IsVector(v), NEW i \in Nat \ {0}, NEW item \in Value,
           i <= Len(obj[Storage(v)].slots),
           obj'[v] = obj[v],
           obj'[Storage(v)].slots = [obj[Storage(v)].slots EXCEPT ![i] = item]
    PROVE  ItemsStep(v)
<1> DEFINE s == obj[Storage(v)].slots
           d == obj[v].data
           t == [s EXCEPT ![i] = item]
<1>1. s \in Seq(Value) /\ d \in Nat /\ d <= Len(s) /\ i \in 1..Len(s)
  BY VectorRoom DEF Object
<1>2. t \in Seq(Value) /\ Len(t) = Len(s)
  BY <1>1
<1>3. Items(v) = SubSeq(s, 1, d) /\ Items(v)' = SubSeq(t, 1, d)
  BY DEF Items, Storage
<1>4. /\ Items(v) \in Seq(Value) /\ Len(Items(v)) = d
      /\ \A j \in 1..d : Items(v)[j] = s[j]
  BY VectorRoom
<1>5. SubSeq(t, 1, d) \in Seq(Value) /\ Len(SubSeq(t, 1, d)) = d
      /\ \A j \in 1..d : SubSeq(t, 1, d)[j] = t[j]
  BY <1>1, <1>2
<1>6. CASE i \in 1..d
  <2> DEFINE u == [Items(v) EXCEPT ![i] = item]
  <2>1. u \in Seq(Value) /\ Len(u) = d /\ \A j \in 1..d : u[j] = IF j = i THEN item ELSE s[j]
    BY <1>4, <1>6
  <2>2. \A j \in 1..d : t[j] = IF j = i THEN item ELSE s[j]
    BY <1>1
  <2>3. SubSeq(t, 1, d) = u
    <3> HIDE DEF u, t
    <3> QED
      BY <1>1, <1>5, <2>1, <2>2, SeqEqual
  <2> QED
    BY <1>3, <1>6, <2>3 DEF ItemsStep
<1>7. CASE i \notin 1..d
  <2>1. \A j \in 1..d : t[j] = s[j]
    BY <1>1, <1>7
  <2>2. SubSeq(t, 1, d) = Items(v)
    <3> HIDE DEF t
    <3> QED
      BY <1>1, <1>4, <1>5, <2>1, SeqEqual
  <2> QED
    BY <1>3, <2>2 DEF ItemsStep
<1> QED
  BY <1>6, <1>7

\* The length of v goes up by one, over a storage that begins with its items and
\* the new one: the same storage, or the one grow_vector published.
LEMMA ItemsPushed ==
    ASSUME Inductive, NEW v, IsVector(v), NEW item \in Value, NEW t \in Seq(Value),
           Len(t) >= obj[v].data + 1,
           \A i \in 1..obj[v].data : t[i] = obj[Storage(v)].slots[i],
           t[obj[v].data + 1] = item,
           obj'[v].data = obj[v].data + 1,
           obj'[obj'[v].slots[1]].slots = t
    PROVE  ItemsStep(v)
<1> DEFINE d == obj[v].data
           u == Append(Items(v), item)
<1>1. d \in Nat /\ Items(v) \in Seq(Value) /\ Len(Items(v)) = d
      /\ \A i \in 1..d : Items(v)[i] = t[i]
  BY VectorRoom
<1>2. Items(v)' = SubSeq(t, 1, d + 1)
  BY DEF Items, Storage
<1>3. /\ SubSeq(t, 1, d + 1) \in Seq(Value) /\ Len(SubSeq(t, 1, d + 1)) = d + 1
      /\ \A i \in 1..(d + 1) : SubSeq(t, 1, d + 1)[i] = t[i]
  BY <1>1
<1>4. /\ u \in Seq(Value) /\ Len(u) = d + 1 /\ u[d + 1] = item
      /\ \A i \in 1..d : u[i] = Items(v)[i]
  BY <1>1, AppendProperties
<1>5. \A i \in 1..(d + 1) : i \in 1..d \/ i = d + 1
  BY <1>1
<1>6. \A i \in 1..(d + 1) : u[i] = SubSeq(t, 1, d + 1)[i]
  <2> HIDE DEF u, d
  <2> QED
    BY <1>1, <1>3, <1>4, <1>5 DEF d
<1>7. u = SubSeq(t, 1, d + 1)
  <2> HIDE DEF u
  <2> QED
    BY ZenonT(60), <1>1, <1>3, <1>4, <1>6, SeqEqual
<1> QED
  BY <1>2, <1>7 DEF ItemsStep

LEMMA MutateItems ==
    ASSUME Inductive, Mutate, NEW v, IsVector(v)
    PROVE  ItemsStep(v)
<1> DEFINE st == Storage(v)
<1>v. /\ v \in objects /\ v \in Addr /\ st \in objects /\ st \in Addr
      /\ obj[v].kind = "vector" /\ obj[st].kind = "storage" /\ obj \in [Addr -> Object]
  BY VectorRoom DEF Inductive, TypeOK
<1>1. CASE obj' = obj
  BY <1>1, ItemsUntouched
<1>2. ASSUME NEW w \in Addr, NEW i \in 1..(MaxItems + 1), NEW item \in Value,
             VectorSet(w, i, item), IsVector(w), i <= obj[w].data
      PROVE  ItemsStep(v)
  <2>o. obj' = [obj EXCEPT ![Storage(w)].slots[i] = item]
    BY <1>2 DEF VectorSet
  <2>i. i \in Nat \ {0}
    BY CollectorAssumption
  <2>r. /\ Storage(w) \in Addr /\ obj[Storage(w)].kind = "storage"
        /\ obj[Storage(w)] \in Object /\ obj[w].data \in Nat
        /\ Len(obj[Storage(w)].slots) \in Nat
        /\ obj[w].data <= Len(obj[Storage(w)].slots)
    BY <1>2, VectorRoom
  <2>l. i <= obj[w].data
    BY <1>2
  <2>1. /\ obj' = [obj EXCEPT ![Storage(w)].slots[i] = item] /\ Storage(w) \in Addr
        /\ obj[Storage(w)].kind = "storage" /\ obj[Storage(w)] \in Object
        /\ i \in Nat \ {0} /\ i <= Len(obj[Storage(w)].slots)
    BY <2>o, <2>i, <2>r, <2>l
  <2>2. CASE Storage(w) = st
    <3>1. obj'[st].slots = [obj[st].slots EXCEPT ![i] = item] /\ obj'[v] = obj[v]
      BY <1>v, <2>1, <2>2 DEF Object
    <3> QED
      BY <2>1, <2>2, <3>1, ItemsWritten
  <2>3. CASE Storage(w) # st
    BY <1>v, <2>1, <2>3, ItemsUntouched
  <2> QED
    BY <2>2, <2>3
<1>3. ASSUME NEW w \in Addr, NEW item \in Value, Push(w, item), IsVector(w),
             obj[w].data < Len(obj[Storage(w)].slots)
      PROVE  ItemsStep(v)
  <2> DEFINE i == obj[w].data + 1
  <2>1. /\ obj' = [obj EXCEPT ![Storage(w)].slots[i] = item, ![w].data = i]
        /\ Storage(w) \in Addr /\ obj[Storage(w)].kind = "storage" /\ obj[w].kind = "vector"
        /\ obj[Storage(w)] \in Object /\ obj[w] \in Object
        /\ i \in Nat \ {0} /\ i <= Len(obj[Storage(w)].slots)
    BY <1>3, VectorRoom DEF Push
  <2> HIDE DEF i
  <2>2. /\ obj'[Storage(w)].slots = [obj[Storage(w)].slots EXCEPT ![i] = item]
        /\ obj'[w].slots = obj[w].slots /\ obj'[w].data = i
        /\ \A o \in Addr : o # w /\ o # Storage(w) => obj'[o] = obj[o]
    BY <1>v, <2>1 DEF Object
  <2>3. CASE v = w
    <3> DEFINE t == [obj[st].slots EXCEPT ![i] = item]
    <3>1. obj[st].slots \in Seq(Value) /\ i \in 1..Len(obj[st].slots)
      BY <2>1, <2>3 DEF Object
    <3>2. /\ t \in Seq(Value) /\ Len(t) = Len(obj[st].slots)
          /\ \A j \in 1..Len(obj[st].slots) : t[j] = IF j = i THEN item ELSE obj[st].slots[j]
      BY <3>1
    <3>3. obj[v].data \in Nat /\ i = obj[v].data + 1
      BY <2>3, VectorRoom DEF i
    <3>4. obj'[obj'[v].slots[1]].slots = t /\ obj'[v].data = i
      BY <2>2, <2>3 DEF Storage
    <3> HIDE DEF t
    <3>5. \A j \in 1..obj[v].data : t[j] = obj[st].slots[j]
      BY SMTT(40), <2>1, <2>3, <3>1, <3>2, <3>3
    <3>6. t[i] = item /\ Len(t) >= i
      BY <3>1, <3>2
    <3> QED
      BY <3>2, <3>3, <3>4, <3>5, <3>6, ItemsPushed
  <2>4. CASE v # w
    <3>1. obj'[v] = obj[v]
      BY <1>v, <2>1, <2>2, <2>4
    <3>2. CASE Storage(w) = st
      BY <2>1, <2>2, <3>1, <3>2, ItemsWritten
    <3>3. CASE Storage(w) # st
      BY <1>v, <2>1, <2>2, <3>1, <3>3, ItemsUntouched
    <3> QED
      BY <3>2, <3>3
  <2> QED
    BY <2>3, <2>4
<1>4. ASSUME NEW w \in Addr, NEW item \in Value, Push(w, item)
      PROVE  ItemsStep(v)
  <2>1. CASE IsVector(w) /\ obj[w].data < Len(obj[Storage(w)].slots)
    BY <1>3, <1>4, <2>1
  <2>2. CASE ~(IsVector(w) /\ obj[w].data < Len(obj[Storage(w)].slots))
    BY <1>1, <1>4, <2>2 DEF Push
  <2> QED
    BY <2>1, <2>2
<1>5. ASSUME NEW w \in Addr, NEW i \in 1..(MaxItems + 1), NEW item \in Value,
             VectorSet(w, i, item)
      PROVE  ItemsStep(v)
  BY <1>1, <1>2, <1>5 DEF VectorSet
<1>6. ASSUME NEW w \in Addr, NEW text \in Texts, StringSet(w, text)
      PROVE  ItemsStep(v)
  <2>1. CASE /\ IsObject(w, "string", objects, obj)
             /\ obj' = [obj EXCEPT ![w].data = text] /\ UNCHANGED phase
    <3>1. w # v /\ w # st /\ obj' = [obj EXCEPT ![w].data = text]
      BY <1>v, <1>6, <2>1 DEF StringSet, IsObject
    <3> QED
      BY <1>v, <3>1, ItemsUntouched
  <2>2. CASE phase' = "aborted" /\ UNCHANGED obj
    BY <1>1, <1>6, <2>2 DEF StringSet
  <2> QED
    BY <1>6, <2>1, <2>2 DEF StringSet
<1> QED
  BY <1>1, <1>4, <1>5, <1>6
     DEF Mutate, PushRoots, PopRoots, StoreRoot, StoreStack, Values2, HandleOpen,
         HandleSet, HandleClose, Construct, Collect

LEMMA NewItems ==
    ASSUME Inductive, NEW v, IsVector(v), NEW a \in Addr \ objects,
           NewObject(a) \/ NewInterned(a) \/ NewVector(a) \/ NewStorage(a) \/ NewGrown(a)
    PROVE  ItemsStep(v)
<1> DEFINE st == Storage(v)
<1>v. /\ v \in objects /\ v \in Addr /\ st \in objects /\ st \in Addr /\ v # a /\ st # a
      /\ obj[v].kind = "vector" /\ obj[st].kind = "storage" /\ obj \in [Addr -> Object]
  BY VectorRoom DEF Inductive, TypeOK
<1>1. CASE NewObject(a)
  BY <1>1, <1>v, ItemsUntouched DEF NewObject
<1>2. CASE NewVector(a)
  BY <1>2, <1>v, ItemsUntouched DEF NewVector
<1>3. CASE NewInterned(a)
  <2> DEFINE p == request.args[1]
  <2>1. obj[p].kind = "package"
    BY <1>3 DEF NewInterned, Inductive, RequestOK, IsObject
  <2>2. obj'[v] = obj[v] /\ obj'[st] = obj[st]
    BY <1>3, <1>v, <2>1 DEF NewInterned
  <2> QED
    BY <2>2, ItemsUntouched
<1>4. CASE NewStorage(a)
  <2> DEFINE w == request.args[1]
  <2>1. obj[w].kind = "vector" /\ obj[w].slots[1] = ZERO
    BY <1>4 DEF NewStorage, Inductive, RequestOK, IsObject
  <2>2. w # v /\ w # st
    BY <1>v, <2>1, HeapAssumption DEF Storage
  <2>3. obj'[v] = obj[v] /\ obj'[st] = obj[st]
    BY <1>4, <1>v, <2>2 DEF NewStorage
  <2> QED
    BY <2>3, ItemsUntouched
<1>5. CASE NewGrown(a)
  <2> DEFINE w == request.args[1]
             t == GrownItems(obj[request.local].slots, request.args[2])
  <2>1. /\ request.kind = "grow"
        /\ \A o \in objects : o # w => obj'[o] = obj[o]
        /\ obj'[w].slots[1] = a /\ obj'[w].data = obj[w].data + 1 /\ obj'[a].slots = t
    BY ZenonT(60), <1>5, NewGrownContents DEF NewGrown
  <2>2. /\ IsVector(w) /\ request.args[2] \in Value /\ request.local = Storage(w)
        /\ obj[w].data = Len(obj[request.local].slots)
    BY <2>1, GrowingVector
  <2>3. CASE w = v
    <3>1. obj[st].slots \in Seq(Value) /\ request.local = st
      BY <2>2, <2>3, VectorRoom DEF Object
    <3>2. PICK old \in Seq(Value), item \in Value :
             old = obj[st].slots /\ item = request.args[2]
      BY <2>2, <3>1
    <3>3. t = GrownItems(old, item)
      BY <3>1, <3>2
    <3> HIDE DEF t
    <3>4. /\ t \in Seq(Value) /\ Len(t) >= Len(old) + 1
          /\ \A i \in 1..Len(old) : t[i] = old[i]
          /\ t[Len(old) + 1] = item
      BY <3>3, GrownItemsTyped
    <3>5. obj[v].data = Len(old)
      BY <2>2, <2>3, <3>1, <3>2
    <3>6. obj'[v].data = obj[v].data + 1 /\ obj'[obj'[v].slots[1]].slots = t
      BY <2>1, <2>3
    <3> QED
      BY <3>2, <3>4, <3>5, <3>6, ItemsPushed
  <2>4. CASE w # v
    <3>1. w # st
      BY <2>2, <1>v, VectorRoom
    <3> QED
      BY <1>v, <2>1, <2>4, <3>1, ItemsUntouched
  <2> QED
    BY <2>3, <2>4
<1> QED
  BY <1>1, <1>2, <1>3, <1>4, <1>5

\* Growing is invisible for every heap, whatever is collected in between: a step
\* leaves the items of a vector alone, sets one, or adds one at the end.
THEOREM GrowthKeepsItems == Spec => ItemsPreserved
<1>1. Inductive /\ [Next]_vars =>
         [\A v \in objects \cap objects' : IsVector(v) => ItemsStep(v)]_vars
  <2> SUFFICES ASSUME Inductive, Next, NEW v \in objects \cap objects', IsVector(v)
               PROVE  ItemsStep(v)
    OBVIOUS
  <2>1. CASE Mutate
    BY <2>1, MutateItems
  <2>2. CASE obj' = obj
    BY <2>2, ItemsUntouched
  <2>3. CASE Sweep
    <3>1. Storage(v) \in marked /\ v \in marked
      <4>1. /\ marked \subseteq objects /\ objects' = marked
            /\ \A o \in marked : ChildValues(obj[o]) \cap objects \subseteq marked
        BY <2>3, MarkedIsClosed DEF Sweep, ClosedFrom
      <4> QED
        BY <4>1, VectorRoom
    <3>2. \A o \in marked : obj'[o] = obj[o]
      BY <2>3, MarkedIsClosed DEF Sweep, Inductive, TypeOK
    <3> QED
      BY <3>1, <3>2, ItemsUntouched
  <2>4. CASE CollectorStep
    BY <2>4, <2>2, <2>3, NewItems
       DEF CollectorStep, AllocateObject, MarkValue, EndRoots, EndStack, MarkChildren,
           OutOfMemory
  <2> QED
    BY <2>1, <2>4 DEF Next
<1> QED
  BY <1>1, InductiveInvariant, PTL DEF Spec, ItemsPreserved, ItemsStep

-----------------------------------------------------------------------------
(* Collector implements ManagedHeap *)

\* A word of a registered frame is overwritten.
LEMMA FrameStore ==
    ASSUME TypeOK, NEW f \in 1..Len(frames), NEW i \in 1..FrameWidth, NEW v,
           frames' = [frames EXCEPT ![f] = [frames[f] EXCEPT ![i] = v]]
    PROVE  FrameValues' \subseteq FrameValues \cup {v}
<1>1. frames \in Seq(Frame) /\ Len(frames') = Len(frames)
  BY DEF TypeOK
<1>2. frames[f] \in Frame /\ Len(frames[f]) = FrameWidth
  BY <1>1, CollectorAssumption, WordsOfFrame DEF Frame
<1>3. Words([frames[f] EXCEPT ![i] = v]) \subseteq Words(frames[f]) \cup {v}
  <2>1. Len([frames[f] EXCEPT ![i] = v]) = FrameWidth
    BY <1>2, CollectorAssumption DEF Frame
  <2> QED
    BY <1>2, <2>1 DEF Words, Frame
<1>4. \A j \in 1..Len(frames) :
         frames'[j] = IF j = f THEN [frames[f] EXCEPT ![i] = v] ELSE frames[j]
  BY <1>1
<1>5. \A j \in 1..Len(frames) : Words(frames'[j]) \subseteq FrameValues \cup {v}
  BY <1>3, <1>4 DEF FrameValues
<1> QED
  BY <1>1, <1>5 DEF FrameValues

\* A word of the C stack is overwritten.
LEMMA StackStore ==
    ASSUME TypeOK, NEW i \in 1..StackWords, NEW v, stack' = [stack EXCEPT ![i] = v]
    PROVE  Words(stack') \subseteq Words(stack) \cup {v}
<1>1. Len(stack) = StackWords /\ Len(stack') = StackWords
  BY CollectorAssumption DEF TypeOK
<1> QED
  BY <1>1 DEF TypeOK, Words

\* The instance of HeapGraph inside Heap is the one Collector extends.
LEMMA SameChildren ==
    ASSUME NEW o
    PROVE  Heap!ChildValues(o) = ChildValues(o)
<1>1. Heap!TracedCount(o) = TracedCount(o)
  BY DEF Heap!TracedCount, TracedCount
<1> QED
  BY <1>1 DEF Heap!ChildValues, ChildValues

\* Every root that denotes an object is reachable, and so is what a reachable
\* object refers to.
LEMMA ReachableStep ==
    ASSUME NEW R, NEW o \in objects,
           o \in R \/ \E x \in Heap!Reachable(R, objects, obj) : o \in ChildValues(obj[x])
    PROVE  o \in Heap!Reachable(R, objects, obj)
<1> SUFFICES ASSUME NEW S \in SUBSET objects, Heap!ClosedFrom(R, S, objects, obj)
             PROVE  o \in S
  BY DEF Heap!Reachable
<1>1. /\ R \cap objects \subseteq S
      /\ \A x \in S : ChildValues(obj[x]) \cap objects \subseteq S
  BY SameChildren DEF Heap!ClosedFrom
<1>2. \A x \in Heap!Reachable(R, objects, obj) : x \in S
  BY DEF Heap!Reachable
<1> QED
  BY <1>1, <1>2

LEMMA AccessibleIsHeld ==
    ASSUME Inductive
    PROVE  Held \subseteq Heap!Accessible
<1> DEFINE live == Heap!Reachable(Roots, objects, obj)
<1>1. Imm \cup Roots \subseteq Heap!Accessible
  BY DEF Heap!Accessible
<1>2. \A x \in live : ChildValues(obj[x]) \subseteq Heap!Accessible
  BY SameChildren DEF Heap!Accessible
<1>3. ASSUME NEW o \in Roots \cap objects
      PROVE  Readable(o) \subseteq Heap!Accessible
  <2>1. o \in live
    BY ReachableStep
  <2>2. CASE IsVector(o)
    <3>1. Storage(o) \in live
      BY <2>1, <2>2, VectorRoom, ReachableStep
    <3> QED
      BY <1>2, <2>2, <3>1, VectorRoom DEF Readable
  <2>3. CASE ~IsVector(o)
    BY <1>2, <2>1, <2>3 DEF Readable
  <2> QED
    BY <2>2, <2>3
<1> QED
  BY <1>1, <1>3 DEF Held

LEMMA RootsHeld ==
    /\ FrameValues \subseteq Held /\ HandleValues \subseteq Held
    /\ Words(permanent) \subseteq Held /\ Words(request.args) \subseteq Held
    /\ relied => Words(stack) \subseteq Held
    /\ Imm \subseteq Held
  BY DEF Held, Roots, RegisteredValues

\* After a step that moves only values the program may hold (or a new object a)
\* between its words, its roots are such values.
LEMMA RootsMoved ==
    ASSUME NEW V, FrameValues' \subseteq V, HandleValues' \subseteq V,
           Words(permanent') \subseteq V, Words(request'.args) \subseteq V,
           relied' => Words(stack') \subseteq V
    PROVE  Roots' \subseteq V
  BY DEF Roots, RegisteredValues

\* Every step of the mutator that does not touch an object is a Use step.
LEMMA MoveIsUse ==
    ASSUME Inductive, objects' = objects, obj' = obj,
           FrameValues' \subseteq Held, HandleValues' \subseteq Held,
           Words(permanent') \subseteq Held, Words(request'.args) \subseteq Held,
           relied' => Words(stack') \subseteq Held
    PROVE  Heap!Next
<1>1. Roots' \subseteq Held
  BY RootsMoved
<1> QED
  BY <1>1, AccessibleIsHeld, SameChildren DEF Heap!Next, Heap!Use, Heap!Updated

LEMMA MutateIsUse ==
    ASSUME Inductive, Mutate
    PROVE  Heap!Next
<1> USE DEF rootVars, controlVars
<1>t. TypeOK
  BY DEF Inductive
<1>n. NIL \in Held
  BY HeapAssumption, RootsHeld
<1>f. frames' = frames => FrameValues' = FrameValues
  BY DEF FrameValues
<1>h. handles' = handles => HandleValues' = HandleValues
  BY DEF HandleValues
<1>1. CASE PushRoots
  <2> DEFINE new == [i \in 1..FrameWidth |-> NIL]
  <2>1. Words(new) \subseteq {NIL}
    <3>1. new \in [1..FrameWidth -> {NIL}] /\ FrameWidth \in Nat
      BY CollectorAssumption
    <3> HIDE DEF new
    <3> QED
      BY <3>1, WordsOfFrame
  <2>2. frames' = Append(frames, new)
    BY <1>1 DEF PushRoots
  <2> HIDE DEF new
  <2>3. \A j \in 1..Len(frames') : frames'[j] = new \/ \E k \in 1..Len(frames) : frames'[j] = frames[k]
    BY <2>2, <1>t DEF TypeOK
  <2>4. FrameValues' \subseteq FrameValues \cup {NIL}
    BY <2>1, <2>3 DEF FrameValues
  <2> QED
    BY <1>1, <1>n, <1>h, <2>4, RootsHeld, MoveIsUse DEF PushRoots
<1>2. ASSUME NEW f \in 1..Len(frames), PopRoots(f)
      PROVE  Heap!Next
  <2>1. CASE f = Len(frames)
    <3>1. frames' = SubSeq(frames, 1, Len(frames) - 1)
      BY <1>2, <2>1 DEF PopRoots
    <3>2. \A j \in 1..Len(frames') : \E k \in 1..Len(frames) : frames'[j] = frames[k]
      BY <3>1, <1>t DEF TypeOK
    <3>3. FrameValues' \subseteq FrameValues
      BY <3>2 DEF FrameValues
    <3> QED
      BY <1>2, <1>h, <3>3, RootsHeld, MoveIsUse DEF PopRoots
  <2>2. CASE f # Len(frames)
    BY <1>2, <1>f, <1>h, <2>2, RootsHeld, MoveIsUse DEF PopRoots
  <2> QED
    BY <2>1, <2>2
<1>3. ASSUME NEW f \in 1..Len(frames), NEW i \in 1..FrameWidth, NEW v \in Value,
             StoreRoot(f, i, v)
      PROVE  Heap!Next
  <2>1. FrameValues' \subseteq FrameValues \cup {v} /\ v \in Held
    BY <1>3, <1>t, FrameStore DEF StoreRoot
  <2> QED
    BY <1>3, <1>h, <2>1, RootsHeld, MoveIsUse DEF StoreRoot
<1>4. ASSUME NEW i \in 1..StackWords, NEW v \in Value, StoreStack(i, v)
      PROVE  Heap!Next
  <2>1. Words(stack') \subseteq Words(stack) \cup {v} /\ v \in Held
    BY <1>4, <1>t, StackStore DEF StoreStack
  <2> QED
    BY <1>4, <1>f, <1>h, <2>1, RootsHeld, MoveIsUse DEF StoreStack
<1>r. UNCHANGED <<rootVars, relied, request>> => Roots' = Roots
  BY <1>f, <1>h DEF Roots, RegisteredValues
<1>u. ASSUME objects' = objects, Roots' = Roots,
             \A o \in objects : ChildValues(obj'[o]) \subseteq ChildValues(obj[o]) \cup Held
      PROVE  Heap!Next
  <2>1. Roots \subseteq Held
    BY DEF Held
  <2> QED
    BY <1>u, <2>1, AccessibleIsHeld, SameChildren DEF Heap!Next, Heap!Use, Heap!Updated
<1>5. ASSUME NEW v \in Addr, NEW i \in 1..(MaxItems + 1), NEW item \in Value,
             VectorSet(v, i, item)
      PROVE  Heap!Next
  <2>1. CASE IsVector(v) /\ i <= obj[v].data
    <3> DEFINE st == Storage(v)
               written == WithSlot(obj[st], i, item)
    <3>1. i \in 1..Len(obj[st].slots) /\ obj[st] \in Object /\ st \in Addr
      BY <2>1, VectorRoom, CollectorAssumption
    <3>2. ChildValues(written) \subseteq ChildValues(obj[st]) \cup {item}
      BY <3>1, SlotUpdate
    <3>3. obj' = [obj EXCEPT ![st] = written] /\ item \in Held
      BY <1>5, <2>1 DEF VectorSet, WithSlot
    <3> HIDE DEF written
    <3>4. \A o \in objects : ChildValues(obj'[o]) \subseteq ChildValues(obj[o]) \cup Held
      BY <3>1, <3>2, <3>3, <1>t DEF TypeOK
    <3> QED
      BY <1>5, <1>r, <1>u, <3>4 DEF VectorSet
  <2>2. CASE ~(IsVector(v) /\ i <= obj[v].data)
    BY <1>5, <1>r, <1>u, <2>2 DEF VectorSet
  <2> QED
    BY <2>1, <2>2
<1>12. ASSUME NEW v \in Addr, NEW item \in Value, Push(v, item)
       PROVE  Heap!Next
  <2> DEFINE st == Storage(v)
             room == Len(obj[st].slots)
  <2>a. {v, item} \subseteq Held /\ objects' = objects
    BY <1>12 DEF Push
  <2>1. CASE ~IsVector(v)
    BY <1>12, <1>r, <1>u, <2>1 DEF Push
  <2>2. CASE IsVector(v) /\ obj[v].data < room
    <3> DEFINE i == obj[v].data + 1
               written == WithSlot(obj[st], i, item)
               longer == [obj[v] EXCEPT !.data = i]
    <3>1. /\ i \in 1..room /\ i \in Nat /\ obj[st] \in Object /\ obj[v] \in Object
          /\ st \in Addr /\ st # v
      BY <2>2, VectorRoom
    <3>2. ChildValues(written) \subseteq ChildValues(obj[st]) \cup {item}
      BY <3>1, SlotUpdate
    <3>3. ChildValues(longer) = ChildValues(obj[v])
      BY <3>1, DataUpdate
    <3>4. obj' = [obj EXCEPT ![st] = written, ![v] = longer]
      <4>1. obj' = [obj EXCEPT ![Storage(v)].slots[obj[v].data + 1] = item,
                               ![v].data = obj[v].data + 1]
        BY <1>12, <2>2, VectorRoom DEF Push
      <4> QED
        BY <3>1, <4>1, <1>t DEF TypeOK, WithSlot
    <3> HIDE DEF written, longer
    <3>5. \A o \in objects : ChildValues(obj'[o]) \subseteq ChildValues(obj[o]) \cup Held
      BY <2>a, <3>1, <3>2, <3>3, <3>4, <1>t DEF TypeOK
    <3>6. UNCHANGED <<rootVars, relied, request>>
      BY <1>12, <2>2, VectorRoom DEF Push
    <3> QED
      BY <2>a, <3>5, <3>6, <1>r, <1>u
  <2>3. CASE IsVector(v) /\ ~(obj[v].data < room)
    <3>1. Words(request'.args) \subseteq Held
      <4>1. request'.args = <<v, item>> \/ request' = request
        BY <1>12, <2>3 DEF Push
      <4>2. Words(<<v, item>>) \subseteq {v, item}
        BY DEF Words
      <4> QED
        BY <4>1, <4>2, <2>a, RootsHeld
    <3>2. obj' = obj /\ UNCHANGED <<rootVars, relied>>
      BY <1>12, <2>3 DEF Push
    <3> QED
      BY <2>a, <3>1, <3>2, <1>f, <1>h, RootsHeld, MoveIsUse
  <2> QED
    BY <2>1, <2>2, <2>3
<1>13. ASSUME NEW v \in Addr, NEW text \in Texts, StringSet(v, text)
       PROVE  Heap!Next
  <2>1. CASE /\ IsObject(v, "string", objects, obj)
             /\ obj' = [obj EXCEPT ![v].data = text] /\ UNCHANGED phase
    <3> DEFINE written == [obj[v] EXCEPT !.data = text]
    <3>1. obj[v] \in Object /\ text \in Nat
      BY <2>1, <1>t, CollectorAssumption DEF TypeOK, IsObject
    <3>2. ChildValues(written) = ChildValues(obj[v])
      BY <3>1, DataUpdate
    <3>3. obj' = [obj EXCEPT ![v] = written]
      BY <1>13, <2>1 DEF StringSet
    <3> HIDE DEF written
    <3>4. \A o \in objects : ChildValues(obj'[o]) \subseteq ChildValues(obj[o]) \cup Held
      BY <3>2, <3>3, <1>t DEF TypeOK
    <3> QED
      BY <1>13, <1>r, <1>u, <3>4 DEF StringSet
  <2>2. CASE phase' = "aborted" /\ UNCHANGED obj
    BY <1>13, <1>r, <1>u, <2>2 DEF StringSet
  <2> QED
    BY <1>13, <2>1, <2>2 DEF StringSet
<1>6. ASSUME NEW v \in Value, NEW w \in Value, Values2(v, w)
      PROVE  Heap!Next
  <2>1. Words(permanent') \subseteq {v, w} /\ {v, w} \subseteq Held
    <3>1. permanent' = <<v, w>> /\ {v, w} \subseteq Held
      BY <1>6 DEF Values2
    <3> QED
      BY <3>1 DEF Words
  <2> QED
    BY <1>6, <1>f, <1>h, <2>1, RootsHeld, MoveIsUse DEF Values2
<1>7. CASE HandleOpen
  <2>1. HandleValues' \subseteq HandleValues \cup {NIL}
    BY <1>7, <1>t DEF HandleOpen, HandleValues, TypeOK
  <2> QED
    BY <1>7, <1>f, <1>n, <2>1, RootsHeld, MoveIsUse DEF HandleOpen
<1>8. ASSUME NEW t \in Token, NEW v \in Value, HandleSet(t, v)
      PROVE  Heap!Next
  <2>1. HandleValues' \subseteq HandleValues \cup {v} /\ v \in Held
    BY <1>8, <1>t DEF HandleSet, HandleValues, TypeOK
  <2> QED
    BY <1>8, <1>f, <2>1, RootsHeld, MoveIsUse DEF HandleSet
<1>9. ASSUME NEW t \in Token, HandleClose(t)
      PROVE  Heap!Next
  <2>1. HandleValues' \subseteq HandleValues
    BY <1>9, <1>t DEF HandleClose, HandleValues, TypeOK
  <2> QED
    BY <1>9, <1>f, <2>1, RootsHeld, MoveIsUse DEF HandleClose
<1>10. ASSUME NEW kind \in Calls \cap Constructor, NEW dest \in 0..FrameWidth,
              NEW args \in [1..Arity(kind) -> Value], NEW data \in DataArguments(kind),
              NEW conservative \in BOOLEAN,
              Construct(kind, args, data, conservative, dest)
       PROVE  Heap!Next
  <2>1. Words(request'.args) \subseteq Held
    <3>1. request'.args = args \/ request' = request
      BY <1>10 DEF Construct
    <3>2. Words(args) \subseteq Held
      BY <1>10 DEF Construct
    <3> QED
      BY <3>1, <3>2, RootsHeld
  <2> QED
    BY <1>10, <1>f, <1>h, <2>1, RootsHeld, MoveIsUse DEF Construct
<1>11. ASSUME NEW conservative \in BOOLEAN, Collect(conservative)
       PROVE  Heap!Next
  <2>1. relied' => relied
    BY <1>11 DEF Collect, StartCollect
  <2> QED
    BY <1>11, <1>f, <1>h, <2>1, RootsHeld, MoveIsUse DEF Collect
<1> QED
  BY <1>1, <1>2, <1>3, <1>4, <1>5, <1>6, <1>7, <1>8, <1>9, <1>10, <1>11,
     <1>12, <1>13 DEF Mutate

\* A step that moves nothing the program can see.
LEMMA InvisibleStep ==
    ASSUME Inductive, UNCHANGED <<objects, obj, rootVars, request>>, relied' => relied
    PROVE  Heap!Next
<1>1. /\ FrameValues' = FrameValues /\ HandleValues' = HandleValues
      /\ objects' = objects /\ obj' = obj /\ permanent' = permanent
      /\ stack' = stack /\ request' = request
  BY DEF rootVars, FrameValues, HandleValues
<1> QED
  BY <1>1, RootsHeld, MoveIsUse

\* sweep_objects is the collection of ManagedHeap: the marked objects are a
\* closed set that contains what the roots denote.
LEMMA SweepIsCollect ==
    ASSUME Inductive, Sweep
    PROVE  Heap!Next
<1>1. /\ marked \subseteq objects
      /\ Roots \cap objects \subseteq marked
      /\ \A o \in marked : ChildValues(obj[o]) \cap objects \subseteq marked
  BY MarkedIsClosed DEF Sweep, ClosedFrom
<1>2. objects' = marked /\ Roots' = Roots
  BY DEF Sweep, rootVars, Roots, RegisteredValues, FrameValues, HandleValues
<1>3. \A o \in marked : obj'[o] = obj[o]
  BY <1>1 DEF Sweep, Inductive, TypeOK
<1>4. Heap!ClosedFrom(Roots, marked, objects, obj)
  BY <1>1, SameChildren DEF Heap!ClosedFrom
<1> QED
  BY <1>1, <1>2, <1>3, <1>4 DEF Heap!Next, Heap!Collect

\* A constructor's result goes into a frame or into the stack.
LEMMA ReturnMoves ==
    ASSUME Inductive, NEW v, Return(v), relied' = relied
    PROVE  Roots' \subseteq Held \cup {v}
<1>1. /\ permanent' = permanent /\ HandleValues' = HandleValues
      /\ Words(request'.args) = {}
  BY DEF Return, HandleValues, NoRequest, Words
<1>2. FrameValues' \subseteq FrameValues \cup {v} /\ Words(stack') \subseteq Words(stack) \cup {v}
  <2>1. CASE request.dest > 0
    <3>1. Len(frames) \in 1..Len(frames) /\ request.dest \in 1..FrameWidth
      BY <2>1, CollectorAssumption DEF Inductive, TypeOK, Request, RequestOK
    <3>2. /\ frames' = [frames EXCEPT ![Len(frames)] =
                           [frames[Len(frames)] EXCEPT ![request.dest] = v]]
          /\ stack' = stack
      BY <2>1 DEF Return
    <3> QED
      BY <3>1, <3>2, FrameStore DEF Inductive
  <2>2. CASE ~(request.dest > 0)
    <3>1. stack' = [stack EXCEPT ![1] = v] /\ frames' = frames
      BY <2>2 DEF Return
    <3>2. FrameValues' = FrameValues
      BY <3>1 DEF FrameValues
    <3>3. 1 \in 1..StackWords
      BY CollectorAssumption
    <3> QED
      BY <3>1, <3>2, <3>3, StackStore DEF Inductive
  <2> QED
    BY <2>1, <2>2
<1> QED
  BY <1>1, <1>2, RootsHeld, RootsMoved

LEMMA NewIsAllocate ==
    ASSUME Inductive, NEW a \in Addr \ objects,
           NewObject(a) \/ NewInterned(a) \/ NewVector(a) \/ NewStorage(a) \/ NewGrown(a)
    PROVE  Heap!Next
<1> SUFFICES /\ objects' = objects \cup {a}
             /\ ChildValues(obj'[a]) \subseteq Held
             /\ Roots' \subseteq Held \cup {a}
             /\ \A o \in objects : ChildValues(obj'[o]) \subseteq ChildValues(obj[o]) \cup {a}
  BY AccessibleIsHeld, SameChildren DEF Heap!Next, Heap!Allocate, Heap!Updated
<1>1. CASE NewObject(a)
  BY <1>1, NewObjectContents, ReturnMoves DEF NewObject
<1>2. CASE NewInterned(a)
  BY ZenonT(60), <1>2, NewInternedContents, ReturnMoves DEF NewInterned
<1>3. CASE NewStorage(a)
  <2>1. /\ objects' = objects \cup {a} /\ Return(request.args[1]) /\ relied' = relied
    BY <1>3 DEF NewStorage
  <2>2. Roots' \subseteq Held \cup {request.args[1]}
    BY <2>1, ReturnMoves
  <2> QED
    BY <1>3, <2>1, <2>2, NewStorageContents
<1>4. CASE NewVector(a)
  <2>1. /\ objects' = objects \cup {a} /\ relied' = relied
        /\ FrameValues' = FrameValues /\ HandleValues' = HandleValues
        /\ permanent' = permanent /\ stack' = stack
        /\ request.kind = "vector"
    BY <1>4 DEF NewVector, rootVars, FrameValues, HandleValues
  <2>2. request.args[1] \in Words(request.args)
    BY <2>1 DEF Inductive, TypeOK, RequestOK, Constructor, Arity, Words
  <2>3. request'.args = <<a, request.args[1]>>
    BY <1>4 DEF NewVector, Inductive, TypeOK
  <2>4. Words(request'.args) \subseteq Words(request.args) \cup {a}
    BY <2>2, <2>3 DEF Words
  <2>5. Roots' \subseteq Held \cup {a}
    BY <2>1, <2>4, RootsHeld, RootsMoved
  <2> QED
    BY <1>4, <2>1, <2>5, NewVectorContents
<1>5. CASE NewGrown(a)
  <2>1. /\ objects' = objects \cup {a} /\ relied' = relied
        /\ FrameValues' = FrameValues /\ HandleValues' = HandleValues
        /\ permanent' = permanent /\ stack' = stack /\ Words(request'.args) = {}
    BY <1>5 DEF NewGrown, rootVars, FrameValues, HandleValues, NoRequest, Words
  <2>2. Roots' \subseteq Held
    BY <2>1, RootsHeld, RootsMoved
  <2> QED
    BY <1>5, <2>1, <2>2, NewGrownContents
<1> QED
  BY <1>1, <1>2, <1>3, <1>4, <1>5

LEMMA StepImplements ==
    ASSUME Inductive, [Next]_vars
    PROVE  [Heap!Next]_(Heap!vars)
<1>1. CASE Mutate
  BY <1>1, MutateIsUse
<1>2. CASE AllocateObject
  BY <1>2, InvisibleStep DEF AllocateObject, StartCollect
<1>3. ASSUME NEW v \in pending, MarkValue(v)
      PROVE  Heap!Next
  BY <1>3, InvisibleStep DEF MarkValue, controlVars
<1>4. CASE EndRoots \/ EndStack \/ MarkChildren \/ OutOfMemory
  BY <1>4, InvisibleStep DEF EndRoots, EndStack, MarkChildren, OutOfMemory, controlVars
<1>5. CASE Sweep
  BY <1>5, SweepIsCollect
<1>6. CASE UNCHANGED vars
  BY <1>6, InvisibleStep DEF vars, controlVars
<1> QED
  BY <1>1, <1>2, <1>3, <1>4, <1>5, <1>6, NewIsAllocate DEF Next, CollectorStep

\* The runtime's collector implements the managed heap: marking in steps over a
\* work array, thresholds, handles and the interleaving of collections with
\* constructors cannot be told from atomic collections.
THEOREM CollectorImplementsManagedHeap == Spec => ImplementsManagedHeap
<1>1. Init => Heap!Init
  <2> SUFFICES ASSUME Init PROVE Heap!Init
    OBVIOUS
  <2>1. Words(stack) \subseteq {ZERO}
    <3>1. stack \in [1..StackWords -> {ZERO}] /\ StackWords \in Nat
      BY CollectorAssumption DEF Init
    <3> QED
      BY <3>1, WordsOfFrame
  <2>2. FrameValues = {} /\ Words(permanent) = {} /\ Words(request.args) = {}
    BY DEF Init, FrameValues, Words, NoRequest
  <2>3. HandleValues = {}
    BY DEF Init, HandleValues
  <2> QED
    BY <2>1, <2>2, <2>3, HeapAssumption DEF Init, Heap!Init, Roots, RegisteredValues
<1> QED
  BY <1>1, StepImplements, InductiveInvariant, PTL
     DEF Spec, ImplementsManagedHeap, Heap!Spec

\* The contract of ManagedHeap is enough: a program that keeps to Use and Allocate
\* never holds a freed object, however collections (psl_rt_collect,
\* psl_rt_collect_precise, the ones inside allocate_object) are placed among its
\* steps.
THEOREM Safety == Heap!Spec => []Heap!Safe
<1>1. Heap!Init => Heap!Safe
  BY DEF Heap!Init, Heap!Safe, Heap!Valid
<1>2. Heap!Safe /\ [Heap!Next]_(Heap!vars) => Heap!Safe'
  <2> SUFFICES ASSUME Heap!Safe, [Heap!Next]_(Heap!vars)
               PROVE  Heap!Safe'
    OBVIOUS
  <2>a. \A v \in Heap!Accessible : Heap!Valid(v)
    BY DEF Heap!Safe, Heap!Accessible, Heap!Valid, Heap!Reachable
  <2>1. CASE Heap!Use
    BY <2>1, <2>a DEF Heap!Use, Heap!Updated, Heap!Safe, Heap!Valid
  <2>2. ASSUME NEW a \in Addr \ objects, Heap!Allocate(a)
        PROVE  Heap!Safe'
    BY <2>2, <2>a DEF Heap!Allocate, Heap!Updated, Heap!Safe, Heap!Valid
  <2>3. CASE Heap!Collect
    BY <2>3 DEF Heap!Collect, Heap!ClosedFrom, Heap!Safe, Heap!Valid
  <2>4. CASE UNCHANGED Heap!vars
    BY <2>4 DEF Heap!vars, Heap!Safe, Heap!Valid
  <2> QED
    BY <2>1, <2>2, <2>3, <2>4 DEF Heap!Next
<1> QED
  BY <1>1, <1>2, PTL DEF Heap!Spec

\* No word a program may use ever denotes a freed object, in the middle of a
\* collection and of a constructor too.
THEOREM NothingDangles == Spec => []NoDangling
<1>1. Heap!Safe => NoDangling
  BY SameChildren DEF Heap!Safe, Heap!Valid, NoDangling, Valid
<1> QED
  BY <1>1, Safety, CollectorImplementsManagedHeap, PTL DEF ImplementsManagedHeap

-----------------------------------------------------------------------------
(* A collection frees exactly what is not reachable *)

\* The words a collection starts from.
Scanned == RegisteredValues \cup (IF scan THEN Words(stack) ELSE {})

\* An object is reachable from R when a word of R denotes it or a reachable
\* object has a word that does.
LEMMA ReachedStep ==
    ASSUME NEW R, NEW o \in objects,
           o \in R \/ \E x \in Reachable(R, objects, obj) : o \in ChildValues(obj[x])
    PROVE  o \in Reachable(R, objects, obj)
<1> SUFFICES ASSUME NEW S \in SUBSET objects, ClosedFrom(R, S, objects, obj)
             PROVE  o \in S
  BY DEF Reachable
<1>1. \A x \in Reachable(R, objects, obj) : x \in S
  BY DEF Reachable
<1> QED
  BY <1>1 DEF ClosedFrom

\* During a collection the graph and its roots stand still.
LEMMA ReachedStands ==
    ASSUME UNCHANGED <<objects, obj, rootVars, request, scan>>
    PROVE  Reachable(Scanned, objects, obj)' = Reachable(Scanned, objects, obj)
           /\ Scanned' = Scanned
<1>1. Scanned' = Scanned
  BY DEF Scanned, RegisteredValues, FrameValues, HandleValues, rootVars
<1> QED
  BY <1>1

LEMMA MarkedReachedNext ==
    ASSUME Inductive, MarkedReached, [Next]_vars
    PROVE  MarkedReached'
<1> DEFINE reached == Reachable(Scanned, objects, obj)
<1> USE DEF controlVars, markVars
<1>0. ASSUME phase' \notin Collecting PROVE MarkedReached'
  BY <1>0 DEF MarkedReached
<1>1. MarkedReached <=> (phase \in Collecting => marked \cup pending \subseteq reached)
  BY DEF MarkedReached, Scanned
<1>2. MarkedReached' <=>
         (phase' \in Collecting =>
             marked' \cup pending' \subseteq Reachable(Scanned, objects, obj)')
  BY DEF MarkedReached, Scanned
<1>3. ASSUME UNCHANGED <<objects, obj, rootVars, request, scan>>,
             marked' \cup pending' \subseteq reached
      PROVE  MarkedReached'
  BY <1>2, <1>3, ReachedStands
<1>4. ASSUME NEW conservative \in BOOLEAN, StartCollect(conservative),
             UNCHANGED <<objects, obj, rootVars, limit, request>>
      PROVE  MarkedReached'
  <2>1. /\ marked' = {} /\ pending' = RegisteredValues \cap objects
        /\ objects' = objects /\ obj' = obj
    BY <1>4 DEF StartCollect
  <2>2. RegisteredValues \subseteq Scanned'
    BY <1>4 DEF Scanned, RegisteredValues, FrameValues, HandleValues, rootVars
  <2>3. \A o \in pending' : o \in Reachable(Scanned', objects, obj)
    BY <2>1, <2>2, ReachedStep
  <2> QED
    BY <1>2, <2>1, <2>3
<1>5. CASE Mutate
  <2>1. ASSUME NEW conservative \in BOOLEAN, Collect(conservative)
        PROVE  MarkedReached'
    BY <2>1, <1>4 DEF Collect
  <2>2. ASSUME NEW v, NEW item, Push(v, item)
        PROVE  phase' \notin Collecting
    BY <2>2 DEF Push, Collecting
  <2>3. ASSUME NEW v, NEW i, NEW item, VectorSet(v, i, item)
        PROVE  phase' \notin Collecting
    BY <2>3 DEF VectorSet, Collecting
  <2>4. ASSUME NEW v, NEW text, StringSet(v, text)
        PROVE  phase' \notin Collecting
    BY <2>4 DEF StringSet, Collecting
  <2>5. ASSUME NEW kind, NEW args, NEW data, NEW conservative, NEW dest,
               Construct(kind, args, data, conservative, dest)
        PROVE  phase' \notin Collecting
    BY <2>5 DEF Construct, Collecting
  <2>6. ASSUME NEW t, NEW v, HandleOpen \/ HandleSet(t, v) \/ HandleClose(t)
        PROVE  phase' \notin Collecting
    BY <2>6 DEF HandleOpen, HandleSet, HandleClose, Collecting
  <2>7. ASSUME NEW f, NEW i, NEW v, NEW w,
               PushRoots \/ PopRoots(f) \/ StoreRoot(f, i, v) \/ StoreStack(i, v)
                  \/ Values2(v, w)
        PROVE  phase' \notin Collecting
    BY <2>7 DEF PushRoots, PopRoots, StoreRoot, StoreStack, Values2, Collecting
  <2> QED
    BY <1>0, <1>5, <2>1, <2>2, <2>3, <2>4, <2>5, <2>6, <2>7 DEF Mutate
<1>6. CASE AllocateObject
  <2>1. scan \in BOOLEAN
    BY DEF Inductive, TypeOK
  <2> QED
    BY <1>0, <1>4, <1>6, <2>1 DEF AllocateObject, Collecting
<1>7. ASSUME NEW v \in pending, MarkValue(v)
      PROVE  MarkedReached'
  BY <1>1, <1>3, <1>7 DEF MarkValue
<1>8. CASE EndRoots
  <2>1. Words(stack) \subseteq Scanned \/ ~scan
    BY DEF Scanned
  <2>2. \A o \in pending' : o \in reached
    BY <1>8, <2>1, ReachedStep DEF EndRoots
  <2> QED
    BY <1>1, <1>3, <1>8, <2>2 DEF EndRoots, Collecting
<1>9. CASE EndStack
  BY <1>1, <1>3, <1>9 DEF EndStack, Collecting
<1>10. CASE MarkChildren
  <2>1. work[index + 1] \in marked
    <3>1. marked = Words(work) /\ index + 1 \in 1..Len(work)
      BY <1>10 DEF MarkChildren, Inductive, MarkingOK, TypeOK, Collecting
    <3> QED
      BY <3>1 DEF Words
  <2>2. work[index + 1] \in reached
    BY <1>1, <1>10, <2>1 DEF MarkChildren, Collecting
  <2>3. \A o \in pending' : o \in reached
    BY <1>10, <2>2, ReachedStep DEF MarkChildren
  <2> QED
    BY <1>1, <1>3, <1>10, <2>3 DEF MarkChildren, Collecting
<1>11. CASE Sweep
  BY <1>0, <1>11 DEF Sweep, Collecting
<1>12. ASSUME NEW a, NewObject(a) \/ NewInterned(a) \/ NewVector(a) \/ NewStorage(a) \/ NewGrown(a)
       PROVE  MarkedReached'
  BY ZenonT(60), <1>0, <1>12 DEF NewObject, NewInterned, NewVector, NewStorage, NewGrown, Return, Collecting
<1>13. CASE OutOfMemory
  BY <1>0, <1>13 DEF OutOfMemory, Collecting
<1>14. CASE UNCHANGED vars
  BY <1>1, <1>2, <1>14, ReachedStands DEF vars
<1> QED
  BY <1>5, <1>6, <1>7, <1>8, <1>9, <1>10, <1>11, <1>12, <1>13, <1>14
     DEF Next, CollectorStep

\* Nothing is marked that the scanned roots do not reach: a collection keeps no
\* garbage alive.
THEOREM OnlyReachedMarked == Spec => []MarkedReached
<1>1. Init => MarkedReached
  BY DEF Init, MarkedReached, Collecting
<1> QED
  BY <1>1, MarkedReachedNext, InductiveInvariant, PTL DEF Spec

\* sweep_objects frees exactly what the scanned roots do not reach, for every
\* heap, conservative and precise collections alike.
THEOREM CollectionIsExact == Spec => SweepIsExact
<1> DEFINE A == Sweep => LET R == RegisteredValues \cup (IF scan THEN Words(stack) ELSE {})
                         IN /\ objects' = Reachable(R, objects, obj)
                            /\ \A o \in objects' : obj'[o] = obj[o]
<1>1. Inductive /\ MarkedReached /\ [Next]_vars => [A]_vars
  <2> SUFFICES ASSUME Inductive, MarkedReached, Sweep
               PROVE  /\ objects' = Reachable(Scanned, objects, obj)
                      /\ \A o \in objects' : obj'[o] = obj[o]
    BY DEF Scanned
  <2>1. /\ phase = "trace" /\ pending = {} /\ index = Len(work) /\ objects' = marked
        /\ obj' = [a \in Addr |-> IF a \in objects \ marked THEN Blank ELSE obj[a]]
    BY DEF Sweep
  <2>2. /\ marked \subseteq objects /\ ClosedFrom(RegisteredValues, marked, objects, obj)
        /\ scan => Words(stack) \cap objects \subseteq marked
    BY <2>1, MarkedIsClosed
  <2>3. ClosedFrom(Scanned, marked, objects, obj)
    BY <2>2 DEF ClosedFrom, Scanned
  <2>4. Reachable(Scanned, objects, obj) \subseteq marked
    BY <2>2, <2>3 DEF Reachable
  <2>5. marked \subseteq Reachable(Scanned, objects, obj)
    BY <2>1 DEF MarkedReached, Scanned, Collecting
  <2>6. \A o \in marked : obj'[o] = obj[o]
    BY <2>1, <2>2 DEF Inductive, TypeOK
  <2> QED
    BY <2>1, <2>4, <2>5, <2>6
<1> QED
  BY <1>1, InductiveInvariant, OnlyReachedMarked, PTL DEF Spec, SweepIsExact

-----------------------------------------------------------------------------
(* Packages and their symbols *)

\* What a step leaves of the live objects: kinds, and symbols and packages
\* altogether.
SymbolsStand ==
    \A o \in objects :
       /\ obj'[o].kind = obj[o].kind
       /\ obj[o].kind \in {"symbol", "package"} => obj'[o] = obj[o]

\* Vectors, storages and the texts of strings are all the mutator writes.
LEMMA MutateKeepsSymbols ==
    ASSUME Inductive, Mutate
    PROVE  objects' = objects /\ SymbolsStand
<1> USE DEF rootVars, controlVars, markVars
<1>t. obj \in [Addr -> Object] /\ objects \subseteq Addr
  BY DEF Inductive, TypeOK
<1>0. ASSUME obj' = obj PROVE SymbolsStand
  BY <1>0 DEF SymbolsStand
<1>1. ASSUME NEW v \in Addr, NEW i \in 1..(MaxItems + 1), NEW item \in Value,
             VectorSet(v, i, item)
      PROVE  objects' = objects /\ SymbolsStand
  <2>1. CASE IsVector(v) /\ i <= obj[v].data
    <3> DEFINE st == Storage(v)
    <3>1. /\ obj[st] \in Object /\ obj[st].kind = "storage" /\ st \in Addr
      BY <2>1, VectorRoom
    <3>2. obj' = [obj EXCEPT ![st].slots[i] = item]
      BY <1>1, <2>1 DEF VectorSet
    <3>3. obj'[st].kind = "storage" /\ \A o \in objects : o # st => obj'[o] = obj[o]
      BY <3>1, <3>2, <1>t DEF Object
    <3> QED
      BY <1>1, <3>1, <3>3 DEF SymbolsStand, VectorSet
  <2>2. CASE ~(IsVector(v) /\ i <= obj[v].data)
    BY <1>0, <1>1, <2>2 DEF VectorSet
  <2> QED
    BY <2>1, <2>2
<1>2. ASSUME NEW v \in Addr, NEW item \in Value, Push(v, item)
      PROVE  objects' = objects /\ SymbolsStand
  <2> DEFINE st == Storage(v)
  <2>1. CASE IsVector(v) /\ obj[v].data < Len(obj[st].slots)
    <3>1. /\ obj[st] \in Object /\ obj[st].kind = "storage" /\ st \in Addr
          /\ obj[v] \in Object /\ obj[v].kind = "vector" /\ st # v
      BY <2>1, VectorRoom
    <3>2. obj' = [obj EXCEPT ![st].slots[obj[v].data + 1] = item,
                             ![v].data = obj[v].data + 1]
      BY <1>2, <2>1, VectorRoom DEF Push
    <3> DEFINE written == [obj[st] EXCEPT !.slots[obj[v].data + 1] = item]
               longer == [obj[v] EXCEPT !.data = obj[v].data + 1]
    <3>3. written.kind = "storage" /\ longer.kind = "vector"
      BY <3>1 DEF Object
    <3>4. obj' = [obj EXCEPT ![st] = written, ![v] = longer]
      BY <3>1, <3>2, <1>t
    <3> HIDE DEF written, longer
    <3>5. /\ obj'[st].kind = "storage" /\ obj'[v].kind = "vector"
          /\ \A o \in objects : o # st /\ o # v => obj'[o] = obj[o]
      BY <3>1, <3>3, <3>4, <1>t
    <3> QED
      BY <1>2, <3>1, <3>5 DEF SymbolsStand, Push
  <2>2. CASE ~(IsVector(v) /\ obj[v].data < Len(obj[st].slots))
    BY <1>0, <1>2, <2>2 DEF Push
  <2> QED
    BY <2>1, <2>2
<1>3. ASSUME NEW v \in Addr, NEW text \in Texts, StringSet(v, text)
      PROVE  objects' = objects /\ SymbolsStand
  <2>1. CASE IsObject(v, "string", objects, obj) /\ obj' = [obj EXCEPT ![v].data = text]
    <3>1. obj[v] \in Object /\ obj[v].kind = "string"
      BY <2>1, <1>t DEF IsObject
    <3>2. obj'[v].kind = "string" /\ \A o \in objects : o # v => obj'[o] = obj[o]
      BY <3>1, <2>1, <1>t DEF Object
    <3> QED
      BY <1>3, <3>1, <3>2 DEF SymbolsStand, StringSet
  <2>2. CASE obj' = obj
    BY <1>0, <1>3, <2>2 DEF StringSet
  <2> QED
    BY <1>3, <2>1, <2>2 DEF StringSet
<1>4. ASSUME NEW kind, NEW args, NEW data, NEW conservative, NEW dest,
             Construct(kind, args, data, conservative, dest)
      PROVE  objects' = objects /\ SymbolsStand
  BY <1>0, <1>4 DEF Construct
<1>5. ASSUME NEW t, NEW v, HandleOpen \/ HandleSet(t, v) \/ HandleClose(t)
      PROVE  objects' = objects /\ SymbolsStand
  BY <1>0, <1>5 DEF HandleOpen, HandleSet, HandleClose
<1>6. ASSUME NEW f, NEW i, NEW v, NEW w,
             PushRoots \/ PopRoots(f) \/ StoreRoot(f, i, v) \/ StoreStack(i, v)
                \/ Values2(v, w)
      PROVE  objects' = objects /\ SymbolsStand
  BY <1>0, <1>6 DEF PushRoots, PopRoots, StoreRoot, StoreStack, Values2
<1>7. ASSUME NEW conservative, Collect(conservative)
      PROVE  objects' = objects /\ SymbolsStand
  BY <1>0, <1>7 DEF Collect
<1> QED
  BY <1>1, <1>2, <1>3, <1>4, <1>5, <1>6, <1>7 DEF Mutate

\* A new object that is no interned symbol: it belongs to no chain, and a new
\* package has an empty one.
LEMMA NewKeepsSymbols ==
    ASSUME Inductive, NEW a \in Addr \ objects,
           NewObject(a) \/ NewVector(a) \/ NewStorage(a) \/ NewGrown(a)
    PROVE  /\ objects' = objects \cup {a} /\ SymbolsStand
           /\ obj'[a].kind \in {"symbol", "package"} => obj'[a].slots[2] = NIL
<1>t. obj \in [Addr -> Object] /\ objects \subseteq Addr
  BY DEF Inductive, TypeOK
<1>1. CASE NewObject(a)
  <2> DEFINE o == [kind |-> request.kind,
                   slots |-> InitialSlots(request.kind, request.args),
                   data |-> request.data]
  <2>1. obj' = [obj EXCEPT ![a] = o] /\ objects' = objects \cup {a}
    BY <1>1 DEF NewObject
  <2>2. o.kind \in {"symbol", "package"} => o.slots[2] = NIL
    <3>1. CASE request.kind = "symbol"
      <4>1. InitialSlots(request.kind, request.args) = <<request.args[1], NIL, NIL>>
        BY <3>1 DEF InitialSlots
      <4> QED
        BY <4>1
    <3>2. CASE request.kind = "package"
      <4>1. InitialSlots(request.kind, request.args) = <<request.args[1], NIL, ZERO>>
        BY <3>2 DEF InitialSlots
      <4> QED
        BY <4>1
    <3>3. o.kind = request.kind
      OBVIOUS
    <3> QED
      BY <3>1, <3>2, <3>3
  <2> HIDE DEF o
  <2>3. obj'[a] = o /\ \A x \in objects : obj'[x] = obj[x]
    BY <2>1, <1>t
  <2> QED
    BY <2>1, <2>2, <2>3 DEF SymbolsStand
<1>2. CASE NewVector(a)
  <2> DEFINE o == [kind |-> "vector", slots |-> <<ZERO, ZERO, ZERO>>, data |-> request.data]
  <2>1. obj' = [obj EXCEPT ![a] = o] /\ objects' = objects \cup {a} /\ o.kind = "vector"
    BY <1>2 DEF NewVector
  <2> HIDE DEF o
  <2>3. obj'[a] = o /\ \A x \in objects : obj'[x] = obj[x]
    BY <2>1, <1>t
  <2> QED
    BY <2>1, <2>3 DEF SymbolsStand
<1>3. CASE NewStorage(a)
  <2> DEFINE v == request.args[1]
             o == [kind |-> "storage", data |-> 0,
                   slots |-> [i \in 1..request.data |-> request.args[2]]]
             header == [obj[v] EXCEPT !.slots[1] = a]
  <2>1. /\ v \in objects /\ obj[v].kind = "vector" /\ obj[v] \in Object
    BY <1>3, <1>t DEF NewStorage, Inductive, RequestOK, IsObject
  <2>2. o.kind = "storage" /\ header.kind = "vector"
    BY <2>1 DEF Object
  <2>3. obj' = [obj EXCEPT ![a] = o, ![v] = header] /\ objects' = objects \cup {a}
    BY <1>3, <1>t, <2>1 DEF NewStorage
  <2> HIDE DEF o, header
  <2>4. /\ obj'[a] = o /\ obj'[v] = header
        /\ \A x \in objects : x # v => obj'[x] = obj[x]
    BY <2>1, <2>3, <1>t
  <2> QED
    BY <2>1, <2>2, <2>3, <2>4 DEF SymbolsStand
<1>4. CASE NewGrown(a)
  <2> DEFINE v == request.args[1]
             o == [kind |-> "storage", data |-> 0,
                   slots |-> GrownItems(obj[request.local].slots, request.args[2])]
             header == [obj[v] EXCEPT !.slots[1] = a, !.data = obj[v].data + 1]
  <2>1. /\ v \in objects /\ obj[v].kind = "vector" /\ obj[v] \in Object
    BY <1>4, <1>t DEF NewGrown, Inductive, RequestOK, IsObject
  <2>2. o.kind = "storage" /\ header.kind = "vector"
    BY <2>1 DEF Object
  <2>3. obj' = [obj EXCEPT ![a] = o, ![v] = header] /\ objects' = objects \cup {a}
    BY <1>4, <1>t, <2>1 DEF NewGrown
  <2> HIDE DEF o, header
  <2>4. /\ obj'[a] = o /\ obj'[v] = header
        /\ \A x \in objects : x # v => obj'[x] = obj[x]
    BY <2>1, <2>3, <1>t
  <2> QED
    BY <2>1, <2>2, <2>3, <2>4 DEF SymbolsStand
<1> QED
  BY <1>1, <1>2, <1>3, <1>4

\* intern_symbol puts the new symbol at the head of the chain.
LEMMA InternLinks ==
    ASSUME Inductive, NEW a \in Addr \ objects, NewInterned(a)
    PROVE  LET p == request.args[1]
           IN /\ objects' = objects \cup {a}
              /\ p \in objects /\ obj[p].kind = "package" /\ request.kind = "intern"
              /\ obj'[a].kind = "symbol" /\ obj'[a].slots[1] = request.args[2]
              /\ obj'[a].slots[2] = p /\ obj'[a].slots[3] = obj[p].slots[2]
              /\ obj'[p].kind = "package" /\ obj'[p].slots[2] = a
              /\ \A o \in objects : o # p => obj'[o] = obj[o]
<1> DEFINE p == request.args[1]
           s == [kind |-> "symbol", slots |-> <<request.args[2], p, obj[p].slots[2]>>,
                 data |-> 0]
           head == [obj[p] EXCEPT !.slots[2] = a]
<1>t. obj \in [Addr -> Object] /\ objects \subseteq Addr
  BY DEF Inductive, TypeOK
<1>1. /\ p \in objects /\ obj[p].kind = "package" /\ obj[p] \in Object
      /\ request.kind = "intern"
  BY <1>t DEF NewInterned, Inductive, RequestOK, IsObject
<1>2. /\ s.kind = "symbol" /\ s.slots[1] = request.args[2] /\ s.slots[2] = p
      /\ s.slots[3] = obj[p].slots[2]
  OBVIOUS
<1>3. head.kind = "package" /\ head.slots[2] = a
  <2>1. obj[p].slots \in Seq(Value) /\ Len(obj[p].slots) = 3
    BY <1>1 DEF Object
  <2> QED
    BY <1>1, <2>1 DEF Object
<1>4. obj' = [obj EXCEPT ![a] = s, ![p] = head] /\ objects' = objects \cup {a}
  BY <1>t, <1>1 DEF NewInterned
<1> HIDE DEF s, head
<1>5. /\ obj'[a] = s /\ obj'[p] = head
      /\ \A x \in objects : x # p => obj'[x] = obj[x]
  BY <1>1, <1>4, <1>t
<1> QED
  BY <1>1, <1>2, <1>3, <1>4, <1>5

\* A collection keeps the marked objects as they are.
LEMMA SweepKeeps ==
    ASSUME Inductive, Sweep
    PROVE  /\ objects' = marked /\ marked \subseteq objects
           /\ \A o \in marked : obj'[o] = obj[o]
           /\ RegisteredValues \cap objects \subseteq marked
           /\ \A o \in marked : ChildValues(obj[o]) \cap objects \subseteq marked
           /\ request' = request
<1>1. /\ phase = "trace" /\ pending = {} /\ index = Len(work) /\ objects' = marked
      /\ obj' = [a \in Addr |-> IF a \in objects \ marked THEN Blank ELSE obj[a]]
      /\ request' = request
  BY DEF Sweep
<1>2. /\ marked \subseteq objects /\ ClosedFrom(RegisteredValues, marked, objects, obj)
  BY <1>1, MarkedIsClosed
<1>3. \A o \in marked : obj'[o] = obj[o]
  BY <1>1, <1>2 DEF Inductive, TypeOK
<1> QED
  BY <1>1, <1>2, <1>3 DEF ClosedFrom

\* A step of the collector that is neither a sweep nor a new object.
LEMMA HeapStands ==
    ASSUME \/ AllocateObject \/ EndRoots \/ EndStack \/ MarkChildren \/ OutOfMemory
           \/ \E v \in pending : MarkValue(v)
           \/ UNCHANGED vars
    PROVE  UNCHANGED <<objects, obj, request>>
  BY DEF AllocateObject, EndRoots, EndStack, MarkChildren, OutOfMemory, MarkValue,
         controlVars, vars

LEMMA WalkHoldsNext ==
    ASSUME Inductive, WalkHolds, [Next]_vars
    PROVE  WalkHolds'
<1>0. ASSUME request'.kind # "intern" PROVE WalkHolds'
  BY <1>0 DEF WalkHolds
<1>1. ASSUME UNCHANGED <<objects, obj, request>> PROVE WalkHolds'
  BY <1>1 DEF WalkHolds, Interned
<1>n. NoRequest.kind # "intern"
  BY DEF NoRequest
<1>r. phase = "run" => request.kind # "intern"
  BY <1>n DEF Inductive, RequestOK
<1>2. CASE Mutate
  <2>1. ASSUME NEW kind \in Calls \cap Constructor, NEW dest \in 0..FrameWidth,
               NEW args \in [1..Arity(kind) -> Value], NEW data \in DataArguments(kind),
               NEW conservative \in BOOLEAN,
               Construct(kind, args, data, conservative, dest)
        PROVE  WalkHolds'
    <3>1. CASE request' = request
      BY <1>0, <1>r, <2>1, <3>1 DEF Construct
    <3>2. CASE /\ ArgumentsValid(kind, args) /\ MustAllocate(kind, args)
               /\ request' = [kind |-> kind, args |-> args, data |-> data, local |-> NIL,
                              dest |-> dest]
      <4>1. objects' = objects /\ obj' = obj
        BY <2>1 DEF Construct
      <4>2. request'.kind = kind /\ request'.args = args
        BY <3>2
      <4>3. CASE kind = "intern"
        <5>1. IsObject(args[2], "string", objects, obj) /\ Interned(args[1], args[2]) = {}
          BY <3>2, <4>3 DEF ArgumentsValid, MustAllocate
        <5> QED
          BY <4>1, <4>2, <5>1 DEF WalkHolds, Interned
      <4> QED
        BY <1>0, <4>2, <4>3
    <3> QED
      BY <2>1, <3>1, <3>2 DEF Construct
  <2>2. ASSUME NEW v, NEW item, Push(v, item)
        PROVE  WalkHolds'
    <3>1. phase = "run" /\ (request' = request \/ request'.kind = "grow")
      BY <2>2 DEF Push, controlVars
    <3> QED
      BY <1>0, <1>r, <3>1
  <2>3. ASSUME phase = "run", request' = request PROVE WalkHolds'
    BY <1>0, <1>r, <2>3
  <2>4. ASSUME NEW v, NEW i, NEW item, VectorSet(v, i, item)
        PROVE  WalkHolds'
    BY <2>3, <2>4 DEF VectorSet
  <2>5. ASSUME NEW v, NEW text, StringSet(v, text)
        PROVE  WalkHolds'
    BY <2>3, <2>5 DEF StringSet
  <2>6. ASSUME NEW t, NEW v, HandleOpen \/ HandleSet(t, v) \/ HandleClose(t)
        PROVE  WalkHolds'
    BY <2>3, <2>6 DEF HandleOpen, HandleSet, HandleClose
  <2>7. ASSUME NEW f, NEW i, NEW v, NEW w,
               PushRoots \/ PopRoots(f) \/ StoreRoot(f, i, v) \/ StoreStack(i, v)
                  \/ Values2(v, w)
        PROVE  WalkHolds'
    BY <2>3, <2>7 DEF PushRoots, PopRoots, StoreRoot, StoreStack, Values2, controlVars
  <2>8. ASSUME NEW conservative, Collect(conservative)
        PROVE  WalkHolds'
    BY <2>3, <2>8 DEF Collect
  <2> QED
    BY <1>2, <2>1, <2>2, <2>4, <2>5, <2>6, <2>7, <2>8 DEF Mutate
<1>3. CASE Sweep
  <2> SUFFICES ASSUME request'.kind = "intern"
               PROVE  /\ IsObject(request.args[2], "string", objects', obj')
                      /\ Interned(request.args[1], request.args[2])' = {}
    BY <1>3, SweepKeeps DEF WalkHolds
  <2> DEFINE p == request.args[1]
             name == request.args[2]
  <2>1. /\ objects' = marked /\ marked \subseteq objects /\ request' = request
        /\ \A o \in marked : obj'[o] = obj[o]
    BY <1>3, SweepKeeps
  <2>2. IsObject(name, "string", objects, obj) /\ Interned(p, name) = {}
    BY <2>1 DEF WalkHolds
  <2>3. name \in marked
    <3>1. request.args \in Seq(Value) /\ Len(request.args) = 2
      BY <2>1 DEF Inductive, TypeOK, Request, RequestOK, Constructor, Arity
    <3>2. name \in RegisteredValues
      BY <3>1 DEF Words, RegisteredValues
    <3> QED
      BY <1>3, <2>2, <3>2, SweepKeeps DEF IsObject
  <2>4. ASSUME NEW s \in Interned(p, name)' PROVE FALSE
    <3>1. /\ s \in marked /\ obj'[s].kind = "symbol" /\ obj'[s].slots[2] = p
          /\ obj'[s].slots[1] \in marked /\ obj'[obj'[s].slots[1]].kind = "string"
          /\ obj'[obj'[s].slots[1]].data = obj'[name].data
      BY <2>1, <2>4 DEF Interned, IsObject
    <3>2. s \in Interned(p, name)
      BY <2>1, <2>3, <3>1 DEF Interned, IsObject
    <3> QED
      BY <2>2, <3>2
  <2> QED
    BY <2>1, <2>2, <2>3, <2>4 DEF IsObject
<1>4. ASSUME NEW a, NewObject(a) \/ NewInterned(a) \/ NewVector(a) \/ NewStorage(a) \/ NewGrown(a)
      PROVE  WalkHolds'
  <2>1. CASE NewVector(a)
    <3>1. request'.kind = "storage"
      BY <2>1 DEF NewVector, Inductive, TypeOK, Request
    <3> QED
      BY <1>0, <3>1
  <2>2. CASE ~NewVector(a)
    <3>1. request' = NoRequest
      BY ZenonT(60), <1>4, <2>2 DEF NewObject, NewInterned, NewStorage, NewGrown, Return
    <3> QED
      BY <1>0, <1>n, <3>1
  <2> QED
    BY <2>1, <2>2
<1>5. CASE UNCHANGED vars
  BY <1>1, <1>5, HeapStands
<1> QED
  BY <1>1, <1>2, <1>3, <1>4, <1>5, HeapStands DEF Next, CollectorStep

\* The chain walk of intern_symbol is not stale when its symbol is made: nothing
\* that happens inside allocate_object gives the package a symbol of that text
\* or frees the name.
THEOREM WalkStaysTrue == Spec => []WalkHolds
<1>1. Init => WalkHolds
  BY DEF Init, WalkHolds, NoRequest
<1> QED
  BY <1>1, WalkHoldsNext, InductiveInvariant, PTL DEF Spec

\* Whatever collections run inside intern_symbol, the symbol it adds is the only
\* one of its text in its package.
THEOREM InternsOnce == Spec => InternedOnce
<1> DEFINE A == \A a \in objects' \ objects :
                   (obj[a].kind = "symbol" /\ obj[a].slots[2] # NIL =>
                       Interned(obj[a].slots[2], obj[a].slots[1]) = {a})'
<1>1. Inductive /\ WalkHolds /\ [Next]_vars => [A]_vars
  <2> SUFFICES ASSUME Inductive, WalkHolds, Next, NEW a \in objects' \ objects,
                      obj'[a].kind = "symbol", obj'[a].slots[2] # NIL
               PROVE  Interned(obj[a].slots[2], obj[a].slots[1])' = {a}
    OBVIOUS
  <2>1. ~Mutate
    BY MutateKeepsSymbols
  <2>2. ~Sweep
    BY SweepKeeps
  <2>3. PICK b \in Addr \ objects :
           NewObject(b) \/ NewInterned(b) \/ NewVector(b) \/ NewStorage(b) \/ NewGrown(b)
    BY <2>1, <2>2, HeapStands DEF Next, CollectorStep
  <2>4. objects' = objects \cup {b}
    BY <2>3, NewKeepsSymbols, InternLinks
  <2>5. a = b
    BY <2>4
  <2>6. NewInterned(a)
    BY <2>3, <2>5, NewKeepsSymbols
  <2> DEFINE p == request.args[1]
             name == request.args[2]
  <2>7. /\ p \in objects /\ obj[p].kind = "package" /\ request.kind = "intern"
        /\ obj'[a].slots[1] = name /\ obj'[a].slots[2] = p
        /\ obj'[p].kind = "package"
        /\ \A o \in objects : o # p => obj'[o] = obj[o]
    BY <2>3, <2>5, <2>6, InternLinks
  <2>8. /\ name \in objects /\ obj[name].kind = "string" /\ Interned(p, name) = {}
    BY <2>7 DEF WalkHolds, IsObject
  <2>9. Interned(obj[a].slots[2], obj[a].slots[1])' =
          {s \in objects' : /\ obj'[s].kind = "symbol" /\ obj'[s].slots[2] = p
                            /\ IsObject(obj'[s].slots[1], "string", objects', obj')
                            /\ obj'[obj'[s].slots[1]].data = obj'[name].data}
    BY <2>7 DEF Interned
  <2>10. obj'[name] = obj[name] /\ name # p
    BY <2>7, <2>8
  <2>11. ASSUME NEW s \in objects, obj'[s].kind = "symbol", obj'[s].slots[2] = p,
                IsObject(obj'[s].slots[1], "string", objects', obj'),
                obj'[obj'[s].slots[1]].data = obj'[name].data
         PROVE  FALSE
    <3>1. obj'[s] = obj[s]
      BY <2>7, <2>11
    <3>2. obj[s].slots[1] \in objects /\ obj'[obj[s].slots[1]] = obj[obj[s].slots[1]]
      BY <2>4, <2>5, <2>7, <2>11, <3>1 DEF IsObject
    <3>3. s \in Interned(p, name)
      BY <2>10, <2>11, <3>1, <3>2 DEF Interned, IsObject
    <3> QED
      BY <2>8, <3>3
  <2> QED
    BY <2>4, <2>5, <2>7, <2>8, <2>9, <2>10, <2>11 DEF IsObject
<1> QED
  BY <1>1, InductiveInvariant, WalkStaysTrue, PTL DEF Spec, InternedOnce

\* Every non-empty set of numbers has a least member.
LEMMA Least ==
    ASSUME NEW S, S \subseteq Nat, S # {}
    PROVE  \E x \in S : \A y \in S : x <= y
<1>1. PICK x \in S : \A y \in S : ~ (<<y, x>> \in OpToRel(<, Nat))
  BY NatLessThanWellFounded, WFMin
<1>2. \A y \in S : ~ (y < x)
  BY <1>1 DEF OpToRel
<1> QED
  BY <1>2

LEMMA SymbolsFinite ==
    ASSUME Inductive, NEW p
    PROVE  /\ IsFiniteSet(SymbolsOf(p)) /\ Cardinality(SymbolsOf(p)) \in Nat
           /\ Cardinality(SymbolsOf(p)) <= Cardinality(Addr) /\ Cardinality(Addr) \in Nat
<1>1. SymbolsOf(p) \subseteq Addr
  BY DEF SymbolsOf, Inductive, TypeOK
<1> QED
  BY <1>1, HeapAssumption, FS_Subset, FS_CardinalityType

\* A chain is one in any memory where its symbols have the same third word.
LEMMA ChainKept ==
    ASSUME NEW S, NEW head, NEW old, NEW new, IsChain(S, head, old),
           \A s \in S : new[s].slots[3] = old[s].slots[3]
    PROVE  IsChain(S, head, new)
<1> DEFINE n == Cardinality(S)
<1>1. PICK c \in [1..n -> S] : Lists(c, n, S, head, old)
  BY DEF IsChain
<1>2. \A i \in 1..n : c[i] \in S
  OBVIOUS
<1>3. Lists(c, n, S, head, new)
  BY <1>1, <1>2 DEF Lists
<1> QED
  BY <1>3 DEF IsChain

\* An empty chain is NIL.
LEMMA ChainEmpty ==
    ASSUME NEW memory
    PROVE  IsChain({}, NIL, memory)
<1>1. Cardinality({}) = 0
  BY FS_EmptySet
<1>2. PICK c : c \in [1..0 -> {}]
  <2>1. [i \in 1..0 |-> i] \in [1..0 -> {}]
    OBVIOUS
  <2> QED
    BY <2>1
<1>3. Lists(c, 0, {}, NIL, memory)
  BY DEF Lists, Link
<1> QED
  BY <1>1, <1>2, <1>3 DEF IsChain

\* A new symbol at the head of a chain.
LEMMA ChainLonger ==
    ASSUME NEW S, IsFiniteSet(S), NEW head, NEW old, NEW new, IsChain(S, head, old),
           NEW a, a \notin S, new[a].slots[3] = head,
           \A s \in S : new[s].slots[3] = old[s].slots[3]
    PROVE  IsChain(S \cup {a}, a, new)
<1> DEFINE n == Cardinality(S)
           T == S \cup {a}
           m == n + 1
<1>1. PICK c \in [1..n -> S] : Lists(c, n, S, head, old)
  BY DEF IsChain
<1>2. /\ \A s \in S : \E i \in 1..n : c[i] = s
      /\ head = IF 1 <= n THEN c[1] ELSE NIL
      /\ \A i \in 1..n : old[c[i]].slots[3] = IF i + 1 <= n THEN c[i + 1] ELSE NIL
  BY <1>1 DEF Lists, Link
<1>3. n \in Nat /\ Cardinality(T) = m
  BY FS_CardinalityType, FS_AddElement
<1> DEFINE d == [i \in 1..m |-> IF i = 1 THEN a ELSE c[i - 1]]
<1>4. \A i \in 1..m : i # 1 => i - 1 \in 1..n
  BY <1>3
<1>a. \A i \in 1..n : c[i] \in S
  OBVIOUS
<1> HIDE DEF n
<1>5. d \in [1..m -> T]
  BY <1>4, <1>a
<1>6. d[1] = a /\ 1 \in 1..m /\ \A i \in 1..n : i + 1 \in 1..m /\ d[i + 1] = c[i]
  BY <1>3
<1>b. \A i \in 1..m : i = 1 \/ (i - 1 \in 1..n /\ d[i] = c[i - 1] /\ (i - 1) + 1 = i)
  BY <1>3, <1>4
<1> HIDE DEF d
<1>7. \A s \in T : \E i \in 1..m : d[i] = s
  BY <1>2, <1>6
<1>8. \A i \in 1..m : new[d[i]].slots[3] = IF i + 1 <= m THEN d[i + 1] ELSE NIL
  <2> SUFFICES ASSUME NEW i \in 1..m
               PROVE  new[d[i]].slots[3] = IF i + 1 <= m THEN d[i + 1] ELSE NIL
    OBVIOUS
  <2>1. CASE i = 1
    <3>1. new[d[i]].slots[3] = IF 1 <= n THEN c[1] ELSE NIL
      BY <1>2, <1>6, <2>1
    <3>2. 1 <= n => d[2] = c[1]
      BY <1>3, <1>6
    <3> QED
      BY <1>3, <2>1, <3>1, <3>2
  <2>2. CASE i # 1
    <3>1. PICK j \in 1..n : d[i] = c[j] /\ j + 1 = i
      BY <1>b, <2>2
    <3>2. new[c[j]].slots[3] = IF j + 1 <= n THEN c[j + 1] ELSE NIL
      BY <1>2, <1>a
    <3>3. i <= n => i \in 1..n /\ d[i + 1] = c[i] /\ i + 1 <= m
      BY <1>3, <1>6
    <3>4. ~(i <= n) => ~(i + 1 <= m)
      BY <1>3
    <3> QED
      BY <3>1, <3>2, <3>3, <3>4
  <2> QED
    BY <2>1, <2>2
<1>9. Lists(d, m, T, a, new)
  <2>1. 1 <= m
    BY <1>3
  <2> QED
    BY <1>6, <1>7, <1>8, <2>1 DEF Lists, Link
<1> QED
  BY <1>3, <1>5, <1>9 DEF IsChain

\* The symbols of a package survive with it: the collector follows the package's
\* word to the first and each symbol's word to the next.
LEMMA ChainSurvives ==
    ASSUME Inductive, Sweep, NEW p \in marked, obj[p].kind = "package",
           IsChain(SymbolsOf(p), obj[p].slots[2], obj)
    PROVE  SymbolsOf(p) \subseteq marked
<1> DEFINE S == SymbolsOf(p)
           n == Cardinality(S)
<1>1. PICK c \in [1..n -> S] : Lists(c, n, S, obj[p].slots[2], obj)
  BY DEF IsChain
<1>2. /\ \A s \in S : \E i \in 1..n : c[i] = s
      /\ obj[p].slots[2] = IF 1 <= n THEN c[1] ELSE NIL
      /\ \A i \in 1..n : obj[c[i]].slots[3] = IF i + 1 <= n THEN c[i + 1] ELSE NIL
  BY <1>1 DEF Lists, Link
<1>3. n \in Nat
  BY SymbolsFinite
<1>4. \A i \in 1..n : c[i] \in objects /\ obj[c[i]].kind = "symbol"
  BY DEF SymbolsOf
<1> HIDE DEF S, n
<1>5. \A o \in marked : ChildValues(obj[o]) \cap objects \subseteq marked
  BY SweepKeeps
<1>6. n >= 1 => c[1] \in marked
  <2> SUFFICES ASSUME n >= 1 PROVE c[1] \in marked
    OBVIOUS
  <2>1. obj[p].slots[2] \in ChildValues(obj[p])
    BY DEF ChildValues, TracedCount
  <2> QED
    BY <1>2, <1>3, <1>4, <1>5, <2>1
<1>7. ASSUME NEW i \in 1..n, c[i] \in marked, i + 1 <= n
      PROVE  c[i + 1] \in marked
  <2>1. obj[c[i]].slots[3] \in ChildValues(obj[c[i]])
    BY <1>4 DEF ChildValues, TracedCount
  <2>2. i + 1 \in 1..n /\ obj[c[i]].slots[3] = c[i + 1]
    BY <1>2, <1>3, <1>7
  <2> QED
    BY <1>4, <1>5, <1>7, <2>1, <2>2
<1>8. \A i \in 1..n : c[i] \in marked
  <2> DEFINE bad == {i \in 1..n : c[i] \notin marked}
  <2> SUFFICES ASSUME bad # {} PROVE FALSE
    OBVIOUS
  <2>1. PICK i \in bad : \A j \in bad : i <= j
    <3>1. bad \subseteq Nat
      BY <1>3
    <3> HIDE DEF bad
    <3> QED
      BY <3>1, Least
  <2>2. i # 1
    BY <1>3, <1>6
  <2>3. i - 1 \in 1..n /\ i - 1 \notin bad /\ (i - 1) + 1 = i
    BY <1>3, <2>1, <2>2
  <2> QED
    BY <1>7, <2>3
<1> QED
  BY <1>2, <1>8 DEF S

LEMMA ChainsNext ==
    ASSUME Inductive, NoDangling, ChainsListed, [Next]_vars
    PROVE  ChainsListed'
<1> SUFFICES ASSUME NEW p \in objects', obj'[p].kind = "package"
             PROVE  IsChain(SymbolsOf(p)', obj'[p].slots[2], obj')
  BY DEF ChainsListed
<1>0. SymbolsOf(p)' = {s \in objects' : obj'[s].kind = "symbol" /\ obj'[s].slots[2] = p}
  BY DEF SymbolsOf
<1>1. ASSUME objects' = objects, SymbolsStand
      PROVE  IsChain(SymbolsOf(p)', obj'[p].slots[2], obj')
  <2>1. /\ p \in objects /\ obj[p].kind = "package" /\ obj'[p] = obj[p]
        /\ IsChain(SymbolsOf(p), obj[p].slots[2], obj)
    BY <1>1 DEF SymbolsStand, ChainsListed
  <2>2. SymbolsOf(p)' = SymbolsOf(p)
    BY <1>0, <1>1 DEF SymbolsOf, SymbolsStand
  <2>3. \A s \in SymbolsOf(p) : obj'[s].slots[3] = obj[s].slots[3]
    BY <1>1 DEF SymbolsOf, SymbolsStand
  <2> QED
    BY <2>1, <2>2, <2>3, ChainKept
<1>2. ASSUME UNCHANGED <<objects, obj, request>>
      PROVE  IsChain(SymbolsOf(p)', obj'[p].slots[2], obj')
  BY <1>1, <1>2 DEF SymbolsStand
<1>3. CASE Mutate
  BY <1>1, <1>3, MutateKeepsSymbols
<1>4. CASE Sweep
  <2>1. /\ objects' = marked /\ marked \subseteq objects
        /\ \A o \in marked : obj'[o] = obj[o]
    BY <1>4, SweepKeeps
  <2>2. /\ p \in marked /\ obj[p].kind = "package"
        /\ IsChain(SymbolsOf(p), obj[p].slots[2], obj)
    BY <2>1 DEF ChainsListed
  <2>3. SymbolsOf(p) \subseteq marked
    BY <1>4, <2>2, ChainSurvives
  <2>4. SymbolsOf(p)' = SymbolsOf(p)
    BY <1>0, <2>1, <2>3 DEF SymbolsOf
  <2>5. \A s \in SymbolsOf(p) : obj'[s].slots[3] = obj[s].slots[3]
    BY <2>1, <2>3
  <2> QED
    BY <2>1, <2>2, <2>4, <2>5, ChainKept
<1>5. ASSUME NEW a \in Addr \ objects,
             NewObject(a) \/ NewVector(a) \/ NewStorage(a) \/ NewGrown(a)
      PROVE  IsChain(SymbolsOf(p)', obj'[p].slots[2], obj')
  <2>1. /\ objects' = objects \cup {a} /\ SymbolsStand
        /\ obj'[a].kind \in {"symbol", "package"} => obj'[a].slots[2] = NIL
    BY <1>5, NewKeepsSymbols
  <2>2. CASE p = a
    <3>1. ASSUME NEW s \in SymbolsOf(p)' PROVE FALSE
      <4>1. s \in objects' /\ obj'[s].kind = "symbol" /\ obj'[s].slots[2] = a
        BY <1>0, <2>2
      <4>2. s \in objects /\ obj[s] = obj'[s]
        BY <2>1, <2>2, <4>1 DEF SymbolsStand
      <4>3. a \in ChildValues(obj[s])
        BY <4>1, <4>2 DEF ChildValues, TracedCount
      <4>4. a \in Imm \/ a \in objects
        BY <4>2, <4>3 DEF NoDangling, Valid
      <4> QED
        BY <4>4, HeapAssumption
    <3>2. SymbolsOf(p)' = {} /\ obj'[p].slots[2] = NIL
      BY <2>1, <2>2, <3>1
    <3> QED
      BY <3>2, ChainEmpty
  <2>3. CASE p # a
    <3>1. /\ p \in objects /\ obj[p].kind = "package" /\ obj'[p] = obj[p]
          /\ IsChain(SymbolsOf(p), obj[p].slots[2], obj)
      BY <2>1, <2>3 DEF SymbolsStand, ChainsListed
    <3>2. p # NIL
      BY <3>1, HeapAssumption DEF Inductive, TypeOK
    <3>3. SymbolsOf(p)' = SymbolsOf(p)
      BY <1>0, <1>5, <2>1, <3>2 DEF SymbolsOf, SymbolsStand
    <3>4. \A s \in SymbolsOf(p) : obj'[s].slots[3] = obj[s].slots[3]
      BY <2>1 DEF SymbolsOf, SymbolsStand
    <3> QED
      BY <3>1, <3>3, <3>4, ChainKept
  <2> QED
    BY <2>2, <2>3
<1>6. ASSUME NEW a \in Addr \ objects, NewInterned(a)
      PROVE  IsChain(SymbolsOf(p)', obj'[p].slots[2], obj')
  <2> DEFINE q == request.args[1]
  <2>1. /\ objects' = objects \cup {a}
        /\ q \in objects /\ obj[q].kind = "package"
        /\ obj'[a].kind = "symbol"
        /\ obj'[a].slots[2] = q /\ obj'[a].slots[3] = obj[q].slots[2]
        /\ obj'[q].kind = "package" /\ obj'[q].slots[2] = a
        /\ \A o \in objects : o # q => obj'[o] = obj[o]
    BY <1>6, InternLinks
  <2> HIDE DEF q
  <2>2. p \in objects /\ obj[p].kind = "package"
    BY <2>1
  <2>3. IsChain(SymbolsOf(p), obj[p].slots[2], obj)
    BY <2>2 DEF ChainsListed
  <2>4. \A s \in SymbolsOf(p) : s # q /\ s # a /\ s \in objects /\ obj'[s] = obj[s]
    BY <1>6, <2>1 DEF SymbolsOf
  <2>5. CASE p = q
    <3>1. SymbolsOf(p)' = SymbolsOf(p) \cup {a}
      BY <1>0, <2>1, <2>4, <2>5 DEF SymbolsOf
    <3>2. IsFiniteSet(SymbolsOf(p)) /\ a \notin SymbolsOf(p)
      BY <1>6, SymbolsFinite DEF SymbolsOf
    <3>3. IsChain(SymbolsOf(p) \cup {a}, a, obj')
      <4>1. obj'[a].slots[3] = obj[p].slots[2]
        BY <2>1, <2>5
      <4>2. \A s \in SymbolsOf(p) : obj'[s].slots[3] = obj[s].slots[3]
        BY <2>4
      <4> QED
        BY <2>3, <3>2, <4>1, <4>2, ChainLonger
    <3> QED
      BY <2>1, <2>5, <3>1, <3>3
  <2>6. CASE p # q
    <3>1. SymbolsOf(p)' = SymbolsOf(p)
      BY <1>0, <2>1, <2>4, <2>6 DEF SymbolsOf
    <3>2. obj'[p] = obj[p]
      BY <2>1, <2>2, <2>6
    <3>3. \A s \in SymbolsOf(p) : obj'[s].slots[3] = obj[s].slots[3]
      BY <2>4
    <3> QED
      BY <2>3, <3>1, <3>2, <3>3, ChainKept
  <2> QED
    BY <2>5, <2>6
<1> QED
  BY <1>2, <1>3, <1>4, <1>5, <1>6, HeapStands DEF Next, CollectorStep

\* Every chain is a list of its package's symbols, whatever is interned, renamed
\* and collected.
THEOREM ChainsAreLists == Spec => []ChainsListed
<1>1. Init => ChainsListed
  BY DEF Init, ChainsListed
<1> QED
  BY <1>1, ChainsNext, InductiveInvariant, NothingDangles, PTL DEF Spec

\* One turn of the walk of intern_symbol over the chain of p.
Walk(p, f, n) ==
    IF n = 1 THEN obj[p].slots[2]
    ELSE IF f[n - 1] \in objects THEN obj[f[n - 1]].slots[3] ELSE NIL

\* The walk meets the listed symbols in order, and then NIL.
LEMMA WalkFollowsList ==
    ASSUME Inductive, NEW p \in objects, obj[p].kind = "package",
           IsChain(SymbolsOf(p), obj[p].slots[2], obj)
    PROVE  LET N == Cardinality(Addr) + 1
               n == Cardinality(SymbolsOf(p))
           IN \E c \in [1..n -> SymbolsOf(p)] :
                 /\ \A s \in SymbolsOf(p) : \E i \in 1..n : c[i] = s
                 /\ ChainAt(p) = [i \in 1..N |-> IF i <= n THEN c[i] ELSE NIL]
<1> DEFINE S == SymbolsOf(p)
           n == Cardinality(S)
           N == Cardinality(Addr) + 1
           D == 1..N
<1>1. PICK c \in [1..n -> S] : Lists(c, n, S, obj[p].slots[2], obj)
  BY DEF IsChain
<1>2. /\ \A s \in S : \E i \in 1..n : c[i] = s
      /\ obj[p].slots[2] = IF 1 <= n THEN c[1] ELSE NIL
      /\ \A i \in 1..n : obj[c[i]].slots[3] = IF i + 1 <= n THEN c[i + 1] ELSE NIL
  BY <1>1 DEF Lists, Link
<1>3. n \in Nat /\ N \in Nat /\ n < N
  BY SymbolsFinite
<1>4. \A i \in 1..n : c[i] \in objects
  BY DEF SymbolsOf
<1>5. NIL \notin objects
  BY HeapAssumption DEF Inductive, TypeOK
<1> DEFINE g == [i \in D |-> IF i <= n THEN c[i] ELSE NIL]
<1>a. ChainAt(p) = CHOOSE f : f = [i \in D |-> Walk(p, f, i)]
  BY DEF ChainAt, Walk
<1> HIDE DEF S, n, N
<1>6. \A i \in D : i # 1 => i - 1 \in D /\ (i - 1) + 1 = i
  BY <1>3
<1>7. \A i \in D : g[i] = Walk(p, g, i)
  <2> SUFFICES ASSUME NEW i \in D PROVE g[i] = Walk(p, g, i)
    OBVIOUS
  <2>1. CASE i = 1
    BY <1>2, <2>1 DEF Walk
  <2>2. CASE i # 1
    <3>1. PICK j \in D : j + 1 = i /\ j = i - 1
      BY <1>6, <2>2
    <3>2. CASE j <= n
      <4>1. j \in 1..n /\ g[j] = c[j]
        BY <1>3, <3>2
      <4>2. Walk(p, g, i) = obj[c[j]].slots[3]
        BY <1>4, <2>2, <3>1, <4>1 DEF Walk
      <4> QED
        BY <1>2, <3>1, <4>1, <4>2
    <3>3. CASE ~(j <= n)
      <4>1. g[j] = NIL /\ ~(i <= n)
        BY <1>3, <3>1, <3>3
      <4>2. Walk(p, g, i) = NIL
        BY <1>5, <2>2, <3>1, <4>1 DEF Walk
      <4> QED
        BY <4>1, <4>2
    <3> QED
      BY <3>2, <3>3
  <2> QED
    BY <2>1, <2>2
<1>8. g = [i \in D |-> Walk(p, g, i)]
  BY <1>7
<1> HIDE DEF g
<1>9. PICK f : f = ChainAt(p)
  OBVIOUS
<1>10. f = [i \in D |-> Walk(p, f, i)]
  BY <1>8, <1>9, <1>a
<1>11. \A i \in D : f[i] = g[i]
  <2> DEFINE bad == {i \in D : f[i] # g[i]}
  <2> SUFFICES ASSUME bad # {} PROVE FALSE
    OBVIOUS
  <2>1. bad \subseteq Nat
    BY <1>3
  <2>2. PICK i \in bad : \A j \in bad : i <= j
    <3> HIDE DEF bad
    <3> QED
      BY <2>1, Least
  <2>3. f[i] = Walk(p, f, i) /\ g[i] = Walk(p, g, i)
    BY <1>10, <1>7
  <2>4. CASE i = 1
    BY <2>3, <2>4 DEF Walk
  <2>5. CASE i # 1
    <3>1. i - 1 \in D /\ i - 1 \notin bad
      BY <1>3, <1>6, <2>2, <2>5
    <3>2. f[i - 1] = g[i - 1]
      BY <3>1
    <3> QED
      BY <2>3, <2>5, <3>2 DEF Walk
  <2> QED
    BY <2>4, <2>5
<1>12. f = g
  <2>1. g = [i \in D |-> g[i]]
    BY DEF g
  <2>2. f = [i \in D |-> f[i]]
    BY <1>10
  <2> QED
    BY <1>11, <2>1, <2>2
<1> QED
  BY <1>2, <1>9, <1>12 DEF S, n, N, g

\* The chain walk of intern_symbol meets exactly the symbols of the package and
\* ends, for every heap.
THEOREM WalksAreExact == Spec => []ChainExact
<1>1. Inductive /\ ChainsListed => ChainExact
  <2> SUFFICES ASSUME Inductive, ChainsListed, NEW p \in objects, obj[p].kind = "package"
               PROVE  /\ ChainAt(p)[Cardinality(Addr) + 1] = NIL
                      /\ {ChainAt(p)[i] : i \in DOMAIN ChainAt(p)} \ {NIL} = SymbolsOf(p)
    BY DEF ChainExact, SymbolsOf
  <2> DEFINE S == SymbolsOf(p)
             n == Cardinality(S)
             N == Cardinality(Addr) + 1
             f == ChainAt(p)
  <2>1. PICK c \in [1..n -> S] :
           /\ \A s \in S : \E i \in 1..n : c[i] = s
           /\ f = [i \in 1..N |-> IF i <= n THEN c[i] ELSE NIL]
    BY WalkFollowsList DEF ChainsListed
  <2>2. n \in Nat /\ N \in Nat /\ n < N
    BY SymbolsFinite
  <2>3. NIL \notin S
    BY HeapAssumption DEF SymbolsOf, Inductive, TypeOK
  <2>4. \A i \in 1..n : c[i] \in S
    OBVIOUS
  <2> HIDE DEF S, n, N, f
  <2>5. N \in 1..N /\ f[N] = NIL /\ DOMAIN f = 1..N
    BY <2>1, <2>2
  <2>6. \A i \in 1..N : f[i] = NIL \/ f[i] \in S
    BY <2>1, <2>2, <2>4
  <2>7. \A s \in S : \E i \in 1..N : f[i] = s
    BY <2>1, <2>2
  <2>8. {f[i] : i \in DOMAIN f} \ {NIL} = S
    BY <2>3, <2>5, <2>6, <2>7
  <2> QED
    BY <2>5, <2>8 DEF S, N, f
<1> QED
  BY <1>1, InductiveInvariant, ChainsAreLists, PTL

-----------------------------------------------------------------------------
(* The variant of a service.                                               *)
(*                                                                         *)
(* Whatever the runtime does between the call and the return of an entry   *)
(* point lowers, in lexicographic order, the objects still to be made, the *)
(* part of the allocation that runs, the live objects whose words are not  *)
(* scanned and the words of the current batch.                             *)

\* The objects the running constructor has yet to allocate.
Left == IF request = NoRequest THEN 0 ELSE IF request.kind = "vector" THEN 2 ELSE 1

\* The parts of an allocation in the order they run, the last one least.
Part == CASE phase = "allocate" -> 5
          [] phase = "roots" -> 4
          [] phase = "stack" -> 3
          [] phase = "trace" -> 2
          [] phase = "new" -> 1
          [] OTHER -> 0

\* The objects the loop over the work array may yet come to.
Untraced == IF phase = "trace" THEN Cardinality(objects) - index ELSE 0

Outside == {"run", "aborted"}

Lowers ==
    \/ Left' < Left
    \/ /\ Left' = Left
       /\ \/ Part' < Part
          \/ /\ Part' = Part
             /\ \/ Untraced' < Untraced
                \/ /\ Untraced' = Untraced
                   /\ Cardinality(pending') < Cardinality(pending)

\* No step inside a service leaves the variant as it was.
ServiceAdvances == [][phase \notin Outside => phase' \in Outside \/ Lowers]_vars

Measured == Left \in Nat /\ Part \in Nat /\ Untraced \in Nat /\ Cardinality(pending) \in Nat

\* The loop over the work array never comes to more objects than there are.
LEMMA IndexBounded ==
    ASSUME Inductive, phase \in Collecting
    PROVE  /\ index \in Nat /\ Len(work) \in Nat /\ Cardinality(objects) \in Nat
           /\ index <= Len(work) /\ Len(work) <= Cardinality(objects)
<1>1. /\ marked \in SUBSET objects /\ Len(work) = Cardinality(marked)
      /\ index \in Nat /\ index <= Len(work)
  BY DEF Inductive, MarkingOK, TypeOK
<1>2. /\ Cardinality(marked) \in Nat /\ Cardinality(objects) \in Nat
      /\ Cardinality(marked) <= Cardinality(objects)
  BY <1>1, ObjectsFinite DEF Inductive
<1> QED
  BY <1>1, <1>2

\* The components of the variant are natural numbers.
LEMMA MeasuredAlways ==
    ASSUME Inductive
    PROVE  Measured
<1>1. Left \in Nat /\ Part \in Nat
  BY DEF Left, Part
<1>2. Untraced \in Nat
  <2>1. CASE phase = "trace"
    BY <2>1, IndexBounded DEF Untraced, Collecting
  <2>2. CASE phase # "trace"
    BY <2>2 DEF Untraced
  <2> QED
    BY <2>1, <2>2
<1>3. Cardinality(pending) \in Nat
  <2>1. IsFiniteSet(Addr) /\ pending \subseteq Addr
    BY HeapAssumption DEF Inductive, TypeOK
  <2> QED
    BY <2>1, FS_Subset, FS_CardinalityType
<1> QED
  BY <1>1, <1>2, <1>3 DEF Measured

\* A step to a later part of the same allocation.
LEMMA LaterPart ==
    ASSUME UNCHANGED request,
           \/ phase = "allocate" /\ phase' \in {"roots", "new"}
           \/ phase = "roots" /\ phase' \in {"stack", "trace"}
           \/ phase = "stack" /\ phase' = "trace"
           \/ phase = "trace" /\ phase' = "new"
    PROVE  Lowers
<1>1. Left' = Left
  BY DEF Left
<1>2. Part' < Part
  <2>1. CASE phase = "allocate" /\ phase' \in {"roots", "new"}
    BY <2>1 DEF Part
  <2>2. CASE phase = "roots" /\ phase' \in {"stack", "trace"}
    BY <2>2 DEF Part
  <2>3. CASE phase \in {"stack", "trace"}
    BY <2>3 DEF Part
  <2> QED
    BY <2>1, <2>2, <2>3
<1> QED
  BY <1>1, <1>2 DEF Lowers

\* Within a batch: one word of it less.
LEMMA MarkValueAdvances ==
    ASSUME Inductive, NEW v \in pending, MarkValue(v)
    PROVE  Lowers
<1>1. UNCHANGED <<objects, phase, request, index>> /\ pending' = pending \ {v}
  BY DEF MarkValue, controlVars
<1>2. Left' = Left /\ Part' = Part /\ Untraced' = Untraced
  BY <1>1 DEF Left, Part, Untraced
<1>3. Cardinality(pending') < Cardinality(pending)
  <2>1. IsFiniteSet(pending)
    BY HeapAssumption, FS_Subset DEF Inductive, TypeOK
  <2>2. Cardinality(pending') = Cardinality(pending) - 1
    BY <1>1, <2>1, FS_RemoveElement
  <2>3. Cardinality(pending) \in Nat
    BY <2>1, FS_CardinalityType
  <2> QED
    BY <2>2, <2>3
<1> QED
  BY <1>2, <1>3 DEF Lowers

\* One turn of the loop over the work array: one object less to scan.
LEMMA MarkChildrenAdvances ==
    ASSUME Inductive, MarkChildren
    PROVE  Lowers
<1>1. UNCHANGED <<objects, phase, request>> /\ phase = "trace" /\ index' = index + 1
  BY DEF MarkChildren, controlVars
<1>2. Left' = Left /\ Part' = Part
  BY <1>1 DEF Left, Part
<1>3. index \in Nat /\ Cardinality(objects) \in Nat
  BY <1>1, IndexBounded DEF Collecting
<1>4. Untraced' < Untraced
  BY <1>1, <1>3 DEF Untraced
<1> QED
  BY <1>2, <1>4 DEF Lowers

\* The header of a vector exists: one object is left to make, its storage.
LEMMA NewVectorAdvances ==
    ASSUME Inductive, NEW a, NewVector(a)
    PROVE  Lowers
<1>1. request \in Request /\ request.kind = "vector" /\ request'.kind = "storage"
  BY DEF NewVector, Inductive, TypeOK, Request
<1>2. request # NoRequest /\ request' # NoRequest
  BY <1>1 DEF NoRequest
<1>3. Left = 2 /\ Left' = 1
  BY <1>1, <1>2 DEF Left
<1> QED
  BY <1>3 DEF Lowers

\* The mutator does not run inside a service.
LEMMA MutateOutside ==
    ASSUME Mutate
    PROVE  phase = "run"
  BY ZenonT(60) DEF Mutate, PushRoots, PopRoots, StoreRoot, StoreStack, Push, VectorSet,
     StringSet, Values2, HandleOpen, HandleSet, HandleClose, Construct, Collect

LEMMA ServiceStep ==
    ASSUME Inductive, Next, phase \notin Outside
    PROVE  phase' \in Outside \/ Lowers
<1>1. CollectorStep
  BY MutateOutside DEF Next, Outside
<1>2. CASE AllocateObject
  BY <1>2, LaterPart DEF AllocateObject, StartCollect
<1>3. ASSUME NEW v \in pending, MarkValue(v)
      PROVE  Lowers
  BY <1>3, MarkValueAdvances
<1>4. CASE EndRoots
  BY <1>4, LaterPart DEF EndRoots
<1>5. CASE EndStack
  BY <1>5, LaterPart DEF EndStack
<1>6. CASE MarkChildren
  BY <1>6, MarkChildrenAdvances
<1>7. CASE Sweep
  BY <1>7, LaterPart DEF Sweep, Outside
<1>8. ASSUME NEW a, NewObject(a) \/ NewInterned(a) \/ NewStorage(a) \/ NewGrown(a)
      PROVE  phase' \in Outside
  BY ZenonT(60), <1>8 DEF NewObject, NewInterned, NewStorage, NewGrown, Return, Outside
<1>9. ASSUME NEW a, NewVector(a)
      PROVE  Lowers
  BY <1>9, NewVectorAdvances
<1>10. CASE OutOfMemory
  BY <1>10 DEF OutOfMemory, Outside
<1> QED
  BY <1>1, <1>2, <1>3, <1>4, <1>5, <1>6, <1>7, <1>8, <1>9, <1>10 DEF CollectorStep

\* A constructor or a collection takes boundedly many steps, for every heap and
\* every order in which the words of a batch are marked: each one lowers a
\* variant of natural numbers or returns to the program.  Only that the thread
\* goes on at all is left to fairness.
THEOREM ServicesAreBounded == Spec => ServiceAdvances /\ []Measured
<1>1. Inductive /\ [Next]_vars => [phase \notin Outside => phase' \in Outside \/ Lowers]_vars
  BY ServiceStep
<1>2. Inductive => Measured
  BY MeasuredAlways
<1> QED
  BY <1>1, <1>2, InductiveInvariant, PTL DEF Spec, ServiceAdvances

-----------------------------------------------------------------------------
(* Fixnums, for any word width.                                            *)

\* Every number psl_rt_fixnum takes, both ends of the range included, becomes a
\* word that psl_rt_fixnum_p recognises and that psl_rt_unbox_fixnum turns back
\* into it.
THEOREM FixnumRoundTrip ==
  ASSUME Half \in Nat \ {0}, NEW number \in Fixnums
  PROVE  /\ Fixnum(number) \in WordRange /\ FixnumP(Fixnum(number))
         /\ Unbox(Fixnum(number)) = number
  BY DEF Fixnums, Numbers, Fixnum, Doubled, Unsigned, FixnumP, Unbox, Payload, WordRange

\* Every odd word is the fixnum of exactly one number: psl_rt_unbox_fixnum is
\* total, stays in the range and loses no bit, so psl_rt_eq on fixnums is
\* equality of the numbers.
THEOREM FixnumOnto ==
  ASSUME Half \in Nat \ {0}, NEW word \in WordRange, FixnumP(word)
  PROVE  Unbox(word) \in Fixnums /\ Fixnum(Unbox(word)) = word
  BY DEF Fixnums, Numbers, Fixnum, Doubled, Unsigned, FixnumP, Unbox, Payload, WordRange
=============================================================================
