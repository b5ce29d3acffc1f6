------------------------------ MODULE HeapGraph ------------------------------
(***************************************************************************)
(* The managed heap of the hosted runtime as a graph: what a psl_value may *)
(* be, what a psl_object holds, which of its words the collector follows,  *)
(* and what "reachable" means.  Pure definitions shared by the step-level  *)
(* collector (Collector), by the atomic heap it implements (ManagedHeap)   *)
(* and by the modules of the runtime's object kinds.                       *)
(*                                                                         *)
(* A psl_value is abstracted to either an address calloc may return (Addr) *)
(* or an immediate: NIL, T, a fixnum, or the zero word of a calloc'ed slot *)
(* (find_object answers NULL for all of them).                             *)
(***************************************************************************)
EXTENDS Integers, Sequences, FiniteSets

CONSTANTS
    Addr,   \* addresses of objects (aligned: low three bits clear)
    Imm,    \* immediate values
    NIL,    \* PSL_NIL
    ZERO    \* the zero word calloc leaves in an unwritten slot

ASSUME HeapAssumption ==
    /\ Addr \cap Imm = {}
    /\ {NIL, ZERO} \subseteq Imm
    /\ IsFiniteSet(Addr)

Value == Addr \cup Imm

Kind == {"cons", "string", "symbol", "package", "closure", "vector", "storage"}

\* How many words of an object mark_children passes to mark_value: a constant
\* per kind, and every item of a vector's storage.
TracedCount(o) ==
    CASE o.kind = "cons"    -> 2
      [] o.kind = "string"  -> 0
      [] o.kind = "symbol"  -> 3
      [] o.kind = "package" -> 2
      [] o.kind = "closure" -> 1
      [] o.kind = "vector"  -> 1
      [] o.kind = "storage" -> Len(o.slots)

\* slots is psl_object.slots (three words), or bytes seen as psl_value items
\* for a vector's storage.  data is what else the runtime reads of an object:
\* the length of a vector, and a number for the text of a string (two strings
\* are equal for psl_rt_strings_equal when their numbers are).
Object == {o \in [kind : Kind, slots : Seq(Value), data : Nat] :
              o.kind # "storage" => Len(o.slots) = 3}

\* Memory that holds no object: never read by the runtime.
Blank == [kind |-> "string", slots |-> <<ZERO, ZERO, ZERO>>, data |-> 0]

ChildValues(o) == {o.slots[i] : i \in 1..TracedCount(o)}

\* The values stored in a sequence of words.
Words(s) == {s[i] : i \in 1..Len(s)}

\* S contains the objects that the words in R denote, and is closed under the
\* words the collector follows.
ClosedFrom(R, S, objects, obj) ==
    /\ R \cap objects \subseteq S
    /\ \A o \in S : ChildValues(obj[o]) \cap objects \subseteq S

\* The objects reachable from the words in R: the least closed set.
Reachable(R, objects, obj) ==
    {o \in objects : \A S \in SUBSET objects :
                        ClosedFrom(R, S, objects, obj) => o \in S}

\* psl_rt_expect_object(value, kind): a live object of that kind.
IsObject(v, kind, objects, obj) == v \in objects /\ obj[v].kind = kind
=============================================================================
