----------------------------- MODULE ManagedHeap -----------------------------
(***************************************************************************)
(* What the hosted runtime promises of its heap, with no trace of how it   *)
(* collects: programs move values between words they may reach, objects    *)
(* appear at unused addresses, and a collection may remove any objects but *)
(* the reachable ones, whose contents it leaves alone.  Collector          *)
(* implements this specification.                                          *)
(***************************************************************************)
EXTENDS HeapGraph

VARIABLES
    objects,  \* the live objects
    obj,      \* their contents
    roots     \* the values in words that the program may use

vars == <<objects, obj, roots>>

\* What a program can get hold of by following accessors from its words.
Accessible ==
    Imm \cup roots \cup UNION {ChildValues(obj[o]) : o \in Reachable(roots, objects, obj)}

\* The words of the objects in S hold what they held before, or a value in V.
Updated(S, V) ==
    \A o \in S : ChildValues(obj'[o]) \subseteq ChildValues(obj[o]) \cup V

Init ==
    /\ objects = {}
    /\ roots \subseteq Imm

\* The program moves values between its words and the objects it reaches.
Use ==
    /\ objects' = objects
    /\ roots' \subseteq Accessible
    /\ Updated(objects, Accessible)

\* A new object appears; it is stored where the program likes.
Allocate(a) ==
    /\ objects' = objects \cup {a}
    /\ ChildValues(obj'[a]) \subseteq Accessible
    /\ roots' \subseteq Accessible \cup {a}
    /\ Updated(objects, Accessible \cup {a})

\* A collection: what survives contains what the roots denote and is closed, so
\* nothing reachable is lost, and nothing that survives is changed.
Collect ==
    /\ objects' \subseteq objects
    /\ ClosedFrom(roots, objects', objects, obj)
    /\ roots' \subseteq roots
    /\ \A o \in objects' : obj'[o] = obj[o]

Next ==
    \/ Use
    \/ \E a \in Addr \ objects : Allocate(a)
    \/ Collect

Spec == Init /\ [][Next]_vars

Valid(v) == v \in Imm \cup objects

\* No value the program may use, now or after any number of accessors, denotes
\* an object that was freed.
Safe ==
    /\ \A v \in roots : Valid(v)
    /\ \A o \in objects : \A v \in ChildValues(obj[o]) : Valid(v)
=============================================================================
