---------------------------- MODULE MCPackageForms ----------------------------
(* The forms of a unit with every pair of options and some longer ones, in     *)
(* every order they can be written in.                                         *)
EXTENDS PackageForms

CONSTANTS x,                         \* a symbol name, exported by CL
          cl, kw, so, a, b, shortCl  \* package names

MCLength == [n \in Names |-> 1]
OneName == <<x>>
WithKeyword == <<cl, kw, so>>
OneBucket == [n \in SymbolNames |-> 0]

Plain(kind, name) == [kind |-> kind, names |-> <<name>>]
From(kind, package_, name) == [kind |-> kind, from |-> package_, names |-> <<name>>]

\* x is inherited, imported or new, and comes from CL or from the package before.
Some == {Plain("use", cl), Plain("use", a), Plain("export", x)}
        \cup {Plain(k, x) : k \in {"shadow", "intern"}}
        \cup {From(k, q, x) : k \in Importing, q \in {cl, a}}
Odd == {[kind |-> "other"], Plain("nicknames", shortCl), Plain("nicknames", a),
        Plain("nicknames", b)}
Lists == {<<>>} \cup {<<o>> : o \in Some} \cup {<<o, l>> : o, l \in Some}
               \cup {<<o, Plain("use", cl)>> : o \in Odd}
Orders(o, l, m) ==
    {<<o, l, m>>, <<o, m, l>>, <<l, o, m>>, <<l, m, o>>, <<m, o, l>>, <<m, l, o>>}
LongLists == UNION {Orders(o, u, Plain("export", x)) :
                o \in {o \in Some : o.kind \notin {"use", "export"}},
                u \in {Plain("use", cl), Plain("use", a)}}

\* x is ambiguous in a package that uses KEYWORD and CL once :x was read.
Both == <<Plain("use", kw), Plain("use", cl)>>

MCForms == [name : {a}, strings : {FALSE},
             options : {<<>>, Both} \cup {<<Plain(k, x)>> : k \in {"shadow", "intern", "export"}}]
           \cup [name : {b}, strings : {FALSE}, options : Lists \cup LongLists]
           \cup [name : {b}, strings : {TRUE},
                 options : {<<o>> : o \in Some} \cup {<<Plain("intern", x), o>> : o \in Some}]
==============================================================================
