--------------------------- MODULE MCRootLowering ---------------------------
(* Functions of one or two blocks over two registers: every body of up to    *)
(* two operations, every way the blocks can end.                             *)
EXTENDS RootLowering

Op(kind, destination, target, right) ==
    [kind |-> kind, destination |-> destination, target |-> target, right |-> right]

Label(l) == <<Op("label", 0, l, 0)>>
Work == {<<>>} \cup {<<Op("call", v, f, 0)>> : v \in 1..2, f \in 3..4}
               \cup {<<Op("value", v, 0, 0)>> : v \in 1..2}
Return == Op("return", 0, 0, 0)
Ends(labels) == {<<Return>>} \cup {<<Op("jump", 0, l, 0)>> : l \in labels}
                             \cup {<<Op("branch", 0, l, m)>> : l, m \in labels}

\* lir_verify_reachability of the second block.
OneBlock == {Label(1) \o b \o c \o <<Return>> : b, c \in Work}
TwoBlocks == {Label(1) \o b \o e \o Label(2) \o c \o f :
                b \in Work, c \in Work, f \in Ends(1..2),
                e \in {e \in Ends(1..2) : 2 \in {e[1].target, e[1].right}}}

\* A register that is not the destination of edge copies is assigned once, and
\* argument links are assigned by no instruction.
Assigned(f) ==
    \A i \in DOMAIN f.code : LET v == f.code[i].destination IN
       v # 0 => /\ f.types[v] # "chain"
                /\ \A j \in DOMAIN f.code \ {i} :
                      f.code[j].destination = v => {f.code[i].kind, f.code[j].kind} = {"value"}

MCFunctions ==
    {f \in [code : OneBlock \cup TwoBlocks,
            parameters : {<<>>, <<"managed">>, <<"plain", "managed">>},
            types : {<<"managed", "managed">>, <<"plain", "managed">>,
                     <<"chain", "managed">>, <<"plain", "plain">>}] : Assigned(f)}
MCFree == {3}
=============================================================================
