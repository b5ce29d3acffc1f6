---------------------------- MODULE MCEnvironment ----------------------------
(* The environment with small tables.                                      *)
EXTENDS Environment, TLC

CONSTANTS x, y, z,                \* symbol names
          cl, kw, so, a, shortCl  \* package names

MCLength == [n \in Names |-> IF n = a THEN 2 ELSE 1]
OneName == <<x>>
ThreePackages == <<cl, a, so>>
WithKeyword == <<cl, kw, so>>
NoNames == <<>>
OneBucket == [n \in SymbolNames |-> 0]

\* Names x and y collide, z has a chain of its own.
TwoBuckets == [n \in SymbolNames |-> IF n = z THEN 1 ELSE 0]
Colliding == Permutations({x, y})
==============================================================================
