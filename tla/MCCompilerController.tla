----------------------- MODULE MCCompilerController -----------------------
(* Units of up to three functions on a machine with a small usize.         *)
EXTENDS CompilerController

CONSTANTS Lengths, Needs, TextLengths,      \* without faults
          FaultLengths, FaultNeeds, FaultTexts

Ends3(T) == {s \in UNION {[1..n -> T] : n \in 0..3} :
                \A i, j \in 1..Len(s) : i <= j => s[i] <= s[j]}
Every(L, N, T, f) ==
    {u \in [length : L, need : N, ends : Ends3(T), bad : 0..4, faults : {f}] :
        u.bad <= Len(u.ends) + 1}
MCUnits == Every(Lengths, Needs, TextLengths, FALSE)
             \cup Every(FaultLengths, FaultNeeds, FaultTexts, TRUE)
===========================================================================
