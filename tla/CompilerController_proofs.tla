---------------------- MODULE CompilerController_proofs ----------------------
(***************************************************************************)
(* A run of the compiler, for every unit, every size type and every point  *)
(* of failure: the exit status tells the truth, every block is released    *)
(* once, no attempt is repeated in vain, and growth finds the room a unit  *)
(* needs whenever doubling can reach it.                                   *)
(***************************************************************************)
EXTENDS CompilerController, SequenceTheorems, WellFoundedInduction, TLAPS

-----------------------------------------------------------------------------
(* Numbers                                                                 *)

\* A nonempty set of numbers has a least element.
LEMMA Least ==
    ASSUME NEW S, S \subseteq Nat, S # {}
    PROVE  \E x \in S : \A y \in S : x <= y
<1>1. PICK x \in S : \A y \in S : ~ (<<y, x>> \in OpToRel(<, Nat))
  BY NatLessThanWellFounded, WFMin
<1>2. \A y \in S : ~ (y < x)
  BY <1>1 DEF OpToRel
<1> QED BY <1>2

\* The constants are numbers.
LEMMA Constants ==
    /\ SizeMax \in Nat /\ Bits \in Nat
    /\ Catalogue \in 0..SizeMax
    /\ DumpFactor \in Nat \ {0} /\ DumpBase \in 1..SizeMax
    /\ CountFactor \in Nat \ {0} /\ CountBase \in Nat \ {0}
  BY ControllerAssumption

\* A function that doubles from one argument to the next up to k.
Doubles(f, size, k) ==
    /\ f \in [0..k -> Nat]
    /\ f[0] = size
    /\ \A n \in 1..k : f[n] = 2 * f[n - 1]

\* The recursive definition of Doubled defines a function on 0..Bits.
LEMMA DoubledFacts ==
    ASSUME NEW size \in Nat
    PROVE  Doubles(Doubled(size), size, Bits)
<1> DEFINE None == {k \in 0..Bits : ~ \E f : Doubles(f, size, k)}
<1>0. Bits \in Nat
  BY Constants
<1>1. None = {}
  <2>1. SUFFICES ASSUME None # {} PROVE FALSE
    OBVIOUS
  <2>2. PICK k \in None : \A j \in None : k <= j
    <3>1. None \subseteq Nat
      BY <1>0
    <3> HIDE DEF None
    <3> QED BY <2>1, <3>1, Least
  <2>3. k \in 0..Bits /\ ~ \E f : Doubles(f, size, k)
    BY <2>2
  <2>4. k # 0
    <3>1. Doubles([n \in 0..0 |-> size], size, 0)
      BY DEF Doubles
    <3> QED BY <2>3, <3>1
  <2>5. k - 1 \in 0..Bits /\ k - 1 \notin None
    BY <1>0, <2>2, <2>3, <2>4
  <2>6. PICK f : Doubles(f, size, k - 1)
    BY <2>5
  <2> DEFINE g == [n \in 0..k |-> IF n = k THEN 2 * f[k - 1] ELSE f[n]]
  <2>7. Doubles(g, size, k)
    <3>1. k \in Nat /\ k - 1 \in Nat /\ k - 1 \in 0..(k - 1)
      BY <1>0, <2>3, <2>4
    <3>2. f \in [0..(k - 1) -> Nat] /\ f[0] = size /\ \A n \in 1..(k - 1) : f[n] = 2 * f[n - 1]
      BY <2>6 DEF Doubles
    <3>3. g \in [0..k -> Nat]
      BY <3>1, <3>2
    <3>4. g[0] = size
      BY <2>4, <3>1, <3>2
    <3>5. ASSUME NEW n \in 1..k PROVE g[n] = 2 * g[n - 1]
      BY <3>1, <3>2
    <3> QED BY <3>3, <3>4, <3>5 DEF Doubles
  <2> QED BY <2>3, <2>7
<1>2. PICK f : Doubles(f, size, Bits)
  BY <1>0, <1>1
<1> DEFINE Body(d) == [n \in 0..Bits |-> IF n = 0 THEN size ELSE 2 * d[n - 1]]
<1>3. f = Body(f)
  BY <1>0, <1>2 DEF Doubles
<1>4. Doubled(size) = CHOOSE d : d = Body(d)
  BY DEF Doubled
<1>5. Doubled(size) = Body(Doubled(size))
  BY <1>3, <1>4
<1> DEFINE e == Doubled(size)
<1> HIDE DEF e
<1>6. e = [n \in 0..Bits |-> IF n = 0 THEN size ELSE 2 * e[n - 1]]
  BY <1>5 DEF e
<1>7. DOMAIN e = 0..Bits /\ e[0] = size /\ \A n \in 1..Bits : e[n] = 2 * e[n - 1]
  BY <1>0, <1>6
<1>8. \A n \in 0..Bits : e[n] = f[n]
  <2> DEFINE Differ == {n \in 0..Bits : e[n] # f[n]}
  <2>1. SUFFICES ASSUME Differ # {} PROVE FALSE
    OBVIOUS
  <2>2. PICK n \in Differ : \A j \in Differ : n <= j
    <3>1. Differ \subseteq Nat
      BY <1>0
    <3> HIDE DEF Differ
    <3> QED BY <2>1, <3>1, Least
  <2>3. n # 0
    BY <1>2, <1>7, <2>2 DEF Doubles
  <2>4. n \in 1..Bits /\ n - 1 \in 0..Bits /\ n - 1 \notin Differ
    BY <1>0, <2>2, <2>3
  <2> QED BY <1>2, <1>7, <2>2, <2>4 DEF Doubles
<1>9. e \in [0..Bits -> Nat]
  BY <1>2, <1>6, <1>8 DEF Doubles
<1> QED BY <1>7, <1>9 DEF Doubles, e

\* Doubling grows, and Bits doublings of anything but 0 leave the sizes.
LEMMA DoubledGrows ==
    ASSUME NEW size \in Nat \ {0}
    PROVE  /\ \A m, n \in 0..Bits : m < n => 2 * Doubled(size)[m] <= Doubled(size)[n]
           /\ Doubled(size)[Bits] > SizeMax
<1> DEFINE d == Doubled(size)
           one == Doubled(1)
<1>0. /\ Bits \in Nat /\ SizeMax \in Nat /\ one[Bits] = SizeMax + 1
  BY ControllerAssumption
<1>1. /\ d \in [0..Bits -> Nat] /\ d[0] = size
      /\ \A n \in 1..Bits : d[n] = 2 * d[n - 1]
  BY DoubledFacts DEF Doubles
<1>2. /\ one \in [0..Bits -> Nat] /\ one[0] = 1
      /\ \A n \in 1..Bits : one[n] = 2 * one[n - 1]
  <2>1. 1 \in Nat
    OBVIOUS
  <2> QED BY <2>1, DoubledFacts DEF Doubles
<1> HIDE DEF d, one
<1>3. ASSUME NEW m \in 0..Bits
      PROVE  \A n \in 0..Bits : m < n => 2 * d[m] <= d[n]
  <2> DEFINE Bad == {n \in 0..Bits : m < n /\ ~ (2 * d[m] <= d[n])}
  <2>1. SUFFICES ASSUME Bad # {} PROVE FALSE
    OBVIOUS
  <2>2. PICK n \in Bad : \A j \in Bad : n <= j
    <3>1. Bad \subseteq Nat
      BY <1>0
    <3> HIDE DEF Bad
    <3> QED BY <2>1, <3>1, Least
  <2>3. /\ n \in 1..Bits /\ n - 1 \in 0..Bits /\ n - 1 \notin Bad
    BY <1>0, <2>2
  <2>4. d[n] = 2 * d[n - 1] /\ d[m] \in Nat /\ d[n - 1] \in Nat
    BY <1>1, <2>3
  <2>5. m = n - 1 \/ m < n - 1
    BY <1>0, <2>2, <2>3
  <2>6. m < n - 1 => 2 * d[m] <= d[n - 1]
    BY <2>3
  <2>7. ~ (2 * d[m] <= d[n])
    BY <2>2
  <2> QED BY <2>4, <2>5, <2>6, <2>7
<1>4. \A n \in 0..Bits : one[n] <= d[n]
  <2> DEFINE Bad == {n \in 0..Bits : ~ (one[n] <= d[n])}
  <2>1. SUFFICES ASSUME Bad # {} PROVE FALSE
    OBVIOUS
  <2>2. PICK n \in Bad : \A j \in Bad : n <= j
    <3>1. Bad \subseteq Nat
      BY <1>0
    <3> HIDE DEF Bad
    <3> QED BY <2>1, <3>1, Least
  <2>3. n # 0
    BY <1>1, <1>2, <2>2
  <2>4. n \in 1..Bits /\ n - 1 \in 0..Bits /\ n - 1 \notin Bad
    BY <1>0, <2>2, <2>3
  <2>5. /\ d[n] = 2 * d[n - 1] /\ one[n] = 2 * one[n - 1]
        /\ d[n - 1] \in Nat /\ one[n - 1] \in Nat /\ one[n - 1] <= d[n - 1]
    BY <1>1, <1>2, <2>4
  <2> QED BY <2>2, <2>5
<1>5. d[Bits] > SizeMax
  <2>1. Bits \in 0..Bits
    BY <1>0
  <2>2. one[Bits] <= d[Bits] /\ d[Bits] \in Nat
    BY <1>1, <1>4, <2>1
  <2> QED BY <1>0, <2>2
<1> QED BY <1>3, <1>5 DEF d

-----------------------------------------------------------------------------
(* Units                                                                   *)

\* What the invariant says of the unit at hand.
LEMMA UnitFacts ==
    ASSUME unit \in Units
    PROVE  /\ unit.length \in 0..SizeMax /\ unit.need \in Nat
           /\ unit.ends \in Seq(0..SizeMax) /\ Len(unit.ends) \in Nat
           /\ \A i \in 1..Len(unit.ends) : unit.ends[i] \in 0..SizeMax
           /\ \A i, j \in 1..Len(unit.ends) : i <= j => unit.ends[i] <= unit.ends[j]
           /\ unit.bad \in 0..(Len(unit.ends) + 1)
           /\ unit.faults \in BOOLEAN
           /\ SourceCapacity \in 0..SizeMax
           /\ FirstCapacity \in 0..SizeMax /\ SourceCapacity <= FirstCapacity
           /\ IrBufferCapacity \in 0..SizeMax
<1>1. IsUnit(unit)
  BY ControllerAssumption
<1>2. /\ unit.length \in 0..SizeMax /\ unit.need \in Nat
      /\ unit.ends \in Seq(0..SizeMax) /\ Len(unit.ends) \in Nat
      /\ \A i \in 1..Len(unit.ends) : unit.ends[i] \in 0..SizeMax
      /\ \A i, j \in 1..Len(unit.ends) : i <= j => unit.ends[i] <= unit.ends[j]
      /\ unit.bad \in 0..(Len(unit.ends) + 1)
      /\ unit.faults \in BOOLEAN
  <2> DEFINE ends == unit.ends
  <2>1. /\ unit.length \in 0..SizeMax /\ unit.need \in Nat
        /\ unit.bad \in 0..(Len(unit.ends) + 1) /\ unit.faults \in BOOLEAN
    BY <1>1 DEF IsUnit
  <2>2. \A i, j \in 1..Len(ends) : i <= j => ends[i] <= ends[j]
    BY <1>1 DEF IsUnit
  <2>3. ends \in Seq(0..SizeMax)
    BY <1>1 DEF IsUnit
  <2> HIDE DEF ends
  <2>4. Len(ends) \in Nat
    BY <2>3
  <2>5. \A i \in 1..Len(ends) : ends[i] \in 0..SizeMax
    BY <2>3, ElementOfSeq
  <2> QED BY <2>1, <2>2, <2>3, <2>4, <2>5 DEF ends
<1>3. SourceCapacity \in 0..SizeMax
  <2>1. unit.length + 1 \in Nat /\ SizeMax + 1 \in Nat \ {0}
    BY <1>2, Constants
  <2> QED BY <2>1, Constants DEF SourceCapacity
<1>4. FirstCapacity \in 0..SizeMax /\ SourceCapacity <= FirstCapacity
  BY <1>3, Constants DEF FirstCapacity
<1>5. IrBufferCapacity \in 0..SizeMax
  <2>1. CASE SizeMax < DumpBase \/ (SizeMax - DumpBase) \div DumpFactor < unit.length
    BY <2>1, Constants DEF IrBufferCapacity
  <2>2. CASE ~ (SizeMax < DumpBase \/ (SizeMax - DumpBase) \div DumpFactor < unit.length)
    <3> DEFINE room == SizeMax - DumpBase
               q == room \div DumpFactor
    <3>1. room \in Nat /\ DumpFactor \in Nat \ {0} /\ unit.length \in Nat
      BY <1>2, <2>2, Constants
    <3>2. q \in Nat /\ q * DumpFactor <= room
      BY <3>1
    <3>3. unit.length <= q
      BY <2>2, <3>1, <3>2
    <3> HIDE DEF q
    <3>4. unit.length * DumpFactor <= q * DumpFactor
      BY <3>1, <3>2, <3>3
    <3>5. unit.length * DumpFactor \in Nat /\ q * DumpFactor \in Nat
      BY <3>1, <3>2
    <3>6. unit.length * DumpFactor + DumpBase \in 0..SizeMax
      BY <3>1, <3>2, <3>4, <3>5, Constants
    <3> QED BY <2>2, <3>6 DEF IrBufferCapacity
  <2> QED BY <2>1, <2>2
<1> QED BY <1>2, <1>3, <1>4, <1>5

\* A larger doubling of the first capacity is at least twice as large, and a
\* doubling that is a size is one of Doublings.
LEMMA NextDoubling ==
    ASSUME unit \in Units, NEW n \in 0..Bits, NEW cap,
           cap = Doubled(FirstCapacity)[n], cap # 0
    PROVE  /\ cap \in Nat
           /\ cap <= SizeMax => cap \in Doublings
           /\ cap + cap <= SizeMax =>
                 \E m \in 0..Bits : cap + cap = Doubled(FirstCapacity)[m]
           /\ \A c \in Doublings : c <= cap \/ cap + cap <= c
<1> DEFINE d == Doubled(FirstCapacity)
<1>0. Bits \in Nat /\ SizeMax \in Nat /\ FirstCapacity \in Nat
  BY Constants, UnitFacts
<1>1. /\ d \in [0..Bits -> Nat] /\ d[0] = FirstCapacity
      /\ \A i \in 1..Bits : d[i] = 2 * d[i - 1]
  BY <1>0, DoubledFacts DEF Doubles
<1>c. cap = d[n]
  OBVIOUS
<1>z. ASSUME FirstCapacity = 0 PROVE FALSE
  <2> DEFINE Bad == {i \in 0..Bits : d[i] # 0}
  <2>1. n \in Bad
    BY <1>c
  <2>2. PICK i \in Bad : \A j \in Bad : i <= j
    <3>1. Bad \subseteq Nat
      BY <1>0
    <3> HIDE DEF Bad
    <3> QED BY <2>1, <3>1, Least
  <2> HIDE DEF d
  <2>3. i # 0
    BY <1>1, <1>z, <2>2
  <2>4. i \in 1..Bits /\ i - 1 \in 0..Bits /\ i - 1 \notin Bad
    BY <1>0, <2>2, <2>3
  <2> QED BY <1>1, <2>2, <2>4
<1>2. /\ \A i, j \in 0..Bits : i < j => 2 * d[i] <= d[j]
      /\ d[Bits] > SizeMax
  BY <1>0, <1>z, DoubledGrows
<1>3. Doublings = {d[i] : i \in 0..Bits} \cap 1..SizeMax
  BY DEF Doublings
<1> HIDE DEF d
<1>4. cap \in Nat
  BY <1>1, <1>c
<1>5. cap <= SizeMax => cap \in Doublings
  BY <1>0, <1>3, <1>4, <1>c
<1>6. ASSUME cap + cap <= SizeMax
      PROVE  \E m \in 0..Bits : cap + cap = d[m]
  <2>1. n # Bits
    BY <1>0, <1>2, <1>4, <1>6, <1>c
  <2>2. n + 1 \in 1..Bits /\ n + 1 \in 0..Bits /\ (n + 1) - 1 = n
    BY <1>0, <2>1
  <2>3. d[n + 1] = 2 * d[n]
    BY <1>1, <2>2
  <2> QED BY <1>4, <1>c, <2>2, <2>3
<1>7. ASSUME NEW c \in Doublings
      PROVE  c <= cap \/ cap + cap <= c
  <2>1. PICK i \in 0..Bits : c = d[i]
    BY <1>3
  <2>2. c \in Nat
    BY <1>1, <2>1
  <2>3. i = n \/ i < n \/ n < i
    BY <1>0
  <2>4. i < n => 2 * c <= cap
    BY <1>2, <1>c, <2>1
  <2>5. n < i => 2 * cap <= c
    BY <1>2, <1>c, <2>1
  <2> QED BY <1>4, <1>c, <2>1, <2>2, <2>3, <2>4, <2>5
<1> QED BY <1>4, <1>5, <1>6, <1>7 DEF d

\* The first function whose text does not fit is one of them.
LEMMA FirstOverFacts ==
    ASSUME unit \in Units, Over # {}
    PROVE  FirstOver \in Over /\ FirstOver \in 1..Len(unit.ends)
<1>1. Over \subseteq 1..Len(unit.ends) /\ Len(unit.ends) \in Nat
  BY UnitFacts DEF Over
<1>2. Over \subseteq Nat
  BY <1>1
<1>3. \E k \in Over : \A j \in Over : k <= j
  BY <1>2, Least
<1> QED BY <1>1, <1>3 DEF FirstOver

\* The length of the text up to a function is a size.
LEMMA CapturesFacts ==
    ASSUME unit \in Units, NEW k \in 0..Len(unit.ends)
    PROVE  Captures(k) \in 0..SizeMax
<1>1. Len(unit.ends) \in Nat /\ SizeMax \in Nat
  BY UnitFacts, Constants
<1>2. k = 0 \/ k \in 1..Len(unit.ends)
  BY <1>1
<1> QED BY <1>1, <1>2, UnitFacts DEF Captures

\* A step keeps the unit and the options, and all that is computed from them.
LEMMA Same ==
    ASSUME Next \/ UNCHANGED vars
    PROVE  /\ unit' = unit /\ options' = options
           /\ SourceCapacity' = SourceCapacity /\ FirstCapacity' = FirstCapacity
           /\ IrBufferCapacity' = IrBufferCapacity
           /\ Doublings' = Doublings /\ Text' = Text /\ Base' = Base
           /\ Loaded' = Loaded /\ Released' = Released
           /\ Compilable' = Compilable
<1>1. unit' = unit /\ options' = options
  BY DEF Next, vars, Start, Load, Prepare, Configure, Compile, Growth, Reprepare,
         Publish, Flush, Release
<1>2. SourceCapacity' = SourceCapacity
  BY <1>1 DEF SourceCapacity
<1>3. FirstCapacity' = FirstCapacity
  BY <1>2 DEF FirstCapacity
<1>4. Doublings' = Doublings
  BY <1>3 DEF Doublings, Doubled
<1>5. IrBufferCapacity' = IrBufferCapacity /\ Text' = Text /\ Base' = Base
  BY <1>1 DEF IrBufferCapacity, Text, Base, Captures
<1>6. Loaded' = Loaded /\ Released' = Released
  BY <1>1, <1>5 DEF Loaded, Released
<1>7. Enough' = Enough
  BY <1>1, <1>4 DEF Enough, Fits
<1>8. Compilable' = Compilable
  BY <1>1, <1>2, <1>5, <1>7 DEF Compilable
<1> QED BY <1>1, <1>2, <1>3, <1>4, <1>5, <1>6, <1>8

\* Doubling and the size asked for stay within the sizes.
LEMMA GrownDumpFacts ==
    ASSUME dumpcap \in 0..SizeMax, required \in 0..SizeMax
    PROVE  /\ GrownDump \in 0..SizeMax
           /\ dumpcap < required => dumpcap < GrownDump
  BY Constants DEF GrownDump

-----------------------------------------------------------------------------
(* The steps of the inductive invariant                                    *)

\* The outcomes of an attempt.
LEMMA CompileSizes ==
    ASSUME SizesOK, Compile
    PROVE  /\ {captured', required'} \subseteq 0..SizeMax
           /\ phase' = "publish" => dumpError' = 0
           /\ ~ options.dump => captured' = 0 /\ dumpError' = 0
<1>0. /\ phase = "compile" /\ captured = 0 /\ dumpError = 0 /\ unit \in Units
      /\ SizeMax \in Nat /\ Len(unit.ends) \in Nat
      /\ required \in 0..SizeMax
  BY Constants, UnitFacts DEF SizesOK, Compile
<1>1. CASE capacity < unit.need /\ KeepDump /\ Goto("failed")
  BY <1>0, <1>1 DEF KeepDump, Goto
<1>2. CASE /\ Over # {} /\ options.dump
           /\ required' = captured + unit.ends[FirstOver]
           /\ captured' = captured + Captures(FirstOver - 1)
           /\ Goto("failed")
  <2>1. FirstOver \in 1..Len(unit.ends)
    BY <1>0, <1>2, FirstOverFacts
  <2>2. unit.ends[FirstOver] \in 0..SizeMax
    BY <1>0, <2>1, UnitFacts
  <2>3. FirstOver - 1 \in 0..Len(unit.ends)
    BY <1>0, <2>1
  <2>4. Captures(FirstOver - 1) \in 0..SizeMax
    BY <1>0, <2>3, CapturesFacts
  <2> QED BY <1>0, <1>2, <2>2, <2>4 DEF Goto
<1>3. CASE /\ unit.bad # 0
           /\ captured' = captured + IF options.dump THEN Captures(unit.bad - 1) ELSE 0
           /\ required' = captured' /\ UNCHANGED dumpError
  <2>1. unit.bad - 1 \in 0..Len(unit.ends)
    BY <1>0, <1>3, UnitFacts
  <2>2. Captures(unit.bad - 1) \in 0..SizeMax
    BY <1>0, <2>1, CapturesFacts
  <2> QED BY <1>0, <1>3, <2>2
<1>4. CASE /\ captured' = captured + IF options.dump THEN Captures(Len(unit.ends)) ELSE 0
           /\ required' = captured' /\ UNCHANGED dumpError
  <2>1. Captures(Len(unit.ends)) \in 0..SizeMax
    BY <1>0, CapturesFacts
  <2> QED BY <1>0, <1>4, <2>1
<1> QED BY <1>1, <1>2, <1>3, <1>4 DEF Compile

LEMMA SizesStep ==
    ASSUME Inductive, Next
    PROVE  SizesOK'
<1>0. SizesOK /\ SizeMax \in Nat
  BY Constants DEF Inductive
<1>s. unit' = unit /\ options' = options
  BY Same
<1>1. CASE Start
  BY <1>0, <1>1, <1>s DEF SizesOK, Start, Goto, Preparing, Compiling, Ending
<1>2. CASE Load
  <2>1. FirstCapacity \in 0..SizeMax
    BY <1>0, UnitFacts DEF SizesOK
  <2> QED BY <1>0, <1>2, <1>s, <2>1 DEF SizesOK, Load, Goto, Fail, Preparing, Compiling, Ending
<1>3. CASE Prepare
  BY <1>0, <1>3, <1>s DEF SizesOK, Prepare, Goto, Fail, Preparing, Compiling, Ending
<1>4. CASE Configure
  <2>1. IrBufferCapacity \in 0..SizeMax
    BY <1>0, UnitFacts DEF SizesOK
  <2> QED BY <1>0, <1>4, <1>s, <2>1 DEF SizesOK, Configure, Goto, Fail, KeepDump, ResetRequest,
              ResizeIrDump, Preparing, Compiling, Ending
<1>5. CASE Compile
  <2>1. /\ capacity' = capacity /\ dumpcap' = dumpcap
        /\ phase' \in {"failed", "publish"}
    BY <1>5 DEF Compile, Goto, KeepDump
  <2> QED BY <1>0, <1>5, <1>s, <2>1, CompileSizes DEF SizesOK, Preparing, Compiling, Ending
<1>6. CASE Growth
  <2>1. GrownDump \in 0..SizeMax
    BY <1>0, GrownDumpFacts DEF SizesOK
  <2>2. CanDouble => capacity + capacity \in 0..SizeMax
    BY <1>0 DEF CanDouble, SizesOK
  <2> QED BY <1>0, <1>6, <1>s, <2>1, <2>2 DEF SizesOK, Growth, Goto, Fail, KeepDump,
              ResetRequest, ResizeIrDump, Preparing, Compiling, Ending
<1>7. CASE Reprepare
  BY <1>0, <1>7, <1>s DEF SizesOK, Reprepare, Goto, Preparing, Compiling, Ending
<1>8. CASE Publish
  BY <1>0, <1>8, <1>s DEF SizesOK, Publish, Goto, Fail, Preparing, Compiling, Ending
<1>9. CASE Flush
  BY <1>0, <1>9, <1>s DEF SizesOK, Flush, Fail, Preparing, Compiling, Ending
<1>10. CASE Release
  BY <1>0, <1>10, <1>s DEF SizesOK, Release, Goto, Preparing, Compiling, Ending
<1> QED BY <1>1, <1>2, <1>3, <1>4, <1>5, <1>6, <1>7, <1>8, <1>9, <1>10 DEF Next

\* The blocks are all different.
LEMMA BlockFacts ==
    /\ State # Source /\ State # CPaths /\ State # Inputs
    /\ Source # CPaths /\ Inputs # Source /\ Inputs # CPaths
    /\ Dump \notin {State, Inputs, Source, CPaths} \cup Driver
    /\ {State, Inputs, Source, CPaths} \cap Driver = {}
    /\ Base \subseteq {State, Inputs}
  BY DEF State, Inputs, Source, CPaths, Dump, Driver, Frontend, Ir, Output, Environment,
         Macros, Base

LEMMA GroupFacts ==
    ASSUME NEW g \in 1..Len(Groups), NEW got \in SUBSET Groups[g]
    PROVE  Upto(g) \cup got \subseteq Driver
<1>1. Len(Groups) = 5
  BY DEF Groups
<1>2. \A i \in 1..5 : Groups[i] \subseteq Driver
  <2>1. /\ Groups[1] = Frontend /\ Groups[2] = Ir /\ Groups[3] = Output
        /\ Groups[4] = Environment /\ Groups[5] = Macros
    BY DEF Groups
  <2>2. \A i \in 1..5 : i = 1 \/ i = 2 \/ i = 3 \/ i = 4 \/ i = 5
    OBVIOUS
  <2> QED BY <2>1, <2>2 DEF Driver
<1>3. \A i \in 1..(g - 1) : i \in 1..5
  BY <1>1
<1>4. Upto(g) \subseteq Driver
  BY <1>2, <1>3 DEF Upto
<1> QED BY <1>1, <1>2, <1>4

LEMMA BlocksStep ==
    ASSUME Inductive, Next
    PROVE  BlocksOK'
<1>0. SizesOK /\ BlocksOK
  BY DEF Inductive
<1>s. /\ unit' = unit /\ options' = options /\ Base' = Base /\ Loaded' = Loaded
      /\ Released' = Released
  BY Same
<1> USE DEF Preparing, Compiling, Ending
<1>1. CASE Start
  <2>1. ~ faulty /\ live = {}
    BY <1>0, <1>1 DEF BlocksOK, Start
  <2>2. CASE phase' = "load" /\ Allocate(Base)
    <3>1. live \cup Base = Base /\ Base \cap live = {}
      BY <2>1
    <3>2. live' = Base /\ ~ faulty'
      BY <2>1, <2>2, <3>1 DEF Allocate
    <3> QED BY <1>s, <2>2, <3>2, BlockFacts DEF BlocksOK
  <2>3. CASE phase' = "done" /\ KeepBlocks
    BY <1>s, <2>1, <2>3 DEF BlocksOK, KeepBlocks
  <2> QED BY <1>1, <2>2, <2>3 DEF Start, Goto
<1>2. CASE Load
  BY <1>0, <1>2, <1>s, BlockFacts DEF BlocksOK, Load, Goto, Fail, Allocate, Loaded, Released
<1>3. CASE Prepare
  <2>1. /\ ~ faulty /\ live \ {Dump} = Loaded /\ (Dump \in live => options.dump)
        /\ (Dump \in live => Dump \in Released)
    BY <1>0, <1>3 DEF BlocksOK, Prepare, Released, SizesOK
  <2>2. Loaded \cap Driver = {} /\ Base \subseteq Loaded /\ Loaded \cup Driver \subseteq Released
    BY BlockFacts DEF Loaded, Released
  <2>3. CASE phase' = "configure" /\ Allocate(Driver) /\ InitializeDriver
    BY <1>s, <2>1, <2>2, <2>3, BlockFacts DEF BlocksOK, Allocate, InitializeDriver
  <2>4. CASE phase' = "release" /\ KeepBlocks
    BY <1>s, <2>1, <2>2, <2>4, BlockFacts DEF BlocksOK, KeepBlocks
  <2>5. CASE /\ phase' = "release"
             /\ \E g \in 1..Len(Groups) : \E got \in SUBSET Groups[g] :
                   Allocate(Upto(g) \cup got)
    <3>1. PICK S : S \subseteq Driver /\ Allocate(S)
      BY <2>5, GroupFacts
    <3> QED BY <1>s, <2>1, <2>2, <2>5, <3>1, BlockFacts DEF BlocksOK, Allocate
  <2> QED BY <1>3, <2>3, <2>4, <2>5 DEF Prepare, Goto, Fail
<1>4. CASE Configure
  BY <1>0, <1>4, <1>s, BlockFacts DEF BlocksOK, Configure, Goto, Fail, KeepBlocks,
     ResizeIrDump, Loaded, Released, SizesOK
<1>5. CASE Compile
  BY <1>0, <1>5, <1>s, BlockFacts DEF BlocksOK, Compile, Goto, Loaded
<1>6. CASE Growth
  BY <1>0, <1>6, <1>s, BlockFacts DEF BlocksOK, Growth, Goto, Fail, KeepBlocks,
     ResizeIrDump, Loaded, Released, SizesOK
<1>7. CASE Reprepare
  BY <1>0, <1>7, <1>s, BlockFacts DEF BlocksOK, Reprepare, Goto, Loaded
<1>8. CASE Publish
  BY ZenonT(60), <1>0, <1>8, <1>s, BlockFacts DEF BlocksOK, Publish, Goto, Fail, Loaded, Released, SizesOK
<1>9. CASE Flush
  BY <1>0, <1>9, <1>s, BlockFacts DEF BlocksOK, Flush, Fail, Loaded, Released, SizesOK
<1>10. CASE Release
  BY <1>0, <1>10, <1>s, BlockFacts DEF BlocksOK, Release, Goto
<1> QED BY <1>1, <1>2, <1>3, <1>4, <1>5, <1>6, <1>7, <1>8, <1>9, <1>10 DEF Next

LEMMA OutcomeStep ==
    ASSUME Inductive, Next
    PROVE  OutcomeOK'
<1>0. /\ SizesOK /\ OutcomeOK /\ SizeMax \in Nat /\ unit \in Units
      /\ NoText = SizeMax + 1
  BY Constants DEF Inductive, SizesOK, NoText
<1>s. unit' = unit /\ options' = options /\ Text' = Text
  BY Same
<1>t. Text \in 0..SizeMax
  <2>1. Len(unit.ends) \in 0..Len(unit.ends)
    BY <1>0, UnitFacts
  <2> QED BY <1>0, <2>1, CapturesFacts DEF Text
<1>o. options.dump \in BOOLEAN /\ options.help \in BOOLEAN /\ options.direct \in BOOLEAN
  BY <1>0 DEF SizesOK
<1> USE DEF Preparing, Compiling, Ending, NoText
<1>1. CASE Start
  BY <1>0, <1>1, <1>s DEF OutcomeOK, Outcome, Start, Goto
<1>2. CASE Load
  BY <1>0, <1>2, <1>s DEF OutcomeOK, Outcome, Load, Goto, Fail
<1>3. CASE Prepare
  BY <1>0, <1>3, <1>s DEF OutcomeOK, Outcome, Prepare, Goto, Fail
<1>4. CASE Configure
  BY <1>0, <1>4, <1>s DEF OutcomeOK, Outcome, Configure, Goto, Fail
<1>5. CASE Compile
  <2>1. /\ phase = "compile" /\ phase' \in {"failed", "publish"} /\ ~ options.help
        /\ UNCHANGED <<artifact, printed, exit>>
    BY <1>0, <1>5 DEF OutcomeOK, Compile, Goto
  <2>2. /\ captured = 0
        /\ phase' = "publish" =>
              /\ unit.bad = 0
              /\ captured' = captured + IF options.dump THEN Captures(Len(unit.ends)) ELSE 0
    BY <1>0, <1>5 DEF Compile, Goto, SizesOK
  <2>3. phase' = "publish" => unit.bad = 0 /\ captured' = (IF options.dump THEN Text ELSE 0)
    BY <1>0, <1>t, <2>2 DEF Text
  <2> QED BY <1>0, <1>s, <2>1, <2>3 DEF OutcomeOK
<1>6. CASE Growth
  BY <1>0, <1>6, <1>s DEF OutcomeOK, Outcome, Growth, Goto, Fail
<1>7. CASE Reprepare
  BY <1>0, <1>7, <1>s DEF OutcomeOK, Reprepare, Goto
<1>8. CASE Publish
  BY <1>0, <1>8, <1>s DEF OutcomeOK, Outcome, Publish, Goto, Fail
<1>9. CASE Flush
  BY <1>0, <1>9, <1>s, <1>t DEF OutcomeOK, Outcome, Flush, Fail
<1>10. CASE Release
  BY <1>0, <1>10, <1>s DEF OutcomeOK, Outcome, Release, Goto
<1> QED BY <1>1, <1>2, <1>3, <1>4, <1>5, <1>6, <1>7, <1>8, <1>9, <1>10 DEF Next

LEMMA RetryStep ==
    ASSUME Inductive, Next
    PROVE  RetryOK'
<1>0. /\ SizesOK /\ BlocksOK /\ RetryOK /\ SizeMax \in Nat
      /\ capacity \in Nat /\ dumpcap \in Nat
  BY Constants DEF Inductive, SizesOK
<1>s. unit' = unit /\ options' = options
  BY Same
<1> USE DEF Preparing, Compiling, Ending
<1>1. CASE Start
  BY <1>0, <1>1, <1>s DEF RetryOK, Start, Goto
<1>2. CASE Load
  BY <1>0, <1>2, <1>s DEF RetryOK, Load, Goto, Fail
<1>3. CASE Prepare
  BY <1>0, <1>3, <1>s, BlockFacts DEF RetryOK, Prepare, Goto, Fail, Allocate, KeepBlocks
<1>4. CASE Configure
  BY <1>0, <1>4, <1>s DEF RetryOK, Configure, Goto, Fail, KeepBlocks, KeepDump,
     ResetRequest, ResizeIrDump
<1>5. CASE Compile
  BY <1>0, <1>5, <1>s DEF RetryOK, Compile, Goto, KeepDump
<1>6. CASE Growth
  <2>1. dumpcap < required => dumpcap < GrownDump /\ GrownDump \in Nat
    BY <1>0, GrownDumpFacts DEF SizesOK
  <2>2. CanDouble => capacity < capacity + capacity
    BY <1>0 DEF CanDouble
  <2> QED BY <1>0, <1>6, <1>s, <2>1, <2>2 DEF RetryOK, Growth, Goto, Fail, KeepBlocks, KeepDump,
     ResetRequest, ResizeIrDump
<1>7. CASE Reprepare
  BY <1>0, <1>7, <1>s, BlockFacts DEF RetryOK, Reprepare, Goto, BlocksOK
<1>8. CASE Publish
  BY <1>0, <1>8, <1>s DEF RetryOK, Publish, Goto, Fail
<1>9. CASE Flush
  BY <1>0, <1>9, <1>s DEF RetryOK, Flush, Fail
<1>10. CASE Release
  BY <1>0, <1>10, <1>s DEF RetryOK, Release, Goto
<1> QED BY <1>1, <1>2, <1>3, <1>4, <1>5, <1>6, <1>7, <1>8, <1>9, <1>10 DEF Next

\* A failed attempt has its reason in the error words.
LEMMA CompileFailure ==
    ASSUME SizesOK, Compile, phase' = "failed"
    PROVE  \/ dumpError' = 2 /\ dumpcap' < required'
           \/ dumpError' # 2 /\ macroError' = 3 /\ capacity' < unit.need
           \/ dumpError' # 2 /\ macroError' # 3 /\ unit.bad # 0
<1>0. /\ phase = "compile" /\ captured = 0 /\ dumpError = 0 /\ unit \in Units
      /\ capacity' = capacity /\ SizeMax \in Nat /\ Len(unit.ends) \in Nat
      /\ dumpcap \in Nat
  BY Constants, UnitFacts DEF SizesOK, Compile
<1>1. CASE capacity < unit.need /\ macroError' = 3 /\ KeepDump
  BY <1>0, <1>1 DEF KeepDump
<1>2. CASE /\ Over # {} /\ dumpError' = 2
           /\ required' = captured + unit.ends[FirstOver]
           /\ UNCHANGED dumpcap
  BY <1>0, <1>2, FirstOverFacts DEF Over
<1>3. CASE unit.bad # 0 /\ macroError' = 0 /\ UNCHANGED <<dumpcap, dumpError>>
  BY <1>0, <1>3
<1> QED BY <1>1, <1>2, <1>3 DEF Compile, Goto

\* No doubling below the capacity is enough: if the capacity is none that can be
\* sized either, nothing is enough.
LEMMA NotSized ==
    ASSUME unit \in Units, capacity \in Nat, ~ Fits(capacity), CapacityOK
    PROVE  Enough = {}
<1>1. SUFFICES ASSUME NEW c \in Enough PROVE FALSE
  OBVIOUS
<1>2. c \in Doublings /\ c \in Nat /\ c >= unit.need /\ Fits(c) /\ unit.need \in Nat
  BY UnitFacts, Constants DEF Enough, Doublings
<1>3. c >= capacity
  BY <1>2 DEF CapacityOK
<1>4. CountFactor \in Nat /\ CountBase \in Nat /\ SizeMax \in Nat
  BY Constants
<1>5. capacity * CountFactor <= c * CountFactor
  BY <1>2, <1>3, <1>4
<1>6. capacity * CountFactor \in Nat /\ c * CountFactor \in Nat
  BY <1>2, <1>4
<1> HIDE DEF Enough
<1> QED BY <1>2, <1>4, <1>5, <1>6 DEF Fits

\* Nor when the capacity is too small and cannot be doubled.
LEMMA NotDoubled ==
    ASSUME unit \in Units, capacity \in 0..SizeMax, capacity # 0, ~ CanDouble,
           capacity < unit.need, CapacityOK
    PROVE  Enough = {}
<1>0. SizeMax \in Nat /\ capacity \in Nat
  BY Constants
<1>1. capacity + capacity > SizeMax
  BY <1>0 DEF CanDouble
<1>2. SUFFICES ASSUME NEW c \in Enough PROVE FALSE
  OBVIOUS
<1>3. c \in Doublings /\ c \in 1..SizeMax /\ c >= unit.need /\ unit.need \in Nat
  BY UnitFacts DEF Enough, Doublings
<1>4. c <= capacity \/ capacity + capacity <= c
  BY <1>3, NextDoubling DEF CapacityOK
<1> QED BY <1>0, <1>1, <1>3, <1>4

LEMMA GrowthStep ==
    ASSUME Inductive, Next
    PROVE  GrowthOK'
<1>0. /\ SizesOK /\ BlocksOK /\ OutcomeOK /\ GrowthOK /\ SizeMax \in Nat /\ unit \in Units
      /\ capacity \in Nat /\ capacity \in 0..SizeMax
  BY Constants DEF Inductive, SizesOK
<1>u. /\ SourceCapacity \in 0..SizeMax /\ FirstCapacity \in 0..SizeMax
      /\ SourceCapacity <= FirstCapacity /\ unit.need \in Nat
  BY <1>0, UnitFacts
<1>s. /\ unit' = unit /\ options' = options /\ SourceCapacity' = SourceCapacity
      /\ FirstCapacity' = FirstCapacity /\ IrBufferCapacity' = IrBufferCapacity
      /\ Doublings' = Doublings /\ Compilable' = Compilable
  BY Same
<1>d. capacity' = capacity => (CapacityOK' <=> CapacityOK)
  BY <1>s DEF CapacityOK, Doubled
<1> USE DEF Preparing, Compiling, Ending
<1>1. CASE Start
  <2>1. /\ phase' = "load" \/ options.help \/ unit.faults
        /\ phase' \in {"load", "done"}
    BY <1>1 DEF Start, Goto
  <2> QED BY <1>s, <2>1 DEF GrowthOK
<1>2. CASE Load
  <2>1. CASE phase' = "prepare" /\ capacity' = FirstCapacity /\ Dump \notin live'
    <3>1. Doubled(FirstCapacity)[0] = FirstCapacity /\ 0 \in 0..Bits
      BY <1>u, Constants, DoubledFacts DEF Doubles
    <3>2. ASSUME NEW c \in Doublings PROVE ~ (c < FirstCapacity)
      <4>1. PICK n \in 0..Bits : c = Doubled(FirstCapacity)[n]
        BY DEF Doublings
      <4>2. n = 0 \/ 0 < n
        BY Constants
      <4>3. c # 0 /\ c \in Nat
        BY <1>0 DEF Doublings
      <4>4. FirstCapacity # 0 => \/ c = FirstCapacity
                                 \/ 2 * FirstCapacity <= c
        BY <1>u, <3>1, <4>1, <4>2, DoubledGrows
      <4> QED BY <1>u, <4>3, <4>4
    <3>3. CapacityOK'
      <4>1. Doubled(FirstCapacity)' = Doubled(FirstCapacity)
        BY <1>s DEF Doubled
      <4> QED BY <1>s, <1>u, <2>1, <3>1, <3>2, <4>1 DEF CapacityOK
    <3> QED BY <1>s, <2>1, <3>3 DEF GrowthOK
  <2>2. CASE unit.faults /\ phase' = "release"
    BY <1>s, <2>2 DEF GrowthOK
  <2>3. Dump \notin live
    BY <1>0, <1>2, BlockFacts DEF BlocksOK, Load
  <2> QED BY <1>2, <2>1, <2>2, <2>3, BlockFacts DEF Load, Goto, Fail, Allocate
<1>3. CASE Prepare
  <2>1. /\ phase = "prepare" /\ capacity' = capacity /\ CapacityOK /\ Source \in live
        /\ (Dump \in live => IrBufferCapacity # 0)
        /\ capacity >= SourceCapacity
    BY <1>0, <1>3, BlockFacts DEF GrowthOK, Prepare, BlocksOK, CapacityOK, Loaded
  <2>2. CASE CountsFit /\ phase' = "configure" /\ Allocate(Driver)
    <3>1. SourceCapacity # 0 /\ Fits(capacity) /\ Fits(capacity')
      BY <2>1, <2>2 DEF CountsFit, Fits
    <3>2. Dump \in live' => IrBufferCapacity # 0
      BY <2>1, <2>2, BlockFacts DEF Allocate
    <3> QED BY <1>d, <1>s, <2>1, <2>2, <3>1, <3>2 DEF GrowthOK
  <2>3. CASE ~ CountsFit /\ phase' = "release" /\ exit' = 2
    <3>1. SourceCapacity = 0 \/ ~ Fits(capacity)
      BY <2>1, <2>3 DEF CountsFit, Fits
    <3>2. ~ Compilable
      BY <1>0, <2>1, <3>1, NotSized DEF Compilable
    <3> QED BY <1>s, <2>3, <3>2 DEF GrowthOK
  <2>4. CASE unit.faults /\ phase' = "release"
    BY <1>s, <2>4 DEF GrowthOK
  <2> QED BY <1>3, <2>2, <2>3, <2>4 DEF Prepare, Goto, Fail
<1>4. CASE Configure
  <2>1. /\ phase = "configure" /\ capacity' = capacity /\ CapacityOK
        /\ SourceCapacity # 0 /\ Fits(capacity)
        /\ (Dump \in live => IrBufferCapacity # 0)
    BY <1>0, <1>4 DEF GrowthOK, Configure
  <2>2. CASE phase' = "compile" /\ (options.dump => IrBufferCapacity # 0)
    BY <1>d, <1>s, <2>1, <2>2 DEF GrowthOK, Fits
  <2>3. CASE phase' = "release" /\ exit' = 2 /\ options.dump /\ IrBufferCapacity = 0
    BY <1>s, <2>3 DEF GrowthOK, Compilable
  <2>4. CASE unit.faults /\ phase' = "release"
    BY <1>s, <2>4 DEF GrowthOK
  <2> QED BY <1>4, <2>1, <2>2, <2>3, <2>4 DEF Configure, Goto, Fail, ResizeIrDump
<1>5. CASE Compile
  <2>1. /\ phase = "compile" /\ capacity' = capacity /\ CapacityOK
        /\ SourceCapacity # 0 /\ Fits(capacity)
        /\ (options.dump => IrBufferCapacity # 0)
    BY <1>0, <1>5 DEF GrowthOK, Compile
  <2>2. phase' = "publish" => capacity >= unit.need
    BY <1>5 DEF Compile, Goto
  <2>3. phase' \in {"failed", "publish"}
    BY <1>5 DEF Compile, Goto
  <2>4. CASE phase' = "failed"
    BY <1>0, <1>5, <1>d, <1>s, <2>1, <2>4, CompileFailure DEF GrowthOK, Fits
  <2>5. CASE phase' = "publish"
    BY <1>d, <1>s, <2>1, <2>2, <2>5 DEF GrowthOK, Fits
  <2> QED BY <2>3, <2>4, <2>5
<1>6. CASE Growth
  <2>1. /\ phase = "failed" /\ CapacityOK /\ SourceCapacity # 0
        /\ (options.dump => IrBufferCapacity # 0)
        /\ \/ dumpError = 2 /\ dumpcap < required
           \/ dumpError # 2 /\ macroError = 3 /\ capacity < unit.need
           \/ dumpError # 2 /\ macroError # 3 /\ unit.bad # 0
    BY <1>0, <1>6 DEF GrowthOK, Growth
  <2>2. capacity # 0
    BY <1>0, <1>u, <2>1 DEF CapacityOK
  <2>3. CASE phase' = "reprepare" /\ capacity' = capacity
    BY <1>d, <1>s, <2>1, <2>3 DEF GrowthOK
  <2>4. CASE unit.faults /\ phase' = "release"
    BY <1>s, <2>4 DEF GrowthOK
  <2>5. CASE /\ dumpError # 2 /\ macroError = 3 /\ CanDouble
             /\ capacity' = capacity + capacity /\ phase' = "reprepare"
    <3>1. capacity + capacity <= SizeMax
      BY <1>0, <2>5 DEF CanDouble
    <3>2. PICK n \in 0..Bits : capacity = Doubled(FirstCapacity)[n]
      BY <2>1 DEF CapacityOK
    <3>3. \E m \in 0..Bits : capacity + capacity = Doubled(FirstCapacity)[m]
      BY <1>0, <2>2, <3>1, <3>2, NextDoubling
    <3>4. ASSUME NEW c \in Doublings, c < capacity + capacity PROVE c < unit.need
      <4>1. c <= capacity
        BY <1>0, <2>2, <3>2, <3>4, NextDoubling DEF Doublings
      <4>2. c \in Nat /\ capacity < unit.need
        BY <1>0, <2>1, <2>5 DEF Doublings
      <4> QED BY <1>0, <1>u, <4>1, <4>2
    <3>5. CapacityOK'
      <4>1. Doubled(FirstCapacity)' = Doubled(FirstCapacity)
        BY <1>s DEF Doubled
      <4>2. capacity + capacity >= SourceCapacity
        BY <1>0, <1>u, <2>1 DEF CapacityOK
      <4> QED BY <1>s, <2>5, <3>3, <3>4, <4>1, <4>2 DEF CapacityOK
    <3> QED BY <1>s, <2>1, <2>5, <3>5 DEF GrowthOK
  <2>6. CASE /\ dumpError # 2 /\ macroError = 3 /\ ~ CanDouble
             /\ phase' = "release" /\ exit' = 2
    <3>1. ~ Compilable
      BY <1>0, <2>1, <2>2, <2>6, NotDoubled DEF Compilable
    <3> QED BY <1>s, <2>6, <3>1 DEF GrowthOK
  <2>7. CASE dumpError # 2 /\ macroError # 3 /\ phase' = "release" /\ exit' = 1
    BY <1>s, <2>1, <2>7 DEF GrowthOK, Compilable
  <2>8. dumpError = 2 => ~ (dumpcap >= required)
    BY <1>0, <2>1 DEF SizesOK
  <2> QED BY <1>6, <2>3, <2>4, <2>5, <2>6, <2>7, <2>8 DEF Growth, Goto, Fail
<1>7. CASE Reprepare
  <2>1. /\ phase = "reprepare" /\ CapacityOK /\ capacity' = capacity /\ phase' = "prepare"
        /\ (options.dump => IrBufferCapacity # 0)
        /\ live' = live \ Driver /\ (Dump \in live => options.dump)
    BY <1>0, <1>7 DEF GrowthOK, Reprepare, Goto, BlocksOK
  <2> QED BY <1>d, <1>s, <2>1 DEF GrowthOK
<1>8. CASE Publish
  <2>1. /\ phase = "publish" /\ capacity' = capacity /\ CapacityOK
        /\ SourceCapacity # 0 /\ Fits(capacity) /\ capacity >= unit.need
        /\ (options.dump => IrBufferCapacity # 0)
    BY <1>0, <1>8 DEF GrowthOK, Publish
  <2>2. CASE phase' = "flush"
    BY <1>d, <1>s, <2>1, <2>2 DEF GrowthOK, Fits
  <2>3. CASE unit.faults /\ phase' = "release"
    BY <1>s, <2>3 DEF GrowthOK
  <2> QED BY <1>8, <2>2, <2>3 DEF Publish, Goto, Fail
<1>9. CASE Flush
  <2>1. /\ phase = "flush" /\ CapacityOK /\ unit.bad = 0
        /\ SourceCapacity # 0 /\ Fits(capacity) /\ capacity >= unit.need
        /\ (options.dump => IrBufferCapacity # 0) /\ capacity >= SourceCapacity
    BY <1>0, <1>9 DEF GrowthOK, OutcomeOK, Flush, CapacityOK
  <2>2. capacity # 0
    BY <1>0, <1>u, <2>1
  <2>3. capacity \in Enough
    <3>1. PICK n \in 0..Bits : capacity = Doubled(FirstCapacity)[n]
      BY <2>1 DEF CapacityOK
    <3>2. capacity \in Doublings
      BY <1>0, <2>2, <3>1, NextDoubling
    <3> QED BY <2>1, <3>2 DEF Enough
  <2>4. Compilable
    BY <2>1, <2>3 DEF Compilable
  <2>5. phase' = "release" /\ (exit' = 0 \/ unit.faults)
    BY <1>9 DEF Flush, Fail
  <2> QED BY <1>s, <2>4, <2>5 DEF GrowthOK
<1>10. CASE Release
  <2>1. phase = "release" /\ phase' = "done" /\ exit' = exit
    BY <1>10 DEF Release, Goto
  <2> QED BY <1>0, <1>s, <2>1 DEF GrowthOK
<1> QED BY <1>1, <1>2, <1>3, <1>4, <1>5, <1>6, <1>7, <1>8, <1>9, <1>10 DEF Next

-----------------------------------------------------------------------------
(* Theorems                                                                *)

LEMMA InitialStates ==
    Init => Inductive
<1> SUFFICES ASSUME Init PROVE Inductive
  OBVIOUS
<1>0. SizeMax \in Nat
  BY Constants
<1>1. /\ phase = "start" /\ live = {} /\ faulty = FALSE /\ tried = {} /\ exit = 0
      /\ printed = NoText /\ artifact = "old" /\ captured = 0 /\ dumpError = 0
  BY DEF Init
<1>2. SizesOK
  BY <1>0 DEF Init, SizesOK, Preparing, Compiling, Ending
<1>3. BlocksOK /\ OutcomeOK /\ RetryOK /\ GrowthOK
  BY <1>1 DEF BlocksOK, OutcomeOK, RetryOK, GrowthOK, Preparing, Compiling, Ending
<1> QED BY <1>2, <1>3 DEF Inductive

LEMMA Stutter ==
    ASSUME Inductive, UNCHANGED vars
    PROVE  Inductive'
<1>1. /\ unit' = unit /\ options' = options /\ SourceCapacity' = SourceCapacity
      /\ IrBufferCapacity' = IrBufferCapacity /\ Text' = Text /\ Base' = Base
      /\ Doublings' = Doublings /\ Compilable' = Compilable
      /\ Loaded' = Loaded /\ Released' = Released
  BY Same
<1>2. SizesOK'
  BY <1>1 DEF Inductive, SizesOK, vars
<1>3. BlocksOK'
  BY <1>1 DEF Inductive, BlocksOK, vars
<1>4. OutcomeOK'
  BY <1>1 DEF Inductive, OutcomeOK, Outcome, vars, NoText
<1>5. RetryOK'
  BY <1>1 DEF Inductive, RetryOK, vars
<1>6. GrowthOK'
  <2>1. CapacityOK' <=> CapacityOK
    BY <1>1 DEF CapacityOK, vars, Doubled, FirstCapacity
  <2> QED BY <1>1, <2>1 DEF Inductive, GrowthOK, vars, Fits
<1> QED BY <1>2, <1>3, <1>4, <1>5, <1>6 DEF Inductive

\* The inductive invariant holds in every state of a run of the compiler
\* (native_compiler_main, native_run_compiler_profile).
THEOREM ControllerInvariant == Spec => []Inductive
<1>1. Init => Inductive
  BY InitialStates
<1>2. Inductive /\ [Next]_vars => Inductive'
  BY SizesStep, BlocksStep, OutcomeStep, RetryStep, GrowthStep, Stutter DEF Inductive
<1> QED BY <1>1, <1>2, PTL DEF Spec

\* The exit status tells whether the artifact and the IR text are in place, for
\* every unit and whatever fails: the text is that of one attempt only, however
\* often compiler_compile_with_growth started over.
THEOREM StatusIsTrue == Spec => []ExitStatus
<1>1. Inductive => ExitStatus
  BY DEF Inductive, OutcomeOK, ExitStatus, Ending
<1> QED BY <1>1, ControllerInvariant, PTL

\* Every block and runtime handle is released exactly once, none is overwritten
\* while it is owned and no attempt works in the arenas of an earlier one, at
\* whatever allocation, file or tool the run fails.
THEOREM OwnershipIsExact == Spec => []ReleasedOnce
<1>1. Inductive => ReleasedOnce
  BY DEF Inductive, BlocksOK, ReleasedOnce
<1> QED BY <1>1, ControllerInvariant, PTL

\* compiler_compile_with_growth gives every attempt a room it has not tried, and
\* the sizes do not leave the range of usize.
THEOREM RetriesMakeProgress == Spec => []NoFutileRetry
<1>1. Inductive => NoFutileRetry
  <2>1. SUFFICES ASSUME Inductive, phase = "compile"
                 PROVE  /\ <<capacity, dumpcap>> \notin tried
                        /\ capacity <= SizeMax /\ dumpcap <= SizeMax
    BY DEF NoFutileRetry
  <2>2. capacity \in 0..SizeMax /\ dumpcap \in 0..SizeMax
    BY <2>1 DEF Inductive, SizesOK
  <2>3. \A t \in tried : t[1] < capacity \/ t[2] < dumpcap
    BY <2>1 DEF Inductive, RetryOK
  <2> QED BY <2>2, <2>3, Constants
<1> QED BY <1>1, ControllerInvariant, PTL

\* Without failures around it, a run ends with status 0 exactly when the unit is
\* correct, some doubling of the first capacity has room for its macros and can
\* be sized, and its text can be sized.
THEOREM GrowthIsComplete == Spec => []GrowthSuffices
<1>1. Inductive => GrowthSuffices
  BY DEF Inductive, GrowthOK, GrowthSuffices, Ending
<1> QED BY <1>1, ControllerInvariant, PTL

-----------------------------------------------------------------------------
(* The variant of a run                                                    *)

\* The steps left to the end of an attempt, or of the run.
Stage ==
    CASE phase = "start" -> 9 [] phase = "load" -> 8 [] phase = "reprepare" -> 7
      [] phase = "prepare" -> 6 [] phase = "configure" -> 5 [] phase = "compile" -> 4
      [] phase \in {"failed", "publish"} -> 3 [] phase = "flush" -> 2
      [] phase = "release" -> 1 [] OTHER -> 0

\* The sizes by which arenas and capture buffer can still grow.
Room == (SizeMax - capacity) + (SizeMax - dumpcap)

\* Every step of a run comes closer to the end of its attempt, or takes some of the
\* room that is left to grow.
RunAdvances == [][Room' < Room \/ (Room' = Room /\ Stage' < Stage)]_vars

\* The arenas and the capture buffer have no size before they are allocated.
Unsized ==
    /\ phase \in {"start", "load"} => capacity = 0
    /\ Dump \notin live /\ phase # "done" => dumpcap = 0

\* The buffer is kept from one attempt to the next.
LEMMA UnsizedStep ==
    ASSUME Inductive, Unsized, Next
    PROVE  Unsized'
<1>0. Dump \notin Driver
  BY GroupFacts, BlockFacts DEF Driver, Frontend, Ir, Output, Environment, Macros, Dump
<1>1. CASE Start
  BY <1>1 DEF Start, Unsized, Allocate, KeepBlocks, Goto
<1>2. CASE Load
  BY <1>2 DEF Load, Unsized, Allocate, Goto, Fail
<1>3. CASE Prepare
  BY <1>3 DEF Prepare, Unsized, Allocate, KeepBlocks, Goto, Fail
<1>4. CASE Configure
  BY <1>4 DEF Configure, Unsized, KeepBlocks, KeepDump, ResizeIrDump, Goto, Fail
<1>5. CASE Compile
  BY <1>5 DEF Compile, Unsized, KeepDump, Goto
<1>6. CASE Growth
  BY <1>6 DEF Growth, Unsized, KeepBlocks, KeepDump, ResizeIrDump, Goto, Fail
<1>7. CASE Reprepare
  BY <1>0, <1>7 DEF Reprepare, Unsized, Goto
<1>8. CASE Publish
  BY <1>8 DEF Publish, Unsized, Goto, Fail
<1>9. CASE Flush
  BY <1>9 DEF Flush, Unsized, Fail
<1>10. CASE Release
  BY <1>10 DEF Release, Unsized, Goto
<1> QED BY <1>1, <1>2, <1>3, <1>4, <1>5, <1>6, <1>7, <1>8, <1>9, <1>10 DEF Next

\* Sizes that grow leave less room.
LEMMA Larger ==
    ASSUME NEW m \in Nat, NEW c \in 0..m, NEW d \in 0..m, NEW C \in 0..m, NEW D \in 0..m,
           c <= C, d <= D
    PROVE  LET old == (m - c) + (m - d)
               new == (m - C) + (m - D)
           IN /\ new < old \/ new = old
              /\ c < C => new < old
              /\ d < D => new < old
OBVIOUS

\* One step of a run: only a failed attempt goes back, and it takes room.
LEMMA StepAdvances ==
    ASSUME Inductive, Unsized, Next
    PROVE  Room' < Room \/ (Room' = Room /\ Stage' < Stage)
<1>0. SizeMax \in Nat /\ capacity \in 0..SizeMax /\ dumpcap \in 0..SizeMax
  BY Constants DEF Inductive, SizesOK
<1>1. capacity' \in 0..SizeMax /\ dumpcap' \in 0..SizeMax
  BY SizesStep DEF SizesOK
<1>2. ASSUME capacity' = capacity, dumpcap' = dumpcap
      PROVE  Room' = Room
  BY <1>2 DEF Room
<1>g. ASSUME capacity <= capacity', dumpcap <= dumpcap'
      PROVE  /\ Room' < Room \/ Room' = Room
             /\ capacity < capacity' \/ dumpcap < dumpcap' => Room' < Room
  <2>1. Room' = (SizeMax - capacity') + (SizeMax - dumpcap')
    BY DEF Room
  <2>2. Room = (SizeMax - capacity) + (SizeMax - dumpcap)
    BY DEF Room
  <2>3. /\ Room' < Room \/ Room' = Room
        /\ capacity < capacity' => Room' < Room
        /\ dumpcap < dumpcap' => Room' < Room
    BY <1>0, <1>1, <1>g, <2>1, <2>2, Larger
  <2> QED BY <2>3
<1>3. CASE Start
  <2>1. phase = "start" /\ phase' \in {"load", "done"}
    BY <1>3 DEF Start, Goto
  <2>2. Stage' < Stage
    BY <2>1 DEF Stage
  <2> QED BY <1>2, <1>3, <2>2 DEF Start
<1>4. CASE Load
  <2>1. phase = "load" /\ phase' \in {"prepare", "release"}
    BY <1>4 DEF Load, Goto, Fail
  <2>2. Stage' < Stage
    BY <2>1 DEF Stage
  <2>3. capacity <= capacity' /\ dumpcap <= dumpcap'
    BY <1>0, <1>1, <1>4 DEF Load, Unsized
  <2> QED BY <1>g, <2>2, <2>3
<1>5. CASE Prepare
  <2>1. phase = "prepare" /\ phase' \in {"configure", "release"}
    BY <1>5 DEF Prepare, Goto, Fail
  <2>2. Stage' < Stage
    BY <2>1 DEF Stage
  <2> QED BY <1>2, <1>5, <2>2 DEF Prepare
<1>6. CASE Configure
  <2>1. phase = "configure" /\ phase' \in {"compile", "release"}
    BY <1>6 DEF Configure, Goto, Fail
  <2>2. Stage' < Stage
    BY <2>1 DEF Stage
  <2>3. capacity <= capacity' /\ dumpcap <= dumpcap'
    BY <1>0, <1>1, <1>6 DEF Configure, KeepDump, Unsized
  <2> QED BY <1>g, <2>2, <2>3
<1>7. CASE Compile
  <2>1. phase = "compile" /\ phase' \in {"failed", "publish"}
    BY <1>7 DEF Compile, Goto
  <2>2. Stage' < Stage
    BY <2>1 DEF Stage
  <2> QED BY <1>2, <1>7, <2>2 DEF Compile, KeepDump
<1>8. CASE Growth
  <2>0. required \in 0..SizeMax
    BY DEF Inductive, SizesOK
  <2>1. CASE phase' = "reprepare"
    <3>1. \/ capacity' = capacity /\ dumpcap < dumpcap'
          \/ capacity < capacity' /\ dumpcap' = dumpcap
      BY <1>0, <1>8, <2>0, <2>1, GrownDumpFacts DEF Growth, ResizeIrDump, CanDouble, KeepDump,
         Fail
    <3>2. /\ capacity <= capacity' /\ dumpcap <= dumpcap'
          /\ capacity < capacity' \/ dumpcap < dumpcap'
      BY <1>0, <1>1, <3>1
    <3> QED BY <1>g, <3>2
  <2>2. CASE phase' # "reprepare"
    <3>1. phase = "failed" /\ phase' = "release" /\ capacity' = capacity /\ dumpcap' = dumpcap
      BY <1>8, <2>2 DEF Growth, Goto, Fail, KeepDump
    <3>2. Stage' < Stage
      BY <3>1 DEF Stage
    <3> QED BY <1>2, <3>1, <3>2
  <2> QED BY <2>1, <2>2
<1>9. CASE Reprepare
  <2>1. phase = "reprepare" /\ phase' = "prepare"
    BY <1>9 DEF Reprepare, Goto
  <2>2. Stage' < Stage
    BY <2>1 DEF Stage
  <2> QED BY <1>2, <1>9, <2>2 DEF Reprepare
<1>10. CASE Publish
  <2>1. phase = "publish" /\ phase' \in {"flush", "release"}
    BY <1>10 DEF Publish, Goto, Fail
  <2>2. Stage' < Stage
    BY <2>1 DEF Stage
  <2> QED BY <1>2, <1>10, <2>2 DEF Publish
<1>11. CASE Flush
  <2>1. phase = "flush" /\ phase' = "release"
    BY <1>11 DEF Flush, Fail
  <2>2. Stage' < Stage
    BY <2>1 DEF Stage
  <2> QED BY <1>2, <1>11, <2>2 DEF Flush
<1>12. CASE Release
  <2>1. phase = "release" /\ phase' = "done"
    BY <1>12 DEF Release, Goto
  <2>2. Stage' < Stage
    BY <2>1 DEF Stage
  <2> QED BY <1>2, <1>12, <2>2 DEF Release
<1> QED BY <1>3, <1>4, <1>5, <1>6, <1>7, <1>8, <1>9, <1>10, <1>11, <1>12 DEF Next

\* A run of native_compiler_main cannot go on for ever: the retries of
\* compiler_compile_with_growth take room of which there is a finite amount, and
\* every other step comes closer to the end.
THEOREM RunsAreBounded == Spec => RunAdvances /\ [](Room \in Nat /\ Stage \in Nat)
<1>1. Init => Unsized
  BY DEF Init, Unsized
<1>2. Inductive /\ Unsized /\ [Next]_vars => Unsized'
  <2>1. Unsized /\ UNCHANGED vars => Unsized'
    BY DEF Unsized, vars
  <2> QED BY <2>1, UnsizedStep
<1>3. Inductive /\ Unsized /\ [Next]_vars =>
        [Room' < Room \/ (Room' = Room /\ Stage' < Stage)]_vars
  BY StepAdvances
<1>4. Inductive => Room \in Nat /\ Stage \in Nat
  <2>1. Inductive => Room \in Nat
    BY Constants DEF Inductive, SizesOK, Room
  <2>2. Stage \in Nat
    BY DEF Stage
  <2> QED BY <2>1, <2>2
<1> QED BY <1>1, <1>2, <1>3, <1>4, ControllerInvariant, PTL DEF Spec, RunAdvances
==============================================================================
