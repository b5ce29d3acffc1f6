------------------------- MODULE RootLowering_proofs -------------------------
(***************************************************************************)
(* The expansion of root frames in place is exact, the verifier agrees     *)
(* with it, and the emitted function keeps every managed word registered   *)
(* on every path, for every function, array length and catalogue.          *)
(***************************************************************************)
EXTENDS RootLowering, FiniteSetTheorems, TLAPS

\* The widened instructions among the first i of a function.
WidenedUpto(f, i) == {j \in 1..i : Widened(f.code[j])}

-----------------------------------------------------------------------------
(* Where instructions go *)

\* Counting the widened instructions is counting a finite set.
LEMMA UptoFinite ==
  ASSUME NEW f, NEW i \in Nat
  PROVE  IsFiniteSet(WidenedUpto(f, i)) /\ Cardinality(WidenedUpto(f, i)) \in Nat
<1>1. IsFiniteSet(1..i)
  BY FS_Interval
<1> QED
  BY <1>1, FS_Subset, FS_CardinalityType DEF WidenedUpto

\* A later instruction has at least as many widened ones up to it, and one more
\* if it is widened itself.
LEMMA UptoGrows ==
  ASSUME NEW f, NEW i \in Nat, NEW c \in Nat, c < i
  PROVE  /\ Cardinality(WidenedUpto(f, c)) <= Cardinality(WidenedUpto(f, i))
         /\ Widened(f.code[i]) =>
               Cardinality(WidenedUpto(f, c)) + 1 <= Cardinality(WidenedUpto(f, i))
<1>1. WidenedUpto(f, c) \subseteq WidenedUpto(f, i)
  BY DEF WidenedUpto
<1>2. Cardinality(WidenedUpto(f, c)) <= Cardinality(WidenedUpto(f, i))
  BY <1>1, UptoFinite, FS_Subset
<1>3. ASSUME Widened(f.code[i])
      PROVE  Cardinality(WidenedUpto(f, c)) + 1 <= Cardinality(WidenedUpto(f, i))
  <2>1. i \notin WidenedUpto(f, c) /\ WidenedUpto(f, c) \cup {i} \subseteq WidenedUpto(f, i)
    BY <1>3 DEF WidenedUpto
  <2>2. Cardinality(WidenedUpto(f, c) \cup {i}) = Cardinality(WidenedUpto(f, c)) + 1
    BY <2>1, UptoFinite, FS_AddElement
  <2> QED
    BY <2>1, <2>2, UptoFinite, FS_Subset
<1> QED
  BY <1>2, <1>3

\* One more instruction adds one if it is widened and nothing if it is not.
LEMMA UptoNext ==
  ASSUME NEW f, NEW i \in Nat, i > 0
  PROVE  Cardinality(WidenedUpto(f, i)) =
            Cardinality(WidenedUpto(f, i - 1)) + (IF Widened(f.code[i]) THEN 1 ELSE 0)
<1>1. CASE Widened(f.code[i])
  <2>1. WidenedUpto(f, i) = WidenedUpto(f, i - 1) \cup {i} /\ i \notin WidenedUpto(f, i - 1)
    BY <1>1 DEF WidenedUpto
  <2>2. IsFiniteSet(WidenedUpto(f, i - 1))
    BY UptoFinite
  <2> QED
    BY <1>1, <2>1, <2>2, FS_AddElement
<1>2. CASE ~Widened(f.code[i])
  <2>1. WidenedUpto(f, i) = WidenedUpto(f, i - 1)
    BY <1>2 DEF WidenedUpto
  <2>2. Cardinality(WidenedUpto(f, i - 1)) \in Nat
    BY UptoFinite
  <2> QED
    BY <1>2, <2>1, <2>2
<1> QED
  BY <1>1, <1>2

\* What the steps use of Place: it is the identity shifted past the entry, and
\* strictly monotone with room for the operation in front of a widened
\* instruction.
LEMMA Places ==
  ASSUME function \in Functions
  PROVE  /\ \A i \in Nat : Place(i) \in Nat /\ i + 2 <= Place(i)
         /\ Place(1) = 3
         /\ \A i \in Nat : i > 0 =>
               Place(i) = Place(i - 1) + (IF Widened(function.code[i]) THEN 2 ELSE 1)
         /\ \A i, c \in Nat : c < i =>
               /\ Place(c) < Place(i)
               /\ Widened(function.code[i]) => Place(c) < Place(i) - 1
<1> DEFINE W(i) == Cardinality(WidenedUpto(function, i))
<1>1. \A i \in Nat : Place(i) = i + 2 + W(i) /\ W(i) \in Nat
  BY UptoFinite DEF Place, WidenedUpto
<1>2. \A i \in Nat : i > 0 => W(i) = W(i - 1) + (IF Widened(function.code[i]) THEN 1 ELSE 0)
  BY UptoNext
<1>3. \A i, c \in Nat : c < i => /\ W(c) <= W(i)
                                 /\ Widened(function.code[i]) => W(c) + 1 <= W(i)
  BY UptoGrows
<1>4. W(1) = 0
  <2>1. function.code[1].kind = "label"
    BY RootLoweringAssumption DEF IsEntry
  <2>2. WidenedUpto(function, 1) = {}
    BY <2>1 DEF WidenedUpto, Widened
  <2> QED
    BY <2>2, FS_EmptySet
<1> HIDE DEF W
<1>5. \A i \in Nat : i > 0 => i - 1 \in Nat
  OBVIOUS
<1>6. \A i \in Nat : Place(i) \in Nat /\ i + 2 <= Place(i)
  BY <1>1
<1>7. Place(1) = 3
  BY <1>1, <1>4
<1>8. ASSUME NEW i \in Nat, i > 0
      PROVE  Place(i) = Place(i - 1) + (IF Widened(function.code[i]) THEN 2 ELSE 1)
  BY <1>1, <1>2, <1>5, <1>8
<1>9. ASSUME NEW i \in Nat, NEW c \in Nat, c < i
      PROVE  /\ Place(c) < Place(i)
             /\ Widened(function.code[i]) => Place(c) < Place(i) - 1
  BY <1>1, <1>3, <1>9
<1> QED
  BY <1>6, <1>7, <1>8, <1>9

\* What a function is, as the steps use it.
LEMMA FunctionFacts ==
  ASSUME function \in Functions
  PROVE  /\ function \in Function
         /\ function.code \in Seq(Instruction)
         /\ Len(function.code) \in Nat \ {0}
         /\ \A i \in 1..Len(function.code) : /\ function.code[i] \in Instruction
                                             /\ function.code[i].kind \notin RootKind
         /\ IsEntry(function.code[1])
<1>1. function \in Function /\ function.code # <<>> /\ IsEntry(function.code[1])
      /\ \A i \in DOMAIN function.code : function.code[i].kind \notin RootKind
  BY RootLoweringAssumption
<1>2. function.code \in Seq(Instruction)
  BY <1>1 DEF Function
<1> QED
  BY <1>1, <1>2

\* The function does not change, and with it no place does.
LEMMA FunctionRigid ==
  ASSUME UNCHANGED function
  PROVE  /\ \A i \in Nat : Place(i)' = Place(i)
         /\ EntryJumps' = EntryJumps
         /\ ManagedValues' = ManagedValues /\ ManagedParameters' = ManagedParameters
  BY DEF Place, EntryJumps, ManagedValues, ManagedParameters

\* Control operations and guards are instructions.
LEMMA ControlType ==
  ASSUME NEW kind \in Kind, NEW target \in Nat
  PROVE  Control(kind, target) \in Instruction
  BY RootLoweringAssumption DEF Control, Instruction

LEMMA GuardType ==
  ASSUME NEW op
  PROVE  Guard(op) \in Instruction
         /\ Guard(op).kind = IF op.kind = "call" THEN "sync" ELSE "pop"
<1>1. {"sync", "pop"} \subseteq Kind /\ NoRef \in Nat /\ PopRoots \in Nat
  BY RootLoweringAssumption DEF Kind, PopRoots
<1>2. Control("sync", NoRef) \in Instruction /\ Control("pop", PopRoots) \in Instruction
  BY <1>1, ControlType
<1>3. Control("sync", NoRef).kind = "sync" /\ Control("pop", PopRoots).kind = "pop"
  BY DEF Control
<1> QED
  BY <1>2, <1>3 DEF Guard

\* The catalogue counts finite sets.
LEMMA ManagedSetsFinite ==
  ASSUME function \in Functions
  PROVE  IsFiniteSet(ManagedValues) /\ IsFiniteSet(ManagedParameters)
<1>1. function.types \in Seq(Type) /\ function.parameters \in Seq({"managed", "plain"})
  BY FunctionFacts DEF Function
<1>2. IsFiniteSet(1..Len(function.types)) /\ IsFiniteSet(1..Len(function.parameters))
  BY <1>1, FS_Interval
<1>3. /\ ManagedValues \subseteq 1..Len(function.types)
      /\ ManagedParameters \subseteq 1..Len(function.parameters)
  BY <1>1 DEF ManagedValues, ManagedParameters
<1> QED
  BY <1>2, <1>3, FS_Subset

LEMMA ManagedFinite ==
  ASSUME function \in Functions
  PROVE  Cardinality(ManagedValues) \in Nat /\ Cardinality(ManagedParameters) \in Nat
  BY ManagedSetsFinite, FS_CardinalityType

-----------------------------------------------------------------------------
(* The steps of the pass *)

\* Untouched instructions are counted like those of the function.
LEMMA UntouchedCounts ==
  ASSUME function \in Functions, Untouched
  PROVE  /\ ExtraInstructions = 2 + Cardinality({j \in 1..Len(function.code) : Widened(function.code[j])})
         /\ CollectingCall <=> \E i \in DOMAIN function.code : Collecting(function.code[i])
         /\ \A i \in 1..count : code[i].kind \notin RootKind
<1>1. function.code \in Seq(Instruction)
      /\ \A i \in 1..Len(function.code) : function.code[i].kind \notin RootKind
  BY FunctionFacts
<1>2. {i \in 1..count : Widened(code[i])}
         = {j \in 1..Len(function.code) : Widened(function.code[j])}
  BY DEF Untouched
<1>3. ExtraInstructions = 2 + Cardinality({j \in 1..Len(function.code) : Widened(function.code[j])})
  BY <1>2 DEF ExtraInstructions
<1>4. DOMAIN function.code = 1..Len(function.code)
  BY <1>1
<1>5. CollectingCall <=> \E i \in DOMAIN function.code : Collecting(function.code[i])
  BY <1>4 DEF Untouched, CollectingCall
<1>6. \A i \in 1..count : code[i].kind \notin RootKind
  BY <1>1 DEF Untouched
<1> QED
  BY <1>3, <1>5, <1>6

LEMMA LowerStep ==
  ASSUME Inductive, Lower
  PROVE  Inductive'
<1> USE DEF Inductive
<1>f. /\ function \in Functions /\ UNCHANGED arenaVars /\ phase = "lower" /\ Untouched
      /\ code \in Seq(Instruction)
  BY DEF Lower
<1>u. UNCHANGED <<function, runtime, code, count, rootCount>>
  BY <1>f DEF arenaVars
<1>c. function.code \in Seq(Instruction) /\ Len(function.code) \in Nat \ {0}
  BY <1>f, FunctionFacts
<1>1. CASE phase' = "failed" /\ (~runtime \/ Len(code) - count < ExtraInstructions)
  <2>1. ExtraInstructions' = ExtraInstructions
    BY <1>u DEF ExtraInstructions
  <2>2. VerifierAgrees'
    BY <1>1, <1>f, <1>u, <2>1 DEF VerifierAgrees, Untouched
  <2>3. ExpansionExact'
    BY <1>1 DEF ExpansionExact
  <2> QED
    BY <1>1, <1>f, <1>u, <2>2, <2>3
<1>2. CASE phase' = "lowered" /\ RequiredCount = 0
  <2>1. Untouched'
    BY <1>f, <1>u DEF Untouched
  <2>2. RequiredCount' = 0
    BY <1>2, <1>u, FunctionRigid DEF RequiredCount, CollectingCall
  <2>3. rootCount' = 0
    BY <2>1 DEF Untouched
  <2>4. ExpansionExact' /\ VerifierAgrees'
    BY <1>2, <2>3 DEF ExpansionExact, VerifierAgrees
  <2> QED
    BY <1>2, <1>f, <1>u, <2>1, <2>2, <2>4
<1>3. CASE /\ phase' = "expand" /\ RequiredCount # 0
           /\ ~(Len(code) - count < ExtraInstructions)
           /\ cursor' = count /\ total' = count + ExtraInstructions
           /\ extra' = total' /\ required' = RequiredCount
  <2> DEFINE n == Len(function.code)
  <2>1. ExtraInstructions = 2 + Cardinality(WidenedUpto(function, n))
    BY <1>f, UntouchedCounts DEF WidenedUpto
  <2>2. Place(n) = count + ExtraInstructions /\ Place(n) \in Nat
    <3>1. Place(n) = n + 2 + Cardinality(WidenedUpto(function, n))
      BY DEF Place, WidenedUpto
    <3>2. Cardinality(WidenedUpto(function, n)) \in Nat
      BY <1>c, UptoFinite
    <3>3. count = n /\ n \in Nat
      BY <1>c, <1>f DEF Untouched
    <3> HIDE DEF n
    <3> QED
      BY <2>1, <3>1, <3>2, <3>3
  <2>3. total' = Place(n)' /\ extra' = Place(n)' /\ cursor' = n
    BY <1>3, <1>c, <1>f, <1>u, <2>2, FunctionRigid DEF Untouched
  <2>4. total' <= Len(code')
    <3>1. Len(code) \in Nat /\ count \in Nat /\ ExtraInstructions \in Nat
      BY <1>c, <1>f, <2>1, UptoFinite DEF Untouched
    <3> QED
      BY <1>3, <1>u, <3>1
  <2>5. total' \in Nat
    BY <1>3, <2>2
  <2>6. Filled(extra + 1, cursor + 1)'
    BY <1>3, <2>5 DEF Filled
  <2>7. Moved(cursor + 1)'
    BY <1>c, <1>u, <2>3 DEF Moved
  <2>8. \A i \in 1..cursor' : code'[i] = function'.code[i]
    BY <1>f, <1>u, <2>3 DEF Untouched
  <2>9. ExpansionExact'
    BY <1>3, <1>u, <2>3, <2>4, <2>7, <2>8 DEF ExpansionExact
  <2>10. VerifierAgrees'
    BY <1>3 DEF VerifierAgrees
  <2>11. /\ \E i \in DOMAIN function.code : Collecting(function.code[i])
         /\ RequiredCount = Cardinality(ManagedValues) + Cardinality(ManagedParameters)
    BY <1>3, <1>f, UntouchedCounts DEF RequiredCount
  <2>12. /\ required' = Cardinality(ManagedValues)' + Cardinality(ManagedParameters)'
         /\ required' > 0
    BY <1>3, <1>f, <1>u, <2>11, FunctionRigid, ManagedFinite
  <2>13. /\ count' = Len(function'.code) /\ rootCount' = 0 /\ cursor' \in 1..count'
         /\ \E i \in DOMAIN function'.code : Collecting(function'.code[i])
    BY <1>c, <1>f, <1>u, <2>3, <2>11 DEF Untouched
  <2> QED
    BY <1>3, <1>f, <1>u, <2>6, <2>9, <2>10, <2>12, <2>13
<1>4. ~\E i \in 1..count : code[i].kind \in RootKind
  BY <1>f, UntouchedCounts
<1> QED
  BY <1>1, <1>2, <1>3, <1>4 DEF Lower

LEMMA ExpandInstructionStep ==
  ASSUME Inductive, ExpandInstruction
  PROVE  Inductive'
<1> DEFINE n == Len(function.code)
           c == cursor
           op == function.code[c]
<1>f. /\ function \in Functions /\ code \in Seq(Instruction) /\ phase = "expand"
      /\ 1 < cursor /\ cursor' = cursor - 1
      /\ UNCHANGED <<function, runtime, count, rootCount, total, required, phase>>
  BY DEF ExpandInstruction, Inductive
<1>e. /\ count = n /\ rootCount = 0 /\ cursor \in 1..count
      /\ Filled(extra + 1, cursor + 1)
      /\ \E i \in DOMAIN function.code : Collecting(function.code[i])
      /\ required = Cardinality(ManagedValues) + Cardinality(ManagedParameters)
      /\ required > 0
  BY <1>f DEF Inductive
<1>x. /\ \A i \in 1..cursor : code[i] = function.code[i]
      /\ Moved(cursor + 1)
      /\ extra = Place(cursor) /\ total = Place(n) /\ total <= Len(code)
  BY <1>f DEF ExpansionExact, Inductive
<1>c. function.code \in Seq(Instruction) /\ n \in Nat \ {0} /\ op \in Instruction
  BY <1>e, <1>f, FunctionFacts
<1>t. c \in Nat /\ c - 1 \in Nat /\ 1 <= c - 1 /\ c <= n
  BY <1>c, <1>e, <1>f
<1>op. code[cursor] = op
  BY <1>x, <1>e
<1>w. /\ Widened(op) => /\ code' = [code EXCEPT ![extra] = op, ![extra - 1] = Guard(op)]
                        /\ extra' = extra - 2
      /\ ~Widened(op) => code' = [code EXCEPT ![extra] = op] /\ extra' = extra - 1
  BY <1>op DEF ExpandInstruction
<1>r. \A i \in Nat : Place(i)' = Place(i)
  BY <1>f, FunctionRigid
<1>q. /\ \A i \in Nat : Place(i) \in Nat /\ i + 2 <= Place(i)
      /\ \A i, d \in Nat : d < i =>
            /\ Place(d) < Place(i)
            /\ Widened(function.code[i]) => Place(d) < Place(i) - 1
  BY <1>f, Places
<1>s. extra = Place(c - 1) + (IF Widened(op) THEN 2 ELSE 1)
  BY <1>f, <1>t, <1>x, Places
<1>y. extra = Place(c) /\ total = Place(n) /\ total <= Len(code)
  BY <1>x
<1>z. \A i \in 1..c : code[i] = function.code[i]
  BY <1>x
<1> HIDE DEF n, c, op
<1>p. /\ extra \in Nat /\ c + 2 <= extra
      /\ extra = Place(c - 1) + (IF Widened(op) THEN 2 ELSE 1)
      /\ Place(c - 1) \in Nat /\ c + 1 <= Place(c - 1)
  <2>1. extra \in Nat /\ c + 2 <= extra
    BY <1>q, <1>t, <1>y
  <2>2. Place(c - 1) \in Nat /\ c + 1 <= Place(c - 1)
    BY <1>q, <1>t
  <2> QED
    BY <1>s, <2>1, <2>2
<1>v. \A i \in Nat : c < i =>
         /\ Place(i) \in Nat /\ extra < Place(i)
         /\ Widened(function.code[i]) => extra < Place(i) - 1
  BY <1>q, <1>t, <1>y
<1>l. extra <= total /\ total \in Nat /\ Len(code) \in Nat
  <2>1. Place(n) \in Nat /\ (c < n => Place(c) < Place(n))
    BY <1>c, <1>q, <1>t
  <2>2. c = n \/ c < n
    BY <1>c, <1>t
  <2> QED
    BY <1>f, <1>p, <1>x, <1>y, <2>1, <2>2
<1>1. /\ code' \in Seq(Instruction) /\ Len(code') = Len(code)
      /\ code'[extra] = op
      /\ Widened(op) => code'[extra - 1] = Guard(op)
      /\ \A k \in 1..Len(code) : k # extra /\ (Widened(op) => k # extra - 1) => code'[k] = code[k]
  <2>1. extra \in 1..Len(code) /\ extra - 1 \in 1..Len(code) /\ extra # extra - 1
    BY <1>l, <1>p, <1>t, <1>x
  <2>2. Guard(op) \in Instruction
    BY GuardType
  <2>3. CASE Widened(op)
    <3> DEFINE first == [code EXCEPT ![extra] = op]
    <3>1. /\ first \in Seq(Instruction) /\ Len(first) = Len(code)
          /\ first[extra] = op
          /\ \A k \in 1..Len(code) : k # extra => first[k] = code[k]
      BY <1>c, <1>f, <2>1
    <3>2. code' = [first EXCEPT ![extra - 1] = Guard(op)]
      BY <1>w, <2>3
    <3> HIDE DEF first
    <3>3. /\ code' \in Seq(Instruction) /\ Len(code') = Len(first)
          /\ code'[extra - 1] = Guard(op)
          /\ \A k \in 1..Len(first) : k # extra - 1 => code'[k] = first[k]
      BY <2>1, <2>2, <3>1, <3>2
    <3> QED
      BY <2>1, <2>3, <3>1, <3>3
  <2>4. CASE ~Widened(op)
    BY <1>c, <1>f, <1>w, <2>1, <2>4
  <2> QED
    BY <2>3, <2>4
<1>2. extra' = Place(c - 1) /\ extra' \in Nat
  BY <1>p, <1>w
<1>3. \A i \in 1..(c - 1) : code'[i] = function.code[i]
  <2>1. ASSUME NEW i \in 1..(c - 1)
        PROVE  code'[i] = function.code[i]
    <3>1. i \in 1..Len(code) /\ i < extra - 1 /\ i \in 1..c
      BY <1>l, <1>p, <1>t, <1>y
    <3> QED
      BY <1>1, <1>p, <1>z, <3>1
  <2> QED
    BY <2>1
<1>4. ASSUME NEW i \in c..n
      PROVE  /\ code'[Place(i)] = function.code[i]
             /\ Widened(function.code[i]) => code'[Place(i) - 1] = Guard(function.code[i])
  <2>1. CASE i = c
    BY <1>1, <1>x, <2>1 DEF op, c
  <2>2. CASE i # c
    <3>1. i \in (cursor + 1)..n /\ i \in Nat /\ c < i
      BY <1>t, <1>c, <2>2 DEF c
    <3>2. /\ code[Place(i)] = function.code[i]
          /\ Widened(function.code[i]) => code[Place(i) - 1] = Guard(function.code[i])
      BY <1>x, <3>1 DEF Moved, n
    <3>3. Place(i) <= total
      <4>1. i = n \/ i < n
        BY <3>1, <1>c
      <4>2. n \in Nat /\ Place(i) \in Nat /\ Place(n) \in Nat
        BY <1>c, <1>q, <3>1
      <4>3. i < n => Place(i) < Place(n)
        BY <1>q, <3>1, <4>2
      <4> QED
        BY <1>y, <4>1, <4>2, <4>3
    <3>4. Place(i) \in 1..Len(code) /\ extra < Place(i)
      <4>1. Place(i) \in Nat /\ extra < Place(i)
        BY <1>q, <1>t, <1>y, <3>1
      <4> QED
        BY <1>l, <1>p, <1>y, <3>3, <4>1
    <3>5. Widened(function.code[i]) => Place(i) - 1 \in 1..Len(code) /\ extra < Place(i) - 1
      BY <1>p, <1>l, <1>v, <3>1, <3>4
    <3>6. code'[Place(i)] = code[Place(i)]
      BY <1>1, <1>p, <3>4
    <3>7. Widened(function.code[i]) => code'[Place(i) - 1] = code[Place(i) - 1]
      <4>1. \A k \in 1..Len(code) : extra < k => code'[k] = code[k]
        BY <1>1, <1>p
      <4> QED
        BY <3>5, <4>1
    <3> QED
      BY <3>2, <3>6, <3>7
  <2> QED
    BY <2>1, <2>2
<1>5. Moved(cursor + 1)'
  BY <1>4, <1>f, <1>r, <1>t, <1>c DEF Moved, n, c
<1>6. Filled(extra + 1, cursor + 1)'
  <2>1. ASSUME NEW k \in (extra' + 1)..total
        PROVE  \E i \in c..n : k = Place(i) \/ (Widened(function.code[i]) /\ k = Place(i) - 1)
    <3>1. CASE k <= extra
      <4>1. k = extra \/ (Widened(op) /\ k = extra - 1)
        BY <1>2, <1>p, <2>1, <3>1
      <4> QED
        BY <1>t, <1>x, <1>c, <4>1 DEF op, c
    <3>2. CASE extra < k
      <4>1. k \in (extra + 1)..total
        BY <1>2, <1>l, <1>p, <2>1, <3>2
      <4>2. PICK i \in (cursor + 1)..n :
               k = Place(i) \/ (Widened(function.code[i]) /\ k = Place(i) - 1)
        BY <1>e, <4>1 DEF Filled, n
      <4>3. i \in c..n
        BY <1>t, <1>c DEF c
      <4> QED
        BY <4>2, <4>3
    <3> QED
      BY <1>2, <1>p, <1>l, <2>1, <3>1, <3>2
  <2>2. cursor' + 1 = c /\ c..n \subseteq Nat
    BY <1>f, <1>t, <1>c DEF c
  <2> QED
    BY <1>f, <1>r, <2>1, <2>2 DEF Filled, n
<1>7. ExpansionExact'
  BY <1>1, <1>2, <1>3, <1>5, <1>f, <1>r, <1>t, <1>c, <1>x DEF ExpansionExact, n, c
<1>8. VerifierAgrees'
  BY <1>f DEF VerifierAgrees
<1>9. /\ required' = Cardinality(ManagedValues') + Cardinality(ManagedParameters')
      /\ required' > 0
  BY <1>e, <1>f, FunctionRigid
<1>10. count' = Len(function'.code) /\ rootCount' = 0 /\ cursor' \in 1..count'
  BY <1>e, <1>f, <1>t, <1>c DEF n, c
<1>11. \E i \in DOMAIN function'.code : Collecting(function'.code[i])
  BY <1>e, <1>f
<1> QED
  BY <1>1, <1>6, <1>7, <1>8, <1>9, <1>10, <1>11, <1>f DEF Inductive

LEMMA ExpandEntryStep ==
  ASSUME Inductive, ExpandEntry
  PROVE  Inductive'
<1> DEFINE n == Len(function.code)
<1>f. /\ function \in Functions /\ code \in Seq(Instruction) /\ phase = "expand"
      /\ cursor <= 1 /\ UNCHANGED <<function, runtime, cursor, extra, total, required>>
  BY DEF ExpandEntry, Inductive, loopVars
<1>e. /\ count = n /\ cursor \in 1..count
      /\ Filled(extra + 1, cursor + 1)
      /\ \E i \in DOMAIN function.code : Collecting(function.code[i])
      /\ required = Cardinality(ManagedValues) + Cardinality(ManagedParameters)
      /\ required > 0
  BY <1>f DEF Inductive
<1>c. function.code \in Seq(Instruction) /\ n \in Nat \ {0}
  BY <1>f, FunctionFacts
<1>1. cursor = 1
  BY <1>c, <1>e, <1>f
<1>x. /\ code[1] = function.code[1] /\ Moved(2)
      /\ extra = Place(1) /\ total = Place(n) /\ total <= Len(code)
  BY <1>1, <1>f DEF ExpansionExact, Inductive
<1>y. extra = Place(1) /\ total = Place(n) /\ total <= Len(code)
  BY <1>x
<1>q. /\ \A i \in Nat : Place(i) \in Nat /\ i + 2 <= Place(i)
      /\ Place(1) = 3
      /\ \A i, d \in Nat : d < i =>
            /\ Place(d) < Place(i)
            /\ Widened(function.code[i]) => Place(d) < Place(i) - 1
  BY <1>f, Places
<1>r. \A i \in Nat : Place(i)' = Place(i)
  BY <1>f, FunctionRigid
<1>2. extra = 3
  BY <1>q, <1>x
<1>3. /\ code' = [code EXCEPT ![2] = Control("init", NoRef), ![3] = Control("push", PushRoots)]
      /\ count' = total /\ rootCount' = required /\ phase' = "lowered"
  BY <1>2 DEF ExpandEntry
<1>i. PICK m \in 2..n : Collecting(function.code[m])
  <2>1. PICK i \in 1..n : Collecting(function.code[i])
    BY <1>c, <1>e
  <2>2. i # 1
    BY <1>f, <2>1, FunctionFacts DEF Collecting, IsEntry
  <2> QED
    BY <1>c, <2>1, <2>2
<1>n. n > 1 /\ n \in Nat /\ m \in Nat /\ 1 < m
  BY <1>c, <1>i
<1> HIDE DEF n
<1>p. ASSUME NEW j \in 2..n
      PROVE  /\ Place(j) \in Nat /\ 4 <= Place(j) /\ Place(j) <= total
             /\ Widened(function.code[j]) => 4 <= Place(j) - 1
  <2>1. j \in Nat /\ 1 < j /\ (j = n \/ j < n)
    BY <1>n
  <2>2. Place(j) \in Nat /\ Place(1) < Place(j) /\ Place(n) \in Nat
    BY <1>n, <1>q, <2>1
  <2>3. Widened(function.code[j]) => Place(1) < Place(j) - 1
    BY <1>n, <1>q, <2>1
  <2>4. j < n => Place(j) < Place(n)
    BY <1>n, <1>q, <2>1
  <2>5. Place(j) <= total
    BY <1>y, <2>1, <2>2, <2>4
  <2>6. Place(1) = 3
    BY <1>q
  <2> QED
    BY <2>2, <2>3, <2>5, <2>6
<1>4. /\ Control("init", NoRef) \in Instruction /\ Control("push", PushRoots) \in Instruction
  <2>1. {"init", "push"} \subseteq Kind /\ NoRef \in Nat /\ PushRoots \in Nat
    BY RootLoweringAssumption DEF Kind, PushRoots
  <2> QED
    BY <2>1, ControlType
<1>5. 4 <= total /\ total \in Nat /\ Len(code) \in Nat /\ 4 <= Len(code)
  <2>1. Place(n) \in Nat
    BY <1>n, <1>q
  <2>2. Place(m) \in Nat /\ 4 <= Place(m) /\ Place(m) <= total
    BY <1>i, <1>p
  <2> QED
    BY <1>f, <1>y, <2>1, <2>2
<1>6. /\ code' \in Seq(Instruction) /\ Len(code') = Len(code)
      /\ code'[1] = code[1]
      /\ code'[2] = Control("init", NoRef) /\ code'[3] = Control("push", PushRoots)
      /\ \A k \in 4..Len(code) : code'[k] = code[k]
  BY <1>3, <1>4, <1>5, <1>f
<1>7. ASSUME NEW j \in 2..n
      PROVE  /\ code'[Place(j)] = function.code[j]
             /\ Widened(function.code[j]) => code'[Place(j) - 1] = Guard(function.code[j])
  <2>1. /\ code[Place(j)] = function.code[j]
        /\ Widened(function.code[j]) => code[Place(j) - 1] = Guard(function.code[j])
    BY <1>x DEF Moved, n
  <2>2. /\ Place(j) \in 4..Len(code)
        /\ Widened(function.code[j]) => Place(j) - 1 \in 4..Len(code)
    BY <1>5, <1>p, <1>x
  <2> QED
    BY <1>6, <2>1, <2>2
<1>8. Moved(2)'
  BY <1>7, <1>f, <1>r, <1>n DEF Moved, n
<1>9. Filled(4, 2)'
  <2>1. Filled(4, 2)
    BY <1>1, <1>2, <1>e
  <2> QED
    BY <2>1, <1>f, <1>r, <1>n DEF Filled, n
<1>10. CollectingCall'
  <2>1. Place(m) \in 1..count' /\ Collecting(code'[Place(m)])
    <3>1. Place(m) \in Nat /\ 4 <= Place(m) /\ Place(m) <= total
      BY <1>i, <1>p
    <3>2. code'[Place(m)] = function.code[m]
      BY <1>7, <1>i
    <3> QED
      BY <1>3, <1>5, <1>i, <3>1, <3>2
  <2> QED
    BY <2>1 DEF CollectingCall, Collecting
<1>11. rootCount' = RequiredCount' /\ rootCount' > 0
  BY <1>3, <1>10, <1>e, <1>f, FunctionRigid DEF RequiredCount
<1>12. ExpansionExact'
  <2>1. count' = Place(n)' /\ count' <= Len(code')
    BY <1>3, <1>6, <1>f, <1>n, <1>r, <1>y DEF n
  <2> QED
    BY <1>3, <1>6, <1>8, <1>f, <1>x, <2>1 DEF ExpansionExact, n
<1>13. VerifierAgrees'
  BY <1>3 DEF VerifierAgrees
<1> QED
  BY <1>3, <1>6, <1>9, <1>11, <1>12, <1>13, <1>f, <1>n DEF Inductive, n

\* Everything the lifetime rules ask of the expanded function holds unless the
\* function jumps back to its entry.
LEMMA LoweredIsValid ==
  ASSUME Inductive, phase = "lowered", rootCount > 0, EntryJumps = {},
         NEW k \in 1..count
  PROVE  LifetimeValid(k) /\ ShapeValid(k)
<1> DEFINE n == Len(function.code)
<1>f. /\ function \in Functions /\ count = total /\ Filled(4, 2)
  BY DEF Inductive, Untouched
<1>x. /\ code[1] = function.code[1]
      /\ code[2] = Control("init", NoRef) /\ code[3] = Control("push", PushRoots)
      /\ Moved(2) /\ count = Place(n)
  BY DEF Inductive, ExpansionExact
<1>c. /\ function.code \in Seq(Instruction) /\ n \in Nat \ {0} /\ IsEntry(function.code[1])
      /\ \A i \in 1..n : function.code[i].kind \notin RootKind
  BY <1>f, FunctionFacts
<1>q. /\ \A i \in Nat : Place(i) \in Nat /\ i + 2 <= Place(i)
      /\ \A i, d \in Nat : d < i =>
            /\ Place(d) < Place(i)
            /\ Widened(function.code[i]) => Place(d) < Place(i) - 1
  BY <1>f, Places
<1>k. k \in Nat /\ count \in Nat
  <2>1. Place(n) \in Nat
    BY <1>c, <1>q
  <2> QED
    BY <1>x, <2>1
<1>1. CASE k = 1
  <2>1. code[k].kind = "label"
    BY <1>1, <1>c, <1>x DEF IsEntry
  <2> QED
    BY <1>1, <2>1 DEF LifetimeValid, ShapeValid, RootKind
<1>2. CASE k = 2 \/ k = 3
  <2>1. code[2].kind = "init" /\ code[3].kind = "push"
    BY <1>x DEF Control
  <2>2. ShapeValid(k)
    BY <1>2, <1>x DEF ShapeValid, Control, Callee
  <2> QED
    BY <1>2, <2>1, <2>2 DEF LifetimeValid
<1>3. CASE k > 3
  <2>1. PICK i \in 2..n : k = Place(i) \/ (Widened(function.code[i]) /\ k = Place(i) - 1)
    BY <1>3, <1>f, <1>k DEF Filled
  <2>2. i \in Nat /\ i \in 1..n /\ i \in DOMAIN function.code
    BY <1>c, <2>1
  <2>3. /\ code[Place(i)] = function.code[i]
        /\ Widened(function.code[i]) => code[Place(i) - 1] = Guard(function.code[i])
    BY <1>x DEF Moved
  <2>4. Place(i) \in Nat /\ Place(i) <= count
    <3>1. i = n \/ i < n
      BY <1>c, <2>1
    <3>2. n \in Nat /\ Place(i) \in Nat /\ Place(n) \in Nat
      BY <1>c, <1>q, <2>2
    <3>3. i < n => Place(i) < Place(n)
      BY <1>q, <2>2, <3>2
    <3> QED
      BY <1>x, <3>1, <3>2, <3>3
  <2>5. CASE k = Place(i)
    <3>1. code[k] = function.code[i] /\ code[k].kind \notin RootKind
      BY <1>c, <2>2, <2>3, <2>5
    <3>2. Widened(code[k]) => code[k - 1].kind = IF code[k].kind = "call" THEN "sync" ELSE "pop"
      BY <2>3, <2>5, <3>1, GuardType
    <3>3. /\ code[k].kind = "jump" => code[k].target # 1
          /\ code[k].kind = "branch" => code[k].target # 1 /\ code[k].right # 1
      BY <2>2, <3>1 DEF EntryJumps
    <3> QED
      BY <1>3, <1>k, <3>1, <3>2, <3>3 DEF LifetimeValid, ShapeValid, Widened, RootKind
  <2>6. CASE Widened(function.code[i]) /\ k = Place(i) - 1
    <3>1. /\ code[k].kind = IF function.code[i].kind = "call" THEN "sync" ELSE "pop"
          /\ code[k + 1] = function.code[i] /\ k < count
      BY <1>k, <2>3, <2>4, <2>6, GuardType
    <3>2. ShapeValid(k)
      BY <2>3, <2>6 DEF ShapeValid, Guard, Control, Callee
    <3> QED
      BY <1>3, <1>k, <2>6, <3>1, <3>2 DEF LifetimeValid, Widened
  <2> QED
    BY <2>1, <2>5, <2>6
<1> QED
  BY <1>1, <1>2, <1>3, <1>k

\* The input is a valid body.
LEMMA InputBody ==
  ASSUME function \in Functions
  PROVE  BodyValid(function.code, Len(function.code), function.types)
  BY RootLoweringAssumption

\* An untouched function is as valid as the input.
LEMMA UntouchedBody ==
  ASSUME function \in Functions, Untouched
  PROVE  BodyValid(code, count, function.types)
<1> DEFINE n == Len(function.code)
<1>1. count = n /\ n \in Nat /\ \A i \in 1..n : code[i] = function.code[i]
  BY FunctionFacts DEF Untouched
<1>2. \A l : BoundAt(code, n, l) = BoundAt(function.code, n, l)
  BY <1>1 DEF BoundAt
<1>3. \A i \in 1..n : InstructionValid(function.code, n, function.types, i)
  BY InputBody DEF BodyValid
<1> HIDE DEF n
<1>4. ASSUME NEW i \in 1..n
      PROVE  InstructionValid(code, n, function.types, i)
  <2>1. i = n \/ (i + 1 \in 1..n /\ code[i + 1] = function.code[i + 1])
    BY <1>1
  <2> QED
    BY <1>1, <1>2, <1>3, <2>1 DEF InstructionValid
<1> QED
  BY <1>1, <1>4 DEF BodyValid

\* Where the instructions of the expanded function come from.
Origin(k, i) ==
    /\ i \in 2..Len(function.code)
    /\ \/ k = Place(i) /\ code[k] = function.code[i]
       \/ /\ k = Place(i) - 1 /\ Widened(function.code[i])
          /\ code[k] = Guard(function.code[i]) /\ code[k + 1] = function.code[i]
LEMMA Origins ==
  ASSUME Inductive, phase = "lowered", rootCount > 0
  PROVE  /\ count \in Nat /\ 3 < count /\ count = Place(Len(function.code))
         /\ Len(function.code) \in Nat /\ 1 < Len(function.code)
         /\ code[1] = function.code[1]
         /\ code[2] = Control("init", NoRef) /\ code[3] = Control("push", PushRoots)
         /\ \A k \in 4..count : \E i \in 2..Len(function.code) : Origin(k, i)
         /\ \A i \in 2..Len(function.code) :
               /\ Place(i) \in 4..count /\ code[Place(i)] = function.code[i]
               /\ i = Len(function.code) <=> Place(i) = count
<1> DEFINE n == Len(function.code)
<1>f. /\ function \in Functions /\ count = total /\ Filled(4, 2) /\ n > 1
  BY DEF Inductive, Untouched
<1>x. /\ code[1] = function.code[1]
      /\ code[2] = Control("init", NoRef) /\ code[3] = Control("push", PushRoots)
      /\ Moved(2) /\ count = Place(n)
  BY DEF Inductive, ExpansionExact
<1>n. n \in Nat
  BY <1>f, FunctionFacts
<1>q. /\ \A i \in Nat : Place(i) \in Nat /\ i + 2 <= Place(i)
      /\ \A i, d \in Nat : d < i => Place(d) < Place(i)
  BY <1>f, Places
<1> HIDE DEF n
<1>c. count \in Nat /\ n + 2 <= count
  BY <1>n, <1>q, <1>x
<1>1. ASSUME NEW k \in 4..count
      PROVE  \E i \in 2..n : Origin(k, i)
  <2>1. PICK i \in 2..n : k = Place(i) \/ (Widened(function.code[i]) /\ k = Place(i) - 1)
    BY <1>f, <1>c DEF Filled, n
  <2>2. /\ code[Place(i)] = function.code[i]
        /\ Widened(function.code[i]) => code[Place(i) - 1] = Guard(function.code[i])
    BY <1>x, <2>1 DEF Moved, n
  <2>3. i \in Nat /\ Place(i) \in Nat
    BY <1>n, <1>q, <2>1
  <2> QED
    BY <2>1, <2>2, <2>3 DEF Origin, n
<1>2. ASSUME NEW i \in 2..n
      PROVE  /\ Place(i) \in 4..count /\ code[Place(i)] = function.code[i]
             /\ i = n <=> Place(i) = count
  <2>1. i \in Nat /\ Place(i) \in Nat /\ i + 2 <= Place(i)
    BY <1>n, <1>q
  <2>2. i < n => Place(i) < count
    BY <1>n, <1>q, <1>x, <2>1
  <2>3. i = n => Place(i) = count
    BY <1>x
  <2>4. code[Place(i)] = function.code[i]
    BY <1>x DEF Moved, n
  <2> QED
    BY <1>n, <1>c, <2>1, <2>2, <2>3, <2>4
<1>3. count \in Nat /\ 3 < count /\ n \in Nat /\ 1 < n
  <2>1. n > 1
    BY <1>f DEF n
  <2> QED
    BY <1>c, <1>n, <2>1
<1>4. /\ count = Place(n) /\ code[1] = function.code[1]
      /\ code[2] = Control("init", NoRef) /\ code[3] = Control("push", PushRoots)
  BY <1>x
<1> QED
  BY <1>1, <1>2, <1>3, <1>4, Zenon DEF n

\* The expansion keeps labels bound once, where their instruction went.
LEMMA LabelsKept ==
  ASSUME Inductive, phase = "lowered", rootCount > 0,
         NEW l
  PROVE  /\ BoundAt(function.code, Len(function.code), l) # {} => BoundAt(code, count, l) # {}
         /\ \A k \in BoundAt(code, count, l) :
               \/ k = 1 /\ 1 \in BoundAt(function.code, Len(function.code), l)
               \/ \E i \in BoundAt(function.code, Len(function.code), l) : k = Place(i) /\ i > 1
<1> DEFINE n == Len(function.code)
<1>o. /\ count \in Nat /\ 3 < count /\ n \in Nat /\ 1 < n
      /\ code[1] = function.code[1]
      /\ code[2] = Control("init", NoRef) /\ code[3] = Control("push", PushRoots)
      /\ \A k \in 4..count : \E i \in 2..n : Origin(k, i)
      /\ \A i \in 2..n : Place(i) \in 4..count /\ code[Place(i)] = function.code[i]
  BY Origins, Zenon
<1> HIDE DEF n
<1>1. ASSUME NEW i \in BoundAt(function.code, n, l)
      PROVE  BoundAt(code, count, l) # {}
  <2>1. i \in 1..n /\ function.code[i].kind = "label" /\ function.code[i].target = l
    BY DEF BoundAt
  <2>2. CASE i = 1
    BY <1>o, <2>1, <2>2 DEF BoundAt
  <2>3. CASE i \in 2..n
    <3>1. Place(i) \in 1..count /\ code[Place(i)] = function.code[i]
      BY <1>o, <2>3
    <3>2. Place(i) \in BoundAt(code, count, l)
      BY <2>1, <3>1 DEF BoundAt
    <3> QED
      BY <3>2
  <2> QED
    BY <1>o, <2>1, <2>2, <2>3
<1>2. ASSUME NEW k \in BoundAt(code, count, l)
      PROVE  \/ k = 1 /\ 1 \in BoundAt(function.code, n, l)
             \/ \E i \in BoundAt(function.code, n, l) : k = Place(i) /\ i > 1
  <2>1. k \in 1..count /\ code[k].kind = "label" /\ code[k].target = l
    BY DEF BoundAt
  <2>2. CASE k = 1
    BY <1>o, <2>1, <2>2 DEF BoundAt
  <2>3. CASE k \in 2..3
    BY <1>o, <2>1, <2>3 DEF Control
  <2>4. CASE k \in 4..count
    <3>1. PICK i \in 2..n : Origin(k, i)
      BY <1>o, <2>4
    <3>2. k = Place(i) /\ code[k] = function.code[i]
      BY <2>1, <3>1, GuardType DEF Origin
    <3>3. i \in 1..n /\ i > 1
      BY <1>o, <3>1
    <3>4. i \in BoundAt(function.code, n, l)
      BY <2>1, <3>2, <3>3 DEF BoundAt
    <3> QED
      BY <3>2, <3>3, <3>4
  <2> QED
    BY <1>o, <2>1, <2>2, <2>3, <2>4
<1> QED
  BY <1>1, <1>2 DEF n

\* The expansion keeps the body valid: the operations it adds are neither
\* labels nor terminators and never come between a terminator and a label.
LEMMA BodyKept ==
  ASSUME Inductive, phase = "lowered", rootCount > 0, NEW k \in 1..count
  PROVE  InstructionValid(code, count, function.types, k)
<1> DEFINE n == Len(function.code)
           B(l) == BoundAt(function.code, n, l)
<1>f. function \in Functions /\ NoRef = 0
  BY RootLoweringAssumption DEF Inductive
<1>o. /\ count \in Nat /\ 3 < count /\ n \in Nat /\ 1 < n
      /\ code[1] = function.code[1]
      /\ code[2] = Control("init", NoRef) /\ code[3] = Control("push", PushRoots)
      /\ \A j \in 4..count : \E i \in 2..n : Origin(j, i)
      /\ \A i \in 2..n : /\ Place(i) \in 4..count /\ code[Place(i)] = function.code[i]
                         /\ i = n <=> Place(i) = count
  BY Origins
<1>b. \A i \in 1..n : InstructionValid(function.code, n, function.types, i)
  BY <1>f, InputBody DEF BodyValid
<1>e. function.code[1].kind = "label" /\ function.code[1].target = 1
  BY <1>f, FunctionFacts DEF IsEntry
<1>p. /\ \A i \in Nat : Place(i) \in Nat
      /\ \A i \in Nat : i > 0 =>
            Place(i) = Place(i - 1) + (IF Widened(function.code[i]) THEN 2 ELSE 1)
      /\ Place(1) = 3
  BY <1>f, Places
<1>l. \A l : /\ B(l) # {} => BoundAt(code, count, l) # {}
             /\ \A j \in BoundAt(code, count, l) :
                   \/ j = 1 /\ 1 \in B(l)
                   \/ \E i \in B(l) : j = Place(i) /\ i > 1
  BY LabelsKept
<1> HIDE DEF n
<1>s. ASSUME NEW i \in 1..n, i < n
      PROVE  /\ i + 1 \in 2..n
             /\ code[Place(i) + 1].kind = "label" <=> function.code[i + 1].kind = "label"
  <2>1. i + 1 \in 2..n /\ i + 1 \in Nat /\ Place(i) \in Nat /\ (i + 1) - 1 = i
    BY <1>o, <1>p, <1>s
  <2>2. Place(i + 1) = Place(i) + (IF Widened(function.code[i + 1]) THEN 2 ELSE 1)
    BY <1>p, <2>1
  <2>3. code[Place(i + 1)] = function.code[i + 1] /\ Place(i + 1) \in 4..count
    BY <1>o, <2>1
  <2>4. CASE ~Widened(function.code[i + 1])
    BY <2>1, <2>2, <2>3, <2>4
  <2>5. CASE Widened(function.code[i + 1])
    <3>1. Place(i) + 1 = Place(i + 1) - 1 /\ Place(i) + 1 \in Nat
      BY <2>1, <2>2, <2>5
    <3>2. code[Place(i + 1) - 1] = Guard(function.code[i + 1])
      BY <2>1, <2>5 DEF Inductive, ExpansionExact, Moved, n
    <3> QED
      BY <2>1, <2>5, <3>1, <3>2, GuardType DEF Widened
  <2> QED
    BY <2>1, <2>4, <2>5
<1>1. CASE k = 1
  <2>1. InstructionValid(function.code, n, function.types, 1) /\ 1 \in 1..n
    BY <1>b, <1>o
  <2>2. B(1) = {1} /\ code[1].kind = "label" /\ code[1].target = 1 /\ code[1].destination = NoRef
    BY <1>e, <1>o, <2>1 DEF InstructionValid
  <2>3. BoundAt(code, count, 1) = {1}
    <3>1. 1 \in BoundAt(code, count, 1)
      BY <1>o, <2>2 DEF BoundAt
    <3>2. \A j \in BoundAt(code, count, 1) : j = 1
      BY <1>l, <2>2
    <3> QED
      BY <3>1, <3>2
  <2>4. code[2].kind = "init"
    BY <1>o DEF Control
  <2> QED
    BY <1>1, <1>o, <2>2, <2>3, <2>4 DEF InstructionValid, Terminal
<1>2. CASE k = 2
  <2>1. code[2].kind = "init" /\ code[2].destination = NoRef /\ code[3].kind = "push"
    BY <1>o DEF Control
  <2> QED
    BY <1>2, <1>o, <2>1 DEF InstructionValid, Terminal
<1>3. CASE k = 3
  <2>1. code[3].kind = "push" /\ code[3].destination = NoRef
    BY <1>o DEF Control
  <2>2. function.code[2].kind # "label"
    <3>1. InstructionValid(function.code, n, function.types, 1) /\ 1 \in 1..n
      BY <1>b, <1>o
    <3> QED
      BY <1>e, <1>o, <3>1 DEF InstructionValid, Terminal
  <2>3. code[4].kind # "label"
    BY <1>o, <1>p, <1>s, <2>2
  <2> QED
    BY <1>3, <1>o, <2>1, <2>3 DEF InstructionValid, Terminal
<1>4. CASE k \in 4..count
  <2>1. PICK i \in 2..n : Origin(k, i)
    BY <1>4, <1>o
  <2>2. i \in 1..n /\ InstructionValid(function.code, n, function.types, i)
        /\ i \in Nat /\ Place(i) \in Nat
    BY <1>b, <1>o, <1>p, <2>1
  <2>3. CASE k = Place(i) /\ code[k] = function.code[i]
    <3>1. code[k].kind \in Terminal <=> k = count \/ code[k + 1].kind = "label"
      <4>1. CASE i = n
        BY <1>o, <2>1, <2>2, <2>3, <4>1 DEF InstructionValid
      <4>2. CASE i < n
        <5>1. k # count
          BY <1>o, <2>1, <2>3, <4>2
        <5>2. code[k + 1].kind = "label" <=> function.code[i + 1].kind = "label"
          BY <1>s, <2>2, <2>3, <4>2
        <5> QED
          BY <2>2, <2>3, <4>2, <5>1, <5>2 DEF InstructionValid
      <4> QED
        BY <1>o, <2>1, <4>1, <4>2
    <3>2. ASSUME code[k].kind = "label"
          PROVE  BoundAt(code, count, code[k].target) = {k}
      <4>1. B(code[k].target) = {i}
        BY <2>2, <2>3, <3>2 DEF InstructionValid, n
      <4>2. k \in BoundAt(code, count, code[k].target)
        BY <3>2 DEF BoundAt
      <4>3. ASSUME NEW j \in BoundAt(code, count, code[k].target)
            PROVE  j = k
        <5>1. \/ j = 1 /\ 1 \in B(code[k].target)
              \/ \E m \in B(code[k].target) : j = Place(m) /\ m > 1
          BY <1>l
        <5>2. 1 \notin B(code[k].target)
          BY <1>o, <2>1, <4>1
        <5> QED
          BY <2>3, <4>1, <5>1, <5>2
      <4> QED
        BY <4>2, <4>3
    <3>3. /\ code[k].kind \in {"jump", "branch"} => BoundAt(code, count, code[k].target) # {}
          /\ code[k].kind = "branch" => BoundAt(code, count, code[k].right) # {}
      BY <1>l, <2>2, <2>3 DEF InstructionValid, n
    <3>4. IF code[k].kind \in {"value", "call"}
          THEN /\ code[k].destination \in DOMAIN function.types
               /\ function.types[code[k].destination] # "chain"
          ELSE code[k].destination = NoRef
      BY <2>2, <2>3 DEF InstructionValid
    <3> QED
      BY <3>1, <3>2, <3>3, <3>4 DEF InstructionValid
  <2>4. CASE /\ k = Place(i) - 1 /\ Widened(function.code[i])
             /\ code[k] = Guard(function.code[i]) /\ code[k + 1] = function.code[i]
    <3>1. code[k].kind \in {"sync", "pop"} /\ code[k].destination = NoRef
      BY <2>4 DEF Guard, Control
    <3>2. code[k + 1].kind # "label" /\ k # count
      BY <1>o, <2>1, <2>2, <2>4 DEF Widened
    <3> QED
      BY <3>1, <3>2 DEF InstructionValid, Terminal
  <2> QED
    BY <2>1, <2>3, <2>4 DEF Origin
<1> QED
  BY <1>1, <1>2, <1>3, <1>4, <1>o

LEMMA VerifyStep ==
  ASSUME Inductive, Verify
  PROVE  Inductive'
<1>f. /\ function \in Functions /\ code \in Seq(Instruction) /\ phase = "lowered"
      /\ UNCHANGED <<function, runtime, code, count, rootCount>>
      /\ phase' = IF FunctionValid THEN "verified" ELSE "failed"
  BY DEF Verify, Inductive, passVars, arenaVars
<1>1. RequiredCount' = RequiredCount /\ EntryJumps' = EntryJumps
  BY <1>f, FunctionRigid DEF RequiredCount, CollectingCall
<1>c. /\ IsEntry(function.code[1]) /\ Len(function.code) \in Nat \ {0}
      /\ \A i \in 1..Len(function.code) : function.code[i].kind \notin RootKind
  BY <1>f, FunctionFacts
<1>2. ASSUME EntryJumps = {}
      PROVE  FunctionValid
  <2>1. CASE Untouched /\ RequiredCount = 0
    <3>1. RootsValid
      BY <1>f, <2>1, UntouchedCounts DEF RootsValid, Untouched
    <3>2. BodyValid(code, count, function.types)
      BY <1>f, <1>c, <2>1, UntouchedBody
    <3> QED
      BY <1>c, <2>1, <3>1, <3>2 DEF FunctionValid, ShapeValid, Untouched
  <2>2. CASE /\ rootCount > 0 /\ rootCount = RequiredCount
             /\ count = total /\ Len(function.code) > 1
    <3>1. \A k \in 1..count : LifetimeValid(k) /\ ShapeValid(k)
      BY <1>2, <1>f, <2>2, LoweredIsValid
    <3>2. count = Place(Len(function.code))
      BY <1>f, <2>2 DEF Inductive, ExpansionExact
    <3>3. Len(function.code) \in Nat
      BY <1>f, FunctionFacts
    <3>4. 4 <= count
      <4>1. /\ Place(Len(function.code)) \in Nat
            /\ Len(function.code) + 2 <= Place(Len(function.code))
        BY <1>f, <3>3, Places
      <4> QED
        BY <2>2, <3>2, <3>3, <4>1
    <3>5. IsEntry(code[1])
      BY <1>c, <1>f, <2>2 DEF Inductive, ExpansionExact
    <3>6. BodyValid(code, count, function.types)
      BY <1>f, <2>2, BodyKept DEF BodyValid
    <3> QED
      BY <2>2, <3>1, <3>4, <3>5, <3>6 DEF FunctionValid, RootsValid
  <2> QED
    BY <1>f, <2>1, <2>2 DEF Inductive
<1>3. ASSUME RootsValid, RequiredCount # 0, NEW i \in EntryJumps
      PROVE  FALSE
  <2> DEFINE n == Len(function.code)
  <2>1. ~Untouched \/ RequiredCount # 0
    BY <1>3
  <2>2. /\ rootCount > 0 /\ count = total
    BY <1>3, <1>f, <2>1 DEF Inductive
  <2>3. Moved(2) /\ count = Place(n)
    BY <1>f, <2>2 DEF Inductive, ExpansionExact
  <2>4. function.code \in Seq(Instruction) /\ n \in Nat /\ IsEntry(function.code[1])
    BY <1>f, FunctionFacts
  <2>5. i \in 2..n
    <3>1. i \in 1..n /\ function.code[i].kind # "label"
      BY <2>4 DEF EntryJumps
    <3> QED
      BY <2>4, <3>1 DEF IsEntry
  <2>6. code[Place(i)] = function.code[i]
    BY <2>3, <2>5 DEF Moved
  <2>7. Place(i) \in 1..count
    <3>p. /\ \A k \in Nat : Place(k) \in Nat /\ k + 2 <= Place(k)
          /\ \A k, c \in Nat : c < k => Place(c) < Place(k)
      BY <1>f, Places
    <3>r. i \in Nat
      BY <2>4, <2>5
    <3> HIDE DEF n
    <3>a. Place(i) \in Nat /\ i + 2 <= Place(i) /\ Place(n) \in Nat
      BY <3>p, <3>r, <2>4
    <3>b. i < n => Place(i) < Place(n)
      BY <3>p, <3>r, <2>4
    <3>1. /\ Place(i) \in Nat /\ 1 <= Place(i) /\ Place(n) \in Nat
          /\ i < n => Place(i) < Place(n)
      BY <3>a, <3>b, <3>r
    <3>2. i = n \/ i < n
      BY <2>4, <2>5
    <3> QED
      BY <2>3, <3>1, <3>2
  <2>8. LifetimeValid(Place(i))
    BY <1>3, <2>2, <2>7 DEF RootsValid
  <2> QED
    BY <2>6, <2>8 DEF LifetimeValid, EntryJumps
<1>4. VerifierAgrees'
  <2>1. phase' = "failed" => EntryJumps # {}
    BY <1>2, <1>f
  <2>2. phase' = "verified" => RequiredCount = 0 \/ (rootCount = RequiredCount /\ EntryJumps = {})
    BY <1>3, <1>f DEF FunctionValid, RootsValid
  <2> QED
    BY <1>1, <1>f, <2>1, <2>2 DEF VerifierAgrees
<1> QED
  BY <1>4, <1>f DEF Inductive, ExpansionExact

\* The emitted function changes nothing the invariant is about.
LEMMA ExecuteStep ==
  ASSUME Inductive, Execute
  PROVE  Inductive'
<1>1. /\ UNCHANGED <<function, code>>
      /\ phase' \in {"running", "returned", "aborted"}
  BY DEF Execute, Enter, InitializeRoots, EnterRoots, LeaveRoots, Compute, Transfer,
         passVars, arenaVars
<1> QED
  BY <1>1 DEF Inductive, ExpansionExact, VerifierAgrees

LEMMA InitInductive ==
  ASSUME Init
  PROVE  Inductive
<1> DEFINE n == Len(function.code)
<1>1. function \in Functions /\ phase = "lower" /\ count = n /\ rootCount = 0
  BY DEF Init
<1>2. /\ function.code \in Seq(Instruction) /\ n \in Nat
      /\ \A i \in 1..n : function.code[i] \in Instruction
  BY <1>1, FunctionFacts
<1>3. PICK spare \in Nat :
         code = [i \in 1..(n + spare) |->
                   IF i <= n THEN function.code[i] ELSE Control("label", NoRef)]
  BY RootLoweringAssumption DEF Init
<1>4. Control("label", NoRef) \in Instruction
  <2>1. "label" \in Kind /\ NoRef \in Nat
    BY RootLoweringAssumption DEF Kind
  <2> QED
    BY <2>1, ControlType
<1> HIDE DEF n
<1>5. \A i \in 1..(n + spare) :
         (IF i <= n THEN function.code[i] ELSE Control("label", NoRef)) \in Instruction
  BY <1>2, <1>4
<1>6. code \in [1..(n + spare) -> Instruction] /\ n + spare \in Nat
  BY <1>2, <1>3, <1>5
<1>7. code \in Seq(Instruction) /\ Len(code) = n + spare
  BY <1>6
<1>8. Untouched
  BY <1>1, <1>2, <1>3, <1>7 DEF Untouched, n
<1> QED
  BY <1>1, <1>7, <1>8 DEF Inductive, ExpansionExact, VerifierAgrees

\* The inductive invariant of the pass holds in every state.
THEOREM LoweringInvariant == Spec => []Inductive
<1>1. Init => Inductive
  BY InitInductive
<1>2. Inductive /\ [Next]_vars => Inductive'
  <2> SUFFICES ASSUME Inductive, [Next]_vars PROVE Inductive'
    OBVIOUS
  <2>1. CASE Pass
    BY <2>1, LowerStep, ExpandInstructionStep, ExpandEntryStep, VerifyStep DEF Pass
  <2>2. CASE Execute
    BY <2>2, ExecuteStep
  <2>3. CASE UNCHANGED vars
    <3>1. UNCHANGED <<function, runtime, code, count, rootCount, cursor, extra, total,
                      required, phase>>
      BY <2>3 DEF vars, passVars, arenaVars, loopVars
    <3>2. /\ ManagedValues' = ManagedValues /\ ManagedParameters' = ManagedParameters
          /\ EntryJumps' = EntryJumps
      BY <3>1, FunctionRigid
    <3>3. Untouched' = Untouched
      BY <3>1 DEF Untouched
    <3>4. RequiredCount' = RequiredCount
      BY <3>1, <3>2 DEF RequiredCount, CollectingCall
    <3>5. ExtraInstructions' = ExtraInstructions
      BY <3>1 DEF ExtraInstructions
    <3>6. VerifierAgrees'
      BY <3>1, <3>2, <3>4, <3>5 DEF Inductive, VerifierAgrees
    <3>7. ExpansionExact'
      BY <3>1 DEF Inductive, ExpansionExact, Moved, Place
    <3>8. Filled(extra + 1, cursor + 1)' = Filled(extra + 1, cursor + 1)
      BY <3>1 DEF Filled, Place
    <3>9. Filled(4, 2)' = Filled(4, 2)
      BY <3>1 DEF Filled, Place
    <3> QED
      BY <3>1, <3>2, <3>3, <3>4, <3>6, <3>7, <3>8, <3>9 DEF Inductive
  <2> QED
    BY <2>1, <2>2, <2>3 DEF Next
<1> QED
  BY <1>1, <1>2, PTL DEF Spec

\* native_root_expand_function loses no instruction of any function: it writes
\* over none it has not read, stays inside the array, and leaves every call and
\* return with its root operation in front of it.
THEOREM ExpansionLosesNothing == Spec => []ExpansionExact
<1>1. Inductive => ExpansionExact
  BY DEF Inductive
<1> QED
  BY <1>1, LoweringInvariant, PTL

\* lir_verify_function refuses what the pass made of no function except one
\* that jumps to its own entry, and accepts none that needs a frame without it.
THEOREM VerifierAgreesWithPass == Spec => []VerifierAgrees
<1>1. Inductive => VerifierAgrees
  BY DEF Inductive
<1> QED
  BY <1>1, LoweringInvariant, PTL


-----------------------------------------------------------------------------
(* The emitted function *)

\* The position of an element in a finite set of numbers.
Rank(S, v) == Cardinality({w \in S : w < v})

\* Ranks are below the size of the set and differ.
LEMMA Ranks ==
  ASSUME NEW n \in Nat, NEW S, S \subseteq 1..n
  PROVE  /\ IsFiniteSet(S) /\ Cardinality(S) \in Nat
         /\ \A v \in S : Rank(S, v) \in Nat /\ Rank(S, v) < Cardinality(S)
         /\ \A v, w \in S : v # w => Rank(S, v) # Rank(S, w)
<1>0. IsFiniteSet(1..n) /\ \A v \in S : v \in Int
  BY FS_Interval
<1>1. IsFiniteSet(S)
  BY <1>0, FS_Subset
<1>2. Cardinality(S) \in Nat
  BY <1>1, FS_CardinalityType
<1>3. ASSUME NEW v \in S
      PROVE  /\ IsFiniteSet({w \in S : w < v}) /\ Rank(S, v) \in Nat
             /\ Cardinality({w \in S : w < v} \cup {v}) = Rank(S, v) + 1
             /\ IsFiniteSet({w \in S : w < v} \cup {v})
  <2>1. IsFiniteSet({w \in S : w < v}) /\ v \notin {w \in S : w < v}
    BY <1>1, FS_Subset
  <2> QED
    BY <2>1, FS_AddElement, FS_CardinalityType DEF Rank
<1>4. ASSUME NEW v \in S
      PROVE  Rank(S, v) < Cardinality(S)
  <2>1. Cardinality({w \in S : w < v} \cup {v}) <= Cardinality(S)
    BY <1>1, FS_Subset
  <2>2. Rank(S, v) \in Nat /\ Cardinality({w \in S : w < v} \cup {v}) = Rank(S, v) + 1
    BY <1>3
  <2> QED
    BY <1>2, <2>1, <2>2
<1>5. ASSUME NEW v \in S, NEW w \in S, v < w
      PROVE  Rank(S, v) < Rank(S, w)
  <2>0. \A u \in S : u \in Int /\ (u < v => u < w)
    <3>1. v \in Int /\ w \in Int
      BY <1>0
    <3> QED
      BY <1>0, <1>5, <3>1
  <2>1. {u \in S : u < v} \cup {v} \subseteq {u \in S : u < w}
    BY <1>5, <2>0, Zenon
  <2>2. Cardinality({u \in S : u < v} \cup {v}) <= Cardinality({u \in S : u < w})
    BY <1>3, <2>1, FS_Subset
  <2>3. Cardinality({u \in S : u < w}) = Rank(S, w)
    BY DEF Rank
  <2>4. /\ Rank(S, v) \in Nat /\ Rank(S, w) \in Nat
        /\ Cardinality({u \in S : u < v} \cup {v}) = Rank(S, v) + 1
    BY <1>3
  <2> QED
    BY <2>2, <2>3, <2>4
<1>6. ASSUME NEW v \in S, NEW w \in S, v # w
      PROVE  Rank(S, v) # Rank(S, w)
  <2>1. v < w \/ w < v
    BY <1>0, <1>6
  <2>2. Rank(S, v) \in Nat /\ Rank(S, w) \in Nat
    BY <1>3
  <2> QED
    BY <1>5, <2>1, <2>2
<1> QED
  BY <1>1, <1>2, <1>3, <1>4, <1>6

\* The layout of the frame: registers, shadows of registers, shadows of
\* parameters and header words are different slots.
Values == Len(function.types)
IsRegister(s) == s \in 1..Values
Layout ==
    /\ Values \in Nat /\ FrameSlots \in Nat /\ HeaderSlot \in 1..FrameSlots
    /\ \A v \in ManagedValues : IsRegister(v)
    /\ \A v \in ManagedValues :
          /\ ShadowSlot(ShadowIndex(v)) \in 1..FrameSlots
          /\ ~IsRegister(ShadowSlot(ShadowIndex(v)))
          /\ ShadowSlot(ShadowIndex(v)) < HeaderSlot - 2
          /\ ShadowIndex(v) \in 0..(rootCount - 1)
    /\ \A v, w \in ManagedValues :
          v # w => ShadowSlot(ShadowIndex(v)) # ShadowSlot(ShadowIndex(w))
    /\ \A p \in ManagedParameters :
          /\ ShadowSlot(ParameterIndex(p)) \in 1..FrameSlots
          /\ ~IsRegister(ShadowSlot(ParameterIndex(p)))
          /\ ShadowSlot(ParameterIndex(p)) < HeaderSlot - 2
          /\ ParameterIndex(p) \in 0..(rootCount - 1)
    /\ \A p, q \in ManagedParameters :
          p # q => ShadowSlot(ParameterIndex(p)) # ShadowSlot(ParameterIndex(q))
    /\ \A v \in ManagedValues : \A p \in ManagedParameters :
          ShadowSlot(ShadowIndex(v)) # ShadowSlot(ParameterIndex(p))
    /\ \A s : IsRegister(s) => s \in 1..FrameSlots /\ s < HeaderSlot - 2
    /\ HeaderSlot - 1 \in 1..FrameSlots /\ HeaderSlot - 2 \in 1..FrameSlots

LEMMA LayoutHolds ==
  ASSUME function \in Functions, rootCount > 0,
         rootCount = Cardinality(ManagedValues) + Cardinality(ManagedParameters)
  PROVE  Layout
<1> DEFINE m == Cardinality(ManagedValues)
           n == Cardinality(ManagedParameters)
           index(v) == Rank(ManagedValues, v)
           rank(p) == Rank(ManagedParameters, p)
<1>1. function.types \in Seq(Type) /\ function.parameters \in Seq({"managed", "plain"})
  BY FunctionFacts DEF Function
<1>2. /\ Values \in Nat /\ Len(function.parameters) \in Nat
      /\ ManagedValues \subseteq 1..Values
      /\ ManagedParameters \subseteq 1..Len(function.parameters)
  BY <1>1 DEF ManagedValues, ManagedParameters, Values
<1>3. /\ m \in Nat
      /\ \A v \in ManagedValues : index(v) \in Nat /\ index(v) < m
      /\ \A v, w \in ManagedValues : v # w => index(v) # index(w)
  BY <1>2, Ranks
<1>4. /\ n \in Nat
      /\ \A p \in ManagedParameters : rank(p) \in Nat /\ rank(p) < n
      /\ \A p, q \in ManagedParameters : p # q => rank(p) # rank(q)
  BY <1>2, Ranks
<1>5. /\ \A v : ShadowIndex(v) = index(v)
      /\ \A p : ParameterIndex(p) = m + rank(p)
  BY DEF ShadowIndex, ParameterIndex, Rank
<1> HIDE DEF m, n, index, rank
<1>6. rootCount = m + n /\ rootCount \in Nat
  BY <1>3, <1>4 DEF m, n
<1>7. FrameSlots = Values + m + n + 4 /\ HeaderSlot = FrameSlots
  BY SMTT(40), <1>2, <1>3, <1>4, <1>6 DEF FrameSlots, HeaderSlot, Values
<1>8. \A i \in Nat : ShadowSlot(i) = Values + m + n - i
  BY <1>2, <1>3, <1>4, <1>7 DEF ShadowSlot
<1>9. \A v \in ManagedValues : v \in 1..Values
  BY <1>2
<1>10. ASSUME NEW v \in ManagedValues
       PROVE  /\ ShadowSlot(ShadowIndex(v)) \in 1..FrameSlots
              /\ ~IsRegister(ShadowSlot(ShadowIndex(v)))
              /\ ShadowSlot(ShadowIndex(v)) < HeaderSlot - 2
              /\ ShadowIndex(v) \in 0..(rootCount - 1)
              /\ ShadowSlot(ShadowIndex(v)) = Values + m + n - index(v)
  <2>1. index(v) \in Nat /\ index(v) < m /\ ShadowIndex(v) = index(v)
    BY <1>3, <1>5
  <2>2. ShadowSlot(ShadowIndex(v)) = Values + m + n - index(v)
    BY <1>8, <2>1
  <2> QED
    BY <1>2, <1>3, <1>4, <1>6, <1>7, <2>1, <2>2 DEF IsRegister
<1>11. ASSUME NEW p \in ManagedParameters
       PROVE  /\ ShadowSlot(ParameterIndex(p)) \in 1..FrameSlots
              /\ ~IsRegister(ShadowSlot(ParameterIndex(p)))
              /\ ShadowSlot(ParameterIndex(p)) < HeaderSlot - 2
              /\ ParameterIndex(p) \in 0..(rootCount - 1)
              /\ ShadowSlot(ParameterIndex(p)) = Values + n - rank(p)
  <2>1. rank(p) \in Nat /\ rank(p) < n /\ ParameterIndex(p) = m + rank(p) /\ m + rank(p) \in Nat
    BY <1>3, <1>4, <1>5
  <2>2. ShadowSlot(ParameterIndex(p)) = Values + m + n - (m + rank(p))
    BY <1>8, <2>1
  <2>3. PICK i \in Nat : i = rank(p) /\ i < n
    BY <2>1
  <2>4. PICK s : s = Values + n - i
    OBVIOUS
  <2>5. s \in Nat /\ s > Values /\ s <= Values + n /\ Values + m + n - (m + i) = s
    BY <1>2, <1>3, <1>4, <2>3, <2>4
  <2>6. s \in 1..FrameSlots /\ s \notin 1..Values /\ s < HeaderSlot - 2
    BY <1>2, <1>3, <1>4, <1>7, <2>5
  <2>7. m + i \in 0..(rootCount - 1)
    BY <1>3, <1>4, <1>6, <2>3
  <2> QED
    BY <2>1, <2>2, <2>3, <2>4, <2>5, <2>6, <2>7 DEF IsRegister
<1>12. ASSUME NEW v \in ManagedValues, NEW w \in ManagedValues, v # w
       PROVE  ShadowSlot(ShadowIndex(v)) # ShadowSlot(ShadowIndex(w))
  <2>1. index(v) \in Nat /\ index(w) \in Nat /\ index(v) # index(w)
    BY <1>3, <1>12
  <2> QED
    BY SMTT(40), <1>2, <1>3, <1>4, <1>10, <2>1
<1>13. ASSUME NEW p \in ManagedParameters, NEW q \in ManagedParameters, p # q
       PROVE  ShadowSlot(ParameterIndex(p)) # ShadowSlot(ParameterIndex(q))
  <2>1. rank(p) \in Nat /\ rank(q) \in Nat /\ rank(p) # rank(q)
    BY <1>4, <1>13
  <2> QED
    BY <1>2, <1>4, <1>11, <2>1
<1>14. ASSUME NEW v \in ManagedValues, NEW p \in ManagedParameters
       PROVE  ShadowSlot(ShadowIndex(v)) # ShadowSlot(ParameterIndex(p))
  <2>1. index(v) \in Nat /\ index(v) < m /\ rank(p) \in Nat
    BY <1>3, <1>4
  <2> QED
    BY SMTT(40), <1>2, <1>3, <1>4, <1>10, <1>11, <2>1
<1>15. \A s : IsRegister(s) => s \in 1..FrameSlots /\ s < HeaderSlot - 2
  BY <1>2, <1>3, <1>4, <1>7 DEF IsRegister
<1>16. /\ FrameSlots \in Nat /\ HeaderSlot \in 1..FrameSlots
       /\ HeaderSlot - 1 \in 1..FrameSlots /\ HeaderSlot - 2 \in 1..FrameSlots
  BY <1>2, <1>3, <1>4, <1>7
<1> QED
  BY <1>2, <1>9, <1>10, <1>11, <1>12, <1>13, <1>14, <1>15, <1>16 DEF Layout, IsRegister


\* The emitted function changes neither the code nor the layout.
LEMMA RunRigid ==
  ASSUME UNCHANGED passVars
  PROVE  /\ UNCHANGED <<function, code, count, rootCount>>
         /\ UNCHANGED <<FunctionValid, FrameSlots, HeaderSlot, ManagedValues, ManagedParameters>>
         /\ \A i : ShadowSlot(i)' = ShadowSlot(i)
         /\ \A v : ShadowIndex(v)' = ShadowIndex(v) /\ ParameterIndex(v)' = ParameterIndex(v)
                   /\ Argument(v)' = Argument(v)
<1>1. UNCHANGED <<function, code, count, rootCount>>
  BY DEF passVars, arenaVars
<1>2. UNCHANGED <<ManagedValues, ManagedParameters>>
  BY <1>1 DEF ManagedValues, ManagedParameters
<1>3. UNCHANGED <<FrameSlots, HeaderSlot>>
  BY <1>1 DEF FrameSlots, HeaderSlot
<1>4. \A i : ShadowSlot(i)' = ShadowSlot(i)
  BY <1>3 DEF ShadowSlot
<1>5. \A v : ShadowIndex(v)' = ShadowIndex(v) /\ ParameterIndex(v)' = ParameterIndex(v)
             /\ Argument(v)' = Argument(v)
  BY <1>1, <1>2 DEF ShadowIndex, ParameterIndex, Argument
<1>6. CollectingCall' = CollectingCall
  BY <1>1 DEF CollectingCall
<1>7. RequiredCount' = RequiredCount
  BY <1>2, <1>6 DEF RequiredCount
<1>8. \A i \in 1..count : /\ ShapeValid(i)' = ShapeValid(i)
                          /\ LifetimeValid(i)' = LifetimeValid(i)
  BY <1>1 DEF ShapeValid, LifetimeValid
<1>9. RootsValid' = RootsValid
  BY <1>1, <1>7, <1>8 DEF RootsValid
<1>10. BodyValid(code, count, function.types)' = BodyValid(code, count, function.types)
  BY <1>1
<1>11. FunctionValid' = FunctionValid
  BY <1>1, <1>8, <1>9, <1>10 DEF FunctionValid
<1> QED
  BY <1>1, <1>2, <1>3, <1>4, <1>5, <1>11

\* What the steps use of an accepted function.
LEMMA AcceptedFacts ==
  ASSUME Inductive, AcceptedOK, RunOK, phase = "running"
  PROVE  /\ pc \in Nat /\ pc \in 1..count /\ count \in Nat
         /\ InstructionValid(code, count, function.types, pc)
         /\ pc < count => pc + 1 \in 1..count
         /\ rootCount = RequiredCount
         /\ rootCount = 0 => \A i \in 1..count : code[i].kind \notin RootKind
         /\ rootCount # 0 =>
               /\ rootCount > 0 /\ Layout /\ LifetimeValid(pc)
               /\ \A i \in 1..count : LifetimeValid(i)
               /\ code[1].kind = "label" /\ code[1].target = 1
               /\ code[2].kind = "init" /\ code[3].kind = "push" /\ 4 <= count
<1>1. FunctionValid /\ count \in 1..Len(code) /\ pc \in 1..count
  BY DEF AcceptedOK, RunOK
<1>2. code \in Seq(Instruction) /\ function \in Functions
  BY DEF Inductive
<1>3. Len(code) \in Nat /\ count \in Nat /\ pc \in Nat
  BY <1>1, <1>2
<1>4. InstructionValid(code, count, function.types, pc)
  BY <1>1 DEF FunctionValid, BodyValid
<1>5. RootsValid /\ IsEntry(code[1])
  BY <1>1 DEF FunctionValid
<1>6. ASSUME rootCount # 0
      PROVE  /\ rootCount > 0 /\ Layout /\ LifetimeValid(pc)
             /\ \A i \in 1..count : LifetimeValid(i)
             /\ code[1].kind = "label" /\ code[1].target = 1
             /\ code[2].kind = "init" /\ code[3].kind = "push" /\ 4 <= count
  <2>1. /\ rootCount = Cardinality(ManagedValues) + Cardinality(ManagedParameters)
        /\ 4 <= count /\ \A i \in 1..count : LifetimeValid(i)
    BY <1>5, <1>6 DEF RootsValid, RequiredCount
  <2>2. rootCount > 0
    BY <1>2, <1>6, <2>1, ManagedFinite
  <2>3. LifetimeValid(2) /\ LifetimeValid(3)
    BY <1>3, <2>1
  <2>4. code[2].kind = "init" /\ code[3].kind = "push"
    BY <2>3 DEF LifetimeValid
  <2>5. Layout
    BY <1>2, <2>1, <2>2, LayoutHolds
  <2> QED
    BY <1>1, <1>5, <2>1, <2>2, <2>4, <2>5 DEF IsEntry
<1> QED
  BY <1>1, <1>3, <1>4, <1>5, <1>6 DEF RootsValid

\* The instruction behind one that is no terminator is in the function, and is a
\* return only behind a pop.
LEMMA FallsThrough ==
  ASSUME Inductive, AcceptedOK, RunOK, phase = "running", code[pc].kind \notin Terminal
  PROVE  /\ pc + 1 \in 1..count
         /\ rootCount # 0 => (code[pc + 1].kind = "return" <=> code[pc].kind = "pop")
<1>1. /\ pc \in Nat /\ pc \in 1..count /\ count \in Nat
      /\ InstructionValid(code, count, function.types, pc)
      /\ rootCount # 0 => \A i \in 1..count : LifetimeValid(i)
  BY AcceptedFacts
<1>2. pc # count
  BY <1>1 DEF InstructionValid
<1>3. pc + 1 \in 1..count
  BY <1>1, <1>2
<1>4. ASSUME rootCount # 0
      PROVE  code[pc + 1].kind = "return" <=> code[pc].kind = "pop"
  <2>1. LifetimeValid(pc + 1) /\ LifetimeValid(pc) /\ (pc + 1) - 1 = pc
    BY <1>1, <1>3, <1>4
  <2> QED
    BY <2>1 DEF LifetimeValid
<1> QED
  BY <1>3, <1>4

\* The stack of root frames is determined by the next instruction.
LEMMA RootsNext ==
  ASSUME Inductive, AcceptedOK, RunOK, phase = "running", UNCHANGED passVars
  PROVE  Registered' <=> rootCount > 0 /\ pc' > 3 /\ code[pc'].kind # "return"
  BY RunRigid DEF Registered

\* What RunOK is about is unchanged when only the frame below is.
LEMMA FrameUnchanged ==
  ASSUME UNCHANGED passVars, UNCHANGED memory
  PROVE  UNCHANGED <<ShadowsOK, HeaderOK>>
<1>1. ShadowsOK' = ShadowsOK
  BY RunRigid DEF ShadowsOK
<1>2. HeaderOK' = HeaderOK
  BY RunRigid DEF HeaderOK
<1> QED
  BY <1>1, <1>2


\* Pushing on the caller's list and cutting back to it.
LEMMA FrameLists ==
  /\ Append(<<"caller">>, "own") = <<"caller", "own">>
  /\ SubSeq(<<"caller", "own">>, 1, 1) = <<"caller">>
<1> DEFINE Frames == {"caller", "own"}
           one == <<"caller">>
           two == <<"caller", "own">>
<1>1. one \in Seq(Frames) /\ Len(one) = 1 /\ one[1] = "caller"
  OBVIOUS
<1>2. two \in Seq(Frames) /\ Len(two) = 2 /\ two[1] = "caller" /\ two[2] = "own"
  OBVIOUS
<1>o. "own" \in Frames
  OBVIOUS
<1> HIDE DEF Frames, one, two
<1>3. ASSUME NEW s \in Seq(Frames), NEW t \in Seq(Frames), Len(s) = Len(t),
             \A i \in 1..Len(s) : s[i] = t[i]
      PROVE  s = t
  BY <1>3
<1>4. Append(one, "own") = two
  <2>1. /\ Append(one, "own") \in Seq(Frames) /\ Len(Append(one, "own")) = 2
        /\ Append(one, "own")[1] = "caller" /\ Append(one, "own")[2] = "own"
    <3>1. ASSUME NEW s \in Seq(Frames), NEW e \in Frames
          PROVE  /\ Append(s, e) \in Seq(Frames) /\ Len(Append(s, e)) = Len(s) + 1
                 /\ \A i \in 1..Len(s) : Append(s, e)[i] = s[i]
                 /\ Append(s, e)[Len(s) + 1] = e
      OBVIOUS
    <3>2. /\ Append(one, "own") \in Seq(Frames) /\ Len(Append(one, "own")) = Len(one) + 1
          /\ \A i \in 1..Len(one) : Append(one, "own")[i] = one[i]
          /\ Append(one, "own")[Len(one) + 1] = "own"
      BY <1>1, <1>o, <3>1
    <3> QED
      BY <1>1, <3>2
  <2>2. \A i \in 1..2 : Append(one, "own")[i] = two[i]
    BY <1>2, <2>1
  <2> QED
    BY <1>2, <1>3, <2>1, <2>2
<1>5. SubSeq(two, 1, 1) = one
  <2>1. SubSeq(two, 1, 1) \in Seq(Frames) /\ Len(SubSeq(two, 1, 1)) = 1
        /\ SubSeq(two, 1, 1)[1] = "caller"
    BY <1>2
  <2>2. \A i \in 1..1 : SubSeq(two, 1, 1)[i] = one[i]
    BY <1>1, <2>1
  <2> QED
    BY <1>1, <1>3, <2>1, <2>2
<1> QED
  BY <1>4, <1>5 DEF one, two

LEMMA EnterStep ==
  ASSUME Inductive, AcceptedOK, RunOK, Enter
  PROVE  AcceptedOK' /\ RunOK'
<1>1. /\ phase = "verified" /\ phase' = "running" /\ pc' = 1 /\ roots' = <<"caller">>
      /\ memory' = [s \in 1..FrameSlots |-> Junk] /\ UNCHANGED passVars
  BY DEF Enter
<1>2. /\ UNCHANGED <<function, code, count, rootCount>>
      /\ UNCHANGED <<FunctionValid, FrameSlots>>
  BY <1>1, RunRigid
<1>3. FunctionValid /\ count \in 1..Len(code)
  BY <1>1 DEF AcceptedOK
<1>4. AcceptedOK'
  BY <1>2, <1>3 DEF AcceptedOK
<1>5. 1 \in 1..count
  <2>1. Len(code) \in Nat
    BY DEF Inductive
  <2> QED
    BY <1>3, <2>1
<1>6. DOMAIN memory' = 1..FrameSlots'
  BY <1>1, <1>2
<1>7. ~Registered'
  BY <1>1 DEF Registered
<1> QED
  BY <1>1, <1>2, <1>4, <1>5, <1>6, <1>7 DEF RunOK

\* The accepted code stays what it is while the function runs.
LEMMA AcceptedStays ==
  ASSUME AcceptedOK, phase = "running", UNCHANGED passVars
  PROVE  AcceptedOK'
<1>1. FunctionValid /\ count \in 1..Len(code)
  BY DEF AcceptedOK
<1>2. UNCHANGED <<code, count, FunctionValid>>
  BY RunRigid
<1> QED
  BY <1>1, <1>2 DEF AcceptedOK

LEMMA InitializeRootsStep ==
  ASSUME Inductive, AcceptedOK, RunOK, InitializeRoots
  PROVE  AcceptedOK' /\ RunOK'
<1>1. /\ phase = "running" /\ phase' = "running" /\ code[pc].kind = "init"
      /\ memory' = Initialized /\ pc' = pc + 1 /\ roots' = roots /\ UNCHANGED passVars
  BY DEF InitializeRoots
<1>2. /\ pc \in Nat /\ pc \in 1..count /\ count \in Nat
      /\ rootCount = 0 => \A i \in 1..count : code[i].kind \notin RootKind
      /\ rootCount # 0 => rootCount > 0 /\ Layout /\ \A i \in 1..count : LifetimeValid(i)
  BY <1>1, AcceptedFacts
<1>3. rootCount # 0
  BY <1>1, <1>2 DEF RootKind
<1>4. pc = 2
  <2>1. LifetimeValid(pc)
    BY <1>2, <1>3
  <2>2. pc = 3 \/ pc = 2
    BY <1>1, <2>1 DEF LifetimeValid
  <2> QED
    BY <1>1, <2>1, <2>2 DEF LifetimeValid
<1>5. pc' \in 1..count
  BY <1>1, FallsThrough DEF Terminal
<1>6. /\ DOMAIN memory = 1..FrameSlots /\ roots = <<"caller">>
  BY <1>1, <1>4 DEF RunOK, Registered
<1>7. Layout
  BY <1>2, <1>3
<1>r. /\ UNCHANGED <<function, code, count, rootCount, FrameSlots, ManagedValues, ManagedParameters>>
      /\ \A i : ShadowSlot(i)' = ShadowSlot(i)
      /\ \A v : ShadowIndex(v)' = ShadowIndex(v) /\ ParameterIndex(v)' = ParameterIndex(v)
                /\ Argument(v)' = Argument(v)
  BY <1>1, RunRigid
<1>8. ASSUME NEW v \in ManagedValues
      PROVE  memory'[v] = NIL /\ memory'[ShadowSlot(ShadowIndex(v))] = NIL
  <2>1. v \in 1..FrameSlots /\ ShadowSlot(ShadowIndex(v)) \in 1..FrameSlots
    BY <1>7 DEF Layout
  <2> QED
    BY <1>1, <1>6, <2>1 DEF Initialized
<1>9. ASSUME NEW p \in ManagedParameters
      PROVE  memory'[ShadowSlot(ParameterIndex(p))] = Argument(p)
  <2> DEFINE s == ShadowSlot(ParameterIndex(p))
  <2>1. s \in 1..FrameSlots /\ ~IsRegister(s)
    BY <1>7 DEF Layout
  <2>2. s \notin ManagedValues
    BY <1>7, <2>1 DEF Layout
  <2>3. ~ \E v \in ManagedValues : s = ShadowSlot(ShadowIndex(v))
    BY <1>7 DEF Layout
  <2>4. \A q \in ManagedParameters : s = ShadowSlot(ParameterIndex(q)) => q = p
    BY <1>7 DEF Layout
  <2>5. (CHOOSE q \in ManagedParameters : s = ShadowSlot(ParameterIndex(q))) = p
    BY <2>4
  <2> HIDE DEF s
  <2>6. \E q \in ManagedParameters : s = ShadowSlot(ParameterIndex(q))
    BY DEF s
  <2>7. memory'[s] = Argument(CHOOSE q \in ManagedParameters : s = ShadowSlot(ParameterIndex(q)))
    BY <1>1, <1>6, <2>1, <2>2, <2>3, <2>6 DEF Initialized
  <2> QED
    BY <2>5, <2>7 DEF s
<1>10. ShadowsOK'
  BY <1>8, <1>9, <1>r DEF ShadowsOK
<1>11. DOMAIN memory' = 1..FrameSlots'
  BY <1>1, <1>6, <1>r DEF Initialized
<1>12. pc' = 3
  BY <1>1, <1>4
<1>13. ~Registered'
  BY <1>12 DEF Registered
<1>14. RunOK'
  BY <1>1, <1>5, <1>6, <1>10, <1>11, <1>12, <1>13, <1>r DEF RunOK
<1> QED
  BY <1>1, <1>14, AcceptedStays

LEMMA EnterRootsStep ==
  ASSUME Inductive, AcceptedOK, RunOK, EnterRoots
  PROVE  AcceptedOK' /\ RunOK'
<1>1. /\ phase = "running" /\ phase' = "running" /\ code[pc].kind = "push"
      /\ memory' = [memory EXCEPT ![HeaderSlot] = Len(roots),
                                  ![HeaderSlot - 1] = ShadowSlot(0),
                                  ![HeaderSlot - 2] = rootCount]
      /\ pc' = pc + 1 /\ roots' = Append(roots, "own") /\ UNCHANGED passVars
  BY DEF EnterRoots
<1>2. /\ pc \in Nat /\ pc \in 1..count /\ count \in Nat
      /\ rootCount = 0 => \A i \in 1..count : code[i].kind \notin RootKind
      /\ rootCount # 0 => rootCount > 0 /\ Layout /\ \A i \in 1..count : LifetimeValid(i)
  BY <1>1, AcceptedFacts
<1>3. rootCount # 0 /\ rootCount > 0 /\ Layout
  BY <1>1, <1>2 DEF RootKind
<1>4. pc = 3
  <2>1. LifetimeValid(pc)
    BY <1>2, <1>3
  <2>2. pc = 3 \/ pc = 2
    BY <1>1, <2>1 DEF LifetimeValid
  <2> QED
    BY <1>1, <2>1, <2>2 DEF LifetimeValid
<1>5. pc' \in 1..count /\ code[pc'].kind # "return"
  BY <1>1, <1>3, FallsThrough DEF Terminal
<1>6. /\ DOMAIN memory = 1..FrameSlots /\ roots = <<"caller">> /\ ShadowsOK
  BY <1>1, <1>3, <1>4 DEF RunOK, Registered
<1>r. /\ UNCHANGED <<function, code, count, rootCount, FrameSlots, HeaderSlot, ManagedValues, ManagedParameters>>
      /\ \A i : ShadowSlot(i)' = ShadowSlot(i)
      /\ \A v : ShadowIndex(v)' = ShadowIndex(v) /\ ParameterIndex(v)' = ParameterIndex(v)
                /\ Argument(v)' = Argument(v)
  BY <1>1, RunRigid
<1>7. \A s \in 1..FrameSlots : s < HeaderSlot - 2 => memory'[s] = memory[s]
  BY <1>1, <1>3, <1>6 DEF Layout
<1>8. ASSUME NEW v \in ManagedValues
      PROVE  memory'[ShadowSlot(ShadowIndex(v))] = memory'[v]
  <2>1. /\ v \in 1..FrameSlots /\ v < HeaderSlot - 2
        /\ ShadowSlot(ShadowIndex(v)) \in 1..FrameSlots
        /\ ShadowSlot(ShadowIndex(v)) < HeaderSlot - 2
    BY <1>3 DEF Layout
  <2> QED
    BY <1>6, <1>7, <2>1 DEF ShadowsOK
<1>9. ASSUME NEW p \in ManagedParameters
      PROVE  memory'[ShadowSlot(ParameterIndex(p))] = Argument(p)
  <2>1. /\ ShadowSlot(ParameterIndex(p)) \in 1..FrameSlots
        /\ ShadowSlot(ParameterIndex(p)) < HeaderSlot - 2
    BY <1>3 DEF Layout
  <2> QED
    BY <1>6, <1>7, <2>1 DEF ShadowsOK
<1>10. ShadowsOK'
  BY <1>8, <1>9, <1>r DEF ShadowsOK
<1>11. HeaderOK'
  <2>1. /\ HeaderSlot \in 1..FrameSlots /\ HeaderSlot - 1 \in 1..FrameSlots
        /\ HeaderSlot - 2 \in 1..FrameSlots /\ FrameSlots \in Nat
    BY <1>3 DEF Layout
  <2>2. Len(roots) = 1
    BY <1>6
  <2>3. /\ memory'[HeaderSlot] = 1 /\ memory'[HeaderSlot - 1] = ShadowSlot(0)
        /\ memory'[HeaderSlot - 2] = rootCount
    BY <1>1, <1>6, <2>1, <2>2
  <2> QED
    BY <1>r, <2>3 DEF HeaderOK
<1>12. DOMAIN memory' = 1..FrameSlots'
  BY <1>1, <1>6, <1>r
<1>13. pc' = 4 /\ Registered'
  BY <1>1, <1>3, <1>4, <1>5, <1>r DEF Registered
<1>14. roots' = <<"caller", "own">>
  BY <1>1, <1>6, FrameLists
<1>15. RunOK'
  BY <1>1, <1>5, <1>10, <1>11, <1>12, <1>13, <1>14, <1>r DEF RunOK
<1> QED
  BY <1>1, <1>15, AcceptedStays

\* A function whose next instruction is none of the first three has its frame.
LEMMA Inside ==
  ASSUME Inductive, AcceptedOK, RunOK, phase = "running", rootCount # 0,
         code[pc].kind \notin {"label", "init", "push"}
  PROVE  pc > 3 /\ ShadowsOK /\ HeaderOK /\ Layout /\ rootCount > 0
<1>1. /\ pc \in Nat /\ pc \in 1..count /\ rootCount > 0 /\ Layout
      /\ code[1].kind = "label" /\ code[2].kind = "init" /\ code[3].kind = "push"
  BY AcceptedFacts
<1>2. pc > 3
  BY <1>1
<1>3. pc > 2
  BY <1>1, <1>2
<1> QED
  BY <1>1, <1>2, <1>3 DEF RunOK

LEMMA LeaveRootsStep ==
  ASSUME Inductive, AcceptedOK, RunOK, LeaveRoots
  PROVE  AcceptedOK' /\ RunOK'
<1>1. phase = "running" /\ code[pc].kind = "pop" /\ UNCHANGED <<passVars, memory>>
  BY DEF LeaveRoots
<1>2. /\ pc \in Nat /\ pc \in 1..count
      /\ rootCount = 0 => \A i \in 1..count : code[i].kind \notin RootKind
  BY <1>1, AcceptedFacts
<1>3. rootCount # 0
  BY <1>1, <1>2 DEF RootKind
<1>4. pc > 3 /\ ShadowsOK /\ HeaderOK /\ rootCount > 0
  BY <1>1, <1>3, Inside
<1>5. roots = <<"caller", "own">> /\ memory[HeaderSlot] = 1
  BY <1>1, <1>4 DEF RunOK, Registered, HeaderOK
<1>6. roots[Len(roots)] = "own"
  BY <1>5
<1>7. roots' = SubSeq(roots, 1, memory[HeaderSlot]) /\ pc' = pc + 1 /\ phase' = "running"
  BY <1>1, <1>6 DEF LeaveRoots
<1>8. roots' = <<"caller">>
  BY <1>5, <1>7, FrameLists
<1>9. pc' \in 1..count /\ code[pc'].kind = "return"
  BY <1>1, <1>3, <1>7, FallsThrough DEF Terminal
<1>r. UNCHANGED <<code, count, rootCount, FrameSlots, ShadowsOK, HeaderOK>>
  BY <1>1, RunRigid, FrameUnchanged
<1>10. ~Registered'
  BY <1>9, <1>r DEF Registered
<1>11. DOMAIN memory' = 1..FrameSlots'
  BY <1>1, <1>r DEF RunOK
<1>12. RunOK'
  BY <1>4, <1>7, <1>8, <1>9, <1>10, <1>11, <1>r DEF RunOK
<1> QED
  BY <1>1, <1>12, AcceptedStays


LEMMA ComputeStep ==
  ASSUME Inductive, AcceptedOK, RunOK, Compute
  PROVE  AcceptedOK' /\ RunOK'
<1> DEFINE v == code[pc].destination
<1>1. /\ phase = "running" /\ phase' = "running" /\ code[pc].kind \in {"value", "call"}
      /\ pc' = pc + 1 /\ roots' = roots /\ UNCHANGED passVars
  BY DEF Compute
<1>r. /\ UNCHANGED <<function, code, count, rootCount, FrameSlots, HeaderSlot, ManagedValues, ManagedParameters>>
      /\ \A i : ShadowSlot(i)' = ShadowSlot(i)
      /\ \A u : ShadowIndex(u)' = ShadowIndex(u) /\ ParameterIndex(u)' = ParameterIndex(u)
                /\ Argument(u)' = Argument(u)
  BY <1>1, RunRigid
<1>2. /\ pc \in Nat /\ pc \in 1..count /\ count \in Nat
      /\ InstructionValid(code, count, function.types, pc)
  BY <1>1, AcceptedFacts
<1>3. pc' \in 1..count /\ (rootCount # 0 => code[pc'].kind # "return")
  BY <1>1, FallsThrough DEF Terminal
<1>4. DOMAIN memory = 1..FrameSlots /\ DOMAIN memory' = 1..FrameSlots'
  BY <1>1, <1>r DEF RunOK, Compute
<1>5. CASE rootCount = 0
  <2>1. ~Registered /\ ~Registered'
    BY <1>5, <1>r DEF Registered
  <2> QED
    BY <1>1, <1>3, <1>4, <1>5, <1>r, <2>1, AcceptedStays DEF RunOK
<1>6. CASE rootCount # 0
  <2>1. pc > 3 /\ ShadowsOK /\ HeaderOK /\ Layout /\ rootCount > 0
    BY <1>1, <1>6, Inside
  <2>2. IsRegister(v)
    <3>1. v \in DOMAIN function.types
      BY <1>1, <1>2 DEF InstructionValid
    <3>2. function \in Function
      BY FunctionFacts DEF Inductive
    <3>3. function.types \in Seq(Type)
      BY <3>2 DEF Function
    <3> QED
      BY <3>1, <3>3 DEF IsRegister, Values
  <2>3. memory' = [s \in 1..FrameSlots |->
                     IF s = v \/ (v \in ManagedValues /\ s = ShadowSlot(ShadowIndex(v)))
                     THEN Fresh(v) ELSE memory[s]]
    BY <1>4, <2>1 DEF Compute
  <2> HIDE DEF v
  <2>4. ASSUME NEW u \in ManagedValues
        PROVE  memory'[ShadowSlot(ShadowIndex(u))] = memory'[u]
    <3>1. /\ IsRegister(u) /\ u \in 1..FrameSlots
          /\ ShadowSlot(ShadowIndex(u)) \in 1..FrameSlots
          /\ ~IsRegister(ShadowSlot(ShadowIndex(u)))
      BY <2>1 DEF Layout
    <3>2. CASE u = v
      BY <2>3, <3>1, <3>2
    <3>3. CASE u # v
      <4>1. ShadowSlot(ShadowIndex(u)) # v
        BY <2>2, <3>1
      <4>2. v \in ManagedValues =>
               /\ ShadowSlot(ShadowIndex(u)) # ShadowSlot(ShadowIndex(v))
               /\ u # ShadowSlot(ShadowIndex(v))
        BY <2>1, <3>1, <3>3 DEF Layout
      <4>3. /\ memory'[ShadowSlot(ShadowIndex(u))] = memory[ShadowSlot(ShadowIndex(u))]
            /\ memory'[u] = memory[u]
        BY <2>3, <3>1, <3>3, <4>1, <4>2
      <4> QED
        BY <2>1, <4>3 DEF ShadowsOK
    <3> QED
      BY <3>2, <3>3
  <2>5. ASSUME NEW p \in ManagedParameters
        PROVE  memory'[ShadowSlot(ParameterIndex(p))] = Argument(p)
    <3>1. /\ ShadowSlot(ParameterIndex(p)) \in 1..FrameSlots
          /\ ShadowSlot(ParameterIndex(p)) # v
          /\ v \in ManagedValues => ShadowSlot(ParameterIndex(p)) # ShadowSlot(ShadowIndex(v))
      BY <2>1, <2>2 DEF Layout
    <3>2. memory'[ShadowSlot(ParameterIndex(p))] = memory[ShadowSlot(ParameterIndex(p))]
      BY <2>3, <3>1
    <3> QED
      BY <2>1, <3>2 DEF ShadowsOK
  <2>6. ShadowsOK'
    BY <1>r, <2>4, <2>5 DEF ShadowsOK
  <2>7. HeaderOK'
    <3>1. ASSUME NEW s \in 1..FrameSlots, HeaderSlot - 2 <= s
          PROVE  memory'[s] = memory[s]
      <4>1. HeaderSlot \in Nat /\ s \in Nat /\ v \in Nat /\ v < HeaderSlot - 2
        <5>1. /\ Values \in Nat /\ FrameSlots \in Nat /\ HeaderSlot \in 1..FrameSlots
              /\ v < HeaderSlot - 2
          BY <2>1, <2>2 DEF Layout
        <5> QED
          BY <2>2, <5>1 DEF IsRegister
      <4>2. v \in ManagedValues => ShadowSlot(ShadowIndex(v)) \in Nat
                                   /\ ShadowSlot(ShadowIndex(v)) < HeaderSlot - 2
        BY <2>1 DEF Layout
      <4> QED
        BY <2>3, <3>1, <4>1, <4>2
    <3>2. /\ HeaderSlot \in 1..FrameSlots /\ HeaderSlot - 1 \in 1..FrameSlots
          /\ HeaderSlot - 2 \in 1..FrameSlots
          /\ HeaderSlot - 2 <= HeaderSlot /\ HeaderSlot - 2 <= HeaderSlot - 1
          /\ HeaderSlot - 2 <= HeaderSlot - 2
      BY <2>1 DEF Layout
    <3>3. /\ memory'[HeaderSlot] = memory[HeaderSlot]
          /\ memory'[HeaderSlot - 1] = memory[HeaderSlot - 1]
          /\ memory'[HeaderSlot - 2] = memory[HeaderSlot - 2]
      BY <3>1, <3>2
    <3> QED
      BY <1>r, <2>1, <3>3 DEF HeaderOK
  <2>8. Registered /\ Registered'
    <3>1. pc' > 3
      BY <1>1, <1>2, <2>1
    <3> QED
      BY <1>1, <1>3, <1>6, <1>r, <2>1, <3>1 DEF Registered
  <2> QED
    BY <1>1, <1>3, <1>4, <1>r, <2>6, <2>7, <2>8, AcceptedStays DEF RunOK
<1> QED
  BY <1>5, <1>6

\* A jump goes to a label behind the frame's registration.
LEMMA Jumps ==
  ASSUME Inductive, AcceptedOK, RunOK, phase = "running", NEW l,
         \/ code[pc].kind \in {"jump", "branch"} /\ l = code[pc].target
         \/ code[pc].kind = "branch" /\ l = code[pc].right
  PROVE  /\ Bound(l) \in 1..count /\ code[Bound(l)].kind = "label"
         /\ rootCount # 0 => Bound(l) > 3
<1>1. /\ pc \in 1..count /\ count \in Nat /\ InstructionValid(code, count, function.types, pc)
      /\ rootCount # 0 => LifetimeValid(pc) /\ code[1].kind = "label" /\ code[1].target = 1
                          /\ code[2].kind = "init" /\ code[3].kind = "push"
  BY AcceptedFacts
<1>2. BoundAt(code, count, l) # {}
  BY <1>1 DEF InstructionValid
<1>3. Bound(l) \in BoundAt(code, count, l)
  BY <1>2 DEF Bound
<1>4. Bound(l) \in 1..count /\ code[Bound(l)].kind = "label" /\ code[Bound(l)].target = l
  BY <1>3 DEF BoundAt
<1>5. rootCount # 0 => l # 1
  BY <1>1 DEF LifetimeValid
<1>6. rootCount # 0 => Bound(l) # 1 /\ Bound(l) # 2 /\ Bound(l) # 3
  BY <1>1, <1>4, <1>5
<1> QED
  BY <1>1, <1>4, <1>6

LEMMA TransferStep ==
  ASSUME Inductive, AcceptedOK, RunOK, Transfer
  PROVE  AcceptedOK' /\ RunOK'
<1>1. phase = "running" /\ UNCHANGED <<passVars, memory, roots>>
  BY DEF Transfer
<1>r. UNCHANGED <<code, count, rootCount, FrameSlots, ShadowsOK, HeaderOK>>
  BY <1>1, RunRigid, FrameUnchanged
<1>a. AcceptedOK'
  BY <1>1, AcceptedStays
<1>2. /\ pc \in Nat /\ pc \in 1..count /\ count \in Nat
      /\ rootCount = 0 \/ rootCount > 0
      /\ rootCount # 0 => code[1].kind = "label" /\ code[2].kind = "init" /\ code[3].kind = "push"
  BY <1>1, AcceptedFacts
<1>3. DOMAIN memory' = 1..FrameSlots'
  BY <1>1, <1>r DEF RunOK
<1>4. CASE code[pc].kind \in {"label", "sync"} /\ pc' = pc + 1 /\ phase' = phase
  <2>1. pc' \in 1..count /\ (rootCount # 0 => code[pc'].kind # "return")
    BY <1>1, <1>4, FallsThrough DEF Terminal
  <2>2. rootCount # 0 => pc = 1 \/ pc > 3
    BY <1>2, <1>4
  <2>3. Registered' <=> Registered
    BY <1>2, <1>4, <1>r, <2>1, <2>2 DEF Registered
  <2>4. roots' = IF Registered' THEN <<"caller", "own">> ELSE <<"caller">>
    BY <1>1, <2>3 DEF RunOK
  <2>5. rootCount > 0 /\ pc' > 2 => ShadowsOK /\ HeaderOK
    <3>1. rootCount > 0 /\ pc' > 2 => pc > 3 /\ pc > 2
      BY <1>2, <1>4, <2>2
    <3> QED
      BY <1>1, <3>1 DEF RunOK
  <2>6. rootCount > 0 /\ pc' > 3 => pc' > 2
    BY <1>2, <1>4
  <2> QED
    BY <1>1, <1>3, <1>4, <1>a, <1>r, <2>1, <2>4, <2>5, <2>6 DEF RunOK
<1>5. ASSUME NEW l, pc' = Bound(l), phase' = phase,
             \/ code[pc].kind \in {"jump", "branch"} /\ l = code[pc].target
             \/ code[pc].kind = "branch" /\ l = code[pc].right
      PROVE  AcceptedOK' /\ RunOK'
  <2>1. /\ pc' \in 1..count /\ code[pc'].kind = "label"
        /\ rootCount # 0 => pc' > 3
    BY <1>1, <1>5, Jumps
  <2>2. rootCount # 0 => pc > 3 /\ ShadowsOK /\ HeaderOK
    BY <1>1, <1>5, Inside
  <2>3. Registered' <=> Registered
    BY <1>2, <1>5, <1>r, <2>1, <2>2 DEF Registered
  <2>4. roots' = IF Registered' THEN <<"caller", "own">> ELSE <<"caller">>
    BY <1>1, <2>3 DEF RunOK
  <2>5. rootCount > 0 => rootCount # 0
    BY <1>2
  <2> QED
    BY <1>1, <1>3, <1>5, <1>a, <1>r, <2>1, <2>2, <2>4, <2>5 DEF RunOK
<1>6. CASE code[pc].kind = "return" /\ phase' = "returned"
  <2>1. roots = <<"caller">>
    BY <1>1, <1>6 DEF RunOK, Registered
  <2> QED
    BY <1>1, <1>6, <1>a, <2>1 DEF RunOK
<1>7. \/ code[pc].kind \in {"label", "sync"} /\ pc' = pc + 1 /\ phase' = phase
      \/ code[pc].kind = "jump" /\ pc' = Bound(code[pc].target) /\ phase' = phase
      \/ code[pc].kind = "branch" /\ pc' = Bound(code[pc].target) /\ phase' = phase
      \/ code[pc].kind = "branch" /\ pc' = Bound(code[pc].right) /\ phase' = phase
      \/ code[pc].kind = "return" /\ phase' = "returned"
  BY DEF Transfer
<1> QED
  BY <1>4, <1>5, <1>6, <1>7


\* The pass runs before the function does; the verifier is its last step.
LEMMA PassStep ==
  ASSUME Inductive, AcceptedOK, RunOK, Pass
  PROVE  AcceptedOK' /\ RunOK'
<1>1. CASE Lower \/ ExpandInstruction \/ ExpandEntry
  <2>1. phase' \in {"lower", "expand", "lowered", "failed"}
    BY <1>1 DEF Lower, ExpandInstruction, ExpandEntry
  <2> QED
    BY <2>1 DEF AcceptedOK, RunOK
<1>2. CASE Verify
  <2>1. /\ phase = "lowered" /\ UNCHANGED passVars
        /\ phase' = IF FunctionValid THEN "verified" ELSE "failed"
    BY <1>2 DEF Verify
  <2>2. UNCHANGED <<code, count, FunctionValid>>
    BY <2>1, RunRigid
  <2>3. count \in 1..Len(code)
    <3>1. /\ function \in Functions /\ code \in Seq(Instruction)
          /\ Len(code) \in Nat
      BY DEF Inductive
    <3>2. Len(function.code) \in Nat \ {0}
      BY <3>1, FunctionFacts
    <3>3. CASE Untouched
      BY <3>1, <3>2, <3>3 DEF Untouched
    <3>4. CASE rootCount > 0
      <4>1. count \in Nat /\ 3 < count
        BY <2>1, <3>4, Origins
      <4>2. count <= Len(code)
        BY <2>1, <3>4 DEF Inductive, ExpansionExact
      <4> QED
        BY <3>1, <4>1, <4>2
    <3> QED
      BY <2>1, <3>3, <3>4 DEF Inductive
  <2> QED
    BY <2>1, <2>2, <2>3 DEF AcceptedOK, RunOK
<1> QED
  BY <1>1, <1>2 DEF Pass

\* The registered frame holds every managed word when something may collect.
LEMMA FrameHolds ==
  ASSUME FrameInductive
  PROVE  RootsHeld
<1>1. Inductive /\ AcceptedOK /\ RunOK
  BY DEF FrameInductive
<1>2. ASSUME phase = "running", Collecting(code[pc]), rootCount > 0
      PROVE  /\ roots = <<"caller", "own">>
             /\ {memory[v] : v \in ManagedValues} \cup {Argument(p) : p \in ManagedParameters}
                   \subseteq RegisteredWords
  <2>1. code[pc].kind = "call" /\ rootCount # 0
    BY <1>2 DEF Collecting
  <2>2. pc > 3 /\ ShadowsOK /\ HeaderOK /\ Layout
    BY <1>1, <1>2, <2>1, Inside
  <2>3. roots = <<"caller", "own">>
    BY <1>1, <1>2, <2>1, <2>2 DEF RunOK, Registered
  <2>4. \A i \in 0..(rootCount - 1) : memory[ShadowSlot(0) - i] \in RegisteredWords
    BY <2>2 DEF RegisteredWords, HeaderOK
  <2>5. \A i \in 0..(rootCount - 1) : ShadowSlot(i) = ShadowSlot(0) - i
    <3>1. HeaderSlot \in Int
      BY <2>2 DEF Layout
    <3> QED
      BY <3>1 DEF ShadowSlot
  <2>6. \A i \in 0..(rootCount - 1) : memory[ShadowSlot(i)] \in RegisteredWords
    BY <2>4, <2>5
  <2>7. ASSUME NEW v \in ManagedValues
        PROVE  memory[v] \in RegisteredWords
    <3>1. ShadowIndex(v) \in 0..(rootCount - 1)
      BY <2>2 DEF Layout
    <3> QED
      BY <2>2, <2>6, <3>1 DEF ShadowsOK
  <2>8. ASSUME NEW p \in ManagedParameters
        PROVE  Argument(p) \in RegisteredWords
    <3>1. ParameterIndex(p) \in 0..(rootCount - 1)
      BY <2>2 DEF Layout
    <3>2. memory[ShadowSlot(ParameterIndex(p))] = Argument(p)
      BY <2>2 DEF ShadowsOK
    <3> QED
      BY <2>6, <3>1, <3>2
  <2> QED
    BY <2>3, <2>7, <2>8
<1>3. ASSUME phase = "running", Collecting(code[pc]), rootCount = 0
      PROVE  ManagedValues = {} /\ ManagedParameters = {}
  <2>1. pc \in 1..count /\ RequiredCount = 0
    BY <1>1, <1>3, AcceptedFacts
  <2>2. CollectingCall
    BY <1>3, <2>1 DEF CollectingCall
  <2>3. Cardinality(ManagedValues) + Cardinality(ManagedParameters) = 0
    BY <2>1, <2>2 DEF RequiredCount
  <2>4. function \in Functions
    BY <1>1 DEF Inductive
  <2>5. Cardinality(ManagedValues) = 0 /\ Cardinality(ManagedParameters) = 0
    BY <2>3, <2>4, ManagedFinite
  <2>6. IsFiniteSet(ManagedValues) /\ IsFiniteSet(ManagedParameters)
    BY <2>4, ManagedSetsFinite
  <2> QED
    BY <2>5, <2>6, FS_EmptySet
<1> QED
  BY <1>1, <1>2, <1>3 DEF RootsHeld, RunOK

\* The inductive invariant of lowering, verification and execution together.
THEOREM FrameInvariant == Spec => []FrameInductive
<1>1. Init => FrameInductive
  <2> SUFFICES ASSUME Init PROVE FrameInductive
    OBVIOUS
  <2>1. phase = "lower"
    BY DEF Init
  <2> QED
    BY <2>1, InitInductive DEF FrameInductive, AcceptedOK, RunOK
<1>2. Inductive /\ Inductive' /\ AcceptedOK /\ RunOK /\ [Next]_vars => AcceptedOK' /\ RunOK'
  <2> SUFFICES ASSUME Inductive, AcceptedOK, RunOK, [Next]_vars PROVE AcceptedOK' /\ RunOK'
    OBVIOUS
  <2>1. CASE Pass
    BY <2>1, PassStep
  <2>2. CASE Execute
    BY <2>2, EnterStep, InitializeRootsStep, EnterRootsStep, LeaveRootsStep, ComputeStep,
       TransferStep DEF Execute
  <2>3. CASE UNCHANGED vars
    <3>1. UNCHANGED passVars /\ UNCHANGED <<phase, pc, memory, roots>>
      BY <2>3 DEF vars, runVars
    <3>2. UNCHANGED <<code, count, rootCount, FunctionValid, FrameSlots, ShadowsOK, HeaderOK>>
      BY <3>1, RunRigid, FrameUnchanged
    <3>3. Registered' = Registered
      BY <3>1, <3>2 DEF Registered
    <3> QED
      BY <3>1, <3>2, <3>3 DEF AcceptedOK, RunOK
  <2> QED
    BY <2>1, <2>2, <2>3 DEF Next
<1> QED
  BY <1>1, <1>2, LoweringInvariant, PTL DEF Spec, FrameInductive

\* "Canonical placement proves the lifetime across every verified CFG path"
\* (root_verify.lisp): on every path of every accepted function, each call that
\* may collect finds every managed register and argument in the frame registered
\* with psl_rt_push_roots, and the frame is gone when the function returns.
THEOREM PathsHoldRoots == Spec => []RootsHeld
<1>1. FrameInductive => RootsHeld
  BY FrameHolds
<1> QED
  BY <1>1, FrameInvariant, PTL
=============================================================================
