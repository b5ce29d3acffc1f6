------------------------- MODULE RuntimeLink_proofs -------------------------
(***************************************************************************)
(* The mask arithmetic of module selection computes unions of sets, and    *)
(* the native tables leave nothing undefined and agree with Stage 0 as far *)
(* as AgreesWithStage0 says, whatever is referenced.                       *)
(***************************************************************************)
EXTENDS RuntimeLink, TLAPS

-----------------------------------------------------------------------------
(* Masks as sets of modules.                                               *)

\* The bit of one module in the mask of a set.
Flag(m, S) == IF m \in S THEN 1 ELSE 0

\* A flag is a binary digit.
LEMMA FlagType ==
    ASSUME NEW m, NEW S
    PROVE  Flag(m, S) \in {0, 1} /\ (Flag(m, S) = 1 <=> m \in S)
BY DEF Flag

\* MaskOf writes the flags of the modules as binary digits.
LEMMA MaskDigits ==
    ASSUME NEW S
    PROVE  MaskOf(S) = Flag("value", S) + 2 * Flag("cons", S) + 4 * Flag("string", S)
             + 8 * Flag("symbol", S) + 16 * Flag("package", S) + 32 * Flag("closure", S)
             + 64 * Flag("values", S) + 128 * Flag("gc", S) + 256 * Flag("startup", S)
             + 512 * Flag("platform", S) + 1024 * Flag("vector", S)
<1> DEFINE Part(m) == IF m \in S THEN Bit[m] ELSE 0
<1>1. /\ Part("value") = Flag("value", S)
      /\ Part("cons") = 2 * Flag("cons", S)
      /\ Part("string") = 4 * Flag("string", S)
      /\ Part("symbol") = 8 * Flag("symbol", S)
      /\ Part("package") = 16 * Flag("package", S)
      /\ Part("closure") = 32 * Flag("closure", S)
      /\ Part("values") = 64 * Flag("values", S)
      /\ Part("gc") = 128 * Flag("gc", S)
      /\ Part("startup") = 256 * Flag("startup", S)
      /\ Part("platform") = 512 * Flag("platform", S)
      /\ Part("vector") = 1024 * Flag("vector", S)
  BY DEF Flag, Bit, ModuleSet
<1>2. MaskOf(S) = Part("value") + Part("cons") + Part("string") + Part("symbol")
        + Part("package") + Part("closure") + Part("values") + Part("gc")
        + Part("startup") + Part("platform") + Part("vector")
  BY DEF MaskOf
<1> HIDE DEF Part
<1> QED BY <1>1, <1>2

\* A binary digit is read off by division.
LEMMA Digit ==
    ASSUME NEW low \in Nat, NEW b \in {0, 1}, NEW high \in Nat
    PROVE  /\ (b + 2 * high) % 2 = b
           /\ low < 2 => (low + 2 * (b + 2 * high)) \div 2 = b + 2 * high
           /\ low < 4 => (low + 4 * (b + 2 * high)) \div 4 = b + 2 * high
           /\ low < 8 => (low + 8 * (b + 2 * high)) \div 8 = b + 2 * high
           /\ low < 16 => (low + 16 * (b + 2 * high)) \div 16 = b + 2 * high
           /\ low < 32 => (low + 32 * (b + 2 * high)) \div 32 = b + 2 * high
           /\ low < 64 => (low + 64 * (b + 2 * high)) \div 64 = b + 2 * high
           /\ low < 128 => (low + 128 * (b + 2 * high)) \div 128 = b + 2 * high
           /\ low < 256 => (low + 256 * (b + 2 * high)) \div 256 = b + 2 * high
           /\ low < 512 => (low + 512 * (b + 2 * high)) \div 512 = b + 2 * high
           /\ low < 1024 => (low + 1024 * (b + 2 * high)) \div 1024 = b + 2 * high
OBVIOUS

\* The modules of a mask are the set it was made from.
LEMMA ModulesOfMask ==
    ASSUME NEW S \in SUBSET ModuleSet
    PROVE  /\ MaskOf(S) \in 0..2047
           /\ ModulesOf(MaskOf(S)) = S
<1> DEFINE v0 == Flag("value", S)
           v1 == Flag("cons", S)
           v2 == Flag("string", S)
           v3 == Flag("symbol", S)
           v4 == Flag("package", S)
           v5 == Flag("closure", S)
           v6 == Flag("values", S)
           v7 == Flag("gc", S)
           v8 == Flag("startup", S)
           v9 == Flag("platform", S)
           v10 == Flag("vector", S)
           mask0 == MaskOf(S)
<1>1. /\ v0 \in {0, 1} /\ (v0 = 1 <=> "value" \in S)
      /\ v1 \in {0, 1} /\ (v1 = 1 <=> "cons" \in S)
      /\ v2 \in {0, 1} /\ (v2 = 1 <=> "string" \in S)
      /\ v3 \in {0, 1} /\ (v3 = 1 <=> "symbol" \in S)
      /\ v4 \in {0, 1} /\ (v4 = 1 <=> "package" \in S)
      /\ v5 \in {0, 1} /\ (v5 = 1 <=> "closure" \in S)
      /\ v6 \in {0, 1} /\ (v6 = 1 <=> "values" \in S)
      /\ v7 \in {0, 1} /\ (v7 = 1 <=> "gc" \in S)
      /\ v8 \in {0, 1} /\ (v8 = 1 <=> "startup" \in S)
      /\ v9 \in {0, 1} /\ (v9 = 1 <=> "platform" \in S)
      /\ v10 \in {0, 1} /\ (v10 = 1 <=> "vector" \in S)
  BY FlagType
<1>2. mask0 = v0 + 2 * v1 + 4 * v2 + 8 * v3 + 16 * v4 + 32 * v5 + 64 * v6 + 128 * v7 + 256 * v8 + 512 * v9 + 1024 * v10
  BY MaskDigits
<1> HIDE DEF v0, v1, v2, v3, v4, v5, v6, v7, v8, v9, v10, mask0
<1>3. mask0 \in 0..2047
  BY <1>1, <1>2
<1>b0. (mask0 \div 1) % 2 = v0
  <2> DEFINE low == 0
             high == v1 + 2 * v2 + 4 * v3 + 8 * v4 + 16 * v5 + 32 * v6 + 64 * v7 + 128 * v8 + 256 * v9 + 512 * v10
  <2>1. low \in Nat /\ low < 1 /\ high \in Nat
    BY <1>1
  <2>2. mask0 = low + 1 * (v0 + 2 * high)
    BY <1>1, <1>2
  <2>3. v0 \in {0, 1}
    BY <1>1
  <2> HIDE DEF low, high
  <2>4. mask0 \div 1 = v0 + 2 * high
    BY <1>3, <2>1, <2>2, <2>3
  <2> QED BY <2>1, <2>3, <2>4, Digit
<1>b1. (mask0 \div 2) % 2 = v1
  <2> DEFINE low == v0
             high == v2 + 2 * v3 + 4 * v4 + 8 * v5 + 16 * v6 + 32 * v7 + 64 * v8 + 128 * v9 + 256 * v10
  <2>1. low \in Nat /\ low < 2 /\ high \in Nat
    BY <1>1
  <2>2. mask0 = low + 2 * (v1 + 2 * high)
    BY <1>1, <1>2
  <2>3. v1 \in {0, 1}
    BY <1>1
  <2> HIDE DEF low, high
  <2>4. mask0 \div 2 = v1 + 2 * high
    BY <2>1, <2>2, <2>3, Digit
  <2> QED BY <2>1, <2>3, <2>4, Digit
<1>b2. (mask0 \div 4) % 2 = v2
  <2> DEFINE low == v0 + 2 * v1
             high == v3 + 2 * v4 + 4 * v5 + 8 * v6 + 16 * v7 + 32 * v8 + 64 * v9 + 128 * v10
  <2>1. low \in Nat /\ low < 4 /\ high \in Nat
    BY <1>1
  <2>2. mask0 = low + 4 * (v2 + 2 * high)
    BY <1>1, <1>2
  <2>3. v2 \in {0, 1}
    BY <1>1
  <2> HIDE DEF low, high
  <2>4. mask0 \div 4 = v2 + 2 * high
    BY <2>1, <2>2, <2>3, Digit
  <2> QED BY <2>1, <2>3, <2>4, Digit
<1>b3. (mask0 \div 8) % 2 = v3
  <2> DEFINE low == v0 + 2 * v1 + 4 * v2
             high == v4 + 2 * v5 + 4 * v6 + 8 * v7 + 16 * v8 + 32 * v9 + 64 * v10
  <2>1. low \in Nat /\ low < 8 /\ high \in Nat
    BY <1>1
  <2>2. mask0 = low + 8 * (v3 + 2 * high)
    BY <1>1, <1>2
  <2>3. v3 \in {0, 1}
    BY <1>1
  <2> HIDE DEF low, high
  <2>4. mask0 \div 8 = v3 + 2 * high
    BY <2>1, <2>2, <2>3, Digit
  <2> QED BY <2>1, <2>3, <2>4, Digit
<1>b4. (mask0 \div 16) % 2 = v4
  <2> DEFINE low == v0 + 2 * v1 + 4 * v2 + 8 * v3
             high == v5 + 2 * v6 + 4 * v7 + 8 * v8 + 16 * v9 + 32 * v10
  <2>1. low \in Nat /\ low < 16 /\ high \in Nat
    BY <1>1
  <2>2. mask0 = low + 16 * (v4 + 2 * high)
    BY <1>1, <1>2
  <2>3. v4 \in {0, 1}
    BY <1>1
  <2> HIDE DEF low, high
  <2>4. mask0 \div 16 = v4 + 2 * high
    BY <2>1, <2>2, <2>3, Digit
  <2> QED BY <2>1, <2>3, <2>4, Digit
<1>b5. (mask0 \div 32) % 2 = v5
  <2> DEFINE low == v0 + 2 * v1 + 4 * v2 + 8 * v3 + 16 * v4
             high == v6 + 2 * v7 + 4 * v8 + 8 * v9 + 16 * v10
  <2>1. low \in Nat /\ low < 32 /\ high \in Nat
    BY <1>1
  <2>2. mask0 = low + 32 * (v5 + 2 * high)
    BY <1>1, <1>2
  <2>3. v5 \in {0, 1}
    BY <1>1
  <2> HIDE DEF low, high
  <2>4. mask0 \div 32 = v5 + 2 * high
    BY <2>1, <2>2, <2>3, Digit
  <2> QED BY <2>1, <2>3, <2>4, Digit
<1>b6. (mask0 \div 64) % 2 = v6
  <2> DEFINE low == v0 + 2 * v1 + 4 * v2 + 8 * v3 + 16 * v4 + 32 * v5
             high == v7 + 2 * v8 + 4 * v9 + 8 * v10
  <2>1. low \in Nat /\ low < 64 /\ high \in Nat
    BY <1>1
  <2>2. mask0 = low + 64 * (v6 + 2 * high)
    BY <1>1, <1>2
  <2>3. v6 \in {0, 1}
    BY <1>1
  <2> HIDE DEF low, high
  <2>4. mask0 \div 64 = v6 + 2 * high
    BY <2>1, <2>2, <2>3, Digit
  <2> QED BY <2>1, <2>3, <2>4, Digit
<1>b7. (mask0 \div 128) % 2 = v7
  <2> DEFINE low == v0 + 2 * v1 + 4 * v2 + 8 * v3 + 16 * v4 + 32 * v5 + 64 * v6
             high == v8 + 2 * v9 + 4 * v10
  <2>1. low \in Nat /\ low < 128 /\ high \in Nat
    BY <1>1
  <2>2. mask0 = low + 128 * (v7 + 2 * high)
    BY <1>1, <1>2
  <2>3. v7 \in {0, 1}
    BY <1>1
  <2> HIDE DEF low, high
  <2>4. mask0 \div 128 = v7 + 2 * high
    BY <2>1, <2>2, <2>3, Digit
  <2> QED BY <2>1, <2>3, <2>4, Digit
<1>b8. (mask0 \div 256) % 2 = v8
  <2> DEFINE low == v0 + 2 * v1 + 4 * v2 + 8 * v3 + 16 * v4 + 32 * v5 + 64 * v6 + 128 * v7
             high == v9 + 2 * v10
  <2>1. low \in Nat /\ low < 256 /\ high \in Nat
    BY <1>1
  <2>2. mask0 = low + 256 * (v8 + 2 * high)
    BY <1>1, <1>2
  <2>3. v8 \in {0, 1}
    BY <1>1
  <2> HIDE DEF low, high
  <2>4. mask0 \div 256 = v8 + 2 * high
    BY <2>1, <2>2, <2>3, Digit
  <2> QED BY <2>1, <2>3, <2>4, Digit
<1>b9. (mask0 \div 512) % 2 = v9
  <2> DEFINE low == v0 + 2 * v1 + 4 * v2 + 8 * v3 + 16 * v4 + 32 * v5 + 64 * v6 + 128 * v7 + 256 * v8
             high == v10
  <2>1. low \in Nat /\ low < 512 /\ high \in Nat
    BY <1>1
  <2>2. mask0 = low + 512 * (v9 + 2 * high)
    BY <1>1, <1>2
  <2>3. v9 \in {0, 1}
    BY <1>1
  <2> HIDE DEF low, high
  <2>4. mask0 \div 512 = v9 + 2 * high
    BY <2>1, <2>2, <2>3, Digit
  <2> QED BY <2>1, <2>3, <2>4, Digit
<1>b10. (mask0 \div 1024) % 2 = v10
  <2> DEFINE low == v0 + 2 * v1 + 4 * v2 + 8 * v3 + 16 * v4 + 32 * v5 + 64 * v6 + 128 * v7 + 256 * v8 + 512 * v9
             high == 0
  <2>1. low \in Nat /\ low < 1024 /\ high \in Nat
    BY <1>1
  <2>2. mask0 = low + 1024 * (v10 + 2 * high)
    BY <1>1, <1>2
  <2>3. v10 \in {0, 1}
    BY <1>1
  <2> HIDE DEF low, high
  <2>4. mask0 \div 1024 = v10 + 2 * high
    BY <2>1, <2>2, <2>3, Digit
  <2> QED BY <2>1, <2>3, <2>4, Digit
<1>4. ASSUME NEW m \in ModuleSet
      PROVE  (mask0 \div Bit[m]) % 2 = 1 <=> m \in S
  <2>0. CASE m = "value"
    <3>1. Bit[m] = 1
      BY <2>0 DEF Bit, ModuleSet
    <3> QED BY <1>1, <1>b0, <2>0, <3>1
  <2>1. CASE m = "cons"
    <3>1. Bit[m] = 2
      BY <2>1 DEF Bit, ModuleSet
    <3> QED BY <1>1, <1>b1, <2>1, <3>1
  <2>2. CASE m = "string"
    <3>1. Bit[m] = 4
      BY <2>2 DEF Bit, ModuleSet
    <3> QED BY <1>1, <1>b2, <2>2, <3>1
  <2>3. CASE m = "symbol"
    <3>1. Bit[m] = 8
      BY <2>3 DEF Bit, ModuleSet
    <3> QED BY <1>1, <1>b3, <2>3, <3>1
  <2>4. CASE m = "package"
    <3>1. Bit[m] = 16
      BY <2>4 DEF Bit, ModuleSet
    <3> QED BY <1>1, <1>b4, <2>4, <3>1
  <2>5. CASE m = "closure"
    <3>1. Bit[m] = 32
      BY <2>5 DEF Bit, ModuleSet
    <3> QED BY <1>1, <1>b5, <2>5, <3>1
  <2>6. CASE m = "values"
    <3>1. Bit[m] = 64
      BY <2>6 DEF Bit, ModuleSet
    <3> QED BY <1>1, <1>b6, <2>6, <3>1
  <2>7. CASE m = "gc"
    <3>1. Bit[m] = 128
      BY <2>7 DEF Bit, ModuleSet
    <3> QED BY <1>1, <1>b7, <2>7, <3>1
  <2>8. CASE m = "startup"
    <3>1. Bit[m] = 256
      BY <2>8 DEF Bit, ModuleSet
    <3> QED BY <1>1, <1>b8, <2>8, <3>1
  <2>9. CASE m = "platform"
    <3>1. Bit[m] = 512
      BY <2>9 DEF Bit, ModuleSet
    <3> QED BY <1>1, <1>b9, <2>9, <3>1
  <2>10. CASE m = "vector"
    <3>1. Bit[m] = 1024
      BY <2>10 DEF Bit, ModuleSet
    <3> QED BY <1>1, <1>b10, <2>10, <3>1
  <2> QED BY <2>0, <2>1, <2>2, <2>3, <2>4, <2>5, <2>6, <2>7, <2>8, <2>9, <2>10 DEF ModuleSet
<1>5. ModulesOf(mask0) = S
  BY <1>4 DEF ModulesOf
<1> QED BY <1>3, <1>5 DEF mask0

\* native_runtime_mask_union computes the union.
LEMMA UnionOfMasks ==
    ASSUME NEW S \in SUBSET ModuleSet, NEW T \in SUBSET ModuleSet
    PROVE  /\ BitsAnd(MaskOf(S), MaskOf(T)) = MaskOf(S \cap T)
           /\ MaskUnion(MaskOf(S), MaskOf(T)) = MaskOf(S \cup T)
<1>1. BitsAnd(MaskOf(S), MaskOf(T)) = MaskOf(S \cap T)
  BY ModulesOfMask DEF BitsAnd
<1>2. ASSUME NEW m
      PROVE  /\ Flag(m, S \cup T) = Flag(m, S) + Flag(m, T) - Flag(m, S \cap T)
             /\ Flag(m, S) \in Nat /\ Flag(m, T) \in Nat /\ Flag(m, S \cap T) \in Nat
  BY DEF Flag
<1>3. MaskOf(S \cup T) = MaskOf(S) + (MaskOf(T) - MaskOf(S \cap T))
  <2> DEFINE Split(m) ==
               /\ Flag(m, S \cup T) = Flag(m, S) + Flag(m, T) - Flag(m, S \cap T)
               /\ Flag(m, S) \in Nat /\ Flag(m, T) \in Nat /\ Flag(m, S \cap T) \in Nat
  <2>1. /\ Split("value") /\ Split("cons") /\ Split("string") /\ Split("symbol")
        /\ Split("package") /\ Split("closure") /\ Split("values") /\ Split("gc")
        /\ Split("startup") /\ Split("platform") /\ Split("vector")
    BY <1>2
  <2> QED BY <2>1, MaskDigits
<1> QED BY <1>1, <1>3 DEF MaskUnion

\* A mask is positive when its set is not empty.
LEMMA PositiveMask ==
    ASSUME NEW S \in SUBSET ModuleSet
    PROVE  MaskOf(S) > 0 <=> S # {}
<1>1. MaskOf(S) = 0 => S = {}
  <2>1. ModulesOf(0) = {}
    BY DEF ModulesOf, Bit, ModuleSet
  <2> QED BY <2>1, ModulesOfMask
<1>2. MaskOf({}) = 0
  <2>1. \A m : Flag(m, {}) = 0
    BY DEF Flag
  <2> QED BY <2>1, MaskDigits
<1>3. MaskOf(S) \in 0..2047
  BY ModulesOfMask
<1>4. CASE S = {}
  BY <1>2, <1>4
<1>5. CASE S # {}
  <2>1. MaskOf(S) # 0
    BY Zenon, <1>1, <1>5
  <2>2. MaskOf(S) > 0
    BY <1>3, <2>1
  <2> QED BY <1>5, <2>2
<1> QED BY <1>4, <1>5

-----------------------------------------------------------------------------
(* What a module leads to.                                                 *)

\* The module, the modules it depends on, and so on.
Reach ==
    [m \in ModuleSet |->
        CASE m \in {"value", "platform"} -> {m}
          [] m = "startup" -> {"startup", "platform"}
          [] m = "gc" -> {"gc", "startup", "platform"}
          [] m = "symbol" -> {"symbol", "string", "gc", "startup", "platform"}
          [] m = "package" -> {"package", "symbol", "string", "gc", "startup", "platform"}
          [] OTHER -> {m, "gc", "startup", "platform"}]

ReachOf(R) == {n \in ModuleSet : \E m \in R : n \in Reach[m]}

\* Reach is the reflexive and transitive closure of the edges of Stage 0.
LEMMA ReachClosed ==
    ASSUME NEW m \in ModuleSet
    PROVE  /\ Reach[m] \subseteq ModuleSet
           /\ m \in Reach[m]
           /\ Dependencies[m] \subseteq Reach[m]
           /\ \A n \in Reach[m] : Reach[n] \subseteq Reach[m]
<1>1. /\ Reach[m] \subseteq ModuleSet
      /\ m \in Reach[m]
      /\ Dependencies[m] \subseteq Reach[m]
  BY DEF Reach, Dependencies, ModuleSet
<1>2. ASSUME NEW n \in Reach[m]
      PROVE  Reach[n] \subseteq Reach[m]
  BY DEF Reach, ModuleSet
<1> QED BY <1>1, <1>2

\* What a set of modules leads to is closed.
LEMMA ReachOfClosed ==
    ASSUME NEW R \in SUBSET ModuleSet, NEW T \in SUBSET ModuleSet
    PROVE  /\ R \subseteq ReachOf(R)
           /\ ReachOf(ReachOf(R) \cup T) = ReachOf(R \cup T)
           /\ \A m \in ReachOf(R) : Reach[m] \subseteq ReachOf(R)
<1>1. R \subseteq ReachOf(R)
  BY ReachClosed DEF ReachOf
<1>2. \A m \in ReachOf(R) : Reach[m] \subseteq ReachOf(R)
  BY ReachClosed DEF ReachOf
<1>3. ReachOf(R \cup T) \subseteq ReachOf(ReachOf(R) \cup T)
  BY <1>1 DEF ReachOf
<1>4. ReachOf(ReachOf(R) \cup T) \subseteq ReachOf(R \cup T)
  BY <1>2 DEF ReachOf
<1> QED BY <1>1, <1>2, <1>3, <1>4

-----------------------------------------------------------------------------
(* The native tables.                                                      *)

\* The bits of the modules, and the masks of the tables as sets.
LEMMA TableMasks ==
    /\ MaskOf({}) = 0
    /\ 1 = MaskOf(Reach["value"]) /\ 898 = MaskOf(Reach["cons"])
    /\ 900 = MaskOf(Reach["string"]) /\ 908 = MaskOf(Reach["symbol"])
    /\ 924 = MaskOf(Reach["package"]) /\ 928 = MaskOf(Reach["closure"])
    /\ 960 = MaskOf(Reach["values"]) /\ 896 = MaskOf(Reach["gc"])
    /\ 512 = MaskOf(Reach["platform"]) /\ 1920 = MaskOf(Reach["vector"])
    /\ 2 = MaskOf({"cons"}) /\ 4 = MaskOf({"string"}) /\ 8 = MaskOf({"symbol"})
    /\ 16 = MaskOf({"package"}) /\ 32 = MaskOf({"closure"}) /\ 64 = MaskOf({"values"})
    /\ 128 = MaskOf({"gc"}) /\ 256 = MaskOf({"startup"}) /\ 512 = MaskOf({"platform"})
    /\ 1024 = MaskOf({"vector"})
<1>1. MaskOf({}) = 0
  BY DEF MaskOf
<1>2. 1 = MaskOf(Reach["value"])
  BY DEF MaskOf, Reach, Bit, ModuleSet
<1>3. 898 = MaskOf(Reach["cons"])
  BY DEF MaskOf, Reach, Bit, ModuleSet
<1>4. 900 = MaskOf(Reach["string"])
  BY DEF MaskOf, Reach, Bit, ModuleSet
<1>5. 908 = MaskOf(Reach["symbol"])
  BY DEF MaskOf, Reach, Bit, ModuleSet
<1>6. 924 = MaskOf(Reach["package"])
  BY DEF MaskOf, Reach, Bit, ModuleSet
<1>7. 928 = MaskOf(Reach["closure"])
  BY DEF MaskOf, Reach, Bit, ModuleSet
<1>8. 960 = MaskOf(Reach["values"])
  BY DEF MaskOf, Reach, Bit, ModuleSet
<1>9. 896 = MaskOf(Reach["gc"])
  BY DEF MaskOf, Reach, Bit, ModuleSet
<1>10. 512 = MaskOf(Reach["platform"])
  BY DEF MaskOf, Reach, Bit, ModuleSet
<1>11. 1920 = MaskOf(Reach["vector"])
  BY DEF MaskOf, Reach, Bit, ModuleSet
<1>12. 2 = MaskOf({"cons"})
  BY DEF MaskOf, Bit, ModuleSet
<1>13. 4 = MaskOf({"string"})
  BY DEF MaskOf, Bit, ModuleSet
<1>14. 8 = MaskOf({"symbol"})
  BY DEF MaskOf, Bit, ModuleSet
<1>15. 16 = MaskOf({"package"})
  BY DEF MaskOf, Bit, ModuleSet
<1>16. 32 = MaskOf({"closure"})
  BY DEF MaskOf, Bit, ModuleSet
<1>17. 64 = MaskOf({"values"})
  BY DEF MaskOf, Bit, ModuleSet
<1>18. 128 = MaskOf({"gc"})
  BY DEF MaskOf, Bit, ModuleSet
<1>19. 256 = MaskOf({"startup"})
  BY DEF MaskOf, Bit, ModuleSet
<1>20. 512 = MaskOf({"platform"})
  BY DEF MaskOf, Bit, ModuleSet
<1>21. 1024 = MaskOf({"vector"})
  BY DEF MaskOf, Bit, ModuleSet
<1> QED BY <1>1, <1>2, <1>3, <1>4, <1>5, <1>6, <1>7, <1>8, <1>9, <1>10, <1>11, <1>12, <1>13, <1>14, <1>15, <1>16, <1>17, <1>18, <1>19, <1>20, <1>21

\* The module whose file defines the function of a runtime signature.
Definer(id) ==
    CASE id \in {1, 2, 3} -> "cons"
      [] id \in {4, 5, 9, 10} -> "value"
      [] id \in {6, 7, 8} -> "gc"
      [] id \in {11, 12, 13, 14} -> "string"
      [] id \in {15, 16} -> "symbol"
      [] id \in {17, 18, 19} -> "package"
      [] id \in {20, 21} -> "values"
      [] id \in {22, 23} -> "closure"
      [] OTHER -> "vector"

\* native_runtime_module_mask gives a function the module that defines it and what
\* that module leads to.
LEMMA ModuleMaskIsReach ==
    ASSUME NEW id \in Ids
    PROVE  /\ Definer(id) \in ModuleSet
           /\ ModuleMask(id) = MaskOf(Reach[Definer(id)])
<1>1. Definer(id) \in ModuleSet
  BY DEF Definer, ModuleSet
<1>2. CASE id \in {1, 2, 3}
  <2>1. Definer(id) = "cons"
    BY <1>2 DEF Definer
  <2>2. ModuleMask(id) = 898
    BY <1>2 DEF ModuleMask
  <2> QED BY <1>1, <2>1, <2>2, TableMasks
<1>3. CASE id \in {4, 5, 9, 10}
  <2>1. Definer(id) = "value"
    BY <1>3 DEF Definer
  <2>2. ModuleMask(id) = 1
    BY <1>3 DEF ModuleMask
  <2> QED BY <1>1, <2>1, <2>2, TableMasks
<1>4. CASE id \in {6, 7, 8}
  <2>1. Definer(id) = "gc"
    BY <1>4 DEF Definer
  <2>2. ModuleMask(id) = 896
    BY <1>4 DEF ModuleMask
  <2> QED BY <1>1, <2>1, <2>2, TableMasks
<1>5. CASE id \in {11, 12, 13, 14}
  <2>1. Definer(id) = "string"
    BY <1>5 DEF Definer
  <2>2. ModuleMask(id) = 900
    BY <1>5 DEF ModuleMask
  <2> QED BY <1>1, <2>1, <2>2, TableMasks
<1>6. CASE id \in {15, 16}
  <2>1. Definer(id) = "symbol"
    BY <1>6 DEF Definer
  <2>2. ModuleMask(id) = 908
    BY <1>6 DEF ModuleMask
  <2> QED BY <1>1, <2>1, <2>2, TableMasks
<1>7. CASE id \in {17, 18, 19}
  <2>1. Definer(id) = "package"
    BY <1>7 DEF Definer
  <2>2. ModuleMask(id) = 924
    BY <1>7 DEF ModuleMask
  <2> QED BY <1>1, <2>1, <2>2, TableMasks
<1>8. CASE id \in {20, 21}
  <2>1. Definer(id) = "values"
    BY <1>8 DEF Definer
  <2>2. ModuleMask(id) = 960
    BY <1>8 DEF ModuleMask
  <2> QED BY <1>1, <2>1, <2>2, TableMasks
<1>9. CASE id \in {22, 23}
  <2>1. Definer(id) = "closure"
    BY <1>9 DEF Definer
  <2>2. ModuleMask(id) = 928
    BY <1>9 DEF ModuleMask
  <2> QED BY <1>1, <2>1, <2>2, TableMasks
<1>10. CASE id \in {24, 25, 26, 27, 28}
  <2>1. Definer(id) = "vector"
    BY <1>10 DEF Definer
  <2>2. ModuleMask(id) = 1920
    BY <1>10 DEF ModuleMask
  <2> QED BY <1>1, <2>1, <2>2, TableMasks
<1> QED BY <1>1, <1>2, <1>3, <1>4, <1>5, <1>6, <1>7, <1>8, <1>9, <1>10 DEF Ids

\* The test of native_runtime_add_dependencies asks whether a module is a root.
LEMMA RootTest ==
    ASSUME NEW R \in SUBSET ModuleSet, NEW m \in ModuleSet
    PROVE  BitsAnd(MaskOf(R), MaskOf({m})) > 0 <=> m \in R
<1>1. BitsAnd(MaskOf(R), MaskOf({m})) = MaskOf(R \cap {m})
  BY UnionOfMasks
<1>2. R \cap {m} \in SUBSET ModuleSet
  OBVIOUS
<1>3. MaskOf(R \cap {m}) > 0 <=> R \cap {m} # {}
  BY <1>2, PositiveMask
<1> QED BY <1>1, <1>3

\* native_runtime_link_dependencies closes the roots in one pass, although its rows
\* look at the roots and not at what earlier rows added.
LEMMA LinkCloses ==
    ASSUME NEW R \in SUBSET ModuleSet
    PROVE  LinkDependencies(MaskOf(R)) = MaskOf(ReachOf(R))
<1> DEFINE Grow(M, m, n) == IF m \in R THEN M \cup Reach[n] ELSE M
           S1 == Grow(R, "cons", "cons")
           S2 == Grow(S1, "string", "gc")
           S3 == Grow(S2, "symbol", "string")
           S4 == Grow(S3, "package", "symbol")
           S5 == Grow(S4, "closure", "gc")
           S6 == Grow(S5, "values", "gc")
           S7 == Grow(S6, "gc", "gc")
           S8 == Grow(S7, "startup", "platform")
           S9 == Grow(S8, "platform", "platform")
           S10 == Grow(S9, "vector", "gc")
           Add(modules, selected, dependencies) ==
             AddDependencies(modules, MaskOf(R), selected, dependencies)
<1>1. ASSUME NEW M \in SUBSET ModuleSet, NEW m \in ModuleSet, NEW n \in ModuleSet
      PROVE  /\ Grow(M, m, n) \in SUBSET ModuleSet
             /\ Add(MaskOf(M), MaskOf({m}), MaskOf(Reach[n])) = MaskOf(Grow(M, m, n))
  <2>1. Reach[n] \in SUBSET ModuleSet
    BY ReachClosed
  <2>2. Add(MaskOf(M), MaskOf({m}), MaskOf(Reach[n])) = MaskOf(Grow(M, m, n))
    <3>1. CASE m \in R
      <4>1. MaskUnion(MaskOf(M), MaskOf(Reach[n])) = MaskOf(M \cup Reach[n])
        BY <2>1, UnionOfMasks
      <4> QED BY <3>1, <4>1, RootTest DEF AddDependencies
    <3>2. CASE m \notin R
      BY <3>2, RootTest DEF AddDependencies
    <3> QED BY <3>1, <3>2
  <2>3. Grow(M, m, n) \in SUBSET ModuleSet
    BY <2>1
  <2> QED BY <2>2, <2>3
<1>2. /\ "cons" \in ModuleSet /\ "string" \in ModuleSet /\ "symbol" \in ModuleSet
      /\ "package" \in ModuleSet /\ "closure" \in ModuleSet /\ "values" \in ModuleSet
      /\ "gc" \in ModuleSet /\ "startup" \in ModuleSet /\ "platform" \in ModuleSet
      /\ "vector" \in ModuleSet
  BY DEF ModuleSet
<1>3. /\ S1 \in SUBSET ModuleSet /\ S2 \in SUBSET ModuleSet /\ S3 \in SUBSET ModuleSet
      /\ S4 \in SUBSET ModuleSet /\ S5 \in SUBSET ModuleSet /\ S6 \in SUBSET ModuleSet
      /\ S7 \in SUBSET ModuleSet /\ S8 \in SUBSET ModuleSet /\ S9 \in SUBSET ModuleSet
  <2> HIDE DEF Grow
  <2> QED BY <1>1, <1>2
<1>4. ASSUME NEW M, NEW m, NEW k, NEW n
      PROVE  n \in Grow(M, m, k) <=> n \in M \/ (m \in R /\ n \in Reach[k])
  OBVIOUS
<1> HIDE DEF Grow
<1>5. S10 = ReachOf(R)
  <2>1. ASSUME NEW n
        PROVE  n \in S10 <=>
                 \/ n \in R
                 \/ "cons" \in R /\ n \in Reach["cons"]
                 \/ "string" \in R /\ n \in Reach["gc"]
                 \/ "symbol" \in R /\ n \in Reach["string"]
                 \/ "package" \in R /\ n \in Reach["symbol"]
                 \/ "closure" \in R /\ n \in Reach["gc"]
                 \/ "values" \in R /\ n \in Reach["gc"]
                 \/ "gc" \in R /\ n \in Reach["gc"]
                 \/ "startup" \in R /\ n \in Reach["platform"]
                 \/ "platform" \in R /\ n \in Reach["platform"]
                 \/ "vector" \in R /\ n \in Reach["gc"]
    BY <1>4
  <2> HIDE DEF S10
  <2>2. ASSUME NEW n \in S10 PROVE n \in ReachOf(R)
    <3>1. \E m \in R : n \in Reach[m]
      BY <2>1, ReachClosed DEF Reach, ModuleSet
    <3> QED BY <3>1, ReachClosed DEF ReachOf
  <2>3. ASSUME NEW m \in R, NEW n \in Reach[m] PROVE n \in S10
    BY <2>1 DEF Reach, ModuleSet
  <2>4. ReachOf(R) \subseteq S10
    BY <2>3 DEF ReachOf
  <2>5. S10 \subseteq ReachOf(R)
    BY <2>2
  <2> QED BY <2>4, <2>5
<1>r1. Add(MaskOf(R), 2, 898) = MaskOf(S1)
  <2>1. Add(MaskOf(R), MaskOf({"cons"}), MaskOf(Reach["cons"])) = MaskOf(Grow(R, "cons", "cons"))
    BY <1>1, <1>2, <1>3
  <2> QED BY <2>1, TableMasks
<1>r2. Add(MaskOf(S1), 4, 896) = MaskOf(S2)
  <2>1. Add(MaskOf(S1), MaskOf({"string"}), MaskOf(Reach["gc"])) = MaskOf(Grow(S1, "string", "gc"))
    BY <1>1, <1>2, <1>3
  <2> QED BY <2>1, TableMasks
<1>r3. Add(MaskOf(S2), 8, 900) = MaskOf(S3)
  <2>1. Add(MaskOf(S2), MaskOf({"symbol"}), MaskOf(Reach["string"])) = MaskOf(Grow(S2, "symbol", "string"))
    BY <1>1, <1>2, <1>3
  <2> QED BY <2>1, TableMasks
<1>r4. Add(MaskOf(S3), 16, 908) = MaskOf(S4)
  <2>1. Add(MaskOf(S3), MaskOf({"package"}), MaskOf(Reach["symbol"])) = MaskOf(Grow(S3, "package", "symbol"))
    BY <1>1, <1>2, <1>3
  <2> QED BY <2>1, TableMasks
<1>r5. Add(MaskOf(S4), 32, 896) = MaskOf(S5)
  <2>1. Add(MaskOf(S4), MaskOf({"closure"}), MaskOf(Reach["gc"])) = MaskOf(Grow(S4, "closure", "gc"))
    BY <1>1, <1>2, <1>3
  <2> QED BY <2>1, TableMasks
<1>r6. Add(MaskOf(S5), 64, 896) = MaskOf(S6)
  <2>1. Add(MaskOf(S5), MaskOf({"values"}), MaskOf(Reach["gc"])) = MaskOf(Grow(S5, "values", "gc"))
    BY <1>1, <1>2, <1>3
  <2> QED BY <2>1, TableMasks
<1>r7. Add(MaskOf(S6), 128, 896) = MaskOf(S7)
  <2>1. Add(MaskOf(S6), MaskOf({"gc"}), MaskOf(Reach["gc"])) = MaskOf(Grow(S6, "gc", "gc"))
    BY <1>1, <1>2, <1>3
  <2> QED BY <2>1, TableMasks
<1>r8. Add(MaskOf(S7), 256, 512) = MaskOf(S8)
  <2>1. Add(MaskOf(S7), MaskOf({"startup"}), MaskOf(Reach["platform"])) = MaskOf(Grow(S7, "startup", "platform"))
    BY <1>1, <1>2, <1>3
  <2> QED BY <2>1, TableMasks
<1>r9. Add(MaskOf(S8), 512, 512) = MaskOf(S9)
  <2>1. Add(MaskOf(S8), MaskOf({"platform"}), MaskOf(Reach["platform"])) = MaskOf(Grow(S8, "platform", "platform"))
    BY <1>1, <1>2, <1>3
  <2> QED BY <2>1, TableMasks
<1>r10. Add(MaskOf(S9), 1024, 896) = MaskOf(S10)
  <2>1. Add(MaskOf(S9), MaskOf({"vector"}), MaskOf(Reach["gc"])) = MaskOf(Grow(S9, "vector", "gc"))
    BY <1>1, <1>2, <1>3
  <2> QED BY <2>1, TableMasks
<1>6. LinkDependencies(MaskOf(R)) =
        Add(Add(Add(Add(Add(Add(Add(Add(Add(Add(MaskOf(R), 2, 898), 4, 896), 8, 900),
          16, 908), 32, 896), 64, 896), 128, 896), 256, 512), 512, 512), 1024, 896)
  BY DEF LinkDependencies
<1> HIDE DEF Add, S1, S2, S3, S4, S5, S6, S7, S8, S9, S10
<1> QED BY <1>5, <1>6, <1>r1, <1>r2, <1>r3, <1>r4, <1>r5, <1>r6, <1>r7, <1>r8, <1>r9, <1>r10
-----------------------------------------------------------------------------
(* The closure of Stage 0.                                                 *)

\* One round of visits.
Visit(V) == V \cup UNION {Dependencies[m] : m \in V}

\* What the rounds of ModuleClosure compute, one after the other.
Rounds(f, roots) ==
    /\ f[0] = roots
    /\ \A n \in 1..ModuleCount : f[n] = Visit(f[n - 1])

\* The recursive definition in ModuleClosure defines a function.
LEMMA ClosureRounds ==
    ASSUME NEW roots
    PROVE  \E f : Rounds(f, roots) /\ ModuleClosure(roots) = f[ModuleCount]
<1> DEFINE v0 == roots
           v1 == Visit(v0)
           v2 == Visit(v1)
           v3 == Visit(v2)
           v4 == Visit(v3)
           v5 == Visit(v4)
           v6 == Visit(v5)
           v7 == Visit(v6)
           v8 == Visit(v7)
           v9 == Visit(v8)
           v10 == Visit(v9)
           v11 == Visit(v10)
           f == [n \in 0..ModuleCount |->
                   CASE n = 0 -> v0 [] n = 1 -> v1 [] n = 2 -> v2 [] n = 3 -> v3
                      [] n = 4 -> v4 [] n = 5 -> v5 [] n = 6 -> v6 [] n = 7 -> v7
                      [] n = 8 -> v8 [] n = 9 -> v9 [] n = 10 -> v10
                      [] OTHER -> v11]
           Body(g) == [n \in 0..ModuleCount |->
                         IF n = 0 THEN roots
                         ELSE g[n - 1] \cup UNION {Dependencies[m] : m \in g[n - 1]}]
           visited == CHOOSE g : g = Body(g)
<1>1. /\ v1 = Visit(v0)
      /\ v2 = Visit(v1)
      /\ v3 = Visit(v2)
      /\ v4 = Visit(v3)
      /\ v5 = Visit(v4)
      /\ v6 = Visit(v5)
      /\ v7 = Visit(v6)
      /\ v8 = Visit(v7)
      /\ v9 = Visit(v8)
      /\ v10 = Visit(v9)
      /\ v11 = Visit(v10)
  OBVIOUS
<1> HIDE DEF v0, v1, v2, v3, v4, v5, v6, v7, v8, v9, v10, v11
<1>2. ASSUME NEW n \in 0..ModuleCount, n # 0
      PROVE  f[n] = Visit(f[n - 1])
  <2>1. CASE n = 1
    BY <1>1, <2>1 DEF ModuleCount
  <2>2. CASE n = 2
    BY <1>1, <2>2 DEF ModuleCount
  <2>3. CASE n = 3
    BY <1>1, <2>3 DEF ModuleCount
  <2>4. CASE n = 4
    BY <1>1, <2>4 DEF ModuleCount
  <2>5. CASE n = 5
    BY <1>1, <2>5 DEF ModuleCount
  <2>6. CASE n = 6
    BY <1>1, <2>6 DEF ModuleCount
  <2>7. CASE n = 7
    BY <1>1, <2>7 DEF ModuleCount
  <2>8. CASE n = 8
    BY <1>1, <2>8 DEF ModuleCount
  <2>9. CASE n = 9
    BY <1>1, <2>9 DEF ModuleCount
  <2>10. CASE n = 10
    BY <1>1, <2>10 DEF ModuleCount
  <2>11. CASE n = 11
    BY <1>1, <2>11 DEF ModuleCount
  <2> QED BY <1>2, <2>1, <2>2, <2>3, <2>4, <2>5, <2>6, <2>7, <2>8, <2>9, <2>10, <2>11 DEF ModuleCount
<1>3. f[0] = roots
  BY DEF v0, ModuleCount
<1>4. f = Body(f)
  <2>1. f = [n \in 0..ModuleCount |-> f[n]]
    OBVIOUS
  <2> HIDE DEF f
  <2> QED BY <1>2, <1>3, <2>1 DEF Visit
<1> HIDE DEF f
<1>5. visited = Body(visited)
  <2> HIDE DEF Body
  <2> QED BY <1>4
<1>6. ModuleClosure(roots) = visited[ModuleCount]
  BY DEF ModuleClosure
<1> HIDE DEF visited
<1>7. visited[0] = roots
  BY <1>5 DEF ModuleCount
<1>8. ASSUME NEW n \in 1..ModuleCount
      PROVE  visited[n] = Visit(visited[n - 1])
  <2>1. n \in 0..ModuleCount /\ n # 0
    BY DEF ModuleCount
  <2>2. visited[n] = Body(visited)[n]
    BY <1>5
  <2>3. Body(visited)[n] = Visit(visited[n - 1])
    BY <2>1 DEF Visit
  <2> QED BY <2>2, <2>3
<1> QED BY <1>6, <1>7, <1>8 DEF Rounds

\* A round visits the dependencies and nothing that the roots do not lead to.
LEMMA VisitFacts ==
    ASSUME NEW V \in SUBSET ModuleSet, NEW R \in SUBSET ModuleSet
    PROVE  /\ V \subseteq Visit(V)
           /\ Visit(V) \subseteq ModuleSet
           /\ \A m \in V : Dependencies[m] \subseteq Visit(V)
           /\ V \subseteq ReachOf(R) => Visit(V) \subseteq ReachOf(R)
<1>1. \A m \in ModuleSet : Dependencies[m] \subseteq ModuleSet
  BY ReachClosed
<1>2. V \subseteq Visit(V) /\ \A m \in V : Dependencies[m] \subseteq Visit(V)
  BY DEF Visit
<1>3. Visit(V) \subseteq ModuleSet
  BY <1>1 DEF Visit
<1>4. ASSUME V \subseteq ReachOf(R), NEW m \in V, NEW n \in Dependencies[m]
      PROVE  n \in ReachOf(R)
  <2>1. n \in Reach[m]
    BY ReachClosed
  <2>2. Reach[m] \subseteq ReachOf(R)
    BY <1>4, ReachOfClosed
  <2> QED BY <2>1, <2>2
<1>5. V \subseteq ReachOf(R) => Visit(V) \subseteq ReachOf(R)
  BY <1>4 DEF Visit
<1> QED BY <1>2, <1>3, <1>5

\* runtime-module-closure of Stage 0 visits exactly what the roots lead to.
LEMMA ClosureIsReach ==
    ASSUME NEW R \in SUBSET ModuleSet
    PROVE  ModuleClosure(R) = ReachOf(R)
<1>1. PICK f : Rounds(f, R) /\ ModuleClosure(R) = f[ModuleCount]
  BY ClosureRounds
<1>2. /\ f[0] = R
      /\ f[1] = Visit(f[0])
      /\ f[2] = Visit(f[1])
      /\ f[3] = Visit(f[2])
      /\ f[4] = Visit(f[3])
      /\ f[5] = Visit(f[4])
      /\ f[6] = Visit(f[5])
      /\ f[7] = Visit(f[6])
      /\ f[8] = Visit(f[7])
      /\ f[9] = Visit(f[8])
      /\ f[10] = Visit(f[9])
      /\ f[11] = Visit(f[10])
  BY <1>1 DEF Rounds, ModuleCount
<1>3. R \subseteq ReachOf(R)
  BY ReachOfClosed
<1>r0. f[0] \subseteq ModuleSet /\ f[0] \subseteq ReachOf(R)
  BY <1>2, <1>3
<1>r1. f[1] \subseteq ModuleSet /\ f[1] \subseteq ReachOf(R) /\ f[0] \subseteq f[1]
      /\ \A m \in f[0] : Dependencies[m] \subseteq f[1]
  BY <1>2, <1>r0, VisitFacts
<1>r2. f[2] \subseteq ModuleSet /\ f[2] \subseteq ReachOf(R) /\ f[1] \subseteq f[2]
      /\ \A m \in f[1] : Dependencies[m] \subseteq f[2]
  BY <1>2, <1>r1, VisitFacts
<1>r3. f[3] \subseteq ModuleSet /\ f[3] \subseteq ReachOf(R) /\ f[2] \subseteq f[3]
      /\ \A m \in f[2] : Dependencies[m] \subseteq f[3]
  BY <1>2, <1>r2, VisitFacts
<1>r4. f[4] \subseteq ModuleSet /\ f[4] \subseteq ReachOf(R) /\ f[3] \subseteq f[4]
      /\ \A m \in f[3] : Dependencies[m] \subseteq f[4]
  BY <1>2, <1>r3, VisitFacts
<1>r5. f[5] \subseteq ModuleSet /\ f[5] \subseteq ReachOf(R) /\ f[4] \subseteq f[5]
      /\ \A m \in f[4] : Dependencies[m] \subseteq f[5]
  BY <1>2, <1>r4, VisitFacts
<1>r6. f[6] \subseteq ModuleSet /\ f[6] \subseteq ReachOf(R) /\ f[5] \subseteq f[6]
      /\ \A m \in f[5] : Dependencies[m] \subseteq f[6]
  BY <1>2, <1>r5, VisitFacts
<1>r7. f[7] \subseteq ModuleSet /\ f[7] \subseteq ReachOf(R) /\ f[6] \subseteq f[7]
      /\ \A m \in f[6] : Dependencies[m] \subseteq f[7]
  BY <1>2, <1>r6, VisitFacts
<1>r8. f[8] \subseteq ModuleSet /\ f[8] \subseteq ReachOf(R) /\ f[7] \subseteq f[8]
      /\ \A m \in f[7] : Dependencies[m] \subseteq f[8]
  BY <1>2, <1>r7, VisitFacts
<1>r9. f[9] \subseteq ModuleSet /\ f[9] \subseteq ReachOf(R) /\ f[8] \subseteq f[9]
      /\ \A m \in f[8] : Dependencies[m] \subseteq f[9]
  BY <1>2, <1>r8, VisitFacts
<1>r10. f[10] \subseteq ModuleSet /\ f[10] \subseteq ReachOf(R) /\ f[9] \subseteq f[10]
      /\ \A m \in f[9] : Dependencies[m] \subseteq f[10]
  BY <1>2, <1>r9, VisitFacts
<1>r11. f[11] \subseteq ModuleSet /\ f[11] \subseteq ReachOf(R) /\ f[10] \subseteq f[11]
      /\ \A m \in f[10] : Dependencies[m] \subseteq f[11]
  BY <1>2, <1>r10, VisitFacts
<1>4. ASSUME NEW m \in R, NEW n \in Reach[m]
      PROVE  n \in f[5]
  <2>1. "package" \in f[0] => "symbol" \in f[1]
    BY <1>r1 DEF Dependencies, ModuleSet
  <2>2. "symbol" \in f[1] => "string" \in f[2]
    BY <1>r2 DEF Dependencies, ModuleSet
  <2>3. \A x \in f[2] : x \notin {"value", "platform", "startup", "gc", "symbol", "package"} =>
          "gc" \in f[3]
    BY <1>r2, <1>r3 DEF Dependencies, ModuleSet
  <2>4. "gc" \in f[3] => "startup" \in f[4]
    BY <1>r4 DEF Dependencies, ModuleSet
  <2>5. "startup" \in f[4] => "platform" \in f[5]
    BY <1>r5 DEF Dependencies, ModuleSet
  <2>6. /\ f[0] \subseteq f[1] /\ f[1] \subseteq f[2] /\ f[2] \subseteq f[3]
        /\ f[3] \subseteq f[4] /\ f[4] \subseteq f[5]
    BY <1>r1, <1>r2, <1>r3, <1>r4, <1>r5
  <2>7. m \in f[0]
    BY <1>2
  <2> QED BY <2>1, <2>2, <2>3, <2>4, <2>5, <2>6, <2>7 DEF Reach, ModuleSet
<1>5. f[5] \subseteq f[11]
  BY <1>r6, <1>r7, <1>r8, <1>r9, <1>r10, <1>r11
<1>6. ReachOf(R) \subseteq f[11]
  BY <1>4, <1>5 DEF ReachOf
<1>7. ModuleClosure(R) = f[11]
  BY <1>1 DEF ModuleCount
<1> QED BY <1>6, <1>7, <1>r11

\* runtime-module-closure of Stage 0 visits the least set of modules that holds its
\* roots and is closed under *runtime-dependencies*.
THEOREM ClosureIsLeast ==
    ASSUME NEW R \in SUBSET ModuleSet
    PROVE  /\ R \subseteq ModuleClosure(R)
           /\ \A m \in ModuleClosure(R) : Dependencies[m] \subseteq ModuleClosure(R)
           /\ \A S \in SUBSET ModuleSet :
                (R \subseteq S /\ \A m \in S : Dependencies[m] \subseteq S) =>
                  ModuleClosure(R) \subseteq S
<1>1. ModuleClosure(R) = ReachOf(R)
  BY ClosureIsReach
<1>2. R \subseteq ReachOf(R)
  BY ReachOfClosed
<1>3. ASSUME NEW m \in ReachOf(R)
      PROVE  Dependencies[m] \subseteq ReachOf(R)
  <2>1. m \in ModuleSet
    BY DEF ReachOf
  <2>2. Reach[m] \subseteq ReachOf(R)
    BY ReachOfClosed
  <2> QED BY <2>1, <2>2, ReachClosed
<1>4. ASSUME NEW S \in SUBSET ModuleSet, R \subseteq S,
             \A m \in S : Dependencies[m] \subseteq S
      PROVE  ReachOf(R) \subseteq S
  <2>1. "startup" \in S => "platform" \in S
    BY <1>4 DEF Dependencies, ModuleSet
  <2>2. \A m \in {"cons", "string", "closure", "values", "vector"} : m \in S => "gc" \in S
    BY <1>4 DEF Dependencies, ModuleSet
  <2>3. "gc" \in S => "startup" \in S
    BY <1>4 DEF Dependencies, ModuleSet
  <2>4. ("symbol" \in S => "string" \in S) /\ ("package" \in S => "symbol" \in S)
    BY <1>4 DEF Dependencies, ModuleSet
  <2>5. ASSUME NEW m \in R, NEW n \in Reach[m] PROVE n \in S
    BY <1>4, <2>1, <2>2, <2>3, <2>4 DEF Reach, ModuleSet
  <2> QED BY <2>5 DEF ReachOf
<1> QED BY <1>1, <1>2, <1>3, <1>4

-----------------------------------------------------------------------------
(* The symbol tables.                                                      *)

\* The calls between the C files of the runtime stay inside Reach.
LEMMA CallsStayInside ==
    ASSUME NEW m \in ModuleSet, NEW s \in File[m].calls
    PROVE  \E k \in Reach[m] : s \in File[k].defines
<1>1. CASE m \in {"value", "platform"}
  BY <1>1 DEF File, ModuleSet, ValueFile, PlatformFile
<1>2. CASE m = "startup"
  <2>1. s = "platform_stack_top" /\ "platform" \in Reach[m]
    BY <1>2 DEF File, ModuleSet, StartupFile, Reach
  <2>2. "platform_stack_top" \in File["platform"].defines
    BY DEF File, ModuleSet, PlatformFile
  <2> QED BY <2>1, <2>2
<1>3. CASE m = "gc"
  <2>1. s = "stack_top" /\ "startup" \in Reach[m]
    BY <1>3 DEF File, ModuleSet, GcFile, Reach
  <2>2. "stack_top" \in File["startup"].defines
    BY DEF File, ModuleSet, StartupFile
  <2> QED BY <2>1, <2>2
<1>4. ASSUME s \in {"allocate", "allocate_precise", "expect_object", "push_roots",
                    "pop_roots", "register_permanent_roots"},
             "gc" \in Reach[m]
      PROVE  \E k \in Reach[m] : s \in File[k].defines
  <2>1. s \in File["gc"].defines
    BY <1>4 DEF File, ModuleSet, GcFile
  <2> QED BY <1>4, <2>1
<1>5. CASE m \in {"cons", "string", "symbol", "closure", "values", "vector"}
  <2>1. "gc" \in Reach[m]
    BY <1>5 DEF Reach, ModuleSet
  <2>2. s \in {"allocate", "allocate_precise", "expect_object", "push_roots",
               "pop_roots", "register_permanent_roots"}
    BY <1>5 DEF File, ModuleSet, ConsFile, StringFile, SymbolFile, ClosureFile,
                ValuesFile, VectorFile
  <2> QED BY <1>4, <2>1, <2>2
<1>6. CASE m = "package"
  <2>1. {"gc", "symbol", "string"} \subseteq Reach[m]
    BY <1>6 DEF Reach, ModuleSet
  <2>2. s \in {"allocate", "allocate_precise", "expect_object", "push_roots",
               "pop_roots", "make_symbol", "make_symbol_precise", "strings_equal"}
    BY <1>6 DEF File, ModuleSet, PackageFile
  <2>3. CASE s \in {"make_symbol", "make_symbol_precise"}
    <3>1. s \in File["symbol"].defines
      BY <2>3 DEF File, ModuleSet, SymbolFile
    <3> QED BY <2>1, <3>1
  <2>4. CASE s = "strings_equal"
    <3>1. s \in File["string"].defines
      BY <2>4 DEF File, ModuleSet, StringFile
    <3> QED BY <2>1, <3>1
  <2> QED BY <1>4, <2>1, <2>2, <2>3, <2>4
<1> QED BY <1>1, <1>2, <1>3, <1>5, <1>6 DEF ModuleSet

\* Every row of runtime_symbol_module names the module whose file defines the
\* function; the table of Stage 0 has the same rows but for one.
LEMMA Rows ==
    ASSUME NEW m \in ModuleSet
    PROVE  /\ NativeRows[m] \subseteq File[m].defines
           /\ Stage0Rows[m] \subseteq NativeRows[m]
           /\ NativeRows[m] \subseteq Stage0Rows[m] \cup OnlyNative
<1>1. CASE m \in {"value", "cons"}
  BY <1>1 DEF NativeRows, Stage0Rows, File, ModuleSet, ValueFile, ConsFile
<1>2. CASE m \in {"string", "symbol"}
  BY <1>2 DEF NativeRows, Stage0Rows, File, ModuleSet, StringFile, SymbolFile
<1>3. CASE m \in {"package", "closure"}
  BY <1>3 DEF NativeRows, Stage0Rows, File, ModuleSet, PackageFile, ClosureFile
<1>4. CASE m \in {"values", "vector"}
  BY <1>4 DEF NativeRows, Stage0Rows, File, ModuleSet, ValuesFile, VectorFile
<1>5. CASE m = "gc"
  BY <1>5 DEF NativeRows, Stage0Rows, File, ModuleSet, GcFile, OnlyNative
<1>6. CASE m \in {"startup", "platform"}
  BY <1>6 DEF NativeRows, Stage0Rows, ModuleSet
<1> QED BY <1>1, <1>2, <1>3, <1>4, <1>5, <1>6 DEF ModuleSet

\* The file of Definer(id) defines the function of a signature, and the table of
\* Stage 0 has the function in the row of that module and in no other.
LEMMA SignatureRows ==
    ASSUME NEW id \in Ids, NEW m \in ModuleSet
    PROVE  /\ RuntimeName[id] \in Stage0Rows[m] <=> m = Definer(id)
           /\ RuntimeName[id] \in File[Definer(id)].defines
<1>1. CASE id \in {1, 2, 3}
  <2>1. Definer(id) = "cons" /\ "cons" \in ModuleSet
    BY <1>1 DEF Definer, ModuleSet
  <2>2. RuntimeName[id] \in {"cons_precise", "car", "cdr"}
    BY <1>1 DEF RuntimeName
  <2>3. RuntimeName[id] \in File["cons"].defines /\ RuntimeName[id] \in Stage0Rows["cons"]
    BY <2>2 DEF File, Stage0Rows, ModuleSet, ConsFile
  <2>4. m # "cons" => RuntimeName[id] \notin Stage0Rows[m]
    BY <2>2 DEF Stage0Rows, ModuleSet
  <2> QED BY <2>1, <2>3, <2>4
<1>2. CASE id \in {4, 5, 9, 10}
  <2>1. Definer(id) = "value" /\ "value" \in ModuleSet
    BY <1>2 DEF Definer, ModuleSet
  <2>2. RuntimeName[id] \in {"fixnum", "unbox_fixnum", "eq", "truthy"}
    BY <1>2 DEF RuntimeName
  <2>3. RuntimeName[id] \in File["value"].defines /\ RuntimeName[id] \in Stage0Rows["value"]
    BY <2>2 DEF File, Stage0Rows, ModuleSet, ValueFile
  <2>4. m # "value" => RuntimeName[id] \notin Stage0Rows[m]
    BY <2>2 DEF Stage0Rows, ModuleSet
  <2> QED BY <2>1, <2>3, <2>4
<1>3. CASE id \in {6, 7, 8}
  <2>1. Definer(id) = "gc" /\ "gc" \in ModuleSet
    BY <1>3 DEF Definer, ModuleSet
  <2>2. RuntimeName[id] \in {"collect_precise", "push_roots", "pop_roots"}
    BY <1>3 DEF RuntimeName
  <2>3. RuntimeName[id] \in File["gc"].defines /\ RuntimeName[id] \in Stage0Rows["gc"]
    BY <2>2 DEF File, Stage0Rows, ModuleSet, GcFile
  <2>4. m # "gc" => RuntimeName[id] \notin Stage0Rows[m]
    BY <2>2 DEF Stage0Rows, ModuleSet
  <2> QED BY <2>1, <2>3, <2>4
<1>4. CASE id \in {11, 12, 13, 14}
  <2>1. Definer(id) = "string" /\ "string" \in ModuleSet
    BY <1>4 DEF Definer, ModuleSet
  <2>2. RuntimeName[id] \in {"make_string_precise", "string_byte", "string_set_byte", "make_string_from_bytes_precise"}
    BY <1>4 DEF RuntimeName
  <2>3. RuntimeName[id] \in File["string"].defines /\ RuntimeName[id] \in Stage0Rows["string"]
    BY <2>2 DEF File, Stage0Rows, ModuleSet, StringFile
  <2>4. m # "string" => RuntimeName[id] \notin Stage0Rows[m]
    BY <2>2 DEF Stage0Rows, ModuleSet
  <2> QED BY <2>1, <2>3, <2>4
<1>5. CASE id \in {15, 16}
  <2>1. Definer(id) = "symbol" /\ "symbol" \in ModuleSet
    BY <1>5 DEF Definer, ModuleSet
  <2>2. RuntimeName[id] \in {"make_symbol_precise", "symbol_name"}
    BY <1>5 DEF RuntimeName
  <2>3. RuntimeName[id] \in File["symbol"].defines /\ RuntimeName[id] \in Stage0Rows["symbol"]
    BY <2>2 DEF File, Stage0Rows, ModuleSet, SymbolFile
  <2>4. m # "symbol" => RuntimeName[id] \notin Stage0Rows[m]
    BY <2>2 DEF Stage0Rows, ModuleSet
  <2> QED BY <2>1, <2>3, <2>4
<1>6. CASE id \in {17, 18, 19}
  <2>1. Definer(id) = "package" /\ "package" \in ModuleSet
    BY <1>6 DEF Definer, ModuleSet
  <2>2. RuntimeName[id] \in {"make_package_precise", "package_name", "intern_precise"}
    BY <1>6 DEF RuntimeName
  <2>3. RuntimeName[id] \in File["package"].defines /\ RuntimeName[id] \in Stage0Rows["package"]
    BY <2>2 DEF File, Stage0Rows, ModuleSet, PackageFile
  <2>4. m # "package" => RuntimeName[id] \notin Stage0Rows[m]
    BY <2>2 DEF Stage0Rows, ModuleSet
  <2> QED BY <2>1, <2>3, <2>4
<1>7. CASE id \in {20, 21}
  <2>1. Definer(id) = "values" /\ "values" \in ModuleSet
    BY <1>7 DEF Definer, ModuleSet
  <2>2. RuntimeName[id] \in {"values2", "nth_value"}
    BY <1>7 DEF RuntimeName
  <2>3. RuntimeName[id] \in File["values"].defines /\ RuntimeName[id] \in Stage0Rows["values"]
    BY <2>2 DEF File, Stage0Rows, ModuleSet, ValuesFile
  <2>4. m # "values" => RuntimeName[id] \notin Stage0Rows[m]
    BY <2>2 DEF Stage0Rows, ModuleSet
  <2> QED BY <2>1, <2>3, <2>4
<1>8. CASE id \in {22, 23}
  <2>1. Definer(id) = "closure" /\ "closure" \in ModuleSet
    BY <1>8 DEF Definer, ModuleSet
  <2>2. RuntimeName[id] \in {"make_closure_precise", "call_closure"}
    BY <1>8 DEF RuntimeName
  <2>3. RuntimeName[id] \in File["closure"].defines /\ RuntimeName[id] \in Stage0Rows["closure"]
    BY <2>2 DEF File, Stage0Rows, ModuleSet, ClosureFile
  <2>4. m # "closure" => RuntimeName[id] \notin Stage0Rows[m]
    BY <2>2 DEF Stage0Rows, ModuleSet
  <2> QED BY <2>1, <2>3, <2>4
<1>9. CASE id \in {24, 25, 26, 27, 28}
  <2>1. Definer(id) = "vector" /\ "vector" \in ModuleSet
    BY <1>9 DEF Definer, ModuleSet
  <2>2. RuntimeName[id] \in {"make_value_vector_precise", "value_vector_length", "value_vector_ref", "value_vector_set", "value_vector_push_precise"}
    BY <1>9 DEF RuntimeName
  <2>3. RuntimeName[id] \in File["vector"].defines /\ RuntimeName[id] \in Stage0Rows["vector"]
    BY <2>2 DEF File, Stage0Rows, ModuleSet, VectorFile
  <2>4. m # "vector" => RuntimeName[id] \notin Stage0Rows[m]
    BY <2>2 DEF Stage0Rows, ModuleSet
  <2> QED BY <2>1, <2>3, <2>4
<1> QED BY <1>1, <1>2, <1>3, <1>4, <1>5, <1>6, <1>7, <1>8, <1>9 DEF Ids

\* No row of either table is for something unreadable.
LEMMA NotReadable ==
    ASSUME NEW m \in ModuleSet
    PROVE  "unreadable" \notin NativeRows[m]
BY DEF NativeRows, ModuleSet

-----------------------------------------------------------------------------
(* The inductive invariant.                                                *)

\* The modules that define the functions looked at before signature i, the ones
\* that the C inputs select, and both for the whole unit.
Defining(i) == {Definer(id) : id \in {x \in used : x < i}}
Scanned == Roots(NativeRows, sources \cup inputs)
Referenced == Defining(29) \cup Scanned

\* In every phase the mask is the mask of a set of modules: what the functions
\* looked at lead to, then also what the C inputs reference, then the closure.
Inductive ==
    /\ used \subseteq Ids
    /\ index \in 1..29
    /\ phase \in {"register", "collect", "close", "compile", "linked", "failed"}
    /\ phase = "register" => index = 1
    /\ phase \in {"register", "collect"} => mask = MaskOf(ReachOf(Defining(index)))
    /\ phase \in {"close", "compile", "linked"} =>
         Unknown(NativeRows, sources \cup inputs) = {} /\ index = 29
    /\ phase = "close" => mask = MaskOf(ReachOf(Defining(29)) \cup Scanned)
    /\ phase = "compile" => mask = MaskOf(ReachOf(Referenced))
    /\ phase = "linked" => objects = ReachOf(Referenced)
    /\ phase = "failed" =>
         \/ Unknown(NativeRows, sources \cup inputs) # {}
         \/ \E id \in Ids : RuntimeName[id] \in imports

\* The modules referenced are modules of the runtime.
LEMMA ReferencedModules ==
    ASSUME used \subseteq Ids
    PROVE  /\ \A i : Defining(i) \in SUBSET ModuleSet
           /\ Scanned \in SUBSET ModuleSet
           /\ Referenced \in SUBSET ModuleSet
           /\ Defining(29) = {Definer(id) : id \in used}
<1>1. \A i : Defining(i) \in SUBSET ModuleSet
  BY ModuleMaskIsReach DEF Defining
<1>2. {x \in used : x < 29} = used
  <2>1. \A x \in used : x < 29
    BY DEF Ids
  <2> QED BY <2>1
<1>3. Scanned \in SUBSET ModuleSet
  BY DEF Scanned, Roots
<1> QED BY <1>1, <1>2, <1>3 DEF Referenced, Defining

\* A step that leaves the references alone leaves what is said about them.
LEMMA SameReferences ==
    ASSUME UNCHANGED refs
    PROVE  /\ used' = used /\ sources' = sources /\ inputs' = inputs /\ imports' = imports
           /\ \A i : Defining(i)' = Defining(i)
           /\ Scanned' = Scanned
           /\ Referenced' = Referenced
           /\ Unknown(NativeRows, sources \cup inputs)' = Unknown(NativeRows, sources \cup inputs)
<1>1. used' = used /\ sources' = sources /\ inputs' = inputs /\ imports' = imports
  BY DEF refs
<1>2. \A i : Defining(i)' = Defining(i)
  BY <1>1 DEF Defining
<1>3. Scanned' = Scanned
  BY <1>1 DEF Scanned, Roots
<1>4. Unknown(NativeRows, sources \cup inputs)' = Unknown(NativeRows, sources \cup inputs)
  BY <1>1 DEF Unknown
<1> QED BY <1>1, <1>2, <1>3, <1>4 DEF Referenced

\* A set of at most n members of S is a subset of S.
LEMMA UpToSubset ==
    ASSUME NEW n, NEW S, NEW T \in UpTo(n, S)
    PROVE  T \subseteq S
<1>1. CASE T = {}
  BY <1>1
<1>2. ASSUME NEW u \in [1..n -> S], T = {u[i] : i \in 1..n}
      PROVE  T \subseteq S
  BY <1>2
<1> QED BY <1>1, <1>2 DEF UpTo

\* native_compile_unit starts with an empty mask.
LEMMA InitInductive == Init => Inductive
<1> SUFFICES ASSUME Init PROVE Inductive
  OBVIOUS
<1>1. used \subseteq Ids
  BY UpToSubset DEF Init
<1>2. ReachOf(Defining(1)) = {}
  <2>1. \A x \in used : ~ (x < 1)
    BY <1>1 DEF Ids
  <2>2. Defining(1) = {}
    BY <2>1 DEF Defining
  <2> QED BY <2>2 DEF ReachOf
<1>3. mask = 0 /\ index = 1 /\ phase = "register"
  BY DEF Init
<1>4. mask = MaskOf(ReachOf(Defining(index)))
  <2>1. MaskOf(ReachOf(Defining(1))) = 0
    BY <1>2, TableMasks
  <2> QED BY <1>3, <2>1
<1> QED BY <1>1, <1>3, <1>4 DEF Inductive

\* native_register_runtime_signatures leaves the mask empty.
LEMMA RegisterStep ==
    ASSUME Inductive, Register
    PROVE  Inductive'
<1>1. /\ used \subseteq Ids /\ phase = "register" /\ index = 1
      /\ mask = MaskOf(ReachOf(Defining(index)))
  BY DEF Inductive, Register
<1>2. UNCHANGED refs /\ index' = index /\ mask' = mask
  BY DEF Register
<1>3. mask' = MaskOf(ReachOf(Defining(index)))'
  <2>1. ReachOf(Defining(index))' = ReachOf(Defining(index))
    BY <1>2, SameReferences DEF ReachOf
  <2> QED BY <1>1, <1>2, <2>1 DEF MaskOf
<1>4. CASE \E id \in Ids : RuntimeName[id] \in imports
  <2>1. phase' = "failed"
    BY <1>4 DEF Register
  <2> QED BY <1>1, <1>2, <1>4, <2>1, SameReferences DEF Inductive
<1>5. CASE ~ \E id \in Ids : RuntimeName[id] \in imports
  <2>1. phase' = "collect"
    BY <1>5 DEF Register
  <2> QED BY <1>1, <1>2, <1>3, <2>1, SameReferences DEF Inductive
<1> QED BY <1>4, <1>5

\* native_collect_runtime_dependencies adds what one function leads to.
LEMMA CollectStep ==
    ASSUME Inductive, Collect
    PROVE  Inductive'
<1> DEFINE old == ReachOf(Defining(index))
           new == ReachOf(Defining(index + 1))
<1>1. /\ used \subseteq Ids /\ phase = "collect" /\ index \in Ids /\ mask = MaskOf(old)
  BY DEF Inductive, Collect
<1>2. UNCHANGED refs /\ phase' = phase /\ index' = index + 1
  BY DEF Collect
<1>3. ASSUME NEW n
      PROVE  n \in Defining(index + 1) <=>
               n \in Defining(index) \/ (index \in used /\ n = Definer(index))
  BY <1>1 DEF Defining, Ids
<1>4. mask' = MaskOf(new)
  <2>1. CASE index \in used
    <3>1. new = old \cup Reach[Definer(index)]
      <4>1. Reach[Definer(index)] \subseteq ModuleSet
        BY <1>1, ModuleMaskIsReach, ReachClosed
      <4> QED BY <1>3, <2>1, <4>1 DEF ReachOf
    <3>2. old \in SUBSET ModuleSet /\ Reach[Definer(index)] \in SUBSET ModuleSet
      BY <1>1, ModuleMaskIsReach, ReachClosed DEF ReachOf
    <3>3. mask' = MaskUnion(mask, ModuleMask(index))
      BY <2>1 DEF Collect
    <3>4. ModuleMask(index) = MaskOf(Reach[Definer(index)])
      BY <1>1, ModuleMaskIsReach
    <3> HIDE DEF old, new
    <3>5. MaskUnion(MaskOf(old), MaskOf(Reach[Definer(index)])) =
            MaskOf(old \cup Reach[Definer(index)])
      BY <3>2, UnionOfMasks
    <3> QED BY <1>1, <3>1, <3>3, <3>4, <3>5
  <2>2. CASE index \notin used
    <3>1. new = old
      BY <1>3, <2>2 DEF ReachOf
    <3>2. mask' = mask
      BY <2>2 DEF Collect
    <3> HIDE DEF old, new
    <3> QED BY <1>1, <3>1, <3>2
  <2> QED BY <2>1, <2>2
<1>5. new = ReachOf(Defining(index))'
  BY <1>2, SameReferences DEF ReachOf, Defining
<1>6. mask' = MaskOf(ReachOf(Defining(index)))'
  <2>1. MaskOf(new) = MaskOf(ReachOf(Defining(index))')
    BY <1>5
  <2> QED BY <1>4, <2>1 DEF MaskOf
<1>7. index' \in 1..29
  BY <1>1, <1>2 DEF Ids
<1> QED BY <1>1, <1>2, <1>6, <1>7, SameReferences DEF Inductive

\* compiler_link_output joins the roots that the C inputs reference.
LEMMA ScanStep ==
    ASSUME Inductive, ScanInputs
    PROVE  Inductive'
<1> DEFINE old == ReachOf(Defining(29))
<1>1. used \subseteq Ids /\ phase = "collect" /\ index = 29 /\ mask = MaskOf(old)
  BY DEF Inductive, ScanInputs, Ids
<1>2. UNCHANGED refs /\ index' = index
  BY DEF ScanInputs
<1>3. CASE Unknown(NativeRows, sources \cup inputs) # {}
  <2>1. phase' = "failed"
    BY <1>3 DEF ScanInputs
  <2> QED BY <1>1, <1>2, <1>3, <2>1, SameReferences DEF Inductive
<1>4. CASE Unknown(NativeRows, sources \cup inputs) = {}
  <2>1. phase' = "close" /\ mask' = MaskUnion(mask, MaskOf(Scanned))
    BY <1>4 DEF ScanInputs, Scanned
  <2>2. old \in SUBSET ModuleSet /\ Scanned \in SUBSET ModuleSet
    BY <1>1, ReferencedModules DEF ReachOf
  <2> HIDE DEF old
  <2>3. mask' = MaskOf(old \cup Scanned)
    BY <1>1, <2>1, <2>2, UnionOfMasks
  <2>4. old \cup Scanned = (ReachOf(Defining(29)) \cup Scanned)'
    BY <1>2, SameReferences DEF old, ReachOf
  <2>5. mask' = MaskOf(ReachOf(Defining(29)) \cup Scanned)'
    BY <2>3, <2>4 DEF MaskOf
  <2> QED BY <1>1, <1>2, <1>4, <2>1, <2>5, SameReferences DEF Inductive
<1> QED BY <1>3, <1>4

\* native_runtime_link_dependencies reaches the closure of what is referenced.
LEMMA CloseStep ==
    ASSUME Inductive, CloseRoots
    PROVE  Inductive'
<1> DEFINE roots == ReachOf(Defining(29)) \cup Scanned
<1>1. /\ used \subseteq Ids /\ Unknown(NativeRows, sources \cup inputs) = {}
      /\ index = 29 /\ mask = MaskOf(roots)
  BY DEF Inductive, CloseRoots
<1>2. /\ UNCHANGED refs /\ index' = index
      /\ phase' = "compile" /\ mask' = LinkDependencies(mask)
  BY DEF CloseRoots
<1>3. Defining(29) \in SUBSET ModuleSet /\ Scanned \in SUBSET ModuleSet
  BY <1>1, ReferencedModules
<1>4. roots \in SUBSET ModuleSet
  BY <1>3 DEF ReachOf
<1>5. ReachOf(roots) = ReachOf(Referenced)
  BY <1>3, ReachOfClosed DEF Referenced
<1> HIDE DEF roots
<1>6. mask' = MaskOf(ReachOf(roots))
  BY <1>1, <1>2, <1>4, LinkCloses
<1>7. ReachOf(roots) = ReachOf(Referenced)'
  BY <1>2, <1>5, SameReferences DEF ReachOf
<1>8. mask' = MaskOf(ReachOf(Referenced))'
  BY <1>6, <1>7 DEF MaskOf
<1> QED BY <1>1, <1>2, <1>8, SameReferences DEF Inductive

\* native_host_link_artifact compiles the modules of the mask and refuses none.
LEMMA CompileStep ==
    ASSUME Inductive, CompileModules
    PROVE  Inductive'
<1>1. /\ used \subseteq Ids /\ Unknown(NativeRows, sources \cup inputs) = {}
      /\ index = 29 /\ mask = MaskOf(ReachOf(Referenced))
  BY DEF Inductive, CompileModules
<1>2. UNCHANGED refs /\ index' = index
  BY DEF CompileModules
<1>3. ReachOf(Referenced) \in SUBSET ModuleSet
  BY DEF ReachOf
<1>4. mask \in 0..2047 /\ ModulesOf(mask) = ReachOf(Referenced)
  BY <1>1, <1>3, ModulesOfMask
<1>5. phase' = "linked" /\ objects' = ReachOf(Referenced)
  BY <1>4 DEF CompileModules
<1>6. objects' = ReachOf(Referenced)'
  BY <1>2, <1>5, SameReferences DEF ReachOf
<1> QED BY <1>1, <1>2, <1>5, <1>6, SameReferences DEF Inductive

\* The mask of every phase stands for the set of modules that Inductive names,
\* for any number of references.
THEOREM LinkInvariant == Spec => []Inductive
<1>1. Inductive /\ [Next]_vars => Inductive'
  <2> SUFFICES ASSUME Inductive, [Next]_vars PROVE Inductive'
    OBVIOUS
  <2>1. CASE UNCHANGED vars
    <3>1. /\ UNCHANGED refs /\ index' = index /\ mask' = mask /\ phase' = phase
          /\ objects' = objects
      BY <2>1 DEF vars
    <3>2. \A i : ReachOf(Defining(i))' = ReachOf(Defining(i))
      BY <3>1, SameReferences DEF ReachOf
    <3>3. /\ ReachOf(Referenced)' = ReachOf(Referenced)
          /\ (ReachOf(Defining(29)) \cup Scanned)' = ReachOf(Defining(29)) \cup Scanned
      BY <3>1, <3>2, SameReferences DEF ReachOf
    <3>4. /\ MaskOf(ReachOf(Defining(index)))' = MaskOf(ReachOf(Defining(index)))
          /\ MaskOf(ReachOf(Referenced))' = MaskOf(ReachOf(Referenced))
          /\ MaskOf(ReachOf(Defining(29)) \cup Scanned)' =
               MaskOf(ReachOf(Defining(29)) \cup Scanned)
      BY <3>1, <3>2, <3>3 DEF MaskOf
    <3> QED BY <3>1, <3>3, <3>4, SameReferences DEF Inductive
  <2> QED BY <2>1, RegisterStep, CollectStep, ScanStep, CloseStep, CompileStep DEF Next
<1> QED BY <1>1, InitInductive, PTL DEF Spec

\* The linker never misses a runtime function (native_host_link_artifact), whatever
\* the code of the unit and the C inputs reference.
THEOREM NothingUndefined == Spec => []NoUndefined
<1>1. Inductive => NoUndefined
  <2> SUFFICES ASSUME Inductive, phase = "linked",
                      NEW s \in UnitCalls \cup sources \cup inputs
                                  \cup UNION {File[m].calls : m \in objects}
               PROVE  \E m \in objects : s \in File[m].defines
    BY DEF NoUndefined
  <2>1. /\ used \subseteq Ids /\ objects = ReachOf(Referenced)
        /\ Unknown(NativeRows, sources \cup inputs) = {}
    BY DEF Inductive
  <2>2. Referenced \in SUBSET ModuleSet /\ Defining(29) = {Definer(id) : id \in used}
    BY <2>1, ReferencedModules
  <2>3. Referenced \subseteq objects
    BY <2>1, <2>2, ReachOfClosed
  <2>4. ASSUME s \in UnitCalls PROVE \E m \in objects : s \in File[m].defines
    <3>1. PICK id \in used : s = RuntimeName[id]
      BY <2>4 DEF UnitCalls
    <3>2. Definer(id) \in objects
      BY <2>2, <2>3, <3>1 DEF Referenced
    <3>3. Definer(id) \in ModuleSet
      BY <2>1, <3>1, ModuleMaskIsReach
    <3>4. s \in File[Definer(id)].defines
      BY <2>1, <3>1, <3>3, SignatureRows
    <3> QED BY <3>2, <3>4
  <2>5. ASSUME s \in sources \cup inputs PROVE \E m \in objects : s \in File[m].defines
    <3>1. PICK m \in ModuleSet : s \in NativeRows[m]
      BY <2>1, <2>5 DEF Unknown
    <3>2. m \in Scanned
      BY <2>5, <3>1 DEF Scanned, Roots
    <3>3. m \in objects
      BY <2>3, <3>2 DEF Referenced
    <3> QED BY <3>1, <3>3, Rows
  <2>6. ASSUME NEW m \in objects, s \in File[m].calls
        PROVE  \E k \in objects : s \in File[k].defines
    <3>1. m \in ModuleSet
      BY <2>1 DEF ReachOf
    <3>2. Reach[m] \subseteq objects
      BY <2>1, <2>2, ReachOfClosed
    <3> QED BY <2>6, <3>1, <3>2, CallsStayInside
  <2> QED BY <2>4, <2>5, <2>6
<1> QED BY <1>1, LinkInvariant, PTL

\* What the union of two sets of modules leads to.
LEMMA ReachOfUnion ==
    ASSUME NEW R, NEW T
    PROVE  ReachOf(R \cup T) = ReachOf(R) \cup ReachOf(T)
BY DEF ReachOf

\* native_runtime_link_dependencies and runtime-module-closure of Stage 0 select
\* the same modules but for explicit imports and for the row that Stage 0 lacks, and
\* a link fails in one compiler only where AgreesWithStage0 says so.
THEOREM LinksAsStage0 == Spec => []AgreesWithStage0
<1>1. ASSUME Inductive, phase = "linked"
      PROVE  objects \cup ModuleClosure(Roots(Stage0Rows, imports)) =
               Stage0Modules
                 \cup ModuleClosure(Roots(NativeRows, OnlyNative \cap (sources \cup inputs)))
  <2> DEFINE S == sources \cup inputs
             D == Defining(29)
             I == Roots(Stage0Rows, imports)
             L == Roots(NativeRows, OnlyNative \cap S)
             R == Roots(Stage0Rows, UnitCalls \cup imports \cup sources \cup inputs)
  <2>1. used \subseteq Ids /\ objects = ReachOf(Referenced)
    BY <1>1 DEF Inductive
  <2>2. D \in SUBSET ModuleSet /\ D = {Definer(id) : id \in used}
    BY <2>1, ReferencedModules
  <2>3. I \in SUBSET ModuleSet /\ L \in SUBSET ModuleSet /\ R \in SUBSET ModuleSet
    BY DEF Roots
  <2>4. ASSUME NEW m \in ModuleSet
        PROVE  (\E s \in UnitCalls : s \in Stage0Rows[m]) <=> m \in D
    BY <2>1, <2>2, SignatureRows DEF UnitCalls
  <2>5. ASSUME NEW m \in ModuleSet
        PROVE  m \in Scanned <=> (\E s \in S : s \in Stage0Rows[m]) \/ m \in L
    BY Rows DEF Scanned, Roots
  <2>6. ASSUME NEW m \in ModuleSet
        PROVE  m \in R <=> \/ \E s \in UnitCalls : s \in Stage0Rows[m]
                           \/ m \in I
                           \/ \E s \in S : s \in Stage0Rows[m]
    BY DEF Roots
  <2>7. Referenced \cup I = R \cup L
    <3>1. Referenced \in SUBSET ModuleSet
      BY <2>1, ReferencedModules
    <3> HIDE DEF S, D, I, L, R
    <3>2. \A m \in ModuleSet : m \in Referenced <=> m \in D \/ m \in Scanned
      BY DEF Referenced, D
    <3> QED BY <2>3, <2>4, <2>5, <2>6, <3>1, <3>2
  <2> HIDE DEF S, D, I, L, R
  <2>8. ReachOf(Referenced) \cup ReachOf(I) = ReachOf(R) \cup ReachOf(L)
    <3>1. ReachOf(Referenced \cup I) = ReachOf(Referenced) \cup ReachOf(I)
      BY ReachOfUnion
    <3>2. ReachOf(R \cup L) = ReachOf(R) \cup ReachOf(L)
      BY ReachOfUnion
    <3> QED BY <2>7, <3>1, <3>2
  <2>9. ModuleClosure(I) = ReachOf(I) /\ ModuleClosure(L) = ReachOf(L)
          /\ ModuleClosure(R) = ReachOf(R)
    BY <2>3, ClosureIsReach
  <2> QED BY <2>1, <2>8, <2>9 DEF Stage0Modules, S, I, L, R
<1>2. ASSUME Inductive, phase = "linked", Stage0Fails
      PROVE  OnlyNative \cap inputs # {}
  <2>1. Unknown(NativeRows, sources \cup inputs) = {}
    BY <1>2 DEF Inductive
  <2>2. "unreadable" \notin sources
    BY <2>1, NotReadable DEF Unknown
  <2>3. PICK s \in inputs : s \in Unknown(Stage0Rows, inputs)
    BY <1>2, <2>2 DEF Stage0Fails, Unknown
  <2>4. PICK m \in ModuleSet : s \in NativeRows[m]
    BY <2>1 DEF Unknown
  <2>5. s \notin Stage0Rows[m]
    BY <2>3 DEF Unknown
  <2> QED BY <2>4, <2>5, Rows
<1>3. ASSUME Inductive, phase = "failed"
      PROVE  \/ Stage0Fails
             \/ Unknown(Stage0Rows, sources) # {}
             \/ \E id \in Ids : RuntimeName[id] \in imports
  <2>1. CASE Unknown(NativeRows, sources \cup inputs) # {}
    <3>1. PICK s \in sources \cup inputs : \A m \in ModuleSet : s \notin NativeRows[m]
      BY <2>1 DEF Unknown
    <3>2. \A m \in ModuleSet : s \notin Stage0Rows[m]
      BY <3>1, Rows
    <3> QED BY <3>1, <3>2 DEF Stage0Fails, Unknown
  <2> QED BY <1>3, <2>1 DEF Inductive
<1>4. Inductive => AgreesWithStage0
  BY <1>1, <1>2, <1>3 DEF AgreesWithStage0
<1> QED BY <1>4, LinkInvariant, PTL
=============================================================================
