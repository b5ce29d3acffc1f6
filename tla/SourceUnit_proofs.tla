-------------------------- MODULE SourceUnit_proofs --------------------------
(***************************************************************************)
(* SourceUnit, for any file system, any paths that lead to a file and any  *)
(* number of forms: units are accepted exactly when they are valid, are    *)
(* spliced once and in source order, and no block is lost, whatever fails. *)
(***************************************************************************)
EXTENDS SourceUnit, SequenceTheorems, FiniteSetTheorems, TLAPS

-----------------------------------------------------------------------------
(* Sequences                                                               *)

LEMMA Least ==
    ASSUME NEW S, S \subseteq Nat, S # {}
    PROVE  \E x \in S : \A y \in S : x <= y
<1>1. PICK x \in S : \A y \in S : ~ (<<y, x>> \in OpToRel(<, Nat))
  BY NatLessThanWellFounded, WFMin
<1>2. \A y \in S : ~ (y < x)
  BY <1>1 DEF OpToRel
<1> QED BY <1>2

LEMMA ElementsAppend ==
    ASSUME NEW S, NEW s \in Seq(S), NEW x \in S
    PROVE  /\ Append(s, x) \in Seq(S)
           /\ Elements(Append(s, x)) = Elements(s) \cup {x}
           /\ \A a, b : Before(s, a, b) => Before(Append(s, x), a, b)
           /\ \A a \in Elements(s) : Before(Append(s, x), a, x)
           /\ Injective(s) /\ x \notin Elements(s) => Injective(Append(s, x))
<1> DEFINE t == Append(s, x)
           n == Len(s)
<1>1. /\ t \in Seq(S) /\ Len(t) = n + 1 /\ n \in Nat
      /\ \A i \in 1..n : t[i] = s[i]
      /\ t[n + 1] = x
  BY AppendProperties, LenProperties
<1> HIDE DEF t, n
<1>2. Elements(t) = Elements(s) \cup {x}
  <2>1. \A i \in 1..(n + 1) : i \in 1..n \/ i = n + 1
    BY <1>1
  <2>2. n + 1 \in 1..(n + 1) /\ \A i \in 1..n : i \in 1..(n + 1)
    BY <1>1
  <2> QED BY <1>1, <2>1, <2>2 DEF Elements, n
<1>3. \A a, b : Before(s, a, b) => Before(t, a, b)
  BY <1>1 DEF Before, n
<1>4. \A a \in Elements(s) : Before(t, a, x)
  <2>1. SUFFICES ASSUME NEW i \in 1..n PROVE Before(t, s[i], x)
    BY DEF Elements, n
  <2>2. t[i] = s[i] /\ t[n + 1] = x /\ i < n + 1 /\ i \in 1..Len(t) /\ n + 1 \in 1..Len(t)
    BY <1>1
  <2> QED BY <2>2 DEF Before
<1>5. ASSUME Injective(s), x \notin Elements(s) PROVE Injective(t)
  <2>1. SUFFICES ASSUME NEW i \in 1..(n + 1), NEW j \in 1..(n + 1), t[i] = t[j]
                 PROVE  i = j
    BY <1>1 DEF Injective
  <2>2. CASE i \in 1..n /\ j \in 1..n
    BY <2>1, <2>2, <1>1, <1>5 DEF Injective, n
  <2>3. \A k \in 1..n : s[k] # x
    BY <1>5 DEF Elements, n
  <2>4. CASE i \in 1..n /\ j = n + 1
    BY <2>1, <2>3, <2>4, <1>1
  <2>5. CASE j \in 1..n /\ i = n + 1
    BY <2>1, <2>3, <2>5, <1>1
  <2> QED BY <2>2, <2>4, <2>5, <1>1
<1> QED BY <1>1, <1>2, <1>3, <1>4, <1>5 DEF t

LEMMA ElementsFirst ==
    ASSUME NEW S, NEW s \in Seq(S), NEW x \in S
    PROVE  /\ <<x>> \o s \in Seq(S)
           /\ Len(<<x>> \o s) = Len(s) + 1
           /\ (<<x>> \o s)[1] = x
           /\ \A i \in 1..Len(s) : (<<x>> \o s)[i + 1] = s[i]
           /\ Elements(<<x>> \o s) = Elements(s) \cup {x}
<1> DEFINE t == <<x>> \o s
           n == Len(s)
<1>1. <<x>> \in Seq(S) /\ Len(<<x>>) = 1 /\ <<x>>[1] = x
  OBVIOUS
<1>2. /\ t \in Seq(S) /\ Len(t) = n + 1 /\ n \in Nat
      /\ \A i \in 1..(1 + n) : t[i] = IF i <= 1 THEN x ELSE s[i - 1]
  <2>1. /\ t \in Seq(S) /\ Len(t) = Len(<<x>>) + n
        /\ \A i \in 1..(Len(<<x>>) + n) : t[i] = IF i <= Len(<<x>>) THEN <<x>>[i] ELSE s[i - Len(<<x>>)]
    BY <1>1, ConcatProperties
  <2>2. n \in Nat
    BY LenProperties
  <2> HIDE DEF t, n
  <2>3. \A i \in 1..(1 + n) : t[i] = IF i <= 1 THEN <<x>>[i] ELSE s[i - 1]
    BY <2>1, <2>2, <1>1
  <2>4. ASSUME NEW i \in 1..(1 + n), i <= 1 PROVE t[i] = x
    BY <2>3, <2>2, <1>1, <2>4
  <2> QED BY <2>1, <2>2, <2>3, <2>4, <1>1
<1> HIDE DEF t, n
<1>3. t[1] = x /\ \A i \in 1..n : t[i + 1] = s[i]
  BY <1>2
<1>4. Elements(t) = Elements(s) \cup {x}
  <2>1. \A i \in 1..(n + 1) : i = 1 \/ (i - 1 \in 1..n /\ t[i] = s[i - 1])
    BY <1>2
  <2>2. \A i \in 1..n : i + 1 \in 1..(n + 1)
    BY <1>2
  <2>3. 1 \in 1..(n + 1)
    BY <1>2
  <2>4. ASSUME NEW i \in 1..(n + 1) PROVE t[i] = x \/ \E k \in 1..n : t[i] = s[k]
    BY <2>1, <1>3
  <2>5. ASSUME NEW k \in 1..n PROVE \E i \in 1..(n + 1) : t[i] = s[k]
    BY <2>2, <1>3
  <2>6. Elements(t) \subseteq Elements(s) \cup {x}
    BY <1>2, <2>4 DEF Elements, n
  <2>7. x \in Elements(t)
    BY <1>2, <1>3, <2>3 DEF Elements
  <2>8. Elements(s) \subseteq Elements(t)
    BY <1>2, <2>5 DEF Elements, n
  <2> QED BY <2>6, <2>7, <2>8
<1> QED BY <1>2, <1>3, <1>4 DEF t, n

\* A list without repetitions has as many entries as elements.
LEMMA Counted ==
    ASSUME NEW S, NEW s \in Seq(S), Injective(s)
    PROVE  Len(s) = Cardinality(Elements(s))
<1>1. Len(s) \in Nat /\ DOMAIN s = 1..Len(s) /\ s \in [1..Len(s) -> Elements(s)]
  BY LenProperties DEF Elements
<1>2. s \in Bijection(1..Len(s), Elements(s))
  BY <1>1 DEF Bijection, Injection, Surjection, IsInjective, Injective, Elements
<1>3. ExistsBijection(1..Len(s), Elements(s))
  BY <1>2 DEF ExistsBijection
<1> QED BY <1>1, <1>3, FS_CountingElements

\* The same counted by what the elements stand for.
LEMMA CountedBy ==
    ASSUME NEW S, NEW s \in Seq(S), Injective(s), NEW f, NEW X,
           Elements(s) = {f[x] : x \in X},
           \A x, y \in X : f[x] = f[y] => x = y
    PROVE  Len(s) = Cardinality(X)
<1> DEFINE n == Len(s)
           g == [i \in 1..n |-> CHOOSE x \in X : f[x] = s[i]]
<1>1. n \in Nat
  BY LenProperties
<1>2. \A i \in 1..n : \E x \in X : f[x] = s[i]
  BY DEF Elements
<1>3. \A i \in 1..n : g[i] \in X /\ f[g[i]] = s[i]
  BY <1>2
<1>4. \A x \in X : \E i \in 1..n : s[i] = f[x]
  BY DEF Elements
<1>5. g \in [1..n -> X] /\ DOMAIN g = 1..n
  BY <1>3
<1> HIDE DEF g, n
<1>6. \A x \in X : \E i \in 1..n : g[i] = x
  BY <1>3, <1>4
<1>7. \A i, j \in 1..n : g[i] = g[j] => i = j
  BY <1>3 DEF Injective, n
<1>8. g \in Bijection(1..n, X)
  BY <1>5, <1>6, <1>7 DEF Bijection, Injection, Surjection, IsInjective
<1>9. ExistsBijection(1..n, X)
  BY <1>8 DEF ExistsBijection
<1>10. Cardinality(X) = n
  BY <1>1, <1>9, FS_CountingElements
<1> QED BY <1>10 DEF n

-----------------------------------------------------------------------------
(* What depends on the files alone                                         *)

NamesIn(t, kind) == {e \in Files \X (1..MaxForms) :
                        e[2] <= Len(t[e[1]]) /\ t[e[1]][e[2]].kind = kind}
ResolvedIn(t, e) == Realpath[IncludePath(e[1], t[e[1]][e[2]].name)]
TargetsIn(t, f) == {ResolvedIn(t, e) : e \in {x \in NamesIn(t, "include") : x[1] = f}}
ReachedIn(t, S) == {f \in Files : \A T \in SUBSET Files :
    (S \cap Files \subseteq T /\ \A g \in T : TargetsIn(t, g) \cap Files \subseteq T)
        => f \in T}
InIn(t, kind) == {e \in NamesIn(t, kind) : e[1] \in ReachedIn(t, {Realpath[RootPath]})}
ValidIn(t) ==
    /\ Realpath[RootPath] # NoFile
    /\ InIn(t, "bad") \cup InIn(t, "syntax") = {}
    /\ \A e \in InIn(t, "include") \cup InIn(t, "ffi") : ResolvedIn(t, e) # NoFile
    /\ \A f \in ReachedIn(t, {Realpath[RootPath]}) : f \notin ReachedIn(t, TargetsIn(t, f))
    /\ \A d, e \in InIn(t, "ffi") : ResolvedIn(t, d) = ResolvedIn(t, e) => d = e
BroughtIn(t, f, i) ==
    IF t[f][i].kind = "include" THEN ReachedIn(t, {ResolvedIn(t, <<f, i>>)}) ELSE {}
FirstsIn(t, kind, f, i) ==
    {e \in InIn(t, kind) : e = <<f, i>> \/ e[1] \in BroughtIn(t, f, i)}

LEMMA OfText ==
    /\ \A kind : Names(kind) = NamesIn(text, kind)
    /\ \A e : Resolved(e) = ResolvedIn(text, e)
    /\ \A f : Targets(f) = TargetsIn(text, f)
    /\ \A S : Reached(S) = ReachedIn(text, S)
    /\ UnitFiles = ReachedIn(text, {Realpath[RootPath]})
    /\ \A kind : In(kind) = InIn(text, kind)
    /\ ValidUnit = ValidIn(text)
    /\ \A f, i : Brought(f, i) = BroughtIn(text, f, i)
    /\ \A kind, f, i : Firsts(kind, f, i) = FirstsIn(text, kind, f, i)
<1>1. \A kind : Names(kind) = NamesIn(text, kind)
  BY DEF Names, NamesIn
<1>2. \A e : Resolved(e) = ResolvedIn(text, e)
  BY DEF Resolved, ResolvedIn
<1>3. \A f : Targets(f) = TargetsIn(text, f)
  BY Zenon DEF Targets, TargetsIn, Names, NamesIn, Resolved, ResolvedIn
<1>4. \A S : Reached(S) = ReachedIn(text, S)
  BY Zenon DEF Reached, ReachedIn, Targets, TargetsIn, Names, NamesIn, Resolved, ResolvedIn
<1>5. UnitFiles = ReachedIn(text, {Realpath[RootPath]})
  BY <1>4 DEF UnitFiles
<1>6. \A kind : In(kind) = InIn(text, kind)
  BY <1>1, <1>5 DEF In, InIn
<1>7. ValidUnit = ValidIn(text)
  BY <1>2, <1>3, <1>4, <1>5, <1>6 DEF ValidUnit, ValidIn
<1>8. \A f, i : Brought(f, i) = BroughtIn(text, f, i)
  BY <1>2, <1>4 DEF Brought, BroughtIn
<1>9. \A kind, f, i : Firsts(kind, f, i) = FirstsIn(text, kind, f, i)
  BY <1>6, <1>8 DEF Firsts, FirstsIn
<1> QED BY <1>1, <1>2, <1>3, <1>4, <1>5, <1>6, <1>7, <1>8, <1>9

LEMMA TextFixed ==
    ASSUME text' = text
    PROVE  /\ \A kind : Names(kind)' = Names(kind)
           /\ \A e : Resolved(e)' = Resolved(e)
           /\ \A f : Targets(f)' = Targets(f)
           /\ \A S : Reached(S)' = Reached(S)
           /\ \A f : (f \notin Reached(Targets(f)))' = (f \notin Reached(Targets(f)))
           /\ UnitFiles' = UnitFiles
           /\ \A kind : In(kind)' = In(kind)
           /\ ValidUnit' = ValidUnit
           /\ \A kind, f, i : Firsts(kind, f, i)' = Firsts(kind, f, i)
           /\ MayFail' = MayFail
<1>1. \A kind : Names(kind)' = NamesIn(text', kind)
  BY DEF Names, NamesIn
<1>2. \A e : Resolved(e)' = ResolvedIn(text', e)
  BY DEF Resolved, ResolvedIn
<1>3. \A f : Targets(f)' = TargetsIn(text', f)
  BY Zenon DEF Targets, TargetsIn, Names, NamesIn, Resolved, ResolvedIn
<1>4. \A S : Reached(S)' = ReachedIn(text', S)
  BY Zenon DEF Reached, ReachedIn, Targets, TargetsIn, Names, NamesIn, Resolved, ResolvedIn
<1>5. UnitFiles' = ReachedIn(text', {Realpath[RootPath]})
  BY Zenon DEF UnitFiles, Reached, ReachedIn, Targets, TargetsIn, Names, NamesIn, Resolved, ResolvedIn
<1>6. \A kind : In(kind)' = InIn(text', kind)
  BY <1>1, <1>5 DEF In, InIn
<1>7. \A f : (f \notin Reached(Targets(f)))' = (f \notin ReachedIn(text', TargetsIn(text', f)))
  BY Zenon DEF Reached, ReachedIn, Targets, TargetsIn, Names, NamesIn, Resolved, ResolvedIn
<1>11. ValidUnit' = ValidIn(text')
  BY <1>2, <1>5, <1>6, <1>7 DEF ValidUnit, ValidIn
<1>8. \A f, i : Brought(f, i)' = BroughtIn(text', f, i)
  BY Zenon DEF Brought, BroughtIn, Reached, ReachedIn, Targets, TargetsIn, Names, NamesIn, Resolved, ResolvedIn
<1>9. \A kind, f, i : Firsts(kind, f, i)' = FirstsIn(text', kind, f, i)
  BY <1>6, <1>8 DEF Firsts, FirstsIn
<1>10. MayFail' = MayFail
  BY DEF MayFail
<1> QED BY <1>1, <1>2, <1>3, <1>4, <1>5, <1>6, <1>7, <1>9, <1>10, <1>11, OfText

-----------------------------------------------------------------------------
(* Includes                                                                *)

Closed(T) == T \subseteq Files /\ \A g \in T : Targets(g) \cap Files \subseteq T

LEMMA ReachedLeast ==
    ASSUME NEW S, NEW T, Closed(T), S \cap Files \subseteq T
    PROVE  Reached(S) \subseteq T
  BY DEF Reached, Closed

LEMMA ReachedClosed ==
    ASSUME NEW S
    PROVE  Closed(Reached(S)) /\ S \cap Files \subseteq Reached(S)
  BY DEF Reached, Closed

\* What is reached from a file is the file and what its includes reach.
LEMMA ReachedFrom ==
    ASSUME NEW f \in Files
    PROVE  Reached({f}) = {f} \cup Reached(Targets(f))
<1> DEFINE T == {f} \cup Reached(Targets(f))
<1>1. Closed(T)
  BY ReachedClosed DEF Closed
<1>2. Reached({f}) \subseteq T
  BY <1>1, ReachedLeast
<1>3. f \in Reached({f}) /\ Closed(Reached({f}))
  BY ReachedClosed
<1>4. Targets(f) \cap Files \subseteq Reached({f})
  BY <1>3 DEF Closed
<1>5. Reached(Targets(f)) \subseteq Reached({f})
  BY <1>3, <1>4, ReachedLeast
<1> QED BY <1>2, <1>3, <1>5

\* The forms of a file, and the targets they name.
LEMMA NameIn ==
    ASSUME SourceUnitAssumption, text \in Texts, NEW f \in Files, NEW i \in Nat \ {0},
           i <= Len(text[f])
    PROVE  /\ <<f, i>> \in Files \X (1..MaxForms)
           /\ <<f, i>> \in Names(text[f][i].kind)
           /\ f \in UnitFiles => <<f, i>> \in In(text[f][i].kind)
           /\ text[f][i].kind = "include" => Resolved(<<f, i>>) \in Targets(f)
<1>1. Len(text[f]) \in 0..MaxForms /\ MaxForms \in Nat
  BY DEF SourceUnitAssumption
<1>2. i \in 1..MaxForms
  BY <1>1
<1>3. <<f, i>> \in Files \X (1..MaxForms) /\ <<f, i>>[1] = f /\ <<f, i>>[2] = i
  BY <1>2
<1>4. <<f, i>> \in Names(text[f][i].kind)
  BY <1>3 DEF Names
<1> QED BY <1>3, <1>4 DEF In, Targets

\* A target is the path of an include form.
LEMMA TargetOf ==
    ASSUME SourceUnitAssumption, text \in Texts, NEW f, NEW g \in Targets(f)
    PROVE  /\ f \in Files
           /\ \E i \in 1..Len(text[f]) :
                 text[f][i].kind = "include" /\ g = Resolved(<<f, i>>)
<1>1. PICK e \in Names("include") : e[1] = f /\ g = Resolved(e)
  BY DEF Targets
<1>2. e \in Files \X (1..MaxForms) /\ e[2] <= Len(text[e[1]]) /\ text[e[1]][e[2]].kind = "include"
  BY <1>1 DEF Names
<1>3. e = <<f, e[2]>> /\ f \in Files /\ e[2] \in 1..MaxForms
  BY <1>1, <1>2
<1>4. Len(text[f]) \in 0..MaxForms /\ MaxForms \in Nat
  BY <1>3 DEF SourceUnitAssumption
<1>5. e[2] \in 1..Len(text[f])
  BY <1>1, <1>2, <1>3, <1>4
<1> QED BY <1>1, <1>2, <1>3, <1>5

-----------------------------------------------------------------------------
(* Blocks                                                                  *)

CPair(p) == {<<"cpath", p>>, <<"centry", p>>}

\* The blocks of the tables P, of the listed files L, the frames of F, the
\* names held for I, the output O and the C paths C.
Blocks(P, L, F, I, O, C) ==
    {Unit} \cup P \cup (UNION {FileBlocks(f) : f \in L})
    \cup (UNION {FrameBlocks(f) : f \in F}) \cup (UNION {NameBlocks(f) : f \in I})
    \cup O \cup CBlocks(C)
Parts(P, O) == P \subseteq Tables /\ O \subseteq {Output}

IsBlock(b, P, L, F, I, O, C) ==
    \/ b = Unit \/ b \in P \/ b \in O
    \/ \E f \in L : b \in FileBlocks(f)
    \/ \E f \in F : b \in FrameBlocks(f)
    \/ \E f \in I : b \in NameBlocks(f)
    \/ \E p \in C : b \in CPair(p)

LEMMA BlockIn ==
    ASSUME NEW P, NEW L, NEW F, NEW I, NEW O, NEW C, NEW b
    PROVE  b \in Blocks(P, L, F, I, O, C) <=> IsBlock(b, P, L, F, I, O, C)
<1> DEFINE UL == UNION {FileBlocks(f) : f \in L}
           UF == UNION {FrameBlocks(f) : f \in F}
           UI == UNION {NameBlocks(f) : f \in I}
           UC == CBlocks(C)
<1>1. b \in UL <=> \E f \in L : b \in FileBlocks(f)
  BY Zenon
<1>2. b \in UF <=> \E f \in F : b \in FrameBlocks(f)
  BY Zenon
<1>3. b \in UI <=> \E f \in I : b \in NameBlocks(f)
  BY Zenon
<1>4. b \in UC <=> \E p \in C : b \in CPair(p)
  BY Zenon DEF CBlocks, CPair
<1>5. Blocks(P, L, F, I, O, C) = {Unit} \cup P \cup UL \cup UF \cup UI \cup O \cup UC
  BY DEF Blocks
<1> HIDE DEF UL, UF, UI, UC
<1>6. b \in Blocks(P, L, F, I, O, C) <=>
         b = Unit \/ b \in P \/ b \in UL \/ b \in UF \/ b \in UI \/ b \in O \/ b \in UC
  BY <1>5
<1> QED BY <1>1, <1>2, <1>3, <1>4, <1>6 DEF IsBlock

\* Blocks of two sorts, or of two files, are different.
LEMMA BlockKinds ==
    /\ \A t \in Tables : t[1] = "table"
    /\ Unit[1] = "unit" /\ Output[1] = "output"
    /\ \A f : \A b \in FileBlocks(f) : b[1] \in {"path", "file"} /\ b[2] = f
    /\ \A f : \A b \in FrameBlocks(f) :
          b[1] \in {"frame", "bytes", "nodes", "identities"} /\ b[2] = f
    /\ \A f : \A b \in NameBlocks(f) : b[1] \in {"name", "joined"} /\ b[2] = f
    /\ \A p : \A b \in CPair(p) :
          b[1] \in {"cpath", "centry"} /\ b[2] = p
  BY DEF Tables, Unit, Output, FileBlocks, FrameBlocks, NameBlocks, CPair

\* A block is one of these for its kind.
LEMMA BlockIs ==
    ASSUME NEW P, NEW L, NEW F, NEW I, NEW O, NEW C, Parts(P, O)
    PROVE  /\ Tables \cap Blocks(P, L, F, I, O, C) = P
           /\ \A f : \A b \in FileBlocks(f) : b \in Blocks(P, L, F, I, O, C) <=> f \in L
           /\ \A f : \A b \in FrameBlocks(f) : b \in Blocks(P, L, F, I, O, C) <=> f \in F
           /\ \A f : \A b \in NameBlocks(f) : b \in Blocks(P, L, F, I, O, C) <=> f \in I
           /\ \A p : \A b \in CPair(p) :
                 b \in Blocks(P, L, F, I, O, C) <=> p \in C
           /\ Output \in Blocks(P, L, F, I, O, C) <=> Output \in O
<1> DEFINE B == Blocks(P, L, F, I, O, C)
<1>0. \A b : b \in B <=>
              \/ b = Unit \/ b \in P \/ b \in O
              \/ \E f \in L : b \in FileBlocks(f)
              \/ \E f \in F : b \in FrameBlocks(f)
              \/ \E f \in I : b \in NameBlocks(f)
              \/ \E p \in C : b \in CPair(p)
  BY BlockIn DEF IsBlock
<1>k. /\ \A b \in P : b[1] = "table"
      /\ \A b \in O : b[1] = "output"
  BY BlockKinds DEF Parts
<1> HIDE DEF B
<1>1. Tables \cap B = P
  BY <1>0, <1>k, BlockKinds DEF Parts
<1>2. \A f : \A b \in FileBlocks(f) : b \in B <=> f \in L
  BY <1>0, <1>k, BlockKinds
<1>3. \A f : \A b \in FrameBlocks(f) : b \in B <=> f \in F
  BY <1>0, <1>k, BlockKinds
<1>4. \A f : \A b \in NameBlocks(f) : b \in B <=> f \in I
  BY <1>0, <1>k, BlockKinds
<1>5. \A p : \A b \in CPair(p) : b \in B <=> p \in C
  BY <1>0, <1>k, BlockKinds
<1>6. Output \in B <=> Output \in O
  BY <1>0, <1>k, BlockKinds
<1> QED BY <1>1, <1>2, <1>3, <1>4, <1>5, <1>6 DEF B

Adds(B, D, R) == D \cap B = {} /\ B \cup D = R
Removes(B, D, R) == D \subseteq B /\ B \ D = R

\* A file is listed and its frame opened.
LEMMA AddFile ==
    ASSUME NEW P, NEW L, NEW F, NEW I, NEW O, NEW C, Parts(P, O),
           NEW x, x \notin L, x \notin F
    PROVE  Adds(Blocks(P, L, F, I, O, C), FileBlocks(x) \cup FrameBlocks(x), Blocks(P, L \cup {x}, F \cup {x}, I, O, C))
<1> DEFINE B == Blocks(P, L, F, I, O, C)
           D == FileBlocks(x) \cup FrameBlocks(x)
           R == Blocks(P, L \cup {x}, F \cup {x}, I, O, C)
<1>1. \A b : b \in B <=> IsBlock(b, P, L, F, I, O, C)
  BY BlockIn
<1>2. \A b : b \in R <=> IsBlock(b, P, L \cup {x}, F \cup {x}, I, O, C)
  BY BlockIn
<1>3. (\A b \in P : b[1] = "table") /\ \A b \in O : b[1] = "output"
  BY BlockKinds DEF Parts
<1> HIDE DEF B, R
<1>4. D \cap B = {}
  BY BlockIs DEF B
<1>5. \A b : b \in B \cup D <=> b \in R
  BY <1>1, <1>2, <1>3, BlockKinds DEF IsBlock
<1>6. B \cup D = R
  BY <1>5
<1> QED BY <1>4, <1>6 DEF B, R, Adds, Removes

\* A file is listed and what its frame got is released.
OnlyListed(P, L, F, I, O, C, x, got) ==
    LET B == Blocks(P, L, F, I, O, C)
        D == FileBlocks(x) \cup got
    IN  D \cap B = {} /\ (B \cup D) \ FrameBlocks(x) = Blocks(P, L \cup {x}, F, I, O, C)

LEMMA AddListed ==
    ASSUME NEW P, NEW L, NEW F, NEW I, NEW O, NEW C, Parts(P, O),
           NEW x, x \notin L, x \notin F, NEW got \in SUBSET FrameBlocks(x)
    PROVE  OnlyListed(P, L, F, I, O, C, x, got)
<1> DEFINE B == Blocks(P, L, F, I, O, C)
           D == FileBlocks(x) \cup got
           R == Blocks(P, L \cup {x}, F, I, O, C)
<1>1. \A b : b \in B <=> IsBlock(b, P, L, F, I, O, C)
  BY BlockIn
<1>2. \A b : b \in R <=> IsBlock(b, P, L \cup {x}, F, I, O, C)
  BY BlockIn
<1>3. (\A b \in P : b[1] = "table") /\ \A b \in O : b[1] = "output"
  BY BlockKinds DEF Parts
<1> HIDE DEF B, R
<1>4. D \cap B = {}
  BY BlockIs DEF B
<1>5. \A b : b \in (B \cup D) \ FrameBlocks(x) <=> b \in R
  BY <1>1, <1>2, <1>3, BlockKinds DEF IsBlock
<1>6. (B \cup D) \ FrameBlocks(x) = R
  BY <1>5
<1> QED BY <1>4, <1>6 DEF B, R, OnlyListed

\* A frame is released.
LEMMA DropFrame ==
    ASSUME NEW P, NEW L, NEW F, NEW I, NEW O, NEW C, Parts(P, O),
           NEW x \in F
    PROVE  Removes(Blocks(P, L, F, I, O, C), FrameBlocks(x), Blocks(P, L, F \ {x}, I, O, C))
<1> DEFINE B == Blocks(P, L, F, I, O, C)
           D == FrameBlocks(x)
           R == Blocks(P, L, F \ {x}, I, O, C)
<1>1. \A b : b \in B <=> IsBlock(b, P, L, F, I, O, C)
  BY BlockIn
<1>2. \A b : b \in R <=> IsBlock(b, P, L, F \ {x}, I, O, C)
  BY BlockIn
<1>3. (\A b \in P : b[1] = "table") /\ \A b \in O : b[1] = "output"
  BY BlockKinds DEF Parts
<1> HIDE DEF B, R
<1>4. D \subseteq B
  BY BlockIs DEF B
<1>5. \A b : b \in B \ D <=> b \in R
  BY <1>1, <1>2, <1>3, BlockKinds DEF IsBlock
<1>6. B \ D = R
  BY <1>5
<1> QED BY <1>4, <1>6 DEF B, R, Adds, Removes

\* A frame is released with the name it holds.
LEMMA DropBoth ==
    ASSUME NEW P, NEW L, NEW F, NEW I, NEW O, NEW C, Parts(P, O),
           NEW x \in F, x \in I
    PROVE  Removes(Blocks(P, L, F, I, O, C), FrameBlocks(x) \cup NameBlocks(x), Blocks(P, L, F \ {x}, I \ {x}, O, C))
<1> DEFINE B == Blocks(P, L, F, I, O, C)
           D == FrameBlocks(x) \cup NameBlocks(x)
           R == Blocks(P, L, F \ {x}, I \ {x}, O, C)
<1>1. \A b : b \in B <=> IsBlock(b, P, L, F, I, O, C)
  BY BlockIn
<1>2. \A b : b \in R <=> IsBlock(b, P, L, F \ {x}, I \ {x}, O, C)
  BY BlockIn
<1>3. (\A b \in P : b[1] = "table") /\ \A b \in O : b[1] = "output"
  BY BlockKinds DEF Parts
<1> HIDE DEF B, R
<1>4. D \subseteq B
  BY BlockIs DEF B
<1>5. \A b : b \in B \ D <=> b \in R
  BY <1>1, <1>2, <1>3, BlockKinds DEF IsBlock
<1>6. B \ D = R
  BY <1>5
<1> QED BY <1>4, <1>6 DEF B, R, Adds, Removes

\* The name of an include is held.
LEMMA AddName ==
    ASSUME NEW P, NEW L, NEW F, NEW I, NEW O, NEW C, Parts(P, O),
           NEW x, x \notin I
    PROVE  Adds(Blocks(P, L, F, I, O, C), NameBlocks(x), Blocks(P, L, F, I \cup {x}, O, C))
<1> DEFINE B == Blocks(P, L, F, I, O, C)
           D == NameBlocks(x)
           R == Blocks(P, L, F, I \cup {x}, O, C)
<1>1. \A b : b \in B <=> IsBlock(b, P, L, F, I, O, C)
  BY BlockIn
<1>2. \A b : b \in R <=> IsBlock(b, P, L, F, I \cup {x}, O, C)
  BY BlockIn
<1>3. (\A b \in P : b[1] = "table") /\ \A b \in O : b[1] = "output"
  BY BlockKinds DEF Parts
<1> HIDE DEF B, R
<1>4. D \cap B = {}
  BY BlockIs DEF B
<1>5. \A b : b \in B \cup D <=> b \in R
  BY <1>1, <1>2, <1>3, BlockKinds DEF IsBlock
<1>6. B \cup D = R
  BY <1>5
<1> QED BY <1>4, <1>6 DEF B, R, Adds, Removes

\* The name is released.
LEMMA DropName ==
    ASSUME NEW P, NEW L, NEW F, NEW I, NEW O, NEW C, Parts(P, O),
           NEW x \in I
    PROVE  Removes(Blocks(P, L, F, I, O, C), NameBlocks(x), Blocks(P, L, F, I \ {x}, O, C))
<1> DEFINE B == Blocks(P, L, F, I, O, C)
           D == NameBlocks(x)
           R == Blocks(P, L, F, I \ {x}, O, C)
<1>1. \A b : b \in B <=> IsBlock(b, P, L, F, I, O, C)
  BY BlockIn
<1>2. \A b : b \in R <=> IsBlock(b, P, L, F, I \ {x}, O, C)
  BY BlockIn
<1>3. (\A b \in P : b[1] = "table") /\ \A b \in O : b[1] = "output"
  BY BlockKinds DEF Parts
<1> HIDE DEF B, R
<1>4. D \subseteq B
  BY BlockIs DEF B
<1>5. \A b : b \in B \ D <=> b \in R
  BY <1>1, <1>2, <1>3, BlockKinds DEF IsBlock
<1>6. B \ D = R
  BY <1>5
<1> QED BY <1>4, <1>6 DEF B, R, Adds, Removes

\* The output buffer is allocated.
LEMMA AddOutput ==
    ASSUME NEW P, NEW L, NEW F, NEW I, NEW O, NEW C, Parts(P, O),
           O = {}
    PROVE  Adds(Blocks(P, L, F, I, O, C), {Output}, Blocks(P, L, F, I, {Output}, C))
<1> DEFINE B == Blocks(P, L, F, I, O, C)
           D == {Output}
           R == Blocks(P, L, F, I, {Output}, C)
<1>1. \A b : b \in B <=> IsBlock(b, P, L, F, I, O, C)
  BY BlockIn
<1>2. \A b : b \in R <=> IsBlock(b, P, L, F, I, {Output}, C)
  BY BlockIn
<1>3. (\A b \in P : b[1] = "table") /\ \A b \in O : b[1] = "output"
  BY BlockKinds DEF Parts
<1> HIDE DEF B, R
<1>4. D \cap B = {}
  BY BlockIs DEF B
<1>5. \A b : b \in B \cup D <=> b \in R
  BY <1>1, <1>2, <1>3, BlockKinds DEF IsBlock
<1>6. B \cup D = R
  BY <1>5
<1> QED BY <1>4, <1>6 DEF B, R, Adds, Removes

\* A C path is recorded.
LEMMA AddC ==
    ASSUME NEW P, NEW L, NEW F, NEW I, NEW O, NEW C, Parts(P, O),
           NEW x, x \notin C
    PROVE  Adds(Blocks(P, L, F, I, O, C), CPair(x), Blocks(P, L, F, I, O, C \cup {x}))
<1> DEFINE B == Blocks(P, L, F, I, O, C)
           D == CPair(x)
           R == Blocks(P, L, F, I, O, C \cup {x})
<1>1. \A b : b \in B <=> IsBlock(b, P, L, F, I, O, C)
  BY BlockIn
<1>2. \A b : b \in R <=> IsBlock(b, P, L, F, I, O, C \cup {x})
  BY BlockIn
<1>3. (\A b \in P : b[1] = "table") /\ \A b \in O : b[1] = "output"
  BY BlockKinds DEF Parts
<1> HIDE DEF B, R
<1>4. D \cap B = {}
  BY BlockIs DEF B
<1>5. \A b : b \in B \cup D <=> b \in R
  BY <1>1, <1>2, <1>3, BlockKinds DEF IsBlock
<1>6. B \cup D = R
  BY <1>5
<1> QED BY <1>4, <1>6 DEF B, R, Adds, Removes

\* The unit is released, with the output and the C paths or without them.
LEMMA DropUnit ==
    ASSUME NEW P, NEW L, NEW O, NEW C, Parts(P, O)
    PROVE  LET B == Blocks(P, L, {}, {}, O, C)
               D == {Unit} \cup P \cup (UNION {FileBlocks(f) : f \in L})
           IN  /\ D \subseteq B /\ B \ D = O \cup CBlocks(C)
               /\ D \cup O \cup CBlocks(C) = B
<1> DEFINE B == Blocks(P, L, {}, {}, O, C)
           UL == UNION {FileBlocks(f) : f \in L}
           UC == CBlocks(C)
<1>1. \A b : b \in UL <=> \E f \in L : b \in FileBlocks(f)
  BY Zenon
<1>2. \A b : b \in UC <=> \E p \in C : b \in CPair(p)
  BY Zenon DEF CBlocks, CPair
<1>3. \A b : b \in B <=> IsBlock(b, P, L, {}, {}, O, C)
  BY BlockIn
<1>4. (\A b \in P : b[1] = "table") /\ \A b \in O : b[1] = "output"
  BY BlockKinds DEF Parts
<1> HIDE DEF B, UL, UC
<1>5. \A b : b \in B <=> b = Unit \/ b \in P \/ b \in UL \/ b \in O \/ b \in UC
  BY <1>1, <1>2, <1>3 DEF IsBlock
<1>6. \A b : b \in O \cup UC => b # Unit /\ b \notin P
  BY <1>2, <1>4, BlockKinds
<1>7. \A b : b \in O \cup UC => b \notin UL
  BY <1>1, <1>2, <1>4, BlockKinds
<1>8. /\ {Unit} \cup P \cup UL \subseteq B /\ B \ ({Unit} \cup P \cup UL) = O \cup UC
      /\ {Unit} \cup P \cup UL \cup O \cup UC = B
  BY <1>5, <1>6, <1>7
<1> QED BY <1>8 DEF B, UL, UC

-----------------------------------------------------------------------------
(* The files listed and the frames                                         *)

LEMMA Facts ==
    ASSUME SourceUnitAssumption, TypeOK, StackOK
    PROVE  /\ Len(stack) \in Nat /\ Len(files) \in Nat
           /\ Listed = Active \cup Finished /\ Active \cap Finished = {}
           /\ Listed \subseteq Files /\ FrameFiles \subseteq Files
           /\ FrameFiles \subseteq Active
           /\ \A f \in Files : Len(text[f]) \in Nat
           /\ stack = <<>> => Len(stack) = 0 /\ FrameFiles = {} /\ Including = {}
           /\ files = <<>> => Listed = {} /\ Active = {} /\ Finished = {}
           /\ \A k \in 1..Len(stack) :
                 /\ stack[k].file \in Files /\ stack[k].next \in Nat \ {0}
                 /\ stack[k].file \in FrameFiles
           /\ stack # <<>> =>
                 /\ Len(stack) \in 1..Len(stack)
                 /\ Current \in Files /\ Current \in FrameFiles /\ Current \in Active
                 /\ Top.next \in Nat \ {0} /\ Top.next <= Len(text[Current]) + 1
<1>1. Len(stack) \in Nat /\ Len(files) \in Nat
  BY LenProperties DEF TypeOK
<1>2. \A x \in Elements(files) : x \in Entry
  BY ElementOfSeq DEF Elements, TypeOK
<1>3. \A x, y \in Elements(files) : x.path = y.path => x = y
  BY DEF Elements, StackOK
<1>4. Listed = Active \cup Finished
  BY DEF Listed, Active, Finished
<1>5. Active \cap Finished = {}
  BY <1>3 DEF Active, Finished
<1>6. Listed \subseteq Files
  BY <1>2 DEF Listed, Entry
<1>7. \A k \in 1..Len(stack) : stack[k] \in Frame
  BY ElementOfSeq DEF TypeOK
<1>8. \A k \in 1..Len(stack) :
         /\ stack[k].file \in Files /\ stack[k].next \in Nat \ {0}
         /\ stack[k].file \in FrameFiles
  BY <1>7 DEF FrameFiles, Frame
<1>9. FrameFiles \subseteq Files
  BY <1>8 DEF FrameFiles
<1>10. \A f \in Files : Len(text[f]) \in Nat
  <2>1. \A f \in Files : Len(text[f]) \in 0..MaxForms
    BY DEF SourceUnitAssumption, TypeOK
  <2> QED BY <2>1 DEF SourceUnitAssumption
<1>11. FrameFiles \subseteq Active
  BY DEF StackOK
<1>12. ASSUME stack # <<>>
       PROVE  /\ Len(stack) \in 1..Len(stack)
              /\ Current \in Files /\ Current \in FrameFiles /\ Current \in Active
              /\ Top.next \in Nat \ {0} /\ Top.next <= Len(text[Current]) + 1
  <2>1. Len(stack) \in Nat \ {0}
    BY <1>12, EmptySeq DEF TypeOK
  <2>2. Len(stack) \in 1..Len(stack)
    BY <2>1
  <2>3. stack[Len(stack)].next <= Len(text[stack[Len(stack)].file]) + 1
    BY <2>2 DEF StackOK
  <2> QED BY <2>2, <2>3, <1>8, <1>11 DEF Current, Top
<1>13. ASSUME stack = <<>> PROVE Len(stack) = 0 /\ FrameFiles = {} /\ Including = {}
  <2>1. Len(stack) = 0
    BY <1>13
  <2>2. 1..Len(stack) = {}
    BY <2>1
  <2> QED BY <2>1, <2>2 DEF FrameFiles, Including
<1>14. ASSUME files = <<>> PROVE Listed = {} /\ Active = {} /\ Finished = {}
  <2>1. Len(files) = 0
    BY <1>14
  <2>2. 1..Len(files) = {}
    BY <2>1
  <2> QED BY <2>2 DEF Listed, Active, Finished, Elements
<1> HIDE DEF SourceUnitAssumption
<1> QED BY <1>1, <1>4, <1>5, <1>6, <1>8, <1>9, <1>10, <1>11, <1>12, <1>13, <1>14

\* The end of a frame: its file is finished.
LEMMA Leaving ==
    ASSUME SourceUnitAssumption, TypeOK, StackOK, stack # <<>>, text' = text,
           NEW value, NEW also, LeaveFrame(value, also)
    PROVE  /\ Len(stack') = Len(stack) - 1
           /\ \A k \in 1..Len(stack') : stack'[k] = stack[k]
           /\ stack' \in Seq(Frame)
           /\ files' \in Seq(Entry) /\ Len(files') = Len(files)
           /\ \A i \in 1..Len(files) : files'[i].path = files[i].path
           /\ Active' = Active \ {Current} /\ Finished' = Finished \cup {Current}
           /\ Listed' = Listed
           /\ FrameFiles' = FrameFiles \ {Current}
           /\ Including' = Including \ {Current}
<1> DEFINE n == Len(stack)
           c == Current
           m == Len(files)
<1>1. /\ n \in Nat /\ m \in Nat /\ n \in 1..n
      /\ c = stack[n].file /\ c \in Active /\ c \in Files
      /\ \A k \in 1..n : stack[k] \in Frame
      /\ \A k \in 1..n - 1 : k \in 1..n
  <2>1. \A k \in 1..n : stack[k] \in Frame
    BY ElementOfSeq DEF TypeOK
  <2> QED BY <2>1, Facts DEF Current, Top
<1>2. /\ \A i, j \in 1..n : stack[i].file = stack[j].file => i = j
      /\ \A i, j \in 1..m : files[i].path = files[j].path => i = j
  BY DEF StackOK
<1>3. \A i \in 1..m : files[i] \in Entry
  BY ElementOfSeq DEF TypeOK
<1>4. /\ stack' = SubSeq(stack, 1, n - 1)
      /\ files' = [i \in 1..m |->
                    IF files[i].path = c
                      THEN [files[i] EXCEPT !.active = FALSE] ELSE files[i]]
      /\ phase' = "return"
  BY DEF LeaveFrame, Answer
<1> HIDE DEF n, c, m
<1>5. /\ stack' \in Seq(Frame)
      /\ Len(stack') = n - 1
      /\ \A k \in 1..n - 1 : stack'[k] = stack[k]
  <2>1. /\ SubSeq(stack, 1, n - 1) \in Seq(Frame)
        /\ Len(SubSeq(stack, 1, n - 1)) = IF 1 <= n - 1 THEN (n - 1) - 1 + 1 ELSE 0
        /\ \A i \in 1..((n - 1) - 1 + 1) : SubSeq(stack, 1, n - 1)[i] = stack[1 + i - 1]
    BY <1>1, SubSeqProperties
  <2> QED BY <2>1, <1>1, <1>4
<1>6. FrameFiles' = FrameFiles \ {c}
  <2>1. FrameFiles' = {stack[k].file : k \in 1..n - 1}
    BY <1>5 DEF FrameFiles
  <2>2. \A k \in 1..n : k \in 1..n - 1 <=> stack[k].file # c
    BY <1>1, <1>2
  <2> QED BY <2>1, <2>2, <1>1 DEF FrameFiles, n
<1>7. Including' = Including \ {c}
  <2>1. Including' = {stack[k].file : k \in 1..n - 1}
    BY <1>4, <1>5 DEF Including
  <2>2. \A k \in 1..n : k \in 1..n - 1 <=> stack[k].file # c
    BY <1>1, <1>2
  <2>3. \A k \in 1..n - 1 : k < n
    BY <1>1
  <2> QED BY <2>1, <2>2, <2>3, <1>1 DEF Including, n
<1>8. /\ DOMAIN files' = 1..m
      /\ \A i \in 1..m : files'[i] = IF files[i].path = c
                            THEN [files[i] EXCEPT !.active = FALSE] ELSE files[i]
  BY <1>4
<1>9. \A i \in 1..m :
         /\ files'[i] \in Entry
         /\ files'[i].path = files[i].path
         /\ files'[i].active = (files[i].active /\ files[i].path # c)
  BY <1>3, <1>8 DEF Entry
<1>10. files' \in Seq(Entry) /\ Len(files') = m
  <2>1. files' \in [1..m -> Entry]
    BY <1>4, <1>9
  <2>2. files' \in Seq(Entry)
    BY <2>1, <1>1
  <2> QED BY <2>2, <1>8, <1>1, LenProperties
<1>11. Listed' = Listed
  BY <1>9, <1>10 DEF Listed, Elements, m
<1>12. Active' = {files'[i].path : i \in {k \in 1..m : files'[k].active}}
  BY <1>10 DEF Active, Elements
<1>13. Active = {files[i].path : i \in {k \in 1..m : files[k].active}}
  BY DEF Active, Elements, m
<1>14. Active' = Active \ {c}
  BY ZenonT(60), <1>9, <1>12, <1>13
<1>15. Finished' = {files'[i].path : i \in {k \in 1..m : ~ files'[k].active}}
  BY <1>10 DEF Finished, Elements
<1>16. Finished = {files[i].path : i \in {k \in 1..m : ~ files[k].active}}
  BY DEF Finished, Elements, m
<1>17. PICK i0 \in 1..m : files[i0].path = c
  BY <1>1, <1>13
<1>18. Finished' = Finished \cup {c}
  BY <1>9, <1>15, <1>16, <1>17
<1> QED BY <1>5, <1>6, <1>7, <1>9, <1>10, <1>11, <1>14, <1>18 DEF n, c, m

LEMMA LeavingStack ==
    ASSUME SourceUnitAssumption, TypeOK, StackOK, stack # <<>>, text' = text,
           NEW value, NEW also, LeaveFrame(value, also)
    PROVE  /\ StackOK'
           /\ stack' # <<>> => AtInclude(Top)' /\ Resolved(<<Current, Top.next>>)' = Current
           /\ stack' = <<>> => Current = Realpath[RootPath]
<1> DEFINE n == Len(stack)
           m == Len(files)
<1>1. /\ Len(stack') = n - 1
      /\ \A k \in 1..Len(stack') : stack'[k] = stack[k]
      /\ stack' \in Seq(Frame)
      /\ Len(files') = m /\ \A i \in 1..m : files'[i].path = files[i].path
      /\ Active' = Active \ {Current} /\ FrameFiles' = FrameFiles \ {Current}
  BY Leaving
<1>2. n \in Nat /\ m \in Nat /\ n \in 1..n /\ Current = stack[n].file /\ FrameFiles \subseteq Active
  BY Facts DEF Current, Top
<1>3. /\ \A i, j \in 1..m : files[i].path = files[j].path => i = j
      /\ \A i, j \in 1..n : stack[i].file = stack[j].file => i = j
      /\ \A k \in 1..n : stack[k].next <= Len(text[stack[k].file]) + 1
      /\ \A k \in 1..n : k < n =>
                /\ AtInclude(stack[k])
                /\ stack[k + 1].file = Resolved(<<stack[k].file, stack[k].next>>)
      /\ stack[1].file = Realpath[RootPath]
  BY DEF StackOK
<1>5. \A e : Resolved(e)' = Resolved(e)
  BY TextFixed
<1> HIDE DEF n, m
<1>6. \A k \in 1..n - 1 : k \in 1..n /\ k < n /\ (k < n - 1 => k + 1 \in 1..n - 1)
  BY <1>2
<1>7. ASSUME NEW k \in 1..n - 1
      PROVE  /\ stack'[k].next <= Len(text'[stack'[k].file]) + 1
             /\ AtInclude(stack'[k])
             /\ k < n - 1 => stack'[k + 1].file = Resolved(<<stack'[k].file, stack'[k].next>>)
             /\ k = n - 1 => Resolved(<<stack'[k].file, stack'[k].next>>) = Current
  <2>1. stack'[k] = stack[k] /\ k \in 1..n /\ k < n /\ (k < n - 1 => stack'[k + 1] = stack[k + 1])
    BY <1>1, <1>6
  <2>2. AtInclude(stack'[k])
    BY <2>1, <1>3
  <2>3. k = n - 1 => k + 1 = n
    BY <1>2
  <2> QED BY <1>2, <1>3, <2>1, <2>2, <2>3
<1>9. /\ \A i, j \in 1..Len(files') : files'[i].path = files'[j].path => i = j
      /\ \A i, j \in 1..Len(stack') : stack'[i].file = stack'[j].file => i = j
      /\ FrameFiles' \subseteq Active'
  BY <1>1, <1>2, <1>3, <1>6
<1>10. ASSUME stack' # <<>> PROVE n - 1 \in 1..n - 1 /\ 1 \in 1..n - 1
  <2>1. Len(stack') \in Nat \ {0}
    BY <1>1, <1>10, EmptySeq
  <2> QED BY <2>1, <1>1, <1>2
<1>11. stack' # <<>> => stack'[1].file = Realpath[RootPath]
  BY <1>1, <1>3, <1>10
<1>12. \A k \in 1..Len(stack') : k < Len(stack') =>
          stack'[k + 1].file = Resolved(<<stack[k].file, stack[k].next>>)'
  BY <1>1, <1>7 DEF Resolved
<1>13. StackOK'
  <2>1. \A k \in 1..Len(stack') : AtInclude(stack[k])'
    BY <1>1, <1>7 DEF AtInclude
  <2> QED BY <1>1, <1>7, <1>9, <1>11, <1>12, <2>1 DEF StackOK
<1>14. ASSUME stack' # <<>>
       PROVE  AtInclude(Top)' /\ Resolved(<<Current, Top.next>>)' = Current
  <2>1. AtInclude(stack'[n - 1])
    BY <1>7, <1>10, <1>14
  <2>2. AtInclude(Top)'
    BY <2>1, <1>1 DEF AtInclude, Top
  <2>3. Resolved(<<stack'[n - 1].file, stack'[n - 1].next>>) = Current
    BY <1>7, <1>10, <1>14
  <2>4. Resolved(<<Current, Top.next>>)' = Resolved(<<stack'[n - 1].file, stack'[n - 1].next>>)
    BY <1>1 DEF Resolved, Current, Top
  <2> QED BY <2>2, <2>3, <2>4
<1>15. ASSUME stack' = <<>> PROVE Current = Realpath[RootPath]
  <2>1. n = 1
    BY <1>1, <1>2, <1>15
  <2> QED BY <2>1, <1>2, <1>3
<1> QED BY <1>13, <1>14, <1>15

\* A frame goes on to its next form.
LEMMA Advancing ==
    ASSUME SourceUnitAssumption, TypeOK, StackOK, stack # <<>>, HasForm, Advance,
           text' = text, files' = files
    PROVE  /\ Len(stack') = Len(stack) /\ stack' # <<>> /\ stack' \in Seq(Frame)
           /\ \A k \in 1..Len(stack) :
                 /\ stack'[k].file = stack[k].file
                 /\ stack'[k].next = IF k = Len(stack) THEN Top.next + 1 ELSE stack[k].next
           /\ FrameFiles' = FrameFiles /\ StackOK'
           /\ Listed' = Listed /\ Active' = Active /\ Finished' = Finished
<1> DEFINE n == Len(stack)
           c == Current
<1>1. /\ n \in Nat /\ n \in 1..n /\ c = stack[n].file /\ c \in Files /\ Len(text[c]) \in Nat
      /\ Top = stack[n] /\ Top.next \in Nat \ {0} /\ Top.next <= Len(text[c])
      /\ \A k \in 1..n : stack[k] \in Frame
  <2>1. \A k \in 1..n : stack[k] \in Frame
    BY ElementOfSeq DEF TypeOK
  <2> QED BY <2>1, Facts DEF Current, Top, HasForm
<1>2. stack' = [stack EXCEPT ![n] = [stack[n] EXCEPT !.next = stack[n].next + 1]]
  BY DEF Advance
<1> DEFINE x == [stack[n] EXCEPT !.next = stack[n].next + 1]
<1>3. x \in Frame /\ x.file = c /\ x.next = Top.next + 1
  BY <1>1 DEF Frame
<1>4. stack' = [stack EXCEPT ![n] = x] /\ stack \in Seq(Frame)
  BY <1>2 DEF TypeOK
<1> HIDE DEF x
<1>5. /\ stack' \in Seq(Frame) /\ Len(stack') = n
      /\ \A j \in 1..n : stack'[j] = IF j = n THEN x ELSE stack[j]
  BY <1>1, <1>3, <1>4, ExceptSeq
<1> HIDE DEF n, c
<1>6. \A k \in 1..n :
         /\ stack'[k].file = stack[k].file
         /\ stack'[k].next = IF k = n THEN Top.next + 1 ELSE stack[k].next
         /\ k < n => stack'[k] = stack[k]
  BY <1>1, <1>3, <1>5
<1>7. stack' # <<>>
  BY <1>1, <1>5
<1>8. FrameFiles' = FrameFiles
  BY <1>5, <1>6 DEF FrameFiles, n
<1>9. Listed' = Listed /\ Active' = Active /\ Finished' = Finished
  BY DEF Listed, Active, Finished, Elements
<1>10. StackOK'
  <2>1. /\ \A i, j \in 1..Len(files) : files[i].path = files[j].path => i = j
        /\ \A i, j \in 1..n : stack[i].file = stack[j].file => i = j
        /\ FrameFiles \subseteq Active
        /\ \A k \in 1..n :
              /\ stack[k].next <= Len(text[stack[k].file]) + 1
              /\ k < n =>
                    /\ AtInclude(stack[k])
                    /\ stack[k + 1].file = Resolved(<<stack[k].file, stack[k].next>>)
        /\ stack[1].file = Realpath[RootPath]
    BY DEF StackOK, n
  <2>2. ASSUME NEW k \in 1..n
        PROVE  stack'[k].next <= Len(text[stack'[k].file]) + 1
    <3>1. CASE k = n
      <4>1. stack'[k].next = Top.next + 1 /\ stack'[k].file = c
        BY <1>1, <1>6, <3>1
      <4> QED BY <4>1, <1>1
    <3>2. CASE k # n
      BY <1>6, <2>1, <3>2
    <3> QED BY <3>1, <3>2
  <2>3. ASSUME NEW k \in 1..n, k < n
        PROVE  AtInclude(stack'[k]) /\ stack'[k + 1].file = Resolved(<<stack'[k].file, stack'[k].next>>)
    <3>1. k + 1 \in 1..n /\ stack'[k] = stack[k]
      BY <1>1, <1>6, <2>3
    <3> QED BY <3>1, <1>6, <2>1, <2>3
  <2>4. \A k \in 1..n : k < n => AtInclude(stack[k])'
    BY <2>3 DEF AtInclude
  <2>5. \A k \in 1..n : k < n => stack'[k + 1].file = Resolved(<<stack[k].file, stack[k].next>>)'
    BY <2>3 DEF Resolved
  <2>6. 1 \in 1..n
    BY <1>1
  <2>7. \A i, j \in 1..n : stack'[i].file = stack'[j].file => i = j
    BY <1>6, <2>1
  <2>8. stack'[1].file = Realpath[RootPath]
    BY <1>6, <2>1, <2>6
  <2> QED BY <1>5, <1>8, <1>9, <2>1, <2>2, <2>4, <2>5, <2>7, <2>8 DEF StackOK
<1> QED BY <1>5, <1>6, <1>7, <1>8, <1>9, <1>10 DEF n

\* A file that is not listed is put on the list.
LEMMA Listing ==
    ASSUME SourceUnitAssumption, TypeOK, StackOK, NEW f \in Files, f \notin Listed,
           files' = <<[path |-> f, active |-> TRUE]>> \o files
    PROVE  /\ files' \in Seq(Entry)
           /\ \A i, j \in 1..Len(files') : files'[i].path = files'[j].path => i = j
           /\ Listed' = Listed \cup {f} /\ Active' = Active \cup {f} /\ Finished' = Finished
<1> DEFINE x == [path |-> f, active |-> TRUE]
           m == Len(files)
<1>1. /\ x \in Entry /\ files \in Seq(Entry) /\ x.path = f /\ x.active = TRUE
      /\ files' = <<x>> \o files
  BY DEF Entry, TypeOK
<1> HIDE DEF x
<1>2. /\ files' \in Seq(Entry)
      /\ Len(files') = m + 1
      /\ files'[1] = x
      /\ \A i \in 1..m : files'[i + 1] = files[i]
      /\ Elements(files') = Elements(files) \cup {x}
  <2>1. /\ <<x>> \o files \in Seq(Entry)
        /\ Len(<<x>> \o files) = m + 1
        /\ (<<x>> \o files)[1] = x
        /\ \A i \in 1..m : (<<x>> \o files)[i + 1] = files[i]
        /\ Elements(<<x>> \o files) = Elements(files) \cup {x}
    BY <1>1, ElementsFirst
  <2> QED BY <1>1, <2>1, Zenon
<1>3. /\ \A i, j \in 1..m : files[i].path = files[j].path => i = j
      /\ \A i \in 1..m : files[i].path # f
      /\ m \in Nat
  BY Facts DEF StackOK, Listed, Elements
<1> HIDE DEF m
<1>4. \A i \in 1..m + 1 : i = 1 \/ (i - 1 \in 1..m /\ files'[i] = files[i - 1])
  BY <1>2, <1>3
<1>5. ASSUME NEW i \in 1..m + 1, NEW j \in 1..m + 1, files'[i].path = files'[j].path
      PROVE  i = j
  <2>1. CASE i = 1 /\ j = 1
    BY <2>1
  <2>2. CASE i = 1 /\ j # 1
    BY <2>2, <1>1, <1>2, <1>3, <1>4, <1>5
  <2>3. CASE i # 1 /\ j = 1
    BY <2>3, <1>1, <1>2, <1>3, <1>4, <1>5
  <2>4. CASE i # 1 /\ j # 1
    <3>1. i - 1 \in 1..m /\ j - 1 \in 1..m /\ files[i - 1].path = files[j - 1].path
      BY <2>4, <1>4, <1>5
    <3>2. i - 1 = j - 1
      BY <3>1, <1>3
    <3> QED BY <3>2, <1>3
  <2> QED BY <2>1, <2>2, <2>3, <2>4
<1>6. Listed' = Listed \cup {f}
  BY ZenonT(60), <1>1, <1>2 DEF Listed
<1>7. Active' = Active \cup {f}
  BY ZenonT(60), <1>1, <1>2 DEF Active
<1>8. Finished' = Finished
  BY <1>1, <1>2 DEF Finished
<1> QED BY <1>2, <1>5, <1>6, <1>7, <1>8

\* A frame is put on the stack for the file an include form, or the root, names.
LEMMA Opening ==
    ASSUME SourceUnitAssumption, TypeOK, StackOK, NEW f \in Files, f \notin Listed,
           text' = text, OpenFrame(f),
           stack = <<>> => f = Realpath[RootPath],
           stack # <<>> => AtInclude(Top) /\ f = Resolved(<<Current, Top.next>>)
    PROVE  /\ Len(stack') = Len(stack) + 1 /\ stack' \in Seq(Frame) /\ stack' # <<>>
           /\ \A k \in 1..Len(stack) : stack'[k] = stack[k]
           /\ stack'[Len(stack) + 1] = [file |-> f, next |-> 1]
           /\ FrameFiles' = FrameFiles \cup {f} /\ StackOK'
<1> DEFINE n == Len(stack)
           x == [file |-> f, next |-> 1]
<1>1. /\ stack' = Append(stack, x) /\ stack \in Seq(Frame) /\ x \in Frame
      /\ x.file = f /\ x.next = 1
  BY DEF OpenFrame, TypeOK, Frame
<1> HIDE DEF x
<1>2. /\ stack' \in Seq(Frame) /\ stack' # <<>> /\ Len(stack') = n + 1
      /\ \A i \in 1..n : stack'[i] = stack[i]
      /\ stack'[n + 1] = x
  <2>1. /\ Append(stack, x) \in Seq(Frame) /\ Append(stack, x) # <<>>
        /\ Len(Append(stack, x)) = n + 1
        /\ \A i \in 1..n : Append(stack, x)[i] = stack[i]
        /\ Append(stack, x)[n + 1] = x
    BY <1>1, AppendProperties
  <2> QED BY <1>1, <2>1, Zenon
<1>3. /\ n \in Nat /\ FrameFiles \subseteq Active /\ Active \subseteq Listed
      /\ \A k \in 1..n : stack[k].file \in FrameFiles
      /\ Len(text[f]) \in Nat
      /\ stack # <<>> => n \in 1..n
      /\ stack = <<>> => n = 0
  BY Facts
<1>4. /\ \A i, j \in 1..Len(files') : files'[i].path = files'[j].path => i = j
      /\ Active' = Active \cup {f}
  BY Listing DEF OpenFrame
<1>5. /\ \A i, j \in 1..n : stack[i].file = stack[j].file => i = j
      /\ \A k \in 1..n :
            /\ stack[k].next <= Len(text[stack[k].file]) + 1
            /\ k < n =>
                  /\ AtInclude(stack[k])
                  /\ stack[k + 1].file = Resolved(<<stack[k].file, stack[k].next>>)
      /\ stack # <<>> => stack[1].file = Realpath[RootPath]
  BY DEF StackOK
<1>6. stack # <<>> => AtInclude(stack[n]) /\ f = Resolved(<<stack[n].file, stack[n].next>>)
  BY DEF Top, Current
<1> HIDE DEF n
<1>7. \A k \in 1..n + 1 : k \in 1..n \/ k = n + 1
  BY <1>3
<1>8. FrameFiles' = FrameFiles \cup {f}
  <2>1. FrameFiles' = {stack'[k].file : k \in 1..n + 1}
    BY <1>2 DEF FrameFiles
  <2>2. n + 1 \in 1..n + 1 /\ \A k \in 1..n : k \in 1..n + 1
    BY <1>3
  <2>3. \A k \in 1..n : stack'[k].file = stack[k].file
    BY <1>2
  <2>4. stack'[n + 1].file = f
    BY <1>1, <1>2
  <2>5. FrameFiles = {stack[k].file : k \in 1..n}
    BY DEF FrameFiles, n
  <2>6. ASSUME NEW k \in 1..n + 1 PROVE stack'[k].file \in FrameFiles \cup {f}
    BY <2>3, <2>4, <2>5, <1>7
  <2>7. ASSUME NEW k \in 1..n PROVE stack[k].file \in FrameFiles'
    BY <2>1, <2>2, <2>3
  <2>8. f \in FrameFiles'
    BY <2>1, <2>2, <2>4
  <2> QED BY <2>1, <2>5, <2>6, <2>7, <2>8
<1>9. \A i, j \in 1..n + 1 : stack'[i].file = stack'[j].file => i = j
  <2>1. \A k \in 1..n : stack[k].file # f
    BY <1>3
  <2> QED BY <2>1, <1>1, <1>2, <1>5, <1>7
<1>10. ASSUME NEW k \in 1..n + 1 PROVE stack'[k].next <= Len(text[stack'[k].file]) + 1
  <2>1. CASE k = n + 1
    BY <2>1, <1>1, <1>2, <1>3
  <2>2. CASE k \in 1..n
    BY <2>2, <1>2, <1>5
  <2> QED BY <2>1, <2>2, <1>7
<1>11. ASSUME NEW k \in 1..n
       PROVE  AtInclude(stack'[k]) /\ stack'[k + 1].file = Resolved(<<stack'[k].file, stack'[k].next>>)
  <2>1. stack'[k] = stack[k] /\ stack # <<>>
    BY <1>2, <1>3
  <2>2. CASE k = n
    BY <2>1, <2>2, <1>1, <1>2, <1>6
  <2>3. CASE k < n
    <3>1. k + 1 \in 1..n
      BY <2>3, <1>3
    <3> QED BY <3>1, <2>1, <2>3, <1>2, <1>5
  <2> QED BY <2>2, <2>3, <1>3
<1>12. \A k \in 1..n + 1 : k < n + 1 => k \in 1..n
  BY <1>3
<1>13. \A k \in 1..n : AtInclude(stack[k])'
  BY <1>11 DEF AtInclude
<1>14. \A k \in 1..n : stack'[k + 1].file = Resolved(<<stack[k].file, stack[k].next>>)'
  BY <1>11 DEF Resolved
<1>15. stack'[1].file = Realpath[RootPath]
  <2>1. CASE stack = <<>>
    BY <2>1, <1>1, <1>2, <1>3
  <2>2. CASE stack # <<>>
    <3>1. 1 \in 1..n
      BY <2>2, <1>3
    <3> QED BY <3>1, <2>2, <1>2, <1>5
  <2> QED BY <2>1, <2>2
<1>16. StackOK'
  <2>1. FrameFiles' \subseteq Active'
    BY <1>3, <1>4, <1>8
  <2> QED BY <1>2, <1>4, <1>9, <1>10, <1>12, <1>13, <1>14, <1>15, <2>1 DEF StackOK
<1> QED BY <1>2, <1>8, <1>16 DEF n, x

-----------------------------------------------------------------------------
(* The forms passed                                                        *)

LEMMA PassedIs ==
    ASSUME SourceUnitAssumption, TypeOK, StackOK
    PROVE  /\ \A e \in Passed : /\ e[1] \in Files /\ e[2] \in Nat \ {0}
                                /\ e[1] \in Listed /\ e[2] <= Len(text[e[1]])
                                /\ e = <<e[1], e[2]>>
           /\ \A f \in Finished : \A i \in 1..Len(text[f]) : <<f, i>> \in Passed
           /\ \A k \in 1..Len(stack) : \A i \in 1..(stack[k].next - 1) :
                 i <= Len(text[stack[k].file]) /\ <<stack[k].file, i>> \in Passed
<1>0. MaxForms \in Nat /\ \A f \in Files : Len(text[f]) \in 0..MaxForms
  BY DEF SourceUnitAssumption, TypeOK
<1>1. /\ Len(stack) \in Nat /\ Listed = Active \cup Finished /\ Listed \subseteq Files
      /\ FrameFiles \subseteq Active
      /\ \A k \in 1..Len(stack) :
                 /\ stack[k].file \in Files /\ stack[k].next \in Nat \ {0}
                 /\ stack[k].file \in FrameFiles
  BY Facts
<1>2. \A k \in 1..Len(stack) : stack[k].next <= Len(text[stack[k].file]) + 1
  BY DEF StackOK
<1>3. ASSUME NEW e \in Passed
      PROVE  /\ e[1] \in Files /\ e[2] \in Nat \ {0}
             /\ e[1] \in Listed /\ e[2] <= Len(text[e[1]])
             /\ e = <<e[1], e[2]>>
  <2>1. e \in Files \X (1..MaxForms)
    BY DEF Passed
  <2>2. e[1] \in Files /\ e[2] \in Nat \ {0} /\ e = <<e[1], e[2]>>
    BY <2>1, <1>0
  <2>3. CASE e[1] \in Finished /\ e[2] <= Len(text[e[1]])
    BY <2>2, <2>3, <1>1
  <2>4. ASSUME NEW k \in 1..Len(stack), e[1] = stack[k].file, e[2] < stack[k].next
        PROVE  e[1] \in Listed /\ e[2] <= Len(text[e[1]])
    <3>1. stack[k].next <= Len(text[e[1]]) + 1 /\ Len(text[e[1]]) \in Nat
      BY <2>4, <1>0, <1>1, <1>2
    <3>2. e[2] <= Len(text[e[1]])
      BY <3>1, <2>2, <2>4, <1>1
    <3> QED BY <3>2, <2>4, <1>1
  <2> QED BY <2>2, <2>3, <2>4, <1>3 DEF Passed
<1>4. ASSUME NEW f \in Files, NEW i \in 1..Len(text[f])
      PROVE  <<f, i>> \in Files \X (1..MaxForms)
  <2>1. i \in 1..MaxForms
    BY <1>0
  <2> QED BY <2>1
<1>5. ASSUME NEW f \in Finished, NEW i \in 1..Len(text[f]) PROVE <<f, i>> \in Passed
  <2>1. f \in Files /\ i <= Len(text[f])
    BY <1>0, <1>1
  <2> QED BY <2>1, <1>4 DEF Passed
<1>6. ASSUME NEW k \in 1..Len(stack), NEW i \in 1..(stack[k].next - 1)
      PROVE  i <= Len(text[stack[k].file]) /\ <<stack[k].file, i>> \in Passed
  <2>1. stack[k].file \in Files /\ i < stack[k].next /\ i \in 1..Len(text[stack[k].file])
    BY <1>0, <1>1, <1>2
  <2> QED BY <2>1, <1>4 DEF Passed
<1> QED BY <1>3, <1>5, <1>6

LEMMA PassedSame ==
    ASSUME text' = text, files' = files, stack' = stack
    PROVE  Passed' = Passed
  BY DEF Passed, Finished, Elements

LEMMA PassedAtEnd ==
    ASSUME SourceUnitAssumption, TypeOK, StackOK, stack # <<>>, text' = text, ~ HasForm,
           NEW value, NEW also, LeaveFrame(value, also)
    PROVE  Passed' = Passed
<1> DEFINE n == Len(stack)
           c == Current
<1>1. /\ Len(stack') = n - 1 /\ \A k \in 1..Len(stack') : stack'[k] = stack[k]
      /\ Finished' = Finished \cup {c}
  BY Leaving
<1>2. /\ n \in Nat /\ n \in 1..n /\ c = stack[n].file /\ c \in Files /\ Len(text[c]) \in Nat
      /\ stack[n].next \in Nat \ {0} /\ stack[n].next <= Len(text[c]) + 1
      /\ ~ (stack[n].next <= Len(text[c]))
  BY Facts DEF HasForm, Current, Top
<1>3. MaxForms \in Nat
  BY DEF SourceUnitAssumption
<1> HIDE DEF n, c
<1>4. \A i \in Nat : i <= Len(text[c]) <=> i < stack[n].next
  BY <1>2
<1>5. ASSUME NEW e \in Files \X (1..MaxForms)
      PROVE  ((e[1] \in Finished' /\ e[2] <= Len(text[e[1]]))
               \/ \E k \in 1..n - 1 : e[1] = stack[k].file /\ e[2] < stack[k].next)
             <=> ((e[1] \in Finished /\ e[2] <= Len(text[e[1]]))
               \/ \E k \in 1..n : e[1] = stack[k].file /\ e[2] < stack[k].next)
  <2>1. e[2] \in Nat
    BY <1>3
  <2>2. \A k \in 1..n : k \in 1..n - 1 \/ k = n
    BY <1>2
  <2>3. \A k \in 1..n - 1 : k \in 1..n
    BY <1>2
  <2> QED BY <2>1, <2>2, <2>3, <1>1, <1>2, <1>4
<1>6. Passed' = {e \in Files \X (1..MaxForms) :
        \/ e[1] \in Finished' /\ e[2] <= Len(text[e[1]])
        \/ \E k \in 1..n - 1 : e[1] = stack[k].file /\ e[2] < stack[k].next}
  BY <1>1 DEF Passed
<1>7. Passed = {e \in Files \X (1..MaxForms) :
        \/ e[1] \in Finished /\ e[2] <= Len(text[e[1]])
        \/ \E k \in 1..n : e[1] = stack[k].file /\ e[2] < stack[k].next}
  BY DEF Passed, n
<1> QED BY <1>5, <1>6, <1>7

LEMMA NotPassed ==
    ASSUME SourceUnitAssumption, TypeOK, StackOK, stack # <<>>
    PROVE  <<Current, Top.next>> \notin Passed
<1> DEFINE n == Len(stack)
           c == Current
           i == Top.next
<1>1. /\ n \in 1..n /\ c = stack[n].file /\ i = stack[n].next /\ i \in Nat \ {0}
      /\ c \notin Finished
      /\ \A k \in 1..n : stack[k].next \in Nat
  BY Facts DEF Current, Top
<1>2. \A k, j \in 1..n : stack[k].file = stack[j].file => k = j
  BY DEF StackOK
<1>3. SUFFICES ASSUME <<c, i>> \in Passed PROVE FALSE
  OBVIOUS
<1>4. <<c, i>>[1] = c /\ <<c, i>>[2] = i
  OBVIOUS
<1> HIDE DEF c, i, n
<1>5. PICK k \in 1..n : c = stack[k].file /\ i < stack[k].next
  BY <1>1, <1>3, <1>4 DEF Passed, n
<1>6. k = n
  BY <1>1, <1>2, <1>5
<1> QED BY <1>1, <1>5, <1>6

LEMMA PassedAdvance ==
    ASSUME SourceUnitAssumption, TypeOK, StackOK, stack # <<>>, HasForm, Advance,
           text' = text, files' = files
    PROVE  /\ <<Current, Top.next>> \notin Passed
           /\ Passed' = Passed \cup {<<Current, Top.next>>}
<1> DEFINE n == Len(stack)
           c == Current
           i == Top.next
<1>1. /\ Len(stack') = n
      /\ \A k \in 1..n :
            /\ stack'[k].file = stack[k].file
            /\ stack'[k].next = IF k = n THEN i + 1 ELSE stack[k].next
      /\ Finished' = Finished
  BY Advancing
<1>2. /\ n \in Nat /\ n \in 1..n /\ c = stack[n].file /\ c \in Files /\ Len(text[c]) \in Nat
      /\ i = stack[n].next /\ i \in Nat \ {0} /\ i <= Len(text[c])
      /\ c \notin Finished
  BY Facts DEF HasForm, Current, Top
<1>3. \A k, j \in 1..n : stack[k].file = stack[j].file => k = j
  BY DEF StackOK
<1>4. <<c, i>> \in Files \X (1..MaxForms) /\ MaxForms \in Nat
  BY <1>2, NameIn DEF SourceUnitAssumption, TypeOK
<1> HIDE DEF n, c, i
<1>5. Passed' = {e \in Files \X (1..MaxForms) :
        \/ e[1] \in Finished /\ e[2] <= Len(text[e[1]])
        \/ \E k \in 1..n : e[1] = stack[k].file /\ e[2] < (IF k = n THEN i + 1 ELSE stack[k].next)}
  BY <1>1 DEF Passed
<1>6. Passed = {e \in Files \X (1..MaxForms) :
        \/ e[1] \in Finished /\ e[2] <= Len(text[e[1]])
        \/ \E k \in 1..n : e[1] = stack[k].file /\ e[2] < stack[k].next}
  BY DEF Passed, n
<1>7. <<c, i>> \notin Passed
  BY NotPassed DEF c, i
<1>8. ASSUME NEW e \in Files \X (1..MaxForms)
      PROVE  (\E k \in 1..n : e[1] = stack[k].file /\ e[2] < (IF k = n THEN i + 1 ELSE stack[k].next))
             <=> (e = <<c, i>> \/ \E k \in 1..n : e[1] = stack[k].file /\ e[2] < stack[k].next)
  <2>1. e[2] \in Nat /\ e = <<e[1], e[2]>>
    BY <1>4
  <2>2. e[1] = c => (e[2] < i + 1 <=> e[2] < i \/ e = <<c, i>>)
    BY <2>1, <1>2
  <2> QED BY <2>1, <2>2, <1>2
<1>9. <<c, i>> \in Passed'
  <2>1. i < i + 1
    BY <1>2
  <2> QED BY <2>1, <1>2, <1>4, <1>5
<1>10. Passed' = Passed \cup {<<c, i>>}
  BY <1>4, <1>5, <1>6, <1>8, <1>9
<1> QED BY <1>7, <1>10 DEF c, i

LEMMA PassedOpen ==
    ASSUME SourceUnitAssumption, TypeOK, StackOK, text' = text,
           NEW f, Finished' = Finished, Len(stack') = Len(stack) + 1,
           \A k \in 1..Len(stack) : stack'[k] = stack[k],
           stack'[Len(stack) + 1] = [file |-> f, next |-> 1]
    PROVE  Passed' = Passed
<1> DEFINE n == Len(stack)
<1>1. n \in Nat /\ MaxForms \in Nat
  BY Facts DEF SourceUnitAssumption
<1>2. Passed' = {e \in Files \X (1..MaxForms) :
        \/ e[1] \in Finished /\ e[2] <= Len(text[e[1]])
        \/ \E k \in 1..n + 1 : e[1] = stack'[k].file /\ e[2] < stack'[k].next}
  BY DEF Passed
<1>3. Passed = {e \in Files \X (1..MaxForms) :
        \/ e[1] \in Finished /\ e[2] <= Len(text[e[1]])
        \/ \E k \in 1..n : e[1] = stack[k].file /\ e[2] < stack[k].next}
  BY DEF Passed
<1> HIDE DEF n
<1>4. ASSUME NEW e \in Files \X (1..MaxForms)
      PROVE  (\E k \in 1..n + 1 : e[1] = stack'[k].file /\ e[2] < stack'[k].next)
             <=> (\E k \in 1..n : e[1] = stack[k].file /\ e[2] < stack[k].next)
  <2>1. e[2] \in 1..MaxForms
    OBVIOUS
  <2>2. ~ (e[2] < 1)
    BY <2>1, <1>1
  <2>3. \A k \in 1..n + 1 : k \in 1..n \/ k = n + 1
    BY <1>1
  <2>4. \A k \in 1..n : k \in 1..n + 1 /\ stack'[k] = stack[k]
    BY <1>1 DEF n
  <2>5. stack'[n + 1].next = 1
    BY DEF n
  <2> QED BY <2>2, <2>3, <2>4, <2>5
<1> QED BY <1>2, <1>3, <1>4

-----------------------------------------------------------------------------
(* What has been loaded is valid                                           *)

LEMMA FinishedClosed ==
    ASSUME SourceUnitAssumption, TypeOK, StackOK, LoadedOK
    PROVE  Closed(Finished)
<1>1. Finished \subseteq Files
  BY Facts
<1>2. ASSUME NEW g \in Finished, NEW x \in Targets(g) PROVE x \in Finished
  <2>1. PICK i \in 1..Len(text[g]) : text[g][i].kind = "include" /\ x = Resolved(<<g, i>>)
    BY TargetOf DEF TypeOK
  <2>2. <<g, i>> \in Passed
    BY PassedIs
  <2>3. <<g, i>> \in PassedOf("include")
    BY <2>1, <2>2 DEF PassedOf
  <2> QED BY <2>1, <2>3 DEF LoadedOK
<1> QED BY <1>1, <1>2 DEF Closed

\* Everything a passed form stands for has been passed.
LEMMA FirstsPassed ==
    ASSUME SourceUnitAssumption, TypeOK, StackOK, LoadedOK,
           NEW kind, NEW f, NEW i, <<f, i>> \in Passed
    PROVE  Firsts(kind, f, i) \subseteq PassedOf(kind)
<1>1. SUFFICES ASSUME NEW e \in Firsts(kind, f, i) PROVE e \in PassedOf(kind)
  OBVIOUS
<1>2. /\ e \in Files \X (1..MaxForms) /\ e[2] <= Len(text[e[1]]) /\ text[e[1]][e[2]].kind = kind
      /\ e = <<f, i>> \/ e[1] \in Brought(f, i)
  BY <1>1 DEF Firsts, In, Names
<1>3. CASE e = <<f, i>>
  BY <1>2, <1>3 DEF PassedOf
<1>4. CASE e[1] \in Brought(f, i)
  <2>1. text[f][i].kind = "include" /\ e[1] \in Reached({Resolved(<<f, i>>)})
    BY <1>4 DEF Brought
  <2>2. <<f, i>> \in PassedOf("include")
    BY <2>1 DEF PassedOf
  <2>3. Resolved(<<f, i>>) \in Finished
    BY <2>2 DEF LoadedOK
  <2>4. e[1] \in Finished
    BY <2>1, <2>3, FinishedClosed, ReachedLeast
  <2>5. e \in Passed
    BY <2>4, <1>2 DEF Passed
  <2> QED BY <2>5, <1>2 DEF PassedOf
<1> QED BY <1>2, <1>3, <1>4

\* A file included while it is active includes itself.
LEMMA ActiveIsCycle ==
    ASSUME SourceUnitAssumption, TypeOK, StackOK, stack # <<>>, AtInclude(Top),
           NEW k0 \in 1..Len(stack), Resolved(<<Current, Top.next>>) = stack[k0].file
    PROVE  stack[k0].file \in Reached(Targets(stack[k0].file))
<1> DEFINE n == Len(stack)
           f == stack[k0].file
           R == Reached(Targets(f))
<1>1. Closed(R) /\ Targets(f) \cap Files \subseteq R
  BY ReachedClosed
<1>2. /\ n \in Nat /\ n \in 1..n
      /\ \A k \in 1..n : stack[k].file \in Files /\ stack[k].next \in Nat \ {0}
  BY Facts
<1>3. \A k \in 1..n : k < n => /\ AtInclude(stack[k])
                               /\ stack[k + 1].file = Resolved(<<stack[k].file, stack[k].next>>)
  BY DEF StackOK
<1>4. AtInclude(stack[n]) /\ f = Resolved(<<stack[n].file, stack[n].next>>)
  BY DEF Top, Current
<1>5. ASSUME NEW k \in 1..n, AtInclude(stack[k])
      PROVE  Resolved(<<stack[k].file, stack[k].next>>) \in Targets(stack[k].file)
  BY <1>2, <1>5, NameIn DEF AtInclude, TypeOK
<1> HIDE DEF n, f, R
<1>6. ASSUME NEW k \in 1..n, stack[k].file \in R, k < n PROVE stack[k + 1].file \in R
  <2>1. k + 1 \in 1..n
    BY <1>2, <1>6
  <2>2. stack[k + 1].file \in Targets(stack[k].file) \cap Files
    BY <2>1, <1>2, <1>3, <1>5, <1>6
  <2> QED BY <2>2, <1>1, <1>6 DEF Closed
<1>7. k0 \in 1..n /\ f = stack[k0].file
  BY DEF n, f
<1>8. ASSUME k0 < n PROVE stack[k0 + 1].file \in R
  <2>1. k0 + 1 \in 1..n
    BY <1>2, <1>7, <1>8
  <2>2. stack[k0 + 1].file \in Targets(f) \cap Files
    BY <2>1, <1>2, <1>3, <1>5, <1>7, <1>8
  <2> QED BY <2>2, <1>1
<1>9. ASSUME NEW j \in k0 + 1..n PROVE stack[j].file \in R
  <2> DEFINE S == {k \in k0 + 1..n : stack[k].file \notin R}
  <2>1. SUFFICES ASSUME S # {} PROVE FALSE
    OBVIOUS
  <2>2. S \subseteq Nat
    BY <1>2, <1>7
  <2>3. PICK x \in S : \A y \in S : x <= y
    BY <2>1, <2>2, Least
  <2>4. CASE x = k0 + 1
    BY <2>3, <2>4, <1>2, <1>7, <1>8
  <2>5. CASE x # k0 + 1
    <3>1. x - 1 \in k0 + 1..n /\ x - 1 \in 1..n /\ x - 1 < n /\ (x - 1) + 1 = x /\ ~ (x <= x - 1)
      BY <2>3, <2>5, <1>2, <1>7
    <3>2. stack[x - 1].file \in R
      BY <3>1, <2>3
    <3>3. stack[x].file \in R
      BY <3>1, <3>2, <1>6
    <3> QED BY <3>3, <2>3
  <2> QED BY <2>4, <2>5
<1>10. f \in Files
  BY <1>2, <1>7
<1>11. ASSUME k0 = n PROVE f \in R
  BY <1>1, <1>2, <1>4, <1>5, <1>7, <1>10, <1>11
<1>12. ASSUME k0 # n PROVE f \in R
  <2>1. n \in k0 + 1..n
    BY <1>2, <1>7, <1>12
  <2>2. stack[n].file \in R
    BY <2>1, <1>9
  <2>3. f \in Targets(stack[n].file) \cap Files
    BY <1>2, <1>4, <1>5, <1>10
  <2> QED BY <2>2, <2>3, <1>1 DEF Closed
<1> QED BY <1>11, <1>12 DEF f, R

\* A form of a listed file that the loader rejects makes the unit invalid.
LEMMA CurrentIn ==
    ASSUME SourceUnitAssumption, TypeOK, StackOK, LoadedOK, stack # <<>>, HasForm
    PROVE  /\ Current \in UnitFiles
           /\ <<Current, Top.next>> \in In(Form.kind)
           /\ Form.kind = "include" => Resolved(<<Current, Top.next>>) \in Targets(Current)
<1>1. Current \in Files /\ Current \in Listed /\ Top.next \in Nat \ {0}
  BY Facts
<1>2. Current \in UnitFiles
  BY <1>1 DEF LoadedOK
<1> QED BY <1>1, <1>2, NameIn DEF HasForm, Form, TypeOK

\* The file to be loaded belongs to the unit.
LEMMA NextFile ==
    ASSUME SourceUnitAssumption, TypeOK, StackOK, PhaseOK, LoadedOK, phase = "load"
    PROVE  /\ stack = <<>> => Realpath[target] = Realpath[RootPath]
           /\ stack # <<>> => /\ AtInclude(Top) /\ HasForm /\ Form.kind = "include"
                              /\ Realpath[target] = Resolved(<<Current, Top.next>>)
           /\ Realpath[target] \in Files => Realpath[target] \in UnitFiles
           /\ Realpath[target] = NoFile => ~ ValidUnit
<1>1. CASE stack = <<>>
  <2>1. Realpath[target] = Realpath[RootPath]
    BY <1>1 DEF PhaseOK
  <2>2. {Realpath[target]} \cap Files \subseteq UnitFiles
    BY <2>1, ReachedClosed DEF UnitFiles
  <2> QED BY <2>1, <2>2, <1>1 DEF ValidUnit
<1>2. CASE stack # <<>>
  <2>1. AtInclude(Top) /\ target = IncludePath(Current, Form.name)
    BY <1>2 DEF PhaseOK
  <2>2. HasForm /\ Form.kind = "include"
    BY <2>1 DEF AtInclude, HasForm, Form, Current
  <2>3. Realpath[target] = Resolved(<<Current, Top.next>>)
    BY <2>1 DEF Resolved, Form
  <2>4. /\ Current \in UnitFiles
        /\ <<Current, Top.next>> \in In("include")
        /\ Realpath[target] \in Targets(Current)
    BY <1>2, <2>2, <2>3, CurrentIn
  <2>5. Realpath[target] \in Files => Realpath[target] \in UnitFiles
    BY <2>4, ReachedClosed DEF UnitFiles, Closed
  <2>6. Realpath[target] = NoFile => ~ ValidUnit
    BY <2>3, <2>4 DEF ValidUnit
  <2> QED BY <1>2, <2>1, <2>2, <2>3, <2>5, <2>6
<1> QED BY <1>1, <1>2

-----------------------------------------------------------------------------
(* The parts of the invariant after a step                                 *)

OrderIn(out, cs, f, i, j) ==
    /\ text[f][j].kind = "form" =>
          \A e \in Firsts("form", f, i) : Before(out, e, <<f, j>>)
    /\ text[f][j].kind = "ffi" =>
          \A e \in Firsts("ffi", f, i) : Before(cs, Resolved(e), Resolved(<<f, j>>))
OfKind(S, kind) == {e \in S : text[e[1]][e[2]].kind = kind}

LEMMA OrderNow ==
    /\ \A f, i, j : InOrder(f, i, j) <=> OrderIn(output, csources, f, i, j)
    /\ \A kind : PassedOf(kind) = OfKind(Passed, kind)
  BY DEF InOrder, OrderIn, PassedOf, OfKind

LEMMA OrderNext ==
    ASSUME text' = text
    PROVE  /\ \A f, i, j : InOrder(f, i, j)' <=> OrderIn(output', csources', f, i, j)
           /\ \A kind : PassedOf(kind)' = OfKind(Passed', kind)
<1>1. /\ \A e : Resolved(e)' = Resolved(e)
      /\ \A kind, f, i : Firsts(kind, f, i)' = Firsts(kind, f, i)
  BY TextFixed
<1>2. \A kind : PassedOf(kind)' = OfKind(Passed', kind)
  BY DEF PassedOf, OfKind
<1>3. ASSUME NEW f, NEW i, NEW j
      PROVE  InOrder(f, i, j)' <=> OrderIn(output', csources', f, i, j)
  <2>1. /\ Firsts("form", f, i)' = Firsts("form", f, i) /\ Firsts("ffi", f, i)' = Firsts("ffi", f, i)
        /\ Resolved(<<f, j>>)' = Resolved(<<f, j>>)
    BY <1>1
  <2> QED BY <2>1, <1>1 DEF InOrder, OrderIn
<1> QED BY <1>2, <1>3

LEMMA LoadedNext ==
    ASSUME text' = text, Active' = FrameFiles', Listed' \subseteq UnitFiles,
           \A e \in Passed' : text[e[1]][e[2]].kind \in {"form", "include", "ffi"},
           \A e \in OfKind(Passed', "include") : Resolved(e) \in Finished',
           \A f \in Finished' : f \notin Reached(Targets(f)),
           phase' \in {"return", "release"} =>
             IF stack' = <<>> THEN Realpath[RootPath] \in Finished'
             ELSE Resolved(<<Current, Top.next>>)' \in Finished'
    PROVE  LoadedOK'
<1>1. /\ \A e : Resolved(e)' = Resolved(e)
      /\ UnitFiles' = UnitFiles
      /\ \A f : (f \notin Reached(Targets(f)))' = (f \notin Reached(Targets(f)))
  BY TextFixed
<1>2. PassedOf("include")' = OfKind(Passed', "include")
  BY OrderNext
<1>3. \A e \in PassedOf("include")' : Resolved(e)' \in Finished'
  BY <1>1, <1>2
<1>4. \A f \in Finished' : (f \notin Reached(Targets(f)))'
  BY <1>1
<1>5. \A e \in Passed' : text'[e[1]][e[2]].kind \in {"form", "include", "ffi"}
  OBVIOUS
<1> QED BY <1>1, <1>3, <1>4, <1>5 DEF LoadedOK

LEMMA SplicedNext ==
    ASSUME text' = text,
           Elements(output') = OfKind(Passed', "form"), Injective(output'),
           Elements(csources') = {Resolved(e) : e \in OfKind(Passed', "ffi")},
           Injective(csources'),
           \A d, e \in OfKind(Passed', "ffi") : Resolved(d) = Resolved(e) => d = e,
           \A e \in Passed' : \A i \in 1..(e[2] - 1) : OrderIn(output', csources', e[1], i, e[2])
    PROVE  SplicedOK'
<1>1. \A e : Resolved(e)' = Resolved(e)
  BY TextFixed
<1>2. /\ PassedOf("form")' = OfKind(Passed', "form")
      /\ PassedOf("ffi")' = OfKind(Passed', "ffi")
      /\ \A f, i, j : InOrder(f, i, j)' <=> OrderIn(output', csources', f, i, j)
  BY OrderNext
<1>3. \A e \in Passed' : \A i \in 1..(e[2] - 1) : InOrder(e[1], i, e[2])'
  BY <1>2
<1>4. {Resolved(e)' : e \in PassedOf("ffi")'} = {Resolved(e) : e \in OfKind(Passed', "ffi")}
  BY <1>1, <1>2
<1>5. \A d, e \in PassedOf("ffi")' : Resolved(d)' = Resolved(e)' => d = e
  BY <1>1, <1>2
<1> QED BY <1>2, <1>3, <1>4, <1>5 DEF SplicedOK

LEMMA SplicedSame ==
    ASSUME text' = text, Passed' = Passed, output' = output, csources' = csources, SplicedOK
    PROVE  SplicedOK'
<1>1. /\ PassedOf("form") = OfKind(Passed, "form") /\ PassedOf("ffi") = OfKind(Passed, "ffi")
      /\ \A f, i, j : InOrder(f, i, j) <=> OrderIn(output, csources, f, i, j)
  BY OrderNow
<1>2. /\ Elements(output) = OfKind(Passed, "form") /\ Injective(output)
      /\ Elements(csources) = {Resolved(e) : e \in OfKind(Passed, "ffi")}
      /\ Injective(csources)
      /\ \A d, e \in OfKind(Passed, "ffi") : Resolved(d) = Resolved(e) => d = e
      /\ \A e \in Passed : \A i \in 1..(e[2] - 1) : OrderIn(output, csources, e[1], i, e[2])
  BY <1>1 DEF SplicedOK
<1> QED BY <1>2, SplicedNext

LEMMA OwnedIs ==
    ASSUME phase \notin {"start", "done"}, NothingLost
    PROVE  /\ ~ faulty /\ Parts(Tables \cap live, OutputBlocks)
           /\ live = Blocks(Tables \cap live, Listed, FrameFiles, Including, OutputBlocks,
                            Elements(csources))
<1>1. Owned = Blocks(Tables \cap live, Listed, FrameFiles, Including, OutputBlocks,
                     Elements(csources))
  BY DEF Owned, Blocks
<1>2. Parts(Tables \cap live, OutputBlocks)
  BY DEF Parts, OutputBlocks
<1> QED BY <1>1, <1>2 DEF NothingLost

LEMMA OwnedNext ==
    ASSUME phase' \notin {"start", "done"}, ~ faulty', NEW P, Parts(P, OutputBlocks'),
           live' = Blocks(P, Listed', FrameFiles', Including', OutputBlocks', Elements(csources'))
    PROVE  NothingLost'
<1>1. Owned' = Blocks(Tables \cap live', Listed', FrameFiles', Including', OutputBlocks',
                      Elements(csources'))
  BY DEF Owned, Blocks
<1>2. Tables \cap live' = P
  BY BlockIs
<1> QED BY <1>1, <1>2 DEF NothingLost

LEMMA MidStep ==
    ASSUME phase' \notin {"start", "done"}, returned' = "nothing",
           TypeOK', StackOK', PhaseOK', Succeeding' => LoadedOK' /\ SplicedOK',
           RejectedOK', NothingLost'
    PROVE  Inductive'
<1>1. AcceptsValidUnits' /\ SplicedOnce' /\ SourceOrder'
  BY DEF AcceptsValidUnits, SplicedOnce, SourceOrder
<1> QED BY <1>1 DEF Inductive

-----------------------------------------------------------------------------
(* The actions                                                             *)

LEMMA InitInductive ==
    ASSUME SourceUnitAssumption, Init
    PROVE  Inductive
<1>1. /\ text \in Texts /\ phase = "start" /\ target = RootPath /\ status = 0
      /\ files = <<>> /\ stack = <<>> /\ output = <<>> /\ csources = <<>>
      /\ live = {} /\ faulty = FALSE /\ returned = "nothing"
  BY DEF Init
<1>2. TypeOK
  BY <1>1, EmptySeq DEF TypeOK, Phases
<1>3. Len(files) = 0 /\ Len(stack) = 0 /\ 1..0 = {}
  BY <1>1
<1>4. StackOK
  BY <1>1, <1>3 DEF StackOK, FrameFiles
<1>5. PhaseOK
  BY <1>1 DEF PhaseOK
<1>6. ~ Succeeding /\ RejectedOK
  BY <1>1 DEF Succeeding, RejectedOK
<1>7. AcceptsValidUnits /\ SplicedOnce /\ SourceOrder
  BY <1>1 DEF AcceptsValidUnits, SplicedOnce, SourceOrder
<1>8. NothingLost
  BY <1>1 DEF NothingLost, Owned
<1> QED BY <1>2, <1>4, <1>5, <1>6, <1>7, <1>8 DEF Inductive

LEMMA BeginInductive ==
    ASSUME SourceUnitAssumption, Inductive, Begin
    PROVE  Inductive'
<1>1. /\ TypeOK /\ StackOK /\ PhaseOK /\ NothingLost /\ phase = "start"
      /\ UNCHANGED <<text, target, status, files, stack, output, csources>>
  BY DEF Inductive, Begin
<1>2. /\ stack = <<>> /\ files = <<>> /\ output = <<>> /\ csources = <<>> /\ status = 0
      /\ returned = "nothing" /\ live = {} /\ ~ faulty
  BY <1>1 DEF PhaseOK, NothingLost, Owned
<1>3. Listed = {} /\ Active = {} /\ Finished = {} /\ FrameFiles = {} /\ Including = {}
  BY <1>1, <1>2, Facts
<1>4. Len(stack) = 0 /\ Len(output) = 0 /\ Len(csources) = 0 /\ 1..0 = {}
  BY <1>2
<1>5. /\ Listed' = {} /\ Active' = {} /\ Finished' = {} /\ FrameFiles' = {} /\ Including' = {}
      /\ Elements(csources') = {} /\ Elements(output') = {} /\ OutputBlocks' = {} /\ Passed' = {}
  <2>1. Listed' = {} /\ Active' = {} /\ Finished' = {} /\ FrameFiles' = {}
    BY ZenonT(60), <1>1, <1>3 DEF Listed, Active, Finished, FrameFiles, Elements
  <2>2. Including' = {}
    BY <1>1, <1>4 DEF Including
  <2>3. Elements(csources') = {} /\ Elements(output') = {} /\ OutputBlocks' = {}
    BY <1>1, <1>2, <1>4 DEF Elements, OutputBlocks
  <2>4. Passed' = {}
    BY <1>1, <1>4, <2>1 DEF Passed
  <2> QED BY <2>1, <2>2, <2>3, <2>4
<1>6. StackOK'
  <2>1. files' = <<>> /\ stack' = <<>> /\ 1..Len(files') = {} /\ 1..Len(stack') = {}
    BY <1>1, <1>2
  <2> QED BY <1>5, <2>1 DEF StackOK
<1>7. ASSUME NEW got \in SUBSET Tables, Allocate({Unit} \cup got), phase' \in {"load", "release"}
      PROVE  NothingLost'
  <2>1. live' = {Unit} \cup got /\ ~ faulty'
    BY <1>2, <1>7 DEF Allocate
  <2>2. {Unit} \cup got = Blocks(got, {}, {}, {}, {}, {})
    BY BlockIn DEF IsBlock
  <2>3. Parts(got, OutputBlocks')
    BY <1>5 DEF Parts
  <2>4. live' = Blocks(got, Listed', FrameFiles', Including', OutputBlocks', Elements(csources'))
    BY <2>1, <2>2, <1>5
  <2> QED BY <1>7, <2>1, <2>3, <2>4, OwnedNext
<1>8. CASE phase' = "load" /\ Allocate({Unit} \cup Tables) /\ UNCHANGED returned
  <2>1. TypeOK' /\ PhaseOK' /\ RejectedOK'
    <3>1. TypeOK'
      BY <1>1, <1>8 DEF TypeOK, Phases
    <3>2. stack' = <<>> /\ target' = RootPath
      BY <1>1, <1>2 DEF Inductive, PhaseOK
    <3> QED BY <1>1, <1>2, <1>8, <3>1, <3>2 DEF PhaseOK, RejectedOK
  <2>2. LoadedOK'
    BY <1>1, <1>5, <1>8, LoadedNext DEF OfKind
  <2>3. SplicedOK'
    <3>1. Injective(output') /\ Injective(csources')
      BY <1>1, <1>4 DEF Injective
    <3> QED BY <1>1, <1>5, <3>1, SplicedNext DEF OfKind
  <2>4. NothingLost'
    BY <1>7, <1>8
  <2> QED BY <1>2, <1>6, <1>8, <2>1, <2>2, <2>3, <2>4, MidStep
<1>9. ASSUME MayFail, NEW got \in SUBSET Tables, Allocate({Unit} \cup got),
             phase' = "release", UNCHANGED returned
      PROVE  Inductive'
  <2>1. TypeOK' /\ PhaseOK' /\ ~ Succeeding'
    BY <1>1, <1>2, <1>9 DEF TypeOK, PhaseOK, Succeeding, Phases
  <2>2. RejectedOK'
    BY <1>1, <1>9, TextFixed DEF RejectedOK
  <2>3. NothingLost'
    BY <1>7, <1>9
  <2> QED BY <1>2, <1>6, <1>9, <2>1, <2>2, <2>3, MidStep
<1>10. CASE MayFail /\ phase' = "done" /\ returned' = "null" /\ KeepBlocks
  <2>1. TypeOK' /\ PhaseOK' /\ ~ Succeeding' /\ RejectedOK'
    BY <1>1, <1>2, <1>10 DEF TypeOK, PhaseOK, Succeeding, Phases, RejectedOK
  <2>2. AcceptsValidUnits'
    BY <1>1, <1>10, TextFixed DEF AcceptsValidUnits
  <2>3. SplicedOnce' /\ SourceOrder'
    BY <1>10 DEF SplicedOnce, SourceOrder
  <2>4. NothingLost'
    <3>1. live' = {} /\ ~ faulty'
      BY <1>2, <1>10 DEF KeepBlocks
    <3>2. CBlocks(Elements(csources')) = {}
      BY <1>5 DEF CBlocks
    <3> QED BY <1>10, <3>1, <3>2 DEF NothingLost, Owned
  <2> QED BY <1>6, <2>1, <2>2, <2>3, <2>4 DEF Inductive
<1> QED BY <1>8, <1>9, <1>10 DEF Begin

\* source_load_file answers without opening a frame.
LEMMA AnswerInductive ==
    ASSUME SourceUnitAssumption, Inductive, phase = "load", KeepBlocks,
           UNCHANGED <<text, target, files, stack, output, csources, returned>>,
           NEW value \in {0, 1}, Answer(value),
           value = 1 => Realpath[target] \in Finished,
           value = 0 => MayFail \/ ~ ValidUnit
    PROVE  Inductive'
<1>1. /\ TypeOK /\ StackOK /\ PhaseOK /\ NothingLost /\ LoadedOK /\ SplicedOK
      /\ phase' = "return" /\ status' = value /\ returned = "nothing"
  BY DEF Inductive, Succeeding, Answer, PhaseOK
<1>2. /\ Listed' = Listed /\ Active' = Active /\ Finished' = Finished /\ FrameFiles' = FrameFiles
      /\ OutputBlocks' = OutputBlocks
  BY DEF Listed, Active, Finished, FrameFiles, Elements, OutputBlocks
<1>3. Including' = Including
  BY <1>1 DEF Including
<1>4. NothingLost'
  <2>1. /\ ~ faulty /\ Parts(Tables \cap live, OutputBlocks)
        /\ live = Blocks(Tables \cap live, Listed, FrameFiles, Including, OutputBlocks,
                         Elements(csources))
    BY <1>1, OwnedIs
  <2>2. live' = live /\ faulty' = faulty
    BY DEF KeepBlocks
  <2> DEFINE P == Tables \cap live
  <2>3. /\ ~ faulty' /\ Parts(P, OutputBlocks')
        /\ live' = Blocks(P, Listed', FrameFiles', Including', OutputBlocks', Elements(csources'))
    BY <2>1, <2>2, <1>2, <1>3
  <2> QED BY <2>3, <1>1, OwnedNext
<1>5. TypeOK'
  BY <1>1 DEF TypeOK, Phases
<1>6. StackOK'
  BY <1>1, <1>2 DEF StackOK, AtInclude, Resolved
<1>7. PhaseOK'
  BY <1>1 DEF PhaseOK, AtInclude, Top
<1>8. RejectedOK'
  BY <1>1, TextFixed DEF RejectedOK
<1>9. ASSUME Succeeding' PROVE LoadedOK' /\ SplicedOK'
  <2>1. value = 1
    BY <1>1, <1>9 DEF Succeeding
  <2>2. Realpath[target] \in Finished
    BY <2>1
  <2>3. Passed' = Passed
    BY PassedSame
  <2>4. stack # <<>>
    BY <1>1, <2>2, Facts DEF PhaseOK
  <2>5. Realpath[target] = Resolved(<<Current, Top.next>>)
    BY <1>1, <2>4, NextFile
  <2>6. Resolved(<<Current, Top.next>>)' = Resolved(<<Current, Top.next>>)
    BY DEF Resolved, Current, Top
  <2>7. PassedOf("include") = OfKind(Passed, "include")
    BY OrderNow
  <2>8. LoadedOK'
    BY <1>1, <1>2, <2>2, <2>3, <2>4, <2>5, <2>6, <2>7, LoadedNext DEF LoadedOK
  <2> QED BY <1>1, <2>3, <2>8, SplicedSame
<1>10. phase' \notin {"start", "done"} /\ returned' = "nothing"
  BY <1>1
<1> QED BY <1>4, <1>5, <1>6, <1>7, <1>8, <1>9, <1>10, MidStep

LEMMA OpenInductive ==
    ASSUME SourceUnitAssumption, Inductive, phase = "load",
           NEW f \in Files, f = Realpath[target], f \notin Listed, OpenFrame(f),
           UNCHANGED <<text, target, output, csources, returned>>
    PROVE  Inductive'
<1>1. /\ TypeOK /\ StackOK /\ PhaseOK /\ NothingLost /\ LoadedOK /\ SplicedOK
      /\ returned = "nothing" /\ phase' = "scan" /\ status' = 1
  BY DEF Inductive, Succeeding, OpenFrame, PhaseOK
<1>2. /\ stack = <<>> => f = Realpath[RootPath]
      /\ stack # <<>> => AtInclude(Top) /\ f = Resolved(<<Current, Top.next>>)
      /\ f \in UnitFiles
  BY <1>1, NextFile
<1>3. /\ files' \in Seq(Entry)
      /\ Listed' = Listed \cup {f} /\ Active' = Active \cup {f} /\ Finished' = Finished
  BY <1>1, Listing DEF OpenFrame
<1>4. /\ Len(stack') = Len(stack) + 1 /\ stack' \in Seq(Frame) /\ stack' # <<>>
      /\ \A k \in 1..Len(stack) : stack'[k] = stack[k]
      /\ stack'[Len(stack) + 1] = [file |-> f, next |-> 1]
      /\ FrameFiles' = FrameFiles \cup {f} /\ StackOK'
  BY <1>1, <1>2, Opening
<1>5. Passed' = Passed
  BY <1>1, <1>3, <1>4, PassedOpen
<1>6. Including' = Including /\ Including = FrameFiles
  <2>1. Len(stack) \in Nat
    BY <1>1, Facts
  <2>2. \A j \in 1..Len(stack) + 1 : j < Len(stack) + 1 <=> j \in 1..Len(stack)
    BY <2>1
  <2>3. \A j \in 1..Len(stack) : j \in 1..Len(stack) + 1
    BY <2>1
  <2>4. Including' = {stack'[i].file : i \in {j \in 1..Len(stack) + 1 : j < Len(stack) + 1}}
    BY <1>1, <1>4 DEF Including
  <2>5. Including' = {stack[i].file : i \in 1..Len(stack)}
    BY <2>2, <2>3, <2>4, <1>4
  <2>6. Including = {stack[i].file : i \in 1..Len(stack)}
    BY DEF Including
  <2> QED BY <2>5, <2>6 DEF FrameFiles
<1>7. NothingLost'
  <2> DEFINE P == Tables \cap live
             B == Blocks(P, Listed, FrameFiles, Including, OutputBlocks, Elements(csources))
             D == FileBlocks(f) \cup FrameBlocks(f)
  <2>1. ~ faulty /\ Parts(P, OutputBlocks) /\ live = B
    BY <1>1, OwnedIs
  <2>2. f \notin FrameFiles
    BY <1>1, Facts
  <2>3. D \cap B = {}
        /\ B \cup D = Blocks(P, Listed \cup {f}, FrameFiles \cup {f}, Including, OutputBlocks,
                             Elements(csources))
    <3>1. Adds(B, D, Blocks(P, Listed \cup {f}, FrameFiles \cup {f}, Including, OutputBlocks,
                            Elements(csources)))
      BY <2>1, <2>2, AddFile
    <3> QED BY <3>1 DEF Adds
  <2>4. live' = live \cup D /\ faulty' = (faulty \/ D \cap live # {})
    BY DEF OpenFrame, Allocate
  <2>5. OutputBlocks' = OutputBlocks
    BY DEF OutputBlocks
  <2> HIDE DEF P, D
  <2>6. /\ ~ faulty' /\ Parts(P, OutputBlocks')
        /\ live' = Blocks(P, Listed', FrameFiles', Including', OutputBlocks', Elements(csources'))
    BY <2>1, <2>3, <2>4, <2>5, <1>3, <1>4, <1>6
  <2> QED BY <2>6, <1>1, OwnedNext
<1>8. TypeOK'
  BY <1>1, <1>3, <1>4 DEF TypeOK, Phases
<1>9. PhaseOK'
  BY <1>1, <1>4 DEF PhaseOK
<1>10. RejectedOK'
  BY <1>1 DEF RejectedOK
<1>11. LoadedOK'
  <2>1. PassedOf("include") = OfKind(Passed, "include")
    BY OrderNow
  <2> QED BY <1>1, <1>2, <1>3, <1>4, <1>5, <2>1, LoadedNext DEF LoadedOK
<1>12. SplicedOK'
  BY <1>1, <1>5, SplicedSame
<1> QED BY <1>1, <1>4, <1>7, <1>8, <1>9, <1>10, <1>11, <1>12, MidStep

LEMMA PrepareInductive ==
    ASSUME SourceUnitAssumption, Inductive, phase = "load", MayFail,
           NEW f \in Files, f \notin Listed, NEW got \in PartialFrames(f), PrepareFails(f, got),
           UNCHANGED <<text, target, output, csources, returned>>
    PROVE  Inductive'
<1>1. /\ TypeOK /\ StackOK /\ PhaseOK /\ NothingLost
      /\ returned = "nothing" /\ phase' = "return" /\ status' = 0 /\ stack' = stack
  BY DEF Inductive, PrepareFails, Answer, PhaseOK
<1>2. /\ files' \in Seq(Entry)
      /\ \A i, j \in 1..Len(files') : files'[i].path = files'[j].path => i = j
      /\ Listed' = Listed \cup {f} /\ Active' = Active \cup {f}
  BY <1>1, Listing DEF PrepareFails
<1>3. FrameFiles' = FrameFiles /\ Including' = Including
  BY <1>1 DEF FrameFiles, Including
<1>4. NothingLost'
  <2> DEFINE P == Tables \cap live
             B == Blocks(P, Listed, FrameFiles, Including, OutputBlocks, Elements(csources))
             D == FileBlocks(f) \cup got
  <2>1. ~ faulty /\ Parts(P, OutputBlocks) /\ live = B
    BY <1>1, OwnedIs
  <2>2. f \notin FrameFiles
    BY <1>1, Facts
  <2>3. got \in SUBSET FrameBlocks(f)
    BY DEF PartialFrames, FrameBlocks
  <2> HIDE DEF P
  <2>4. D \cap B = {}
        /\ (B \cup D) \ FrameBlocks(f)
              = Blocks(P, Listed \cup {f}, FrameFiles, Including, OutputBlocks, Elements(csources))
    <3>1. Parts(P, OutputBlocks) /\ f \notin Listed /\ f \notin FrameFiles
      BY <2>1, <2>2
    <3>2. OnlyListed(P, Listed, FrameFiles, Including, OutputBlocks, Elements(csources), f, got)
      BY <2>3, <3>1, AddListed
    <3> QED BY <3>2 DEF OnlyListed
  <2>5. /\ live' = (live \cup D) \ FrameBlocks(f)
        /\ faulty' = (faulty \/ D \cap live # {})
    BY DEF PrepareFails, ReleasedFrame
  <2>6. OutputBlocks' = OutputBlocks
    BY DEF OutputBlocks
  <2> HIDE DEF D
  <2>7. /\ ~ faulty' /\ Parts(P, OutputBlocks')
        /\ live' = Blocks(P, Listed', FrameFiles', Including', OutputBlocks', Elements(csources'))
    BY <2>1, <2>4, <2>5, <2>6, <1>2, <1>3
  <2> QED BY <2>7, <1>1, OwnedNext
<1>5. TypeOK'
  BY <1>1, <1>2 DEF TypeOK, Phases
<1>6. StackOK'
  BY <1>1, <1>2, <1>3 DEF StackOK, AtInclude, Resolved
<1>7. PhaseOK'
  BY <1>1 DEF PhaseOK, AtInclude, Top
<1>8. RejectedOK'
  BY <1>1, TextFixed DEF RejectedOK
<1>9. ~ Succeeding'
  BY <1>1 DEF Succeeding
<1> QED BY <1>1, <1>4, <1>5, <1>6, <1>7, <1>8, <1>9, MidStep

LEMMA LoadFileInductive ==
    ASSUME SourceUnitAssumption, Inductive, LoadFile
    PROVE  Inductive'
<1> DEFINE f == Realpath[target]
<1>1. /\ TypeOK /\ StackOK /\ PhaseOK /\ LoadedOK /\ phase = "load"
      /\ UNCHANGED <<text, target, output, csources, returned>>
  BY DEF Inductive, Succeeding, LoadFile
<1>2. /\ f \in Files => f \in UnitFiles
      /\ f = NoFile => ~ ValidUnit
      /\ stack # <<>> => AtInclude(Top) /\ f = Resolved(<<Current, Top.next>>)
  BY <1>1, NextFile
<1>3. CASE LoadFails /\ (f = NoFile \/ MayFail)
  BY <1>1, <1>2, <1>3, AnswerInductive DEF LoadFails
<1>4. CASE f \in Listed /\ Existing(f)
  <2>1. PICK e \in Elements(files) : e.path = f /\ Answer(IF e.active THEN 0 ELSE 1)
    BY <1>4 DEF Existing
  <2>2. KeepBlocks /\ UNCHANGED <<files, stack>>
    BY <1>4 DEF Existing
  <2>3. CASE e.active
    <3>1. f \in Active
      BY <2>1, <2>3 DEF Active
    <3>2. PICK k \in 1..Len(stack) : f = stack[k].file
      BY <1>1, <3>1 DEF LoadedOK, FrameFiles
    <3>3. stack # <<>> /\ f \in Files
      BY <1>1, <3>2, Facts
    <3>4. f \in Reached(Targets(f))
      BY <1>1, <1>2, <3>2, <3>3, ActiveIsCycle
    <3>5. ~ ValidUnit
      BY <1>2, <3>3, <3>4 DEF ValidUnit
    <3>6. Answer(0)
      BY <2>1, <2>3
    <3> QED BY <1>1, <2>2, <3>5, <3>6, AnswerInductive
  <2>4. CASE ~ e.active
    <3>1. f \in Finished
      BY <2>1, <2>4 DEF Finished
    <3>2. Answer(1)
      BY <2>1, <2>4
    <3> QED BY <1>1, <2>2, <3>1, <3>2, AnswerInductive
  <2> QED BY <2>3, <2>4
<1>5. CASE f \in Files \ Listed /\ NewFile(f)
  <2>1. CASE OpenFrame(f)
    BY <1>1, <1>5, <2>1, OpenInductive
  <2>2. CASE MayFail /\ \E got \in PartialFrames(f) : PrepareFails(f, got)
    BY <1>1, <1>5, <2>2, PrepareInductive
  <2> QED BY <1>5, <2>1, <2>2 DEF NewFile
<1> QED BY <1>3, <1>4, <1>5 DEF LoadFile

\* The end of source_load_new_file.
LEMMA LeaveInductive ==
    ASSUME SourceUnitAssumption, Inductive, stack # <<>>,
           UNCHANGED <<text, target, output, csources, returned>>,
           NEW value \in {0, 1}, NEW also, LeaveFrame(value, also),
           \/ phase = "scan" /\ also = {}
           \/ phase = "return" /\ also = NameBlocks(Current),
           value = 0 => MayFail \/ ~ ValidUnit,
           value = 1 => LoadedOK' /\ SplicedOK'
    PROVE  Inductive'
<1> DEFINE c == Current
           n == Len(stack)
<1>1. /\ TypeOK /\ StackOK /\ PhaseOK /\ NothingLost /\ phase \notin {"start", "done"}
      /\ returned = "nothing" /\ phase' = "return" /\ status' = value
  BY DEF Inductive, PhaseOK, LeaveFrame, Answer
<1>2. /\ stack' \in Seq(Frame) /\ files' \in Seq(Entry)
      /\ Listed' = Listed
      /\ FrameFiles' = FrameFiles \ {c} /\ Including' = Including \ {c}
  BY <1>1, Leaving
<1>3. StackOK' /\ (stack' # <<>> => AtInclude(Top)')
  BY <1>1, LeavingStack
<1>4. /\ n \in Nat /\ n \in 1..n /\ c = stack[n].file /\ c \in FrameFiles
      /\ \A i, j \in 1..n : stack[i].file = stack[j].file => i = j
  BY <1>1, Facts DEF StackOK, Current, Top
<1>5. NothingLost'
  <2> DEFINE P == Tables \cap live
             B == Blocks(P, Listed, FrameFiles, Including, OutputBlocks, Elements(csources))
             R == Blocks(P, Listed, FrameFiles \ {c}, Including \ {c}, OutputBlocks, Elements(csources))
             D == FrameBlocks(c) \cup also
  <2>1. ~ faulty /\ Parts(P, OutputBlocks) /\ live = B
    BY <1>1, OwnedIs
  <2>2. live' = live \ D /\ faulty' = (faulty \/ ~ D \subseteq live)
    BY DEF LeaveFrame, Free, ReleasedFrame
  <2>3. OutputBlocks' = OutputBlocks
    BY DEF OutputBlocks
  <2>4. D \subseteq B /\ B \ D = R
    <3>1. CASE phase = "scan" /\ also = {}
      <4>1. c \notin Including
        <5>1. \A k \in 1..n : stack[k].file = c => ~ (k < n)
          BY <1>4
        <5> QED BY <3>1, <5>1 DEF Including, n
      <4>2. Including \ {c} = Including /\ D = FrameBlocks(c)
        BY <3>1, <4>1
      <4>3. Removes(B, FrameBlocks(c), Blocks(P, Listed, FrameFiles \ {c}, Including,
                                              OutputBlocks, Elements(csources)))
        BY <2>1, <1>4, DropFrame
      <4> QED BY <4>2, <4>3 DEF Removes
    <3>2. CASE phase = "return" /\ also = NameBlocks(c)
      <4>1. c \in Including
        BY <3>2, <1>4 DEF Including, n
      <4>2. Removes(B, FrameBlocks(c) \cup NameBlocks(c), R)
        BY <2>1, <4>1, <1>4, DropBoth
      <4> QED BY <3>2, <4>2 DEF Removes
    <3> QED BY <3>1, <3>2
  <2> HIDE DEF P, D, B, R
  <2>5. ~ faulty' /\ live' = R /\ Parts(P, OutputBlocks')
    BY <2>1, <2>2, <2>3, <2>4
  <2>6. live' = Blocks(P, Listed', FrameFiles', Including', OutputBlocks', Elements(csources'))
    BY <2>3, <2>5, <1>2 DEF R
  <2> QED BY <2>5, <2>6, <1>1, OwnedNext
<1>6. TypeOK'
  BY <1>1, <1>2 DEF TypeOK, Phases
<1>7. PhaseOK'
  BY <1>1, <1>3 DEF PhaseOK
<1>8. RejectedOK'
  BY <1>1, TextFixed DEF RejectedOK
<1>9. Succeeding' => value = 1
  BY <1>1 DEF Succeeding
<1> QED BY <1>1, <1>3, <1>5, <1>6, <1>7, <1>8, <1>9, MidStep

LEMMA EndInductive ==
    ASSUME SourceUnitAssumption, Inductive, phase = "scan", EndOfFile,
           UNCHANGED <<text, returned>>
    PROVE  Inductive'
<1> DEFINE c == Current
<1>1. /\ TypeOK /\ StackOK /\ PhaseOK /\ LoadedOK /\ SplicedOK /\ stack # <<>>
      /\ ~ HasForm /\ LeaveFrame(1, {}) /\ UNCHANGED <<target, output, csources>>
  BY DEF Inductive, Succeeding, PhaseOK, EndOfFile
<1>2. Passed' = Passed
  BY <1>1, PassedAtEnd
<1>3. /\ Active' = Active \ {c} /\ Finished' = Finished \cup {c} /\ Listed' = Listed
      /\ FrameFiles' = FrameFiles \ {c}
  BY <1>1, Leaving
<1>4. /\ stack' # <<>> => Resolved(<<Current, Top.next>>)' = c
      /\ stack' = <<>> => c = Realpath[RootPath]
  BY <1>1, LeavingStack
<1>5. /\ c \in Files /\ c \notin Finished /\ Top.next <= Len(text[c]) + 1 /\ Top.next \in Nat \ {0}
      /\ Len(text[c]) \in Nat /\ ~ (Top.next <= Len(text[c]))
      /\ Len(stack) \in 1..Len(stack)
  BY <1>1, Facts DEF HasForm
<1>6. c \notin Reached(Targets(c))
  <2>1. ASSUME NEW x \in Targets(c) PROVE x \in Finished
    <3>1. PICK i \in 1..Len(text[c]) : text[c][i].kind = "include" /\ x = Resolved(<<c, i>>)
      BY <1>1, TargetOf DEF TypeOK
    <3>2. i \in 1..(Top.next - 1)
      BY <1>5
    <3>3. <<c, i>> \in Passed
      BY <1>1, <1>5, <3>2, PassedIs DEF Current, Top
    <3>4. <<c, i>> \in PassedOf("include")
      BY <3>1, <3>3 DEF PassedOf
    <3> QED BY <1>1, <3>1, <3>4 DEF LoadedOK
  <2>2. Reached(Targets(c)) \subseteq Finished
    BY <1>1, <2>1, FinishedClosed, ReachedLeast
  <2> QED BY <2>2, <1>5
<1> HIDE DEF c
<1>7. LoadedOK'
  <2>1. PassedOf("include") = OfKind(Passed, "include")
    BY OrderNow
  <2>2. \A e \in OfKind(Passed', "include") : Resolved(e) \in Finished'
    BY <1>1, <1>2, <1>3, <2>1 DEF LoadedOK
  <2>3. \A f \in Finished' : f \notin Reached(Targets(f))
    BY <1>1, <1>3, <1>6 DEF LoadedOK
  <2>4. Active' = FrameFiles' /\ Listed' \subseteq UnitFiles
    BY <1>1, <1>3 DEF LoadedOK
  <2>5. \A e \in Passed' : text[e[1]][e[2]].kind \in {"form", "include", "ffi"}
    BY <1>1, <1>2 DEF LoadedOK
  <2>6. IF stack' = <<>> THEN Realpath[RootPath] \in Finished'
             ELSE Resolved(<<Current, Top.next>>)' \in Finished'
    BY <1>3, <1>4
  <2> QED BY <2>2, <2>3, <2>4, <2>5, <2>6, LoadedNext
<1>8. SplicedOK'
  BY <1>1, <1>2, SplicedSame
<1> QED BY <1>1, <1>7, <1>8, LeaveInductive

\* A form is passed: what concerns the stack.
LEMMA AdvanceInductive ==
    ASSUME SourceUnitAssumption, Inductive, Succeeding, stack # <<>>, HasForm, Advance,
           UNCHANGED <<text, files, returned>>, phase \in {"scan", "return"},
           phase' = "scan", status' = 1,
           output' \in Seq(Files \X Nat), csources' \in Seq(Files),
           Form.kind \in {"form", "include", "ffi"},
           Form.kind = "include" => Resolved(<<Current, Top.next>>) \in Finished,
           NothingLost', SplicedOK'
    PROVE  Inductive'
<1> DEFINE c == <<Current, Top.next>>
<1>1. /\ TypeOK /\ StackOK /\ PhaseOK /\ LoadedOK /\ returned = "nothing"
  BY DEF Inductive, PhaseOK
<1>2. /\ stack' # <<>> /\ stack' \in Seq(Frame) /\ StackOK'
      /\ FrameFiles' = FrameFiles /\ Listed' = Listed /\ Active' = Active /\ Finished' = Finished
  BY <1>1, Advancing
<1>3. Passed' = Passed \cup {c}
  BY <1>1, PassedAdvance
<1>4. c[1] = Current /\ c[2] = Top.next /\ text[c[1]][c[2]] = Form
  BY DEF Form
<1> HIDE DEF c
<1>5. TypeOK'
  BY <1>1, <1>2 DEF TypeOK, Phases
<1>6. PhaseOK'
  BY <1>1, <1>2 DEF PhaseOK
<1>7. RejectedOK'
  BY DEF RejectedOK
<1>8. LoadedOK'
  <2>1. PassedOf("include") = OfKind(Passed, "include")
    BY OrderNow
  <2>2. \A e \in OfKind(Passed', "include") : Resolved(e) \in Finished'
    <3>1. ASSUME NEW e \in OfKind(Passed', "include") PROVE Resolved(e) \in Finished
      <4>1. e \in Passed' /\ text[e[1]][e[2]].kind = "include"
        BY DEF OfKind
      <4>2. CASE e = c
        BY <4>1, <4>2, <1>4 DEF c
      <4>3. CASE e \in Passed
        BY <4>1, <4>3, <1>1, <2>1 DEF OfKind, LoadedOK
      <4> QED BY <4>1, <4>2, <4>3, <1>3
    <3> QED BY <3>1, <1>2
  <2>3. \A e \in Passed' : text[e[1]][e[2]].kind \in {"form", "include", "ffi"}
    BY <1>1, <1>3, <1>4 DEF LoadedOK
  <2>4. /\ Active' = FrameFiles' /\ Listed' \subseteq UnitFiles
        /\ \A f \in Finished' : f \notin Reached(Targets(f))
    BY <1>1, <1>2 DEF LoadedOK
  <2> QED BY <2>2, <2>3, <2>4, LoadedNext
<1> QED BY <1>1, <1>2, <1>5, <1>6, <1>7, <1>8, MidStep

\* What comes before the current form in its file has been passed.
LEMMA NewOrder ==
    ASSUME SourceUnitAssumption, TypeOK, StackOK, LoadedOK, stack # <<>>, HasForm,
           NEW out, NEW cs,
           Form.kind = "form" =>
              \A e \in PassedOf("form") : Before(out, e, <<Current, Top.next>>),
           Form.kind = "ffi" =>
              \A e \in PassedOf("ffi") : Before(cs, Resolved(e), Resolved(<<Current, Top.next>>))
    PROVE  \A i \in 1..(Top.next - 1) : OrderIn(out, cs, Current, i, Top.next)
<1>1. SUFFICES ASSUME NEW i \in 1..(Top.next - 1)
               PROVE  OrderIn(out, cs, Current, i, Top.next)
  OBVIOUS
<1>2. <<Current, i>> \in Passed
  BY Facts, PassedIs DEF Current, Top
<1>3. /\ Firsts("form", Current, i) \subseteq PassedOf("form")
      /\ Firsts("ffi", Current, i) \subseteq PassedOf("ffi")
  BY <1>2, FirstsPassed
<1>4. text[Current][Top.next] = Form
  BY DEF Form
<1> QED BY <1>3, <1>4 DEF OrderIn

LEMMA OrderKept ==
    ASSUME NEW out, NEW cs, NEW o, NEW s, NEW f, NEW i, NEW j, OrderIn(out, cs, f, i, j),
           \A a, b : Before(out, a, b) => Before(o, a, b),
           \A a, b : Before(cs, a, b) => Before(s, a, b)
    PROVE  OrderIn(o, s, f, i, j)
  BY DEF OrderIn

\* The names held when a frame stays on top of the stack.
LEMMA IncludingAdvance ==
    ASSUME SourceUnitAssumption, TypeOK, StackOK, stack # <<>>, HasForm, Advance,
           text' = text, files' = files, phase' = "scan"
    PROVE  /\ phase = "scan" => Including' = Including
           /\ phase = "return" => Including' = Including \ {Current} /\ Current \in Including
<1> DEFINE n == Len(stack)
<1>1. Len(stack') = n /\ \A k \in 1..n : stack'[k].file = stack[k].file
  BY Advancing
<1>2. /\ n \in Nat /\ n \in 1..n /\ Current = stack[n].file
      /\ \A i, j \in 1..n : stack[i].file = stack[j].file => i = j
  BY Facts DEF StackOK, Current, Top
<1>3. Including' = {stack[k].file : k \in {j \in 1..n : j < n}}
  BY <1>1 DEF Including
<1>4. ASSUME phase = "scan" PROVE Including' = Including
  BY <1>3, <1>4 DEF Including
<1>5. ASSUME phase = "return" PROVE Including' = Including \ {Current} /\ Current \in Including
  <2>1. Including = {stack[k].file : k \in 1..n}
    BY <1>5 DEF Including
  <2> HIDE DEF n
  <2>2. \A k \in 1..n : k < n <=> stack[k].file # Current
    BY <1>2
  <2> QED BY <2>1, <2>2, <1>2, <1>3
<1> QED BY <1>4, <1>5

LEMMA AppendInductive ==
    ASSUME SourceUnitAssumption, Inductive, phase = "scan", AppendForm,
           UNCHANGED <<text, returned>>
    PROVE  Inductive'
<1> DEFINE c == <<Current, Top.next>>
<1>1. /\ TypeOK /\ StackOK /\ PhaseOK /\ NothingLost /\ LoadedOK /\ SplicedOK /\ stack # <<>>
      /\ status = 1 /\ Succeeding
      /\ HasForm /\ Form.kind = "form" /\ Advance /\ output' = Append(output, c)
      /\ UNCHANGED <<phase, target, status, files, csources>>
  BY DEF Inductive, Succeeding, PhaseOK, AppendForm
<1>2. Passed' = Passed \cup {c} /\ c \notin Passed
  BY <1>1, PassedAdvance
<1>3. c \in Files \X Nat /\ c[1] = Current /\ c[2] = Top.next /\ text[c[1]][c[2]] = Form
  BY <1>1, Facts DEF Form
<1>4. output \in Seq(Files \X Nat) /\ csources \in Seq(Files)
  BY <1>1 DEF TypeOK
<1>5. \A i \in 1..(c[2] - 1) : OrderIn(output', csources', c[1], i, c[2])
  <2>1. \A e \in PassedOf("form") : Before(output', e, c)
    BY <1>1, <1>3, <1>4, ElementsAppend DEF SplicedOK
  <2>2. \A i \in 1..(Top.next - 1) : OrderIn(output', csources', Current, i, Top.next)
    BY <1>1, <2>1, NewOrder
  <2> QED BY <2>2, <1>3
<1> HIDE DEF c
<1>6. /\ Elements(output) = OfKind(Passed, "form") /\ Injective(output)
      /\ Elements(csources) = {Resolved(e) : e \in OfKind(Passed, "ffi")}
      /\ Injective(csources)
      /\ \A d, e \in OfKind(Passed, "ffi") : Resolved(d) = Resolved(e) => d = e
      /\ \A e \in Passed : \A i \in 1..(e[2] - 1) : OrderIn(output, csources, e[1], i, e[2])
  BY <1>1, OrderNow DEF SplicedOK
<1>7. c \notin Elements(output)
  BY <1>2, <1>6 DEF OfKind
<1>8. /\ output' \in Seq(Files \X Nat) /\ Elements(output') = Elements(output) \cup {c}
      /\ \A a, b : Before(output, a, b) => Before(output', a, b)
      /\ Injective(output')
  BY <1>1, <1>3, <1>4, <1>6, <1>7, ElementsAppend
<1>9. SplicedOK'
  <2>1. OfKind(Passed', "form") = OfKind(Passed, "form") \cup {c}
    BY <1>1, <1>2, <1>3 DEF OfKind
  <2>2. OfKind(Passed', "ffi") = OfKind(Passed, "ffi")
    BY <1>1, <1>2, <1>3 DEF OfKind
  <2>3. ASSUME NEW e \in Passed', NEW i \in 1..(e[2] - 1)
        PROVE  OrderIn(output', csources', e[1], i, e[2])
    <3>1. CASE e = c
      BY <3>1, <1>5
    <3>2. CASE e \in Passed
      <4>1. OrderIn(output, csources, e[1], i, e[2])
        BY <3>2, <1>6
      <4>2. \A a, b : Before(csources, a, b) => Before(csources', a, b)
        BY <1>1
      <4> QED BY <4>1, <4>2, <1>8, OrderKept
    <3> QED BY <3>1, <3>2, <1>2
  <2> QED BY <1>1, <1>6, <1>8, <2>1, <2>2, <2>3, SplicedNext
<1>10. NothingLost'
  <2> DEFINE P == Tables \cap live
             B(O) == Blocks(P, Listed, FrameFiles, Including, O, Elements(csources))
  <2>1. ~ faulty /\ Parts(P, OutputBlocks) /\ live = B(OutputBlocks)
    BY <1>1, OwnedIs
  <2>2. Listed' = Listed /\ FrameFiles' = FrameFiles /\ Including' = Including
    BY <1>1, Advancing, IncludingAdvance
  <2>3. OutputBlocks' = {Output}
    BY <1>1, <1>4 DEF OutputBlocks
  <2>4. live' = B({Output}) /\ ~ faulty'
    <3>1. CASE output = <<>>
      <4>1. OutputBlocks = {}
        BY <3>1 DEF OutputBlocks
      <4>2. Adds(B({}), {Output}, B({Output}))
        BY <2>1, <4>1, AddOutput
      <4>3. live' = live \cup {Output} /\ faulty' = (faulty \/ {Output} \cap live # {})
        BY <3>1 DEF AppendForm, Allocate
      <4> QED BY <2>1, <4>1, <4>2, <4>3 DEF Adds
    <3>2. CASE output # <<>>
      <4>1. OutputBlocks = {Output} /\ live' = live /\ faulty' = faulty
        BY <3>2 DEF OutputBlocks, AppendForm, KeepBlocks
      <4> QED BY <2>1, <4>1
    <3> QED BY <3>1, <3>2
  <2>5. Parts(P, OutputBlocks')
    BY <2>1, <2>3 DEF Parts
  <2>6. live' = Blocks(P, Listed', FrameFiles', Including', OutputBlocks', Elements(csources'))
    BY <1>1, <2>2, <2>3, <2>4
  <2> QED BY <1>1, <2>4, <2>5, <2>6, OwnedNext
<1> QED BY <1>1, <1>4, <1>8, <1>9, <1>10, AdvanceInductive

LEMMA EnterInductive ==
    ASSUME SourceUnitAssumption, Inductive, phase = "scan", EnterInclude,
           UNCHANGED <<text, returned>>
    PROVE  Inductive'
<1>1. /\ TypeOK /\ StackOK /\ PhaseOK /\ NothingLost /\ LoadedOK /\ SplicedOK /\ stack # <<>>
      /\ status = 1 /\ returned = "nothing"
      /\ HasForm /\ Form.kind = "include" /\ Allocate(NameBlocks(Current))
      /\ target' = IncludePath(Current, Form.name) /\ phase' = "load"
      /\ UNCHANGED <<status, files, stack, output, csources>>
  BY DEF Inductive, Succeeding, PhaseOK, EnterInclude
<1>2. /\ Listed' = Listed /\ Active' = Active /\ Finished' = Finished /\ FrameFiles' = FrameFiles
      /\ OutputBlocks' = OutputBlocks
  BY <1>1 DEF Listed, Active, Finished, FrameFiles, Elements, OutputBlocks
<1>3. Including' = Including \cup {Current} /\ Current \notin Including
  <2> DEFINE n == Len(stack)
  <2>1. /\ n \in Nat /\ n \in 1..n /\ Current = stack[n].file
        /\ \A i, j \in 1..n : stack[i].file = stack[j].file => i = j
    BY <1>1, Facts DEF StackOK, Current, Top
  <2>2. Including = {stack[k].file : k \in {j \in 1..n : j < n}}
    BY DEF Including
  <2>3. Including' = {stack[k].file : k \in 1..n}
    BY <1>1 DEF Including
  <2> HIDE DEF n
  <2>4. \A k \in 1..n : k < n <=> stack[k].file # Current
    BY <2>1
  <2> QED BY <2>1, <2>2, <2>3, <2>4
<1>4. NothingLost'
  <2> DEFINE P == Tables \cap live
             B(I) == Blocks(P, Listed, FrameFiles, I, OutputBlocks, Elements(csources))
             D == NameBlocks(Current)
  <2>1. ~ faulty /\ Parts(P, OutputBlocks) /\ live = B(Including)
    BY <1>1, OwnedIs
  <2>2. Adds(B(Including), D, B(Including \cup {Current}))
    BY <1>3, <2>1, AddName
  <2>3. live' = live \cup D /\ faulty' = (faulty \/ D \cap live # {})
    BY <1>1 DEF Allocate
  <2>4. live' = B(Including \cup {Current}) /\ ~ faulty'
    BY <2>1, <2>2, <2>3 DEF Adds
  <2>5. /\ Parts(P, OutputBlocks')
        /\ live' = Blocks(P, Listed', FrameFiles', Including', OutputBlocks', Elements(csources'))
    BY <1>1, <1>2, <1>3, <2>1, <2>4
  <2> QED BY <1>1, <2>4, <2>5, OwnedNext
<1>5. TypeOK'
  BY <1>1 DEF TypeOK, Phases
<1>6. StackOK'
  BY <1>1, <1>2 DEF StackOK, AtInclude, Resolved
<1>7. PhaseOK'
  BY <1>1 DEF PhaseOK, AtInclude, Top, Current, Form, HasForm
<1>8. RejectedOK'
  BY <1>1 DEF RejectedOK
<1>9. Passed' = Passed
  BY <1>1, PassedSame
<1>10. LoadedOK'
  <2>1. PassedOf("include") = OfKind(Passed, "include")
    BY OrderNow
  <2> QED BY <1>1, <1>2, <1>9, <2>1, LoadedNext DEF LoadedOK
<1>11. SplicedOK'
  BY <1>1, <1>9, SplicedSame
<1> QED BY <1>1, <1>4, <1>5, <1>6, <1>7, <1>8, <1>10, <1>11, MidStep

LEMMA RecordInductive ==
    ASSUME SourceUnitAssumption, Inductive, phase = "scan", RecordCPath,
           UNCHANGED <<text, returned>>
    PROVE  Inductive'
<1> DEFINE c == <<Current, Top.next>>
           p == Resolved(c)
<1>1. /\ TypeOK /\ StackOK /\ PhaseOK /\ NothingLost /\ LoadedOK /\ SplicedOK /\ stack # <<>>
      /\ status = 1 /\ Succeeding
      /\ HasForm /\ Form.kind = "ffi" /\ Advance
      /\ UNCHANGED <<phase, target, status, files, output>>
  BY DEF Inductive, Succeeding, PhaseOK, RecordCPath
<1>2. /\ p # NoFile /\ p \notin Elements(csources)
      /\ csources' = Append(csources, p) /\ Allocate(CBlocks({p}))
  BY DEF RecordCPath, Resolved, Form
<1>3. Passed' = Passed \cup {c} /\ c \notin Passed
  BY <1>1, PassedAdvance
<1>4. c[1] = Current /\ c[2] = Top.next /\ text[c[1]][c[2]] = Form
  BY DEF Form
<1>5. p \in Files
  <2>1. Current \in Files /\ Top.next \in 1..Len(text[Current])
    BY <1>1, Facts DEF HasForm
  <2>2. IncludePath(Current, Form.name) \in Paths
    BY <1>1, <2>1 DEF SourceUnitAssumption, TypeOK, Form
  <2>3. Realpath[IncludePath(Current, Form.name)] \in Files \cup {NoFile}
    BY <2>2 DEF SourceUnitAssumption
  <2>4. p = Realpath[IncludePath(Current, Form.name)]
    BY DEF Resolved, Form
  <2> QED BY <1>2, <2>3, <2>4
<1>6. output \in Seq(Files \X Nat) /\ csources \in Seq(Files)
  BY <1>1 DEF TypeOK
<1> HIDE DEF p
<1>7. \A i \in 1..(c[2] - 1) : OrderIn(output', csources', c[1], i, c[2])
  <2>1. \A e \in PassedOf("ffi") : Resolved(e) \in Elements(csources)
    BY <1>1 DEF SplicedOK
  <2>2. \A e \in PassedOf("ffi") : Before(csources', Resolved(e), p)
    BY <1>2, <1>5, <1>6, <2>1, ElementsAppend
  <2>3. \A i \in 1..(Top.next - 1) : OrderIn(output', csources', Current, i, Top.next)
    BY <1>1, <2>2, NewOrder DEF p
  <2> QED BY <2>3, <1>4
<1>8. p = Resolved(c)
  BY DEF p
<1> HIDE DEF c
<1>9. /\ Elements(output) = OfKind(Passed, "form") /\ Injective(output)
      /\ Elements(csources) = {Resolved(e) : e \in OfKind(Passed, "ffi")}
      /\ Injective(csources)
      /\ \A d, e \in OfKind(Passed, "ffi") : Resolved(d) = Resolved(e) => d = e
      /\ \A e \in Passed : \A i \in 1..(e[2] - 1) : OrderIn(output, csources, e[1], i, e[2])
  BY <1>1, OrderNow DEF SplicedOK
<1>10. /\ csources' \in Seq(Files) /\ Elements(csources') = Elements(csources) \cup {p}
       /\ \A a, b : Before(csources, a, b) => Before(csources', a, b)
       /\ Injective(csources')
  BY <1>2, <1>5, <1>6, <1>9, ElementsAppend
<1>11. SplicedOK'
  <2>1. OfKind(Passed', "form") = OfKind(Passed, "form")
    BY <1>1, <1>3, <1>4 DEF OfKind
  <2>2. OfKind(Passed', "ffi") = OfKind(Passed, "ffi") \cup {c}
    BY <1>1, <1>3, <1>4 DEF OfKind
  <2>3. ASSUME NEW e \in Passed', NEW i \in 1..(e[2] - 1)
        PROVE  OrderIn(output', csources', e[1], i, e[2])
    <3>1. CASE e = c
      BY <3>1, <1>7
    <3>2. CASE e \in Passed
      <4>1. OrderIn(output, csources, e[1], i, e[2])
        BY <3>2, <1>9
      <4>2. \A a, b : Before(output, a, b) => Before(output', a, b)
        BY <1>1
      <4> QED BY <4>1, <4>2, <1>10, OrderKept
    <3> QED BY <3>1, <3>2, <1>3
  <2>4. Elements(csources') = {Resolved(e) : e \in OfKind(Passed', "ffi")}
    BY <1>8, <1>9, <1>10, <2>2
  <2>5. \A e \in OfKind(Passed, "ffi") : Resolved(e) # p
    BY <1>2, <1>9
  <2>6. \A d, e \in OfKind(Passed', "ffi") : Resolved(d) = Resolved(e) => d = e
    BY <1>8, <1>9, <2>2, <2>5
  <2> QED BY <1>1, <1>9, <1>10, <2>1, <2>3, <2>4, <2>6, SplicedNext
<1>12. NothingLost'
  <2> DEFINE P == Tables \cap live
             B(C) == Blocks(P, Listed, FrameFiles, Including, OutputBlocks, C)
  <2>1. ~ faulty /\ Parts(P, OutputBlocks) /\ live = B(Elements(csources))
    BY <1>1, OwnedIs
  <2>2. Listed' = Listed /\ FrameFiles' = FrameFiles /\ Including' = Including
    BY <1>1, Advancing, IncludingAdvance
  <2>3. OutputBlocks' = OutputBlocks
    BY <1>1 DEF OutputBlocks
  <2>4. CBlocks({p}) = CPair(p)
    BY DEF CBlocks, CPair
  <2>5. Adds(B(Elements(csources)), CPair(p), B(Elements(csources) \cup {p}))
    BY <1>2, <2>1, AddC
  <2>6. live' = live \cup CPair(p) /\ faulty' = (faulty \/ CPair(p) \cap live # {})
    BY <1>2, <2>4 DEF Allocate
  <2>7. live' = B(Elements(csources) \cup {p}) /\ ~ faulty'
    BY <2>1, <2>5, <2>6 DEF Adds
  <2>8. /\ Parts(P, OutputBlocks')
        /\ live' = Blocks(P, Listed', FrameFiles', Including', OutputBlocks', Elements(csources'))
    BY <1>10, <2>1, <2>2, <2>3, <2>7
  <2> QED BY <1>1, <2>7, <2>8, OwnedNext
<1> QED BY <1>1, <1>6, <1>10, <1>11, <1>12, AdvanceInductive

LEMMA RejectInductive ==
    ASSUME SourceUnitAssumption, Inductive, phase = "scan", RejectForm,
           UNCHANGED <<text, returned>>
    PROVE  Inductive'
<1> DEFINE c == <<Current, Top.next>>
<1>1. /\ TypeOK /\ StackOK /\ PhaseOK /\ LoadedOK /\ SplicedOK /\ stack # <<>>
      /\ HasForm /\ LeaveFrame(0, {}) /\ UNCHANGED <<target, output, csources>>
  BY DEF Inductive, Succeeding, PhaseOK, RejectForm
<1>2. Current \in UnitFiles /\ c \in In(Form.kind)
  BY <1>1, CurrentIn
<1>3. MayFail \/ ~ ValidUnit
  <2>1. CASE Form.kind \in {"bad", "syntax"}
    BY <1>2, <2>1 DEF ValidUnit
  <2>2. CASE Form.kind = "ffi" /\ RejectedC
    <3>1. Resolved(c) = NoFile \/ Resolved(c) \in Elements(csources)
      BY <2>2 DEF RejectedC, Resolved, Form
    <3>2. CASE Resolved(c) = NoFile
      BY <1>2, <2>2, <3>2 DEF ValidUnit
    <3>3. CASE Resolved(c) \in Elements(csources)
      <4>1. PICK d \in PassedOf("ffi") : Resolved(c) = Resolved(d)
        BY <1>1, <3>3 DEF SplicedOK
      <4>2. d \in Passed /\ text[d[1]][d[2]].kind = "ffi"
        BY DEF PassedOf
      <4>3. d # c
        BY <1>1, <4>2, NotPassed
      <4>4. d[1] \in UnitFiles /\ d \in In("ffi")
        <5>1. /\ d[1] \in Files /\ d[2] \in Nat \ {0} /\ d[1] \in Listed
              /\ d[2] <= Len(text[d[1]]) /\ d = <<d[1], d[2]>>
          BY <1>1, <4>2, PassedIs
        <5>2. d[1] \in UnitFiles
          BY <1>1, <5>1 DEF LoadedOK
        <5>3. <<d[1], d[2]>> \in In("ffi")
          BY <1>1, <4>2, <5>1, <5>2, NameIn DEF TypeOK
        <5> QED BY <5>1, <5>2, <5>3
      <4> QED BY <1>2, <2>2, <4>1, <4>3, <4>4 DEF ValidUnit
    <3> QED BY <3>1, <3>2, <3>3
  <2> QED BY <2>1, <2>2 DEF RejectForm
<1> QED BY <1>1, <1>3, LeaveInductive

LEMMA ScanInductive ==
    ASSUME SourceUnitAssumption, Inductive, Scan
    PROVE  Inductive'
  BY EndInductive, AppendInductive, EnterInductive, RecordInductive, RejectInductive DEF Scan

LEMMA ReturnInductive ==
    ASSUME SourceUnitAssumption, Inductive, Return
    PROVE  Inductive'
<1> DEFINE c == <<Current, Top.next>>
<1>1. /\ TypeOK /\ StackOK /\ PhaseOK /\ NothingLost /\ RejectedOK
      /\ phase = "return" /\ stack # <<>> /\ AtInclude(Top) /\ status \in {0, 1}
      /\ UNCHANGED <<text, target, output, csources, returned>>
  BY DEF Inductive, PhaseOK, TypeOK, Return
<1>2. HasForm /\ Form.kind = "include"
  BY <1>1 DEF AtInclude, HasForm, Form, Current
<1>3. CASE status = 0
  <2>1. LeaveFrame(0, NameBlocks(Current))
    BY <1>3 DEF Return
  <2>2. MayFail \/ ~ ValidUnit
    BY <1>1, <1>3 DEF RejectedOK
  <2> QED BY <1>1, <2>1, <2>2, LeaveInductive
<1>4. CASE status = 1
  <2>1. /\ Free(NameBlocks(Current)) /\ Advance /\ phase' = "scan"
        /\ UNCHANGED <<status, files>> /\ Succeeding /\ LoadedOK /\ SplicedOK
    BY <1>1, <1>4 DEF Return, Inductive, Succeeding
  <2>2. Resolved(c) \in Finished
    BY <1>1, <2>1 DEF LoadedOK
  <2>3. Passed' = Passed \cup {c}
    BY <1>1, <1>2, <2>1, PassedAdvance
  <2>4. c[1] = Current /\ c[2] = Top.next /\ text[c[1]][c[2]] = Form
    BY DEF Form
  <2> HIDE DEF c
  <2>5. SplicedOK'
    <3>1. /\ Elements(output) = OfKind(Passed, "form") /\ Injective(output)
          /\ Elements(csources) = {Resolved(e) : e \in OfKind(Passed, "ffi")}
          /\ Injective(csources)
          /\ \A d, e \in OfKind(Passed, "ffi") : Resolved(d) = Resolved(e) => d = e
          /\ \A e \in Passed : \A i \in 1..(e[2] - 1) : OrderIn(output, csources, e[1], i, e[2])
      BY <2>1, OrderNow DEF SplicedOK
    <3>2. OfKind(Passed', "form") = OfKind(Passed, "form") /\ OfKind(Passed', "ffi") = OfKind(Passed, "ffi")
      BY <1>2, <2>3, <2>4 DEF OfKind
    <3>3. \A i \in 1..(c[2] - 1) : OrderIn(output, csources, c[1], i, c[2])
      BY <1>2, <2>4 DEF OrderIn
    <3>4. \A e \in Passed' : \A i \in 1..(e[2] - 1) : OrderIn(output', csources', e[1], i, e[2])
      BY <1>1, <2>3, <3>1, <3>3
    <3>5. output' = output /\ csources' = csources
      BY <1>1
    <3> QED BY <1>1, <3>1, <3>2, <3>4, <3>5, SplicedNext
  <2>6. NothingLost'
    <3> DEFINE P == Tables \cap live
               B(I) == Blocks(P, Listed, FrameFiles, I, OutputBlocks, Elements(csources))
               D == NameBlocks(Current)
    <3>1. ~ faulty /\ Parts(P, OutputBlocks) /\ live = B(Including)
      BY <1>1, OwnedIs
    <3>2. /\ Listed' = Listed /\ FrameFiles' = FrameFiles
          /\ Including' = Including \ {Current} /\ Current \in Including
      BY <1>1, <1>2, <2>1, Advancing, IncludingAdvance
    <3>3. OutputBlocks' = OutputBlocks
      BY <1>1 DEF OutputBlocks
    <3>4. Removes(B(Including), D, B(Including \ {Current}))
      BY <3>1, <3>2, DropName
    <3>5. live' = live \ D /\ faulty' = (faulty \/ ~ D \subseteq live)
      BY <2>1 DEF Free
    <3>6. live' = B(Including \ {Current}) /\ ~ faulty'
      BY <3>1, <3>4, <3>5 DEF Removes
    <3>7. /\ Parts(P, OutputBlocks')
          /\ live' = Blocks(P, Listed', FrameFiles', Including', OutputBlocks', Elements(csources'))
      BY <1>1, <3>1, <3>2, <3>3, <3>6
    <3> QED BY <2>1, <3>6, <3>7, OwnedNext
  <2>7. output' \in Seq(Files \X Nat) /\ csources' \in Seq(Files) /\ status' = 1
    BY <1>1, <1>4, <2>1 DEF TypeOK
  <2> QED BY <1>1, <1>2, <2>1, <2>2, <2>5, <2>6, <2>7, AdvanceInductive DEF c
<1> QED BY <1>1, <1>3, <1>4

LEMMA ReturnRootInductive ==
    ASSUME SourceUnitAssumption, Inductive, ReturnRoot
    PROVE  Inductive'
<1>1. /\ TypeOK /\ StackOK /\ PhaseOK /\ NothingLost /\ RejectedOK
      /\ phase = "return" /\ stack = <<>> /\ phase' = "release" /\ returned = "nothing"
      /\ UNCHANGED <<text, target, status, files, stack, output, csources, live, faulty, returned>>
  BY DEF Inductive, PhaseOK, ReturnRoot
<1>2. /\ Listed' = Listed /\ Active' = Active /\ Finished' = Finished /\ FrameFiles' = FrameFiles
      /\ OutputBlocks' = OutputBlocks
  BY <1>1 DEF Listed, Active, Finished, FrameFiles, Elements, OutputBlocks
<1>3. Including' = Including
  <2>1. Len(stack) = 0 /\ 1..0 = {}
    BY <1>1
  <2> QED BY <1>1, <2>1 DEF Including
<1>4. NothingLost'
  <2> DEFINE P == Tables \cap live
  <2>1. /\ ~ faulty /\ Parts(P, OutputBlocks)
        /\ live = Blocks(P, Listed, FrameFiles, Including, OutputBlocks, Elements(csources))
    BY <1>1, OwnedIs
  <2>2. /\ ~ faulty' /\ Parts(P, OutputBlocks')
        /\ live' = Blocks(P, Listed', FrameFiles', Including', OutputBlocks', Elements(csources'))
    BY <1>1, <1>2, <1>3, <2>1
  <2> QED BY <1>1, <2>2, OwnedNext
<1>5. TypeOK'
  BY <1>1 DEF TypeOK, Phases
<1>6. StackOK'
  BY <1>1, <1>2 DEF StackOK, AtInclude, Resolved
<1>7. PhaseOK'
  BY <1>1 DEF PhaseOK
<1>8. RejectedOK'
  BY <1>1, TextFixed DEF RejectedOK
<1>9. ASSUME Succeeding' PROVE LoadedOK' /\ SplicedOK'
  <2>1. LoadedOK /\ SplicedOK
    BY <1>1, <1>9 DEF Succeeding, Inductive
  <2>2. Passed' = Passed
    BY <1>1, PassedSame
  <2>3. PassedOf("include") = OfKind(Passed, "include")
    BY OrderNow
  <2>4. Realpath[RootPath] \in Finished
    BY <1>1, <2>1 DEF LoadedOK
  <2>5. LoadedOK'
    BY <1>1, <1>2, <2>1, <2>2, <2>3, <2>4, LoadedNext DEF LoadedOK
  <2> QED BY <1>1, <2>1, <2>2, <2>5, SplicedSame
<1> QED BY <1>1, <1>4, <1>5, <1>6, <1>7, <1>8, <1>9, MidStep

\* When the root file is finished, the unit is what has been loaded.
LEMMA UnitLoaded ==
    ASSUME SourceUnitAssumption, TypeOK, StackOK, LoadedOK, SplicedOK, stack = <<>>,
           Realpath[RootPath] \in Finished
    PROVE  /\ UnitFiles = Finished
           /\ \A kind : In(kind) = PassedOf(kind)
           /\ ValidUnit
<1>1. /\ FrameFiles = {} /\ Len(stack) = 0 /\ Listed = Active \cup Finished /\ Listed \subseteq Files
  BY Facts
<1>2. Closed(Finished)
  BY FinishedClosed
<1>3. UnitFiles \subseteq Finished
  BY <1>2, ReachedLeast DEF UnitFiles
<1>4. UnitFiles = Finished
  BY <1>1, <1>3 DEF LoadedOK
<1>5. Passed = {e \in Files \X (1..MaxForms) : e[1] \in Finished /\ e[2] <= Len(text[e[1]])}
  <2>1. 1..Len(stack) = {}
    BY <1>1
  <2> QED BY <2>1 DEF Passed
<1>6. \A kind : In(kind) = PassedOf(kind)
  BY <1>4, <1>5 DEF In, Names, PassedOf
<1>7. ValidUnit
  <2>1. Realpath[RootPath] # NoFile
    BY <1>1 DEF SourceUnitAssumption
  <2>2. In("bad") \cup In("syntax") = {}
    <3>1. PassedOf("bad") = {} /\ PassedOf("syntax") = {}
      BY DEF PassedOf, LoadedOK
    <3> QED BY <3>1, <1>6
  <2>3. \A e \in In("include") : Resolved(e) # NoFile
    BY <1>1, <1>6 DEF LoadedOK, SourceUnitAssumption
  <2>4. \A e \in In("ffi") : Resolved(e) # NoFile
    <3>1. \A e \in In("ffi") : Resolved(e) \in Elements(csources)
      BY <1>6 DEF SplicedOK
    <3>2. Elements(csources) \subseteq Files
      BY ElementOfSeq DEF TypeOK, Elements
    <3> QED BY <3>1, <3>2 DEF SourceUnitAssumption
  <2>5. \A f \in UnitFiles : f \notin Reached(Targets(f))
    BY <1>4 DEF LoadedOK
  <2>6. \A d, e \in In("ffi") : Resolved(d) = Resolved(e) => d = e
    BY <1>6 DEF SplicedOK
  <2> QED BY <2>1, <2>2, <2>3, <2>4, <2>5, <2>6 DEF ValidUnit
<1> QED BY <1>4, <1>6, <1>7

\* The bytes that the caller receives.
LEMMA UnitSpliced ==
    ASSUME SourceUnitAssumption, TypeOK, StackOK, LoadedOK, SplicedOK, stack = <<>>,
           Realpath[RootPath] \in Finished, text' = text, output' = output, csources' = csources
    PROVE  SplicedOnce' /\ SourceOrder'
<1>1. /\ UnitFiles = Finished /\ In("form") = PassedOf("form") /\ In("ffi") = PassedOf("ffi")
  BY UnitLoaded
<1>2. /\ UnitFiles' = UnitFiles /\ In("form")' = In("form") /\ In("ffi")' = In("ffi")
      /\ \A e : Resolved(e)' = Resolved(e)
      /\ \A f, i, j : InOrder(f, i, j)' <=> OrderIn(output, csources, f, i, j)
  BY TextFixed, OrderNext
<1>3. /\ Elements(output) = In("form") /\ Injective(output) /\ output \in Seq(Files \X Nat)
      /\ Elements(csources) = {Resolved(e) : e \in In("ffi")}
      /\ Injective(csources) /\ csources \in Seq(Files)
      /\ \A d, e \in In("ffi") : Resolved(d) = Resolved(e) => d = e
  BY <1>1 DEF SplicedOK, TypeOK
<1>4. Len(output) = Cardinality(In("form"))
  BY <1>3, Counted
<1>5. Len(csources) = Cardinality(In("ffi"))
  <2> DEFINE X == In("ffi")
             g == [x \in X |-> Resolved(x)]
  <2>1. Elements(csources) = {g[x] : x \in X} /\ \A x, y \in X : g[x] = g[y] => x = y
    BY <1>3
  <2> HIDE DEF g, X
  <2>2. Len(csources) = Cardinality(X)
    BY <1>3, <2>1, CountedBy
  <2> QED BY <2>2 DEF X
<1>6. SplicedOnce'
  BY <1>2, <1>3, <1>4, <1>5 DEF SplicedOnce
<1>7. ASSUME NEW f \in UnitFiles, NEW i \in 1..Len(text[f]), NEW j \in 1..Len(text[f]), i < j
      PROVE  InOrder(f, i, j)'
  <2>1. <<f, j>> \in Passed
    BY <1>1, PassedIs
  <2>2. <<f, j>>[1] = f /\ <<f, j>>[2] = j
    OBVIOUS
  <2>3. Len(text[f]) \in Nat
    BY <1>1, Facts
  <2>4. i \in 1..(j - 1)
    BY <1>7, <2>3
  <2>5. \A e \in Passed : \A k \in 1..(e[2] - 1) : InOrder(e[1], k, e[2])
    BY DEF SplicedOK
  <2>6. InOrder(f, i, j)
    BY <2>1, <2>2, <2>4, <2>5
  <2>7. OrderIn(output, csources, f, i, j)
    BY <2>6, OrderNow
  <2> QED BY <2>7, <1>2
<1>8. SourceOrder'
  BY <1>2, <1>7 DEF SourceOrder
<1> QED BY <1>6, <1>8

LEMMA ReleaseInductive ==
    ASSUME SourceUnitAssumption, Inductive, Release
    PROVE  Inductive'
<1> DEFINE P == Tables \cap live
           C == Elements(csources)
           L == {Unit} \cup P \cup (UNION {FileBlocks(f) : f \in Listed})
<1>1. /\ TypeOK /\ StackOK /\ PhaseOK /\ NothingLost /\ RejectedOK
      /\ phase = "release" /\ stack = <<>> /\ phase' = "done" /\ files' = <<>>
      /\ UNCHANGED <<text, target, status, stack, output>>
  BY DEF Inductive, PhaseOK, Release
<1>2. /\ ~ faulty /\ Parts(P, OutputBlocks)
      /\ L \subseteq live /\ live \ L = OutputBlocks \cup CBlocks(C)
      /\ L \cup OutputBlocks \cup CBlocks(C) = live
  <2>1. /\ ~ faulty /\ Parts(P, OutputBlocks)
        /\ live = Blocks(P, Listed, FrameFiles, Including, OutputBlocks, C)
    BY <1>1, OwnedIs
  <2>2. FrameFiles = {} /\ Including = {}
    BY <1>1, Facts
  <2>3. live = Blocks(P, Listed, {}, {}, OutputBlocks, C)
    BY <2>1, <2>2
  <2>4. LET B == Blocks(P, Listed, {}, {}, OutputBlocks, C)
            D == {Unit} \cup P \cup (UNION {FileBlocks(f) : f \in Listed})
        IN  /\ D \subseteq B /\ B \ D = OutputBlocks \cup CBlocks(C)
            /\ D \cup OutputBlocks \cup CBlocks(C) = B
    BY <2>1, DropUnit
  <2> QED BY <2>1, <2>3, <2>4
<1>3. \/ /\ status = 1 /\ returned' = "bytes" /\ csources' = csources
         /\ live' = (live \ L) \cup {Output} /\ faulty' = (faulty \/ ~ L \subseteq live)
      \/ /\ status = 1 /\ output = <<>> /\ MayFail
         /\ returned' = "null" /\ csources' = csources
         /\ live' = live \ L /\ faulty' = (faulty \/ ~ L \subseteq live)
      \/ /\ status = 0 /\ returned' = "null" /\ csources' = <<>>
         /\ live' = live \ (L \cup OutputBlocks \cup CBlocks(C))
         /\ faulty' = (faulty \/ ~ (L \cup OutputBlocks \cup CBlocks(C)) \subseteq live)
  BY DEF Release, Free
<1> HIDE DEF L, P
<1>4. TypeOK'
  BY <1>1, <1>3, EmptySeq DEF TypeOK, Phases
<1>5. StackOK'
  <2>1. stack' = <<>> /\ Len(files') = 0 /\ Len(stack') = 0 /\ 1..0 = {}
    BY <1>1
  <2> QED BY <1>1, <2>1 DEF StackOK, FrameFiles
<1>6. PhaseOK' /\ ~ Succeeding' /\ RejectedOK'
  BY <1>1 DEF PhaseOK, Succeeding, RejectedOK
<1>7. NothingLost'
  <2>1. Owned' = (IF returned' = "bytes" THEN {Output} ELSE {}) \cup CBlocks(Elements(csources'))
    BY <1>1 DEF Owned
  <2>2. CASE status = 1 /\ returned' = "bytes"
    <3>1. live' = OutputBlocks \cup CBlocks(C) \cup {Output} /\ ~ faulty' /\ csources' = csources
      BY <1>2, <1>3, <2>2
    <3>2. OutputBlocks \subseteq {Output}
      BY DEF OutputBlocks
    <3> QED BY <2>1, <2>2, <3>1, <3>2 DEF NothingLost
  <2>3. CASE status = 1 /\ returned' = "null"
    <3>0. /\ live' = live \ L /\ faulty' = (faulty \/ ~ L \subseteq live)
          /\ csources' = csources /\ output = <<>>
      BY <1>3, <2>3
    <3>1. live' = OutputBlocks \cup CBlocks(C) /\ ~ faulty' /\ csources' = csources /\ output = <<>>
      BY <1>2, <3>0
    <3>2. OutputBlocks = {}
      BY <3>1 DEF OutputBlocks
    <3> QED BY <2>1, <2>3, <3>1, <3>2 DEF NothingLost
  <2>4. CASE status = 0
    <3> DEFINE A == L \cup OutputBlocks \cup CBlocks(C)
    <3>0. /\ live' = live \ A /\ faulty' = (faulty \/ ~ A \subseteq live)
          /\ csources' = <<>> /\ returned' = "null"
      BY <1>3, <2>4
    <3>a. A = live
      BY <1>2
    <3> HIDE DEF A
    <3>1. live' = {} /\ ~ faulty' /\ csources' = <<>> /\ returned' = "null"
      BY <1>2, <3>0, <3>a
    <3>2. Elements(csources') = {}
      BY <3>1 DEF Elements
    <3>3. CBlocks(Elements(csources')) = {}
      BY <3>2 DEF CBlocks
    <3> QED BY <2>1, <3>1, <3>3 DEF NothingLost
  <2> QED BY <1>3, <2>2, <2>3, <2>4
<1>8. ASSUME status = 1
      PROVE  LoadedOK /\ SplicedOK /\ Realpath[RootPath] \in Finished
  BY <1>1, <1>8 DEF Inductive, Succeeding, LoadedOK
<1>9. AcceptsValidUnits'
  <2>1. MayFail' = MayFail /\ ValidUnit' = ValidUnit
    BY <1>1, TextFixed
  <2>2. CASE status = 1
    <3>1. ValidUnit
      BY <1>1, <1>8, <2>2, UnitLoaded
    <3> QED BY <1>3, <2>1, <2>2, <3>1 DEF AcceptsValidUnits
  <2>3. CASE status = 0
    BY <1>1, <1>3, <2>1, <2>3 DEF AcceptsValidUnits, RejectedOK
  <2> QED BY <1>1, <2>2, <2>3 DEF TypeOK
<1>10. SplicedOnce' /\ SourceOrder'
  <2>1. CASE returned' = "bytes"
    BY <1>1, <1>3, <1>8, <2>1, UnitSpliced
  <2>2. CASE returned' # "bytes"
    BY <2>2 DEF SplicedOnce, SourceOrder
  <2> QED BY <2>1, <2>2
<1> QED BY <1>4, <1>5, <1>6, <1>7, <1>9, <1>10 DEF Inductive

LEMMA StutterInductive ==
    ASSUME Inductive, UNCHANGED vars
    PROVE  Inductive'
<1>1. UNCHANGED <<text, phase, target, status, files, stack, output, csources, live, faulty, returned>>
  BY DEF vars
<1>2. TypeOK' = TypeOK /\ StackOK' = StackOK /\ PhaseOK' = PhaseOK /\ Succeeding' = Succeeding
  BY <1>1 DEF TypeOK, StackOK, PhaseOK, Succeeding, FrameFiles, Active, Elements, AtInclude,
              Resolved, Top, Current, Form
<1>3. /\ MayFail' = MayFail /\ ValidUnit' = ValidUnit /\ UnitFiles' = UnitFiles
      /\ In("form")' = In("form") /\ In("ffi")' = In("ffi")
      /\ \A e : Resolved(e)' = Resolved(e)
  BY <1>1, TextFixed
<1>4. RejectedOK' /\ AcceptsValidUnits'
  BY <1>1, <1>3 DEF Inductive, RejectedOK, AcceptsValidUnits
<1>5. SplicedOnce'
  BY <1>1, <1>3 DEF Inductive, SplicedOnce
<1>6. \A f, i, j : InOrder(f, i, j)' <=> InOrder(f, i, j)
  BY <1>1, OrderNow, OrderNext
<1>7. SourceOrder'
  BY <1>1, <1>3, <1>6 DEF Inductive, SourceOrder
<1>8. NothingLost'
  <2>1. Listed' = Listed /\ FrameFiles' = FrameFiles /\ Including' = Including /\ OutputBlocks' = OutputBlocks
    BY <1>1 DEF Listed, Elements, FrameFiles, Including, OutputBlocks
  <2>2. Owned' = Owned
    BY <1>1, <2>1 DEF Owned
  <2> QED BY <1>1, <2>2 DEF Inductive, NothingLost
<1>9. ASSUME Succeeding' PROVE LoadedOK' /\ SplicedOK'
  <2>1. LoadedOK /\ SplicedOK
    BY <1>2, <1>9 DEF Inductive
  <2>2. Passed' = Passed
    BY <1>1, PassedSame
  <2>3. PassedOf("include") = OfKind(Passed, "include")
    BY OrderNow
  <2>4. /\ Listed' = Listed /\ Active' = Active /\ Finished' = Finished /\ FrameFiles' = FrameFiles
    BY <1>1 DEF Listed, Active, Finished, FrameFiles, Elements
  <2>5. Resolved(<<Current, Top.next>>)' = Resolved(<<Current, Top.next>>)
    BY <1>1 DEF Resolved, Current, Top
  <2>6. LoadedOK'
    BY <1>1, <2>1, <2>2, <2>3, <2>4, <2>5, LoadedNext DEF LoadedOK
  <2> QED BY <1>1, <2>1, <2>2, <2>6, SplicedSame
<1> QED BY <1>2, <1>4, <1>5, <1>7, <1>8, <1>9 DEF Inductive

-----------------------------------------------------------------------------
(* The theorems                                                            *)

\* The invariant of the loader: the frames are the chain of includes, what has
\* been loaded so far is a valid unit spliced in order, a failure has a reason,
\* and the blocks allocated are those the unit refers to.
THEOREM LoaderInvariant == Spec => []Inductive
<1>1. Init => Inductive
  BY InitInductive, SourceUnitAssumption
<1>2. Inductive /\ [Next]_vars => Inductive'
  BY BeginInductive, LoadFileInductive, ScanInductive, ReturnInductive, ReturnRootInductive,
     ReleaseInductive, StutterInductive, SourceUnitAssumption DEF Next
<1> QED BY <1>1, <1>2, PTL DEF Spec

\* native_read_source_unit returns bytes for valid units only, and for every
\* valid one unless memory or a read fails: the active flag of
\* source_check_existing_file finds every cycle of includes and nothing else.
THEOREM UnitsAreAccepted == Spec => []AcceptsValidUnits
<1>1. Inductive => AcceptsValidUnits
  BY DEF Inductive
<1> QED BY <1>1, LoaderInvariant, PTL

\* Each form of each file that the root reaches is copied once, by however many
\* paths and spellings the file is included, and each C path is recorded once.
THEOREM FormsAreSplicedOnce == Spec => []SplicedOnce
<1>1. Inductive => SplicedOnce
  BY DEF Inductive
<1> QED BY <1>1, LoaderInvariant, PTL

\* The forms and the C paths are in source order: what an include brings in
\* stands before every later form of the file that includes it.
THEOREM SpliceKeepsOrder == Spec => []SourceOrder
<1>1. Inductive => SourceOrder
  BY DEF Inductive
<1> QED BY <1>1, LoaderInvariant, PTL

\* At whatever allocation or read the loader fails, and however deep in the
\* includes, source_release_frame and the end of native_read_source_unit free
\* every block once and none that is in use.
THEOREM BlocksAreAccounted == Spec => []NothingLost
<1>1. Inductive => NothingLost
  BY DEF Inductive
<1> QED BY <1>1, LoaderInvariant, PTL

-----------------------------------------------------------------------------
(* The variant of the loader                                               *)

\* The part of native_read_source_unit that is running, from the last to the first.
Course ==
    CASE phase = "start" -> 3 [] phase \in {"load", "scan", "return"} -> 2
      [] phase = "release" -> 1 [] OTHER -> 0

\* The calls left to the answer about one include form.
Turn == CASE phase = "scan" -> 2 [] phase = "load" -> 1 [] OTHER -> 0

\* A step of the loader lists a file, or passes a form, or leaves a frame, or comes
\* closer to the answer about an include; and none of them undoes an earlier one.
Nearer ==
    \/ Listed' # Listed
    \/ /\ Passed \subseteq Passed'
       /\ \/ Passed' # Passed
          \/ Len(stack') < Len(stack)
          \/ Len(stack') = Len(stack) /\ Turn' < Turn
Advances ==
    \/ Course' < Course
    \/ Course' = Course /\ Listed \subseteq Listed' /\ Nearer
LoaderAdvances == [][Advances]_vars

\* What has been listed and passed is limited by the file system.
WithinUnit ==
    /\ Listed \subseteq Files /\ Passed \subseteq Files \X (1..MaxForms)
    /\ Course \in Nat /\ Turn \in Nat /\ Len(stack) \in Nat

\* A frame that is left passes the forms it had not come to.
LEMMA PassedLeave ==
    ASSUME SourceUnitAssumption, TypeOK, StackOK, stack # <<>>, text' = text,
           NEW value, NEW also, LeaveFrame(value, also)
    PROVE  Passed \subseteq Passed'
<1>1. /\ Len(stack') = Len(stack) - 1
      /\ \A k \in 1..Len(stack') : stack'[k] = stack[k]
      /\ Finished' = Finished \cup {Current} /\ Len(stack) \in Nat
  BY Leaving, Facts
<1>2. SUFFICES ASSUME NEW e \in Passed PROVE e \in Passed'
  OBVIOUS
<1>3. e \in Files \X (1..MaxForms)
  BY DEF Passed
<1>4. e[2] <= Len(text[e[1]])
  BY PassedIs
<1>5. CASE e[1] \in Finished
  BY <1>1, <1>3, <1>4, <1>5 DEF Passed
<1>6. ASSUME NEW k \in 1..Len(stack), e[1] = stack[k].file, e[2] < stack[k].next
      PROVE  e \in Passed'
  <2>1. CASE k = Len(stack)
    <3>1. e[1] \in Finished'
      BY <1>1, <1>6, <2>1 DEF Current, Top
    <3> QED BY <1>3, <1>4, <3>1 DEF Passed
  <2>2. CASE k # Len(stack)
    <3>1. k \in 1..Len(stack') /\ stack'[k] = stack[k]
      BY <1>1, <2>2
    <3> QED BY <1>3, <1>6, <3>1 DEF Passed
  <2> QED BY <2>1, <2>2
<1> QED BY <1>5, <1>6 DEF Passed

\* source_load_file lists a new file or has its answer.
LEMMA LoadAdvances ==
    ASSUME SourceUnitAssumption, Inductive, LoadFile
    PROVE  Advances
<1> DEFINE f == Realpath[target]
<1>1. TypeOK /\ StackOK /\ phase = "load" /\ text' = text
  BY DEF Inductive, LoadFile
<1>2. phase' \in {"scan", "return"}
  BY DEF LoadFile, LoadFails, Existing, NewFile, OpenFrame, PrepareFails, Answer
<1>3. Course' = Course
  BY <1>1, <1>2 DEF Course
<1>4. CASE phase' = "return" /\ files' = files /\ stack' = stack
  <2>1. Passed' = Passed /\ Listed' = Listed
    BY <1>1, <1>4, PassedSame DEF Listed, Elements
  <2>2. Turn' < Turn
    BY <1>1, <1>4 DEF Turn
  <2> QED BY <1>3, <1>4, <2>1, <2>2 DEF Advances, Nearer
<1>5. CASE f \in Files \ Listed /\ files' = <<[path |-> f, active |-> TRUE]>> \o files
  <2>1. Listed' = Listed \cup {f}
    BY <1>1, <1>5, Listing
  <2> QED BY <1>3, <1>5, <2>1 DEF Advances, Nearer
<1> QED
  BY <1>4, <1>5 DEF LoadFile, LoadFails, Existing, NewFile, OpenFrame, PrepareFails, Answer

\* The end of source_load_new_file leaves a frame.
LEMMA LeaveAdvances ==
    ASSUME SourceUnitAssumption, TypeOK, StackOK, stack # <<>>, text' = text,
           phase \in {"scan", "return"}, NEW value, NEW also, LeaveFrame(value, also)
    PROVE  Advances
<1>1. Len(stack') < Len(stack) /\ Listed' = Listed
  BY Leaving, Facts
<1>2. Passed \subseteq Passed'
  BY PassedLeave
<1>3. phase' = "return"
  BY DEF LeaveFrame, Answer
<1>4. Course' = Course
  BY <1>3 DEF Course
<1> QED BY <1>1, <1>2, <1>4 DEF Advances, Nearer

\* source_load_forms goes on to the next form.
LEMMA NextFormAdvances ==
    ASSUME SourceUnitAssumption, TypeOK, StackOK, stack # <<>>, HasForm, Advance,
           text' = text, files' = files, phase \in {"scan", "return"}, phase' = "scan"
    PROVE  Advances
<1>1. Listed' = Listed
  BY Advancing
<1>2. Passed \subseteq Passed' /\ Passed' # Passed
  BY PassedAdvance
<1>3. Course' = Course
  BY DEF Course
<1> QED BY <1>1, <1>2, <1>3 DEF Advances, Nearer

\* source_load_forms.
LEMMA ScanAdvances ==
    ASSUME SourceUnitAssumption, Inductive, Scan
    PROVE  Advances
<1>1. TypeOK /\ StackOK /\ phase = "scan" /\ stack # <<>> /\ text' = text
  BY DEF Inductive, PhaseOK, Scan
<1>2. CASE EndOfFile \/ RejectForm
  BY <1>1, <1>2, LeaveAdvances DEF EndOfFile, RejectForm
<1>3. CASE AppendForm \/ RecordCPath
  <2>1. HasForm /\ Advance /\ phase' = phase /\ files' = files
    BY <1>3 DEF AppendForm, RecordCPath
  <2> QED BY <1>1, <2>1, NextFormAdvances
<1>4. CASE EnterInclude
  <2>1. phase' = "load" /\ files' = files /\ stack' = stack
    BY <1>4 DEF EnterInclude
  <2>2. Passed' = Passed /\ Listed' = Listed
    BY <1>1, <2>1, PassedSame DEF Listed, Elements
  <2>3. Turn' < Turn /\ Course' = Course
    BY <1>1, <2>1 DEF Turn, Course
  <2> QED BY <2>1, <2>2, <2>3 DEF Advances, Nearer
<1> QED BY <1>2, <1>3, <1>4 DEF Scan

\* source_load_include goes on behind its form or gives up its frame.
LEMMA ReturnAdvances ==
    ASSUME SourceUnitAssumption, Inductive, Return
    PROVE  Advances
<1>1. /\ TypeOK /\ StackOK /\ phase = "return" /\ stack # <<>> /\ AtInclude(Top)
      /\ text' = text
  BY DEF Inductive, PhaseOK, Return
<1>2. HasForm
  BY <1>1 DEF AtInclude, HasForm, Current
<1>3. CASE status = 1
  BY <1>1, <1>2, <1>3, NextFormAdvances DEF Return
<1>4. CASE status # 1
  BY <1>1, <1>4, LeaveAdvances DEF Return
<1> QED BY <1>3, <1>4

\* native_read_source_unit cannot go on for ever, whatever the files include: no
\* file is listed twice and no form passed twice (source_find_file), and between
\* two of these events the loader only leaves frames and answers include forms.
THEOREM LoadsAreBounded == Spec => LoaderAdvances /\ []WithinUnit
<1>1. Inductive => WithinUnit
  <2> SUFFICES ASSUME Inductive PROVE WithinUnit
    OBVIOUS
  <2>1. Listed \subseteq Files /\ Len(stack) \in Nat
    BY Facts, SourceUnitAssumption DEF Inductive
  <2>2. Passed \subseteq Files \X (1..MaxForms)
    BY DEF Passed
  <2>3. Course \in Nat /\ Turn \in Nat
    BY DEF Course, Turn
  <2> QED BY <2>1, <2>2, <2>3 DEF WithinUnit
<1>2. Inductive /\ [Next]_vars => [Advances]_vars
  <2> SUFFICES ASSUME Inductive, Next PROVE Advances
    OBVIOUS
  <2>1. CASE Begin \/ ReturnRoot \/ Release
    <3>1. \/ phase = "start" /\ phase' \in {"load", "release", "done"}
          \/ phase = "return" /\ phase' = "release"
          \/ phase = "release" /\ phase' = "done"
      BY <2>1 DEF Begin, ReturnRoot, Release
    <3>2. Course' < Course
      BY <3>1 DEF Course
    <3> QED BY <3>2 DEF Advances
  <2> QED BY <2>1, LoadAdvances, ScanAdvances, ReturnAdvances, SourceUnitAssumption DEF Next
<1> QED BY <1>1, <1>2, LoaderInvariant, PTL DEF Spec, LoaderAdvances
=============================================================================
