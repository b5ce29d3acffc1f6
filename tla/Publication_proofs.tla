------------------------- MODULE Publication_proofs -------------------------
(***************************************************************************)
(* Publication, for any number of processes and of C sources and runtime   *)
(* modules: the output path holds a complete artifact, the answers are     *)
(* true and nothing is left behind, at whatever step a tool fails or a     *)
(* process is killed.                                                      *)
(***************************************************************************)
EXTENDS Publication, SequenceTheorems, WellFoundedInduction, TLAPS

-----------------------------------------------------------------------------
(* Sequences                                                               *)

LEMMA Least ==
    ASSUME NEW S, S \subseteq Nat, S # {}
    PROVE  \E x \in S : \A y \in S : x <= y
<1>1. PICK x \in S : \A y \in S : ~ (<<y, x>> \in OpToRel(<, Nat))
  BY NatLessThanWellFounded, WFMin
<1>2. \A y \in S : ~ (y < x)
  BY <1>1 DEF OpToRel
<1> QED BY <1>2

\* s is a sequence of length n.
IsSeq(s, n) == n \in Nat /\ s = [i \in 1..n |-> s[i]]

LEMMA SeqLen ==
    ASSUME NEW s, NEW n, IsSeq(s, n)
    PROVE  Len(s) = n /\ DOMAIN s = 1..n /\ s \in Seq({s[i] : i \in 1..n})
<1> DEFINE T == {s[i] : i \in 1..n}
<1>1. n \in Nat /\ DOMAIN s = 1..n /\ s \in [1..n -> T]
  BY DEF IsSeq
<1>2. s \in Seq(T)
  BY <1>1
<1>3. Len(s) = n
  BY <1>1, <1>2, LenProperties
<1> QED BY <1>1, <1>2, <1>3

\* u is s, of length m, and behind it t, of length n.
Joined(u, s, m, t, n) ==
    /\ IsSeq(u, m + n)
    /\ \A i \in 1..m : u[i] = s[i]
    /\ \A i \in 1..n : u[m + i] = t[i]

LEMMA Concatenation ==
    ASSUME NEW s, NEW t, NEW m, NEW n, IsSeq(s, m), IsSeq(t, n)
    PROVE  Joined(s \o t, s, m, t, n)
<1> DEFINE T == {s[i] : i \in 1..m} \cup {t[i] : i \in 1..n}
<1>1. m \in Nat /\ n \in Nat
  BY DEF IsSeq
<1>2. s \in Seq(T) /\ t \in Seq(T) /\ Len(s) = m /\ Len(t) = n
  <2>1. s \in [1..m -> T] /\ t \in [1..n -> T]
    BY DEF IsSeq
  <2> HIDE DEF T
  <2>2. s \in Seq(T) /\ t \in Seq(T)
    BY <1>1, <2>1
  <2> QED BY <2>2, SeqLen
<1> HIDE DEF T
<1>3. /\ Len(s \o t) = m + n
      /\ \A i \in 1..(m + n) : (s \o t)[i] = IF i <= m THEN s[i] ELSE t[i - m]
  BY <1>2, ConcatProperties
<1>4. s \o t \in Seq(T)
  BY <1>2, ConcatProperties
<1>5. IsSeq(s \o t, m + n)
  <2>1. s \o t \in [1..(m + n) -> T]
    BY <1>3, <1>4, LenProperties
  <2> QED BY <1>1, <2>1 DEF IsSeq
<1>6. ASSUME NEW i \in 1..m PROVE (s \o t)[i] = s[i]
  <2>1. i \in 1..(m + n) /\ i <= m
    BY <1>1
  <2> QED BY <1>3, <2>1
<1>7. ASSUME NEW i \in 1..n PROVE (s \o t)[m + i] = t[i]
  <2>1. m + i \in 1..(m + n) /\ ~ (m + i <= m) /\ (m + i) - m = i
    BY <1>1
  <2> QED BY <1>3, <2>1
<1> QED BY <1>5, <1>6, <1>7 DEF Joined

LEMMA Tuples ==
    /\ \A a : IsSeq(<<a>>, 1) /\ <<a>>[1] = a
    /\ \A a, b : IsSeq(<<a, b>>, 2) /\ <<a, b>>[1] = a /\ <<a, b>>[2] = b
    /\ \A a, b, c : /\ IsSeq(<<a, b, c>>, 3)
                    /\ <<a, b, c>>[1] = a /\ <<a, b, c>>[2] = b /\ <<a, b, c>>[3] = c
  BY DEF IsSeq

LEMMA Compiles ==
    ASSUME NEW d, NEW n \in Nat
    PROVE  /\ IsSeq(CompileSources(d, n), n)
           /\ \A i \in 1..n : CompileSources(d, n)[i] = Produce(File(d, C(i)), {})
  BY DEF CompileSources, Each, IsSeq

-----------------------------------------------------------------------------
(* The steps of a job                                                      *)

\* Where the steps of the publication itself begin.
Offset(j) == IF j.mode = "link" /\ j.sources > 0 THEN j.sources + 3 ELSE 0
Maps(j) == IF j.mode = "mapped" THEN 1 ELSE 0
\* The link.
LinkAt(j) == Offset(j) + j.sources + j.modules + 3

\* The steps of a job that renames, by number.
Layout(j, S, L, D, art, new) ==
    /\ IsSeq(S, L) /\ L = LinkAt(j) + Maps(j) + 2
    /\ S[Offset(j) + 1] = MakeDirectory(D)
    /\ S[Offset(j) + 2] = Produce(File("objects", Psl), {})
    /\ \A i \in 1..j.sources :
          S[Offset(j) + 2 + i] = Produce(File("objects", C(i)), {})
    /\ \A i \in 1..j.modules :
          S[Offset(j) + 2 + j.sources + i] = Produce(File("objects", Runtime(i)), {})
    /\ S[LinkAt(j)] =
          Link(new, {File("objects", Psl)} \cup {File("objects", C(i)) : i \in 1..j.sources}
                       \cup {File("objects", Runtime(i)) : i \in 1..j.modules})
    /\ j.mode = "mapped" => S[LinkAt(j) + 1] = RenameMap(File("map", LinkMap))
    /\ S[L - 1] = Rename(art)
    /\ S[L] = Remove(D)
    /\ "objects" \in D
    /\ art \in new /\ art[2] = Artifact
    /\ \A f \in new : f[1] \in D \cap {"objects", "stage", "map"} /\ f[2] \in {Artifact, LinkMap}
    /\ Offset(j) # 0 =>
          /\ S[1] = MakeDirectory({"roots"})
          /\ \A i \in 1..j.sources : S[1 + i] = Produce(File("roots", C(i)), {})
          /\ S[j.sources + 2].op = "nm"
          /\ S[j.sources + 3] = Remove({"roots"})

LEMMA JobFacts ==
    ASSUME NEW j \in Jobs
    PROVE  /\ j.mode \in {"direct", "merge", "link", "freestanding", "mapped"}
           /\ j.sources \in Nat /\ j.modules \in Nat
           /\ j.mode = "merge" => j.sources > 0
           /\ j.sources > 0 => j.mode \in {"merge", "link"}
           /\ j.modules > 0 => j.mode = "link"
           /\ Offset(j) \in Nat /\ Maps(j) \in {0, 1} /\ LinkAt(j) \in Nat
<1>1. /\ j.mode \in Modes /\ j.sources \in 0..MaxSources /\ j.modules \in 0..MaxModules
      /\ j.mode = "merge" => j.sources > 0
      /\ j.sources > 0 => j.mode \in {"merge", "link"}
      /\ j.modules > 0 => j.mode = "link"
  BY DEF Jobs
<1>2. /\ j.mode \in {"direct", "merge", "link", "freestanding", "mapped"}
      /\ j.sources \in Nat /\ j.modules \in Nat
  <2>1. j.mode \in {"direct", "merge", "link", "freestanding", "mapped"}
    BY <1>1, PublicationAssumption
  <2>2. j.sources \in Nat /\ j.modules \in Nat
    BY <1>1, PublicationAssumption
  <2> QED BY <2>1, <2>2
<1>3. Offset(j) \in Nat /\ Maps(j) \in {0, 1}
  BY <1>2 DEF Offset, Maps
<1> QED BY <1>1, <1>2, <1>3 DEF LinkAt

LEMMA MergeLayout ==
    ASSUME NEW j \in Jobs, j.mode = "merge"
    PROVE  Layout(j, Steps(j), j.sources + 5, {"objects"}, File("objects", Artifact),
                  {File("objects", Artifact)})
<1> DEFINE n == j.sources
           from == {File("objects", Psl)} \cup {File("objects", C(i)) : i \in 1..n}
           a == <<MakeDirectory({"objects"}), Produce(File("objects", Psl), {})>>
           b == CompileSources("objects", n)
           c == <<Link({File("objects", Artifact)}, from),
                  Rename(File("objects", Artifact)), Remove({"objects"})>>
<1>1. Steps(j) = (a \o b) \o c
  BY DEF Steps, Merge
<1>2. n \in Nat /\ j.modules = 0 /\ Offset(j) = 0 /\ Maps(j) = 0 /\ LinkAt(j) = n + 3
  BY JobFacts DEF Offset, Maps, LinkAt
<1>3. /\ IsSeq(a, 2) /\ a[1] = MakeDirectory({"objects"})
      /\ a[2] = Produce(File("objects", Psl), {})
  BY Tuples
<1>4. /\ IsSeq(b, n) /\ \A i \in 1..n : b[i] = Produce(File("objects", C(i)), {})
  BY <1>2, Compiles
<1>5. /\ IsSeq(c, 3) /\ c[1] = Link({File("objects", Artifact)}, from)
      /\ c[2] = Rename(File("objects", Artifact)) /\ c[3] = Remove({"objects"})
  BY Tuples
<1>x. /\ from = {File("objects", Psl)} \cup {File("objects", C(i)) : i \in 1..j.sources}
                       \cup {File("objects", Runtime(i)) : i \in 1..j.modules}
  BY <1>2
<1> HIDE DEF a, b, c, from
<1> DEFINE S == Steps(j)
           ab == a \o b
<1>6. Joined(ab, a, 2, b, n)
  BY <1>3, <1>4, Concatenation
<1>7. Joined(S, ab, 2 + n, c, 3)
  <2>1. IsSeq(ab, 2 + n)
    BY <1>6 DEF Joined
  <2> QED BY <1>1, <1>5, <2>1, Concatenation
<1> HIDE DEF S, ab
<1>8. S[1] = a[1] /\ S[2] = a[2] /\ \A i \in 1..n : S[2 + i] = b[i]
  <2>1. 1 \in 1..2 /\ 2 \in 1..2 /\ 1 \in 1..(2 + n) /\ 2 \in 1..(2 + n)
    BY <1>2
  <2>2. \A i \in 1..n : 2 + i \in 1..(2 + n)
    BY <1>2
  <2> QED BY <1>6, <1>7, <2>1, <2>2 DEF Joined
<1>9. S[n + 3] = c[1] /\ S[n + 4] = c[2] /\ S[n + 5] = c[3]
  <2>1. (2 + n) + 1 = n + 3 /\ (2 + n) + 2 = n + 4 /\ (2 + n) + 3 = n + 5
    BY <1>2
  <2>2. 1 \in 1..3 /\ 2 \in 1..3 /\ 3 \in 1..3
    OBVIOUS
  <2> QED BY <1>7, <2>1, <2>2 DEF Joined
<1>10. IsSeq(S, n + 5)
  <2>1. (2 + n) + 3 = n + 5
    BY <1>2
  <2> QED BY <1>7, <2>1 DEF Joined
<1>11. /\ File("objects", Artifact)[1] = "objects" /\ File("objects", Artifact)[2] = Artifact
  BY DEF File
<1>12. (n + 5) - 1 = n + 4 /\ n + 5 = LinkAt(j) + Maps(j) + 2
  BY <1>2
<1> QED
  BY <1>2, <1>3, <1>4, <1>5, <1>8, <1>9, <1>10, <1>11, <1>12, <1>x DEF Layout, S

LEMMA RootsLayout ==
    ASSUME NEW j \in Jobs, j.mode = "link"
    PROVE  /\ IsSeq(RuntimeRoots(j.sources), Offset(j))
           /\ Offset(j) # 0 =>
                /\ Offset(j) = j.sources + 3
                /\ RuntimeRoots(j.sources)[1] = MakeDirectory({"roots"})
                /\ \A i \in 1..j.sources :
                      RuntimeRoots(j.sources)[1 + i] = Produce(File("roots", C(i)), {})
                /\ RuntimeRoots(j.sources)[j.sources + 2].op = "nm"
                /\ RuntimeRoots(j.sources)[j.sources + 3] = Remove({"roots"})
<1>0. j.sources \in Nat
  BY JobFacts
<1>1. CASE j.sources = 0
  <2>1. Offset(j) = 0 /\ RuntimeRoots(j.sources) = <<>>
    BY <1>1 DEF Offset, RuntimeRoots
  <2>2. IsSeq(<<>>, 0)
    BY DEF IsSeq
  <2> QED BY <2>1, <2>2
<1>2. CASE j.sources # 0
  <2> DEFINE n == j.sources
             a == <<MakeDirectory({"roots"})>>
             b == CompileSources("roots", n)
             c == <<[op |-> "nm"], Remove({"roots"})>>
             ab == a \o b
             S == RuntimeRoots(n)
  <2>1. Offset(j) = n + 3 /\ S = ab \o c
    BY <1>0, <1>2 DEF Offset, RuntimeRoots
  <2>2. IsSeq(a, 1) /\ a[1] = MakeDirectory({"roots"})
    BY Tuples
  <2>3. IsSeq(b, n) /\ \A i \in 1..n : b[i] = Produce(File("roots", C(i)), {})
    BY <1>0, Compiles
  <2>4. IsSeq(c, 2) /\ c[1] = [op |-> "nm"] /\ c[2] = Remove({"roots"})
    BY Tuples
  <2>n. n \in Nat
    BY <1>0
  <2> HIDE DEF a, b, c
  <2>5. Joined(ab, a, 1, b, n)
    BY <2>2, <2>3, Concatenation
  <2>6. Joined(S, ab, 1 + n, c, 2)
    <3>1. IsSeq(ab, 1 + n)
      BY <2>5 DEF Joined
    <3> QED BY <2>1, <2>4, <3>1, Concatenation
  <2> HIDE DEF ab, S, n
  <2>7. S[1] = a[1] /\ \A i \in 1..n : S[1 + i] = b[i]
    <3>1. 1 \in 1..1 /\ 1 \in 1..(1 + n)
      BY <2>n
    <3>2. \A i \in 1..n : 1 + i \in 1..(1 + n)
      BY <2>n
    <3> QED BY <2>5, <2>6, <3>1, <3>2 DEF Joined
  <2>8. S[n + 2] = c[1] /\ S[n + 3] = c[2]
    <3>1. (1 + n) + 1 = n + 2 /\ (1 + n) + 2 = n + 3 /\ 1 \in 1..2 /\ 2 \in 1..2
      BY <2>n
    <3> QED BY <2>6, <3>1 DEF Joined
  <2>9. IsSeq(S, n + 3)
    <3>1. (1 + n) + 2 = n + 3
      BY <2>n
    <3> QED BY <2>6, <3>1 DEF Joined
  <2>10. S[n + 2].op = "nm"
    BY <2>4, <2>8
  <2>11. \A i \in 1..n : S[1 + i] = Produce(File("roots", C(i)), {})
    BY <2>3, <2>7
  <2>12. S[1] = MakeDirectory({"roots"}) /\ S[n + 3] = Remove({"roots"})
    BY <2>2, <2>4, <2>7, <2>8
  <2> QED BY <2>1, <2>9, <2>10, <2>11, <2>12 DEF S, n
<1> QED BY <1>1, <1>2

LEMMA LinkLayout ==
    ASSUME NEW j \in Jobs, j.mode = "link"
    PROVE  Layout(j, Steps(j), LinkAt(j) + 2, {"objects", "stage"}, File("stage", Artifact),
                  {File("stage", Artifact)})
<1> DEFINE n == j.sources
           m == j.modules
           o == Offset(j)
           D == {"objects", "stage"}
           art == File("stage", Artifact)
           from == {File("objects", Psl)} \cup {File("objects", C(i)) : i \in 1..n}
                       \cup {File("objects", Runtime(i)) : i \in 1..m}
           r == RuntimeRoots(n)
           a == <<MakeDirectory(D), Produce(File("objects", Psl), {})>>
           b == CompileSources("objects", n)
           e == Each(m, LAMBDA i : Produce(File("objects", Runtime(i)), {}))
           c == <<Link({art}, from), Rename(art), Remove(D)>>
           ra == r \o a
           rab == ra \o b
           rabe == rab \o e
           S == Steps(j)
<1>1. S = rabe \o c
  BY DEF Steps, LinkArtifact
<1>2. /\ n \in Nat /\ m \in Nat /\ o \in Nat /\ Maps(j) = 0
      /\ LinkAt(j) = o + n + m + 3
  BY JobFacts DEF Maps, LinkAt
<1>3. IsSeq(a, 2) /\ a[1] = MakeDirectory(D) /\ a[2] = Produce(File("objects", Psl), {})
  BY Tuples
<1>4. IsSeq(b, n) /\ \A i \in 1..n : b[i] = Produce(File("objects", C(i)), {})
  BY <1>2, Compiles
<1>5. IsSeq(e, m) /\ \A i \in 1..m : e[i] = Produce(File("objects", Runtime(i)), {})
  BY <1>2 DEF Each, IsSeq
<1>6. IsSeq(c, 3) /\ c[1] = Link({art}, from) /\ c[2] = Rename(art) /\ c[3] = Remove(D)
  BY Tuples
<1>7. IsSeq(r, o)
  BY RootsLayout
<1>8. art[1] = "stage" /\ art[2] = Artifact
  BY DEF File
<1> HIDE DEF r, a, b, e, c
<1>9. Joined(ra, r, o, a, 2)
  BY <1>3, <1>7, Concatenation
<1>10. Joined(rab, ra, o + 2, b, n)
  <2>1. IsSeq(ra, o + 2)
    BY <1>9 DEF Joined
  <2> QED BY <1>4, <2>1, Concatenation
<1>11. Joined(rabe, rab, (o + 2) + n, e, m)
  <2>1. IsSeq(rab, (o + 2) + n)
    BY <1>10 DEF Joined
  <2> QED BY <1>5, <2>1, Concatenation
<1>12. Joined(S, rabe, ((o + 2) + n) + m, c, 3)
  <2>1. IsSeq(rabe, ((o + 2) + n) + m)
    BY <1>11 DEF Joined
  <2> QED BY <1>1, <1>6, <2>1, Concatenation
<1> HIDE DEF ra, rab, rabe, S, o, n, m, art, from, D
<1>13. ASSUME NEW i \in 1..o PROVE S[i] = r[i]
  <2>1. i \in 1..(o + 2) /\ i \in 1..((o + 2) + n) /\ i \in 1..(((o + 2) + n) + m)
    BY <1>2
  <2> QED BY <1>9, <1>10, <1>11, <1>12, <2>1 DEF Joined
<1>14. S[o + 1] = a[1] /\ S[o + 2] = a[2]
  <2>1. ASSUME NEW i \in 1..2 PROVE S[o + i] = a[i]
    <3>1. o + i \in 1..(o + 2) /\ o + i \in 1..((o + 2) + n)
          /\ o + i \in 1..(((o + 2) + n) + m)
      BY <1>2
    <3> QED BY <1>9, <1>10, <1>11, <1>12, <3>1 DEF Joined
  <2>2. 1 \in 1..2 /\ 2 \in 1..2
    OBVIOUS
  <2> QED BY <2>1, <2>2
<1>15. ASSUME NEW i \in 1..n PROVE S[o + 2 + i] = b[i]
  <2>1. /\ o + 2 + i \in 1..((o + 2) + n) /\ o + 2 + i \in 1..(((o + 2) + n) + m)
    BY <1>2
  <2> QED BY <1>10, <1>11, <1>12, <2>1 DEF Joined
<1>16. ASSUME NEW i \in 1..m PROVE S[o + 2 + n + i] = e[i]
  <2>1. o + 2 + n + i \in 1..(((o + 2) + n) + m)
    BY <1>2
  <2> QED BY <1>11, <1>12, <2>1 DEF Joined
<1>17. /\ S[LinkAt(j)] = c[1] /\ S[(LinkAt(j) + 2) - 1] = c[2] /\ S[LinkAt(j) + 2] = c[3]
       /\ IsSeq(S, LinkAt(j) + 2)
  <2>1. /\ LinkAt(j) = (((o + 2) + n) + m) + 1 /\ (LinkAt(j) + 2) - 1 = (((o + 2) + n) + m) + 2
        /\ LinkAt(j) + 2 = (((o + 2) + n) + m) + 3
        /\ 1 \in 1..3 /\ 2 \in 1..3 /\ 3 \in 1..3
    BY <1>2
  <2> QED BY <1>12, <2>1 DEF Joined
<1>18. o # 0 => /\ S[1] = MakeDirectory({"roots"})
                /\ \A i \in 1..n : S[1 + i] = Produce(File("roots", C(i)), {})
                /\ S[n + 2].op = "nm"
                /\ S[n + 3] = Remove({"roots"})
  <2>1. SUFFICES ASSUME o # 0
                 PROVE  /\ S[1] = MakeDirectory({"roots"})
                        /\ \A i \in 1..n : S[1 + i] = Produce(File("roots", C(i)), {})
                        /\ S[n + 2].op = "nm"
                        /\ S[n + 3] = Remove({"roots"})
    OBVIOUS
  <2>2. /\ o = n + 3 /\ r[1] = MakeDirectory({"roots"})
        /\ \A i \in 1..n : r[1 + i] = Produce(File("roots", C(i)), {})
        /\ r[n + 2].op = "nm" /\ r[n + 3] = Remove({"roots"})
    BY <2>1, RootsLayout DEF o, n, r
  <2>3. /\ 1 \in 1..o /\ n + 2 \in 1..o /\ n + 3 \in 1..o
        /\ \A i \in 1..n : 1 + i \in 1..o
    BY <1>2, <2>2
  <2> QED BY <1>13, <2>2, <2>3
<1>19. LinkAt(j) + 2 = LinkAt(j) + Maps(j) + 2
  BY <1>2
<1>20. "objects" \in D /\ "stage" \in D
  BY DEF D
<1>21. /\ j.mode # "mapped"
  OBVIOUS
<1> DEFINE new == {art}
<1>22. art \in new /\ \A f \in new : f[1] \in D \cap {"objects", "stage", "map"} /\ f[2] \in {Artifact, LinkMap}
  BY <1>8, <1>20
<1> HIDE DEF new
<1>23. S[LinkAt(j)] = Link(new, from)
  BY <1>6, <1>17 DEF new
<1>24. Layout(j, S, LinkAt(j) + 2, D, art, new)
  BY <1>3, <1>4, <1>5, <1>6, <1>8, <1>14, <1>15, <1>16, <1>17, <1>18, <1>19, <1>20, <1>21,
     <1>22, <1>23 DEF Layout, o, n, m, from
<1> QED BY <1>24 DEF S, D, art, new

LEMMA FreestandingLayout ==
    ASSUME NEW j \in Jobs, j.mode \in {"freestanding", "mapped"},
           NEW D, D = {"objects"} \cup (IF j.mode = "mapped" THEN {"map"} ELSE {}),
           NEW new, new = {File("objects", Artifact)}
                             \cup (IF j.mode = "mapped" THEN {File("map", LinkMap)} ELSE {})
    PROVE  Layout(j, Steps(j), 5 + Maps(j), D, File("objects", Artifact), new)
<1> DEFINE art == File("objects", Artifact)
           e == Maps(j)
           a == <<MakeDirectory(D), Produce(File("objects", Psl), {}),
                  Link(new, {File("objects", Psl)})>>
           b == IF j.mode = "mapped" THEN <<RenameMap(File("map", LinkMap))>> ELSE <<>>
           c == <<Rename(art), Remove(D)>>
           ab == a \o b
           S == Steps(j)
<1>1. S = ab \o c
  BY DEF Steps, LinkFreestanding
<1>2. /\ j.sources = 0 /\ j.modules = 0 /\ Offset(j) = 0 /\ e \in {0, 1} /\ LinkAt(j) = 3
  BY JobFacts DEF Offset, LinkAt
<1>3. /\ IsSeq(a, 3) /\ a[1] = MakeDirectory(D) /\ a[2] = Produce(File("objects", Psl), {})
      /\ a[3] = Link(new, {File("objects", Psl)})
  BY Tuples
<1>4. /\ IsSeq(b, e)
      /\ j.mode = "mapped" => e = 1 /\ b[1] = RenameMap(File("map", LinkMap))
  <2>1. CASE j.mode = "mapped"
    BY <2>1, Tuples DEF Maps
  <2>2. CASE j.mode # "mapped"
    <3>1. IsSeq(<<>>, 0)
      BY DEF IsSeq
    <3> QED BY <2>2, <3>1 DEF Maps
  <2> QED BY <2>1, <2>2
<1>5. IsSeq(c, 2) /\ c[1] = Rename(art) /\ c[2] = Remove(D)
  BY Tuples
<1>6. /\ art[2] = Artifact /\ art[1] = "objects" /\ "objects" \in D /\ art \in new
      /\ \A f \in new : f[1] \in D \cap {"objects", "stage", "map"} /\ f[2] \in {Artifact, LinkMap}
  BY DEF File
<1>7. {File("objects", Psl)} = {File("objects", Psl)} \cup {File("objects", C(i)) : i \in 1..j.sources}
                       \cup {File("objects", Runtime(i)) : i \in 1..j.modules}
  BY <1>2
<1> HIDE DEF a, b, c
<1>8. Joined(ab, a, 3, b, e)
  BY <1>3, <1>4, Concatenation
<1>9. Joined(S, ab, 3 + e, c, 2)
  <2>1. IsSeq(ab, 3 + e)
    BY <1>8 DEF Joined
  <2> QED BY <1>1, <1>5, <2>1, Concatenation
<1> HIDE DEF ab, S, e, art
<1>10. ASSUME NEW i \in 1..3 PROVE S[i] = a[i]
  <2>1. i \in 1..(3 + e)
    BY <1>2
  <2> QED BY <1>8, <1>9, <2>1 DEF Joined
<1>11. j.mode = "mapped" => S[4] = b[1]
  <2>1. SUFFICES ASSUME j.mode = "mapped" PROVE S[4] = b[1]
    OBVIOUS
  <2>2. e = 1 /\ 1 \in 1..e /\ 4 \in 1..(3 + e) /\ 3 + 1 = 4
    BY <1>4, <2>1
  <2>3. ab[4] = b[1]
    BY <1>8, <2>2 DEF Joined
  <2> QED BY <1>9, <2>2, <2>3 DEF Joined
<1>12. S[(5 + e) - 1] = c[1] /\ S[5 + e] = c[2] /\ IsSeq(S, 5 + e)
  <2>1. (5 + e) - 1 = (3 + e) + 1 /\ 5 + e = (3 + e) + 2 /\ 1 \in 1..2 /\ 2 \in 1..2
    BY <1>2
  <2> QED BY <1>9, <2>1 DEF Joined
<1>13. S[1] = a[1] /\ S[2] = a[2] /\ S[3] = a[3]
  <2>1. 1 \in 1..3 /\ 2 \in 1..3 /\ 3 \in 1..3
    OBVIOUS
  <2> QED BY <1>10, <2>1
<1>14. 5 + e = LinkAt(j) + Maps(j) + 2 /\ 0 + 1 = 1 /\ 0 + 2 = 2 /\ LinkAt(j) + 1 = 4
  BY <1>2 DEF e
<1>15. 1..j.sources = {} /\ 1..j.modules = {}
  BY <1>2
<1>16. Layout(j, S, 5 + e, D, art, new)
  BY <1>2, <1>3, <1>4, <1>5, <1>6, <1>7, <1>11, <1>12, <1>13, <1>14, <1>15 DEF Layout
<1> QED BY <1>16 DEF S, e, art

LEMMA LayoutOf ==
    ASSUME NEW j \in Jobs, j.mode # "direct"
    PROVE  \E D, art, new : Layout(j, Steps(j), Len(Steps(j)), D, art, new)
<1>1. \E L, D, art, new : Layout(j, Steps(j), L, D, art, new)
  <2>1. j.mode \in {"merge", "link", "freestanding", "mapped"}
    BY JobFacts
  <2>2. CASE j.mode = "merge"
    BY <2>2, MergeLayout
  <2>3. CASE j.mode = "link"
    BY <2>3, LinkLayout
  <2>4. CASE j.mode \in {"freestanding", "mapped"}
    BY <2>4, FreestandingLayout
  <2> QED BY <2>1, <2>2, <2>3, <2>4
<1>2. PICK L, D, art, new : Layout(j, Steps(j), L, D, art, new)
  BY <1>1
<1>3. IsSeq(Steps(j), L)
  BY <1>2 DEF Layout
<1>4. Len(Steps(j)) = L
  BY <1>3, SeqLen
<1> QED BY <1>2, <1>4

\* Which step has which number.
LEMMA Numbers ==
    ASSUME NEW j \in Jobs, NEW S, NEW L, NEW D, NEW art, NEW new,
           Layout(j, S, L, D, art, new), NEW i \in 1..L
    PROVE  \/ /\ i <= Offset(j)
              /\ \/ S[i] = MakeDirectory({"roots"})
                 \/ \E k \in 1..j.sources : S[i] = Produce(File("roots", C(k)), {})
                 \/ S[i].op = "nm"
                 \/ i = Offset(j) /\ S[i] = Remove({"roots"})
           \/ i = Offset(j) + 1 /\ S[i] = MakeDirectory(D)
           \/ /\ i > Offset(j) + 1 /\ i < LinkAt(j)
              /\ \E f \in Parts(j) : S[i] = Produce(File("objects", f), {})
           \/ i = LinkAt(j)
           \/ /\ i = LinkAt(j) + 1 /\ i < L - 1 /\ j.mode = "mapped"
              /\ S[i] = RenameMap(File("map", LinkMap))
           \/ i = L - 1 /\ i > LinkAt(j) /\ S[i] = Rename(art)
           \/ i = L /\ S[i] = Remove(D)
<1> DEFINE n == j.sources
           m == j.modules
           o == Offset(j)
           e == Maps(j)
<1>1. /\ n \in Nat /\ m \in Nat /\ o \in Nat /\ e \in {0, 1}
      /\ LinkAt(j) = o + n + m + 3 /\ L = o + n + m + 5 + e /\ L \in Nat
      /\ (e = 1 => j.mode = "mapped") /\ (o = 0 \/ o = n + 3)
  BY JobFacts DEF LinkAt, Layout, Maps, Offset
<1> HIDE DEF o, e, n, m
<1>2. CASE i \in 1..o
  <2>1. /\ o # 0 /\ o = n + 3
        /\ S[1] = MakeDirectory({"roots"})
        /\ \A k \in 1..n : S[1 + k] = Produce(File("roots", C(k)), {})
        /\ S[n + 2].op = "nm"
        /\ S[n + 3] = Remove({"roots"})
    BY <1>1, <1>2 DEF Layout, o, n
  <2>2. i = 1 \/ i - 1 \in 1..n \/ i = n + 2 \/ i = n + 3
    BY <1>1, <1>2, <2>1
  <2>3. i - 1 \in 1..n => S[i] = Produce(File("roots", C(i - 1)), {})
    <3>1. 1 + (i - 1) = i
      BY <1>1, <1>2
    <3> QED BY <2>1, <3>1
  <2>4. i <= o
    BY <1>1, <1>2
  <2> QED BY <2>1, <2>2, <2>3, <2>4 DEF o, n
<1>3. CASE i = o + 1
  BY <1>3 DEF Layout, o
<1>4. CASE i = o + 2
  <2>1. S[i] = Produce(File("objects", Psl), {}) /\ i > o + 1 /\ i < LinkAt(j) /\ Psl \in Parts(j)
    BY <1>1, <1>4 DEF Layout, o, Parts
  <2> QED BY <2>1 DEF o
<1>5. CASE i \in (o + 3)..(o + 2 + n)
  <2>1. i - (o + 2) \in 1..n /\ o + 2 + (i - (o + 2)) = i /\ i > o + 1 /\ i < LinkAt(j)
    BY <1>1, <1>5
  <2>2. S[o + 2 + (i - (o + 2))] = Produce(File("objects", C(i - (o + 2))), {})
    BY <2>1 DEF Layout, o, n
  <2>3. C(i - (o + 2)) \in Parts(j)
    BY <2>1 DEF Parts, n
  <2> QED BY <2>1, <2>2, <2>3 DEF o
<1>6. CASE i \in (o + 3 + n)..(o + 2 + n + m)
  <2>1. i - (o + 2 + n) \in 1..m /\ o + 2 + n + (i - (o + 2 + n)) = i /\ i > o + 1 /\ i < LinkAt(j)
    BY <1>1, <1>6
  <2>2. S[o + 2 + n + (i - (o + 2 + n))] = Produce(File("objects", Runtime(i - (o + 2 + n))), {})
    BY <2>1 DEF Layout, o, n, m
  <2>3. Runtime(i - (o + 2 + n)) \in Parts(j)
    BY <2>1 DEF Parts, m
  <2> QED BY <2>1, <2>2, <2>3 DEF o
<1>7. CASE i = LinkAt(j) + 1 /\ e = 1
  <2>1. i < L - 1 /\ j.mode = "mapped"
    BY <1>1, <1>7
  <2> QED BY <1>7, <2>1 DEF Layout
<1>8. CASE i = L - 1
  <2>1. i > LinkAt(j)
    BY <1>1, <1>8
  <2> QED BY <1>8, <2>1 DEF Layout
<1>9. CASE i = L
  BY <1>9 DEF Layout
<1>10. \/ i \in 1..o \/ i = o + 1 \/ i = o + 2 \/ i \in (o + 3)..(o + 2 + n)
       \/ i \in (o + 3 + n)..(o + 2 + n + m) \/ i = LinkAt(j) \/ (i = LinkAt(j) + 1 /\ e = 1)
       \/ i = L - 1 \/ i = L
  BY <1>1
<1> QED BY <1>2, <1>3, <1>4, <1>5, <1>6, <1>7, <1>8, <1>9, <1>10

\* The operations of the steps.
LEMMA Operations ==
    /\ \A D : MakeDirectory(D).op = "mkdtemp" /\ MakeDirectory(D).dirs = D
    /\ \A f, F : /\ Produce(f, F).op = "produce" /\ Produce(f, F).new = {f}
                 /\ Produce(f, F).from = F /\ Produce(f, F).part = {f[2]}
    /\ \A N, F : /\ Link(N, F).op = "produce" /\ Link(N, F).new = N
                 /\ Link(N, F).from = F /\ Link(N, F).part = {}
    /\ \A D : Remove(D).op = "remove" /\ Remove(D).dirs = D
    /\ \A f : Rename(f).op = "rename" /\ Rename(f).file = f
    /\ \A f : RenameMap(f).op = "map" /\ RenameMap(f).file = f
    /\ \A d, n : File(d, n)[1] = d /\ File(d, n)[2] = n
  BY DEF MakeDirectory, Produce, Link, Remove, Rename, RenameMap, File

\* The first removal at or after a step.
LEMMA FirstRemoval ==
    ASSUME NEW j, Len(Steps(j)) \in Nat, NEW i \in Nat, Removals(j, i) # {}
    PROVE  /\ NextRemoval(j, i) \in Removals(j, i)
           /\ \A l \in Removals(j, i) : NextRemoval(j, i) <= l
<1>1. Removals(j, i) \subseteq Nat
  BY DEF Removals
<1>2. \E k \in Removals(j, i) : \A l \in Removals(j, i) : k <= l
  BY <1>1, Least
<1> QED BY <1>2 DEF NextRemoval

\* A step that removes nothing does not change what the next cleanup removes.
LEMMA ReclaimedNext ==
    ASSUME NEW j, Len(Steps(j)) \in Nat, NEW i \in 1..Len(Steps(j)),
           Steps(j)[i].op # "remove"
    PROVE  Reclaimed(j, i + 1) = Reclaimed(j, i)
<1>1. Removals(j, i + 1) = Removals(j, i)
  BY DEF Removals
<1>2. NextRemoval(j, i + 1) = NextRemoval(j, i)
  BY <1>1 DEF NextRemoval
<1> QED BY <1>1, <1>2 DEF Reclaimed

\* At a cleanup, all its directories are removed.
LEMMA ReclaimedAt ==
    ASSUME NEW j, Len(Steps(j)) \in Nat, NEW i \in 1..Len(Steps(j)),
           Steps(j)[i].op = "remove"
    PROVE  Reclaimed(j, i) = Steps(j)[i].dirs
<1>1. i \in Removals(j, i) /\ \A k \in Removals(j, i) : k \in Nat /\ i <= k
  BY DEF Removals
<1>2. NextRemoval(j, i) = i
  BY <1>1, FirstRemoval
<1> QED BY <1>1, <1>2 DEF Reclaimed

LEMMA ReclaimedEnd ==
    ASSUME NEW j, Len(Steps(j)) \in Nat
    PROVE  Reclaimed(j, Len(Steps(j)) + 1) = {}
  BY DEF Reclaimed, Removals

\* What the cleanups of a job that renames remove.
LEMMA ReclaimedBy ==
    ASSUME NEW j \in Jobs, NEW D, NEW art, NEW new,
           Layout(j, Steps(j), Len(Steps(j)), D, art, new), NEW i \in 1..Len(Steps(j))
    PROVE  Reclaimed(j, i) = IF i <= Offset(j) THEN {"roots"} ELSE D
<1> DEFINE S == Steps(j)
           L == Len(S)
           o == Offset(j)
<1>0. /\ L \in Nat /\ o \in Nat /\ LinkAt(j) \in Nat /\ o + 3 <= LinkAt(j) /\ LinkAt(j) + 2 <= L
      /\ (o = 0 \/ o = j.sources + 3)
  <2>1. L = LinkAt(j) + Maps(j) + 2
    BY DEF Layout
  <2> DEFINE n == j.sources
             m == j.modules
  <2>2. n \in Nat /\ m \in Nat /\ o \in Nat /\ Maps(j) \in {0, 1}
    BY JobFacts
  <2>3. LinkAt(j) = o + n + m + 3
    BY DEF LinkAt
  <2>4. o = 0 \/ o = n + 3
    BY DEF Offset
  <2> HIDE DEF L, o, n, m
  <2>5. LinkAt(j) \in Nat /\ o + 3 <= LinkAt(j)
    BY <2>2, <2>3
  <2>6. L \in Nat /\ LinkAt(j) + 2 <= L
    BY <2>1, <2>2, <2>5
  <2> QED BY <2>2, <2>4, <2>5, <2>6 DEF n
<1>1. S[L] = Remove(D) /\ S[L].op = "remove" /\ S[L].dirs = D
  BY Operations DEF Layout
<1>2. o # 0 => S[o].op = "remove" /\ S[o].dirs = {"roots"}
  BY <1>0, Operations DEF Layout
<1>3. ASSUME NEW k \in 1..L, S[k].op = "remove" PROVE k = L \/ k = o
  <2>1. S[LinkAt(j)].op = "produce"
    BY Operations DEF Layout
  <2>2. Layout(j, S, L, D, art, new)
    OBVIOUS
  <2> HIDE DEF S, L
  <2> QED BY <1>3, <2>1, <2>2, Numbers, Operations DEF o
<1>4. CASE i <= o
  <2>1. o \in Removals(j, i) /\ \A k \in Removals(j, i) : k = L \/ k = o
    BY <1>0, <1>2, <1>3, <1>4 DEF Removals
  <2>2. NextRemoval(j, i) = o
    BY <1>0, <2>1, FirstRemoval
  <2> QED BY <1>0, <1>2, <1>4, <2>1, <2>2 DEF Reclaimed
<1>5. CASE ~ (i <= o)
  <2>1. L \in Removals(j, i) /\ \A k \in Removals(j, i) : k = L
    BY <1>0, <1>1, <1>3, <1>5 DEF Removals
  <2>2. NextRemoval(j, i) = L
    BY <1>0, <2>1, FirstRemoval
  <2> QED BY <1>1, <1>5, <2>1, <2>2 DEF Reclaimed
<1> QED BY <1>4, <1>5

\* What the proofs use of the steps of a job that renames.
LEMMA RenamingSteps ==
    ASSUME NEW j \in Jobs, j.mode # "direct"
    PROVE  /\ Len(Steps(j)) \in Nat /\ Len(Steps(j)) >= 2
           /\ Steps(j)[Len(Steps(j))].op = "remove"
           /\ Steps(j)[Len(Steps(j)) - 1].op = "rename"
           /\ \A i \in 1..Len(Steps(j)) :
                 /\ Steps(j)[i].op \notin {"open", "write"}
                 /\ Steps(j)[i].op = "rename" => i = Len(Steps(j)) - 1
                 /\ Steps(j)[i].op = "mkdtemp" => Steps(j)[i].dirs \subseteq Reclaimed(j, i)
                 /\ Steps(j)[i].op = "map" => Steps(j)[i].file[2] = LinkMap
                 /\ Steps(j)[i].op = "produce" =>
                       \A f \in Steps(j)[i].new : f[1] \in Reclaimed(j, i)
           /\ j.mode = "mapped" => \E i \in 1..(Len(Steps(j)) - 2) : Steps(j)[i].op = "map"
<1>1. PICK D, art, new : Layout(j, Steps(j), Len(Steps(j)), D, art, new)
  BY LayoutOf
<1> DEFINE S == Steps(j)
           L == Len(S)
           o == Offset(j)
<1>2. /\ L \in Nat /\ o \in Nat /\ LinkAt(j) \in Nat /\ o + 3 <= LinkAt(j)
      /\ Maps(j) \in {0, 1} /\ L = LinkAt(j) + Maps(j) + 2
      /\ (j.mode = "mapped" => Maps(j) = 1)
  <2>1. L = LinkAt(j) + Maps(j) + 2
    BY <1>1 DEF Layout
  <2> QED BY <2>1, JobFacts DEF LinkAt, Maps
<1>3. /\ S[L].op = "remove" /\ S[L - 1].op = "rename"
      /\ S[LinkAt(j)].op = "produce" /\ S[LinkAt(j)].new = new
      /\ \A f \in new : f[1] \in D
      /\ "objects" \in D
      /\ j.mode = "mapped" => S[LinkAt(j) + 1].op = "map"
  BY <1>1, Operations DEF Layout
<1>4. Layout(j, S, L, D, art, new)
  BY <1>1
<1>5. \A i \in 1..L : Reclaimed(j, i) = IF i <= o THEN {"roots"} ELSE D
  BY <1>1, ReclaimedBy
<1> HIDE DEF S, L, o
<1>6. ASSUME NEW i \in 1..L
      PROVE  /\ S[i].op \notin {"open", "write"}
             /\ S[i].op = "rename" => i = L - 1
             /\ S[i].op = "mkdtemp" => S[i].dirs \subseteq Reclaimed(j, i)
             /\ S[i].op = "map" => S[i].file[2] = LinkMap
             /\ S[i].op = "produce" => \A f \in S[i].new : f[1] \in Reclaimed(j, i)
  <2>1. Reclaimed(j, i) = IF i <= o THEN {"roots"} ELSE D
    BY <1>5
  <2>2. CASE /\ i <= o
             /\ \/ S[i] = MakeDirectory({"roots"})
                \/ \E k \in 1..j.sources : S[i] = Produce(File("roots", C(k)), {})
                \/ S[i].op = "nm"
                \/ i = o /\ S[i] = Remove({"roots"})
    BY <2>1, <2>2, Operations
  <2>3. CASE i = o + 1 /\ S[i] = MakeDirectory(D)
    BY <1>2, <2>1, <2>3, Operations
  <2>4. CASE /\ i > o + 1 /\ i < LinkAt(j)
             /\ \E f \in Parts(j) : S[i] = Produce(File("objects", f), {})
    BY <1>2, <1>3, <2>1, <2>4, Operations
  <2>5. CASE i = LinkAt(j)
    BY <1>2, <1>3, <2>1, <2>5
  <2>6. CASE S[i] = RenameMap(File("map", LinkMap))
    BY <2>6, Operations
  <2>7. CASE i = L - 1 /\ S[i] = Rename(art)
    BY <2>7, Operations
  <2>8. CASE S[i] = Remove(D)
    BY <2>8, Operations
  <2> QED BY <1>4, <2>2, <2>3, <2>4, <2>5, <2>6, <2>7, <2>8, Numbers DEF o
<1>7. j.mode = "mapped" => \E i \in 1..(L - 2) : S[i].op = "map"
  <2>1. j.mode = "mapped" => LinkAt(j) + 1 \in 1..(L - 2)
    BY <1>2
  <2> QED BY <1>3, <2>1
<1>8. L >= 2
  BY <1>2
<1> QED BY <1>2, <1>3, <1>6, <1>7, <1>8 DEF S, L

\* The tools: one that is no link makes one part from nothing, and the link finds
\* every part that it reads in place, and reads all of them.
LEMMA ProducingSteps ==
    ASSUME NEW j \in Jobs, j.mode # "direct",
           NEW i \in 1..Len(Steps(j)), Steps(j)[i].op = "produce"
    PROVE  \/ /\ Steps(j)[i].from = {} /\ Steps(j)[i].part # {}
              /\ \A f \in Steps(j)[i].new : Steps(j)[i].part = {f[2]}
                                            /\ f[2] \notin {Artifact, LinkMap}
           \/ /\ Steps(j)[i].part = {}
              /\ \A f \in Steps(j)[i].new : f[2] \in {Artifact, LinkMap}
              /\ Parts(j) = {f[2] : f \in Steps(j)[i].from}
              /\ \A f \in Steps(j)[i].from :
                    /\ f[2] # LinkMap
                    /\ \E k \in 1..Len(Steps(j)) :
                          /\ Stands(j, k, i) /\ f \in Steps(j)[k].new
                          /\ Steps(j)[k].part = {f[2]}
<1>1. PICK D, art, new : Layout(j, Steps(j), Len(Steps(j)), D, art, new)
  BY LayoutOf
<1> DEFINE S == Steps(j)
           L == Len(S)
           o == Offset(j)
           n == j.sources
           m == j.modules
           from == {File("objects", Psl)} \cup {File("objects", C(k)) : k \in 1..n}
                       \cup {File("objects", Runtime(k)) : k \in 1..m}
<1>2. /\ L \in Nat /\ o \in Nat /\ LinkAt(j) = o + n + m + 3 /\ LinkAt(j) <= L
      /\ n \in Nat /\ m \in Nat
  <2>1. L = LinkAt(j) + Maps(j) + 2
    BY <1>1 DEF Layout
  <2> QED BY <2>1, JobFacts DEF LinkAt, Maps
<1>3. /\ S[LinkAt(j)].op = "produce" /\ S[LinkAt(j)].new = new /\ S[LinkAt(j)].part = {}
      /\ S[LinkAt(j)].from = from
      /\ \A f \in new : f[2] \in {Artifact, LinkMap}
  BY <1>1, Operations DEF Layout
<1>4. Layout(j, S, L, D, art, new)
  BY <1>1
<1>5. \A f \in Parts(j) : f \notin {Artifact, LinkMap}
  BY DEF Parts, Psl, C, Runtime, Artifact, LinkMap
<1>6. \A k : C(k) \notin {Artifact, LinkMap}
  BY DEF C, Artifact, LinkMap
<1>7. Parts(j) = {f[2] : f \in from}
  BY Operations DEF Parts
<1> HIDE DEF S, L, o, n, m
<1>8. CASE i = LinkAt(j)
  <2>1. ASSUME NEW f \in from
        PROVE  \E k \in (o + 2)..(LinkAt(j) - 1) : S[k] = Produce(f, {})
    <3>1. CASE f = File("objects", Psl)
      <4>1. o + 2 \in (o + 2)..(LinkAt(j) - 1)
        BY SMTT(40), <1>2
      <4>2. S[o + 2] = Produce(f, {})
        BY <1>4, <3>1 DEF Layout, o
      <4> QED BY <4>1, <4>2
    <3>2. ASSUME NEW k \in 1..n, f = File("objects", C(k))
          PROVE  \E l \in (o + 2)..(LinkAt(j) - 1) : S[l] = Produce(f, {})
      <4>1. o + 2 + k \in (o + 2)..(LinkAt(j) - 1)
        BY SMTT(40), <1>2
      <4>2. S[o + 2 + k] = Produce(f, {})
        BY <1>4, <3>2 DEF Layout, o, n
      <4> QED BY <4>1, <4>2
    <3>3. ASSUME NEW k \in 1..m, f = File("objects", Runtime(k))
          PROVE  \E l \in (o + 2)..(LinkAt(j) - 1) : S[l] = Produce(f, {})
      <4>1. o + 2 + n + k \in (o + 2)..(LinkAt(j) - 1)
        BY SMTT(40), <1>2
      <4>2. S[o + 2 + n + k] = Produce(f, {})
        BY <1>4, <3>3 DEF Layout, o, n, m
      <4> QED BY <4>1, <4>2
    <3> QED BY <3>1, <3>2, <3>3
  <2>2. ASSUME NEW l \in (o + 2)..(LinkAt(j) - 1) PROVE S[l].op = "produce"
    <3>1. l \in 1..L /\ ~ (l <= o) /\ l # o + 1 /\ l < LinkAt(j)
      BY <1>2
    <3>2. \E f \in Parts(j) : S[l] = Produce(File("objects", f), {})
      <4>2. L = LinkAt(j) + Maps(j) + 2 /\ Maps(j) \in {0, 1}
        BY <1>4, JobFacts DEF Layout
      <4>3. l # LinkAt(j) + 1 /\ l # L - 1 /\ l # L
        BY <1>2, <3>1, <4>2
      <4> QED BY <1>4, <3>1, <4>3, Numbers DEF o
    <3> QED BY <3>2, Operations
  <2>3. ASSUME NEW f \in from
        PROVE  /\ f[2] # LinkMap
               /\ \E k \in 1..L : /\ Stands(j, k, i) /\ f \in S[k].new /\ S[k].part = {f[2]}
    <3>1. PICK k \in (o + 2)..(LinkAt(j) - 1) : S[k] = Produce(f, {})
      BY <2>1
    <3>2. k \in 1..L /\ k < i
      BY SMTT(40), <1>2, <1>8
    <3>3. \A l \in k..(i - 1) : l \in (o + 2)..(LinkAt(j) - 1)
      BY <1>2, <1>8
    <3>4. Stands(j, k, i)
      BY <2>2, <3>1, <3>2, <3>3, Operations DEF Stands, S
    <3>5. f \in S[k].new /\ S[k].part = {f[2]}
      BY <3>1, Operations
    <3>6. f[2] # LinkMap
      BY <1>5, <1>7
    <3> QED BY <3>2, <3>4, <3>5, <3>6
  <2> QED BY <1>3, <1>7, <1>8, <2>3 DEF S, L
<1>9. CASE i # LinkAt(j)
  <2>0. i \in 1..L /\ S[i].op = "produce"
    BY DEF S, L
  <2>1. \E f : S[i] = Produce(f, {}) /\ f[2] \notin {Artifact, LinkMap}
    BY <1>4, <1>5, <1>6, <1>9, <2>0, Numbers, Operations
  <2>2. PICK f : S[i] = Produce(f, {}) /\ f[2] \notin {Artifact, LinkMap}
    BY <2>1
  <2>3. S[i].from = {} /\ S[i].new = {f} /\ S[i].part = {f[2]}
    BY <2>2, Operations
  <2> QED BY <2>2, <2>3 DEF S
<1> QED BY <1>8, <1>9

\* What is renamed is what the link has made.
LEMMA RenamedFile ==
    ASSUME NEW j \in Jobs, j.mode # "direct"
    PROVE  /\ Steps(j)[Len(Steps(j)) - 1].file[2] # LinkMap
           /\ \E k \in 1..Len(Steps(j)) :
                 /\ Stands(j, k, Len(Steps(j)) - 1) /\ Steps(j)[k].part = {}
                 /\ Steps(j)[Len(Steps(j)) - 1].file \in Steps(j)[k].new
<1>1. PICK D, art, new : Layout(j, Steps(j), Len(Steps(j)), D, art, new)
  BY LayoutOf
<1> DEFINE S == Steps(j)
           L == Len(S)
           k == LinkAt(j)
<1>2. /\ k \in Nat /\ Maps(j) \in {0, 1} /\ L = k + Maps(j) + 2
      /\ k \in 1..(L - 2) /\ L \in Nat
  <2>1. L = k + Maps(j) + 2
    BY <1>1 DEF Layout
  <2>2. k \in Nat /\ Maps(j) \in {0, 1}
    BY JobFacts
  <2>3. j.sources \in Nat /\ j.modules \in Nat /\ Offset(j) \in Nat
    BY JobFacts
  <2>4. k > 0
    BY <2>3 DEF LinkAt
  <2> HIDE DEF L, k
  <2> QED BY <2>1, <2>2, <2>4
<1>3. /\ S[k].op = "produce" /\ S[k].part = {} /\ S[k].new = new /\ art \in new
      /\ S[L - 1].file = art /\ art[2] = Artifact
  BY <1>1, Operations DEF Layout
<1>4. \A l \in k..(L - 2) : S[l].op \notin {"remove", "rename"}
  <2>1. SUFFICES ASSUME NEW l \in k..(L - 2) PROVE S[l].op \notin {"remove", "rename"}
    OBVIOUS
  <2>2. Layout(j, S, L, D, art, new)
    BY <1>1
  <2>3. l \in 1..L /\ ~ (l < k) /\ l # L /\ l # L - 1
    <3> HIDE DEF L, k
    <3> QED BY <1>2
  <2>4. ~ (l <= Offset(j)) /\ l # Offset(j) + 1
    <3>1. Offset(j) + 3 <= k /\ Offset(j) \in Nat
      <4> DEFINE n == j.sources
                 m == j.modules
                 o == Offset(j)
      <4>1. n \in Nat /\ m \in Nat /\ o \in Nat
        BY JobFacts
      <4>2. k = o + n + m + 3
        BY DEF LinkAt
      <4> HIDE DEF k, n, m, o
      <4> QED BY <4>1, <4>2 DEF o
    <3> HIDE DEF L, k
    <3> QED BY <1>2, <2>3, <3>1
  <2> HIDE DEF S, L
  <2> QED BY <1>3, <2>2, <2>3, <2>4, Numbers, Operations
<1>5. Artifact # LinkMap
  BY DEF Artifact, LinkMap
<1>6. Stands(j, k, L - 1)
  <2>1. k < L - 1 /\ (L - 1) - 1 = L - 2
    <3> HIDE DEF L, k
    <3> QED BY <1>2
  <2> QED BY <1>3, <1>4, <2>1 DEF Stands
<1>7. k \in 1..L
  <2> HIDE DEF L, k
  <2> QED BY <1>2
<1> QED BY <1>3, <1>5, <1>6, <1>7

\* A job that writes in place.
LEMMA DirectSteps ==
    ASSUME NEW j, j.mode = "direct"
    PROVE  /\ Len(Steps(j)) = 3
           /\ Steps(j)[1].op = "open"
           /\ Steps(j)[2].op = "write" /\ Steps(j)[2].half = 1
           /\ Steps(j)[3].op = "write" /\ Steps(j)[3].half = 2
           /\ \A i \in 1..3 : Steps(j)[i].op \in {"open", "write"}
<1>1. Steps(j) = Direct
  BY DEF Steps
<1>2. /\ Len(Direct) = 3 /\ Direct[1].op = "open"
      /\ Direct[2].op = "write" /\ Direct[2].half = 1
      /\ Direct[3].op = "write" /\ Direct[3].half = 2
  BY DEF Direct
<1>3. \A i \in 1..3 : i = 1 \/ i = 2 \/ i = 3
  OBVIOUS
<1> QED BY <1>1, <1>2, <1>3

LEMMA StepCount ==
    ASSUME NEW j \in Jobs
    PROVE  Len(Steps(j)) \in Nat /\ Len(Steps(j)) >= 2
<1>1. CASE j.mode = "direct"
  BY <1>1, DirectSteps
<1>2. CASE j.mode # "direct"
  BY <1>2, RenamingSteps
<1> QED BY <1>1, <1>2

-----------------------------------------------------------------------------
(* Moving from step to step                                                *)

Count(p) == Len(Steps(job[p]))

\* What a process does at a step that is no cleanup.
Works(p) ==
    MakeTemporary(p) \/ RunTool(p) \/ ReadSymbols(p) \/ RenameOutput(p)
        \/ RenameLinkMap(p) \/ Open(p) \/ Write(p)

LEMMA Working ==
    ASSUME TypeOK, FailureOK, NEW p \in Process, Works(p)
    PROVE  /\ status[p] = "running" /\ pc[p] \in 1..Count(p) /\ Step(p).op # "remove"
           /\ ~ failed[p]
           /\ UNCHANGED <<job, status>>
           /\ Continue(p) \/ Cleanup(p)
<1>1. /\ status[p] = "running" /\ pc[p] <= Count(p) /\ Step(p).op # "remove"
  BY DEF Works, MakeTemporary, RunTool, ReadSymbols, RenameOutput, RenameLinkMap, Open,
         Write, At, Count
<1>2. UNCHANGED <<job, status>> /\ (Continue(p) \/ Cleanup(p))
  BY DEF Works, MakeTemporary, RunTool, ReadSymbols, RenameOutput, RenameLinkMap, Open, Write
<1>3. Count(p) \in Nat /\ pc[p] \in 1..(Count(p) + 1)
  BY StepCount DEF TypeOK, Count
<1>4. pc[p] \in 1..Count(p)
  BY <1>1, <1>3
<1>5. ~ failed[p]
  BY <1>1, <1>3, <1>4 DEF FailureOK, Count
<1> QED BY <1>1, <1>2, <1>4, <1>5

\* Where it goes from there, and that the next cleanup stays the same.
LEMMA Advancing ==
    ASSUME TypeOK, FailureOK, NEW p \in Process, Works(p)
    PROVE  /\ pc'[p] \in 1..(Count(p) + 1)
           /\ Reclaimed(job[p], pc'[p]) = Reclaimed(job[p], pc[p])
           /\ \/ failed'[p] = FALSE /\ pc'[p] = pc[p] + 1
              \/ /\ failed'[p] = TRUE
                 /\ \/ pc'[p] = Count(p) + 1
                    \/ pc'[p] \in 1..Count(p) /\ Steps(job[p])[pc'[p]].op = "remove"
           /\ \A q \in Process \ {p} : pc'[q] = pc[q] /\ failed'[q] = failed[q]
           /\ DOMAIN pc' = Process /\ failed' \in [Process -> BOOLEAN]
<1> DEFINE j == job[p]
           L == Count(p)
           i == pc[p]
<1>1. /\ L \in Nat /\ i \in 1..L /\ Step(p).op # "remove" /\ ~ failed[p]
      /\ Continue(p) \/ Cleanup(p)
  BY Working, StepCount DEF TypeOK, Count
<1>2. DOMAIN pc = Process /\ failed \in [Process -> BOOLEAN]
  BY DEF TypeOK
<1>3. Reclaimed(j, i + 1) = Reclaimed(j, i)
  BY <1>1, ReclaimedNext DEF Count, Step
<1>4. CASE Continue(p)
  <2>1. pc'[p] = i + 1 /\ failed' = failed /\ DOMAIN pc' = Process
        /\ \A q \in Process \ {p} : pc'[q] = pc[q]
    BY <1>2, <1>4 DEF Continue, Set
  <2>2. i + 1 \in 1..(L + 1)
    BY <1>1
  <2>3. failed[p] = FALSE
    BY <1>1, <1>2
  <2> QED BY <1>2, <1>3, <2>1, <2>2, <2>3
<1>5. CASE Cleanup(p)
  <2>1. Later(p) = Removals(j, i + 1)
    BY DEF Later, Removals
  <2>2. /\ failed'[p] = TRUE /\ DOMAIN pc' = Process /\ failed' \in [Process -> BOOLEAN]
        /\ pc'[p] = IF Removals(j, i + 1) = {} THEN L + 1 ELSE NextRemoval(j, i + 1)
        /\ \A q \in Process \ {p} : pc'[q] = pc[q] /\ failed'[q] = failed[q]
    BY <1>2, <1>5, <2>1 DEF Cleanup, Set, NextRemoval, Count
  <2>3. CASE Removals(j, i + 1) = {}
    <3>1. Reclaimed(j, i + 1) = {} /\ Reclaimed(j, L + 1) = {}
      BY <1>1, <2>3, ReclaimedEnd DEF Reclaimed, Count
    <3>2. L + 1 \in 1..(L + 1)
      BY <1>1
    <3> QED BY <1>3, <2>2, <2>3, <3>1, <3>2
  <2>4. CASE Removals(j, i + 1) # {}
    <3> DEFINE k == NextRemoval(j, i + 1)
    <3>1. k \in Removals(j, i + 1) /\ pc'[p] = k
      BY <1>1, <2>2, <2>4, FirstRemoval DEF Count
    <3>2. k \in 1..L /\ k \in 1..(L + 1) /\ Steps(j)[k].op = "remove"
      BY <1>1, <3>1 DEF Removals, Count
    <3>3. Reclaimed(j, k) = Steps(j)[k].dirs
      BY <1>1, <3>2, ReclaimedAt DEF Count
    <3>4. Reclaimed(j, i + 1) = Steps(j)[k].dirs
      BY <2>4 DEF Reclaimed
    <3> QED BY <1>3, <2>2, <3>1, <3>2, <3>3, <3>4
  <2> QED BY <2>3, <2>4
<1> QED BY <1>1, <1>4, <1>5

\* The cleanup.
LEMMA Removing ==
    ASSUME TypeOK, NEW p \in Process, RemoveTemporary(p)
    PROVE  /\ status[p] = "running" /\ pc[p] \in 1..Count(p) /\ Step(p).op = "remove"
           /\ UNCHANGED <<job, status, failed>>
           /\ pc'[p] = IF failed[p] THEN Count(p) + 1 ELSE pc[p] + 1
           /\ pc'[p] \in 1..(Count(p) + 1)
           /\ \A q \in Process \ {p} : pc'[q] = pc[q]
           /\ DOMAIN pc' = Process
<1>1. /\ Count(p) \in Nat /\ pc[p] \in 1..(Count(p) + 1) /\ DOMAIN pc = Process
      /\ failed[p] \in BOOLEAN
  BY StepCount DEF TypeOK, Count
<1>2. status[p] = "running" /\ pc[p] <= Count(p) /\ Step(p).op = "remove"
  BY DEF RemoveTemporary, At, Count
<1>3. /\ UNCHANGED <<job, status, failed>>
      /\ pc' = Set(pc, p, IF failed[p] THEN Count(p) + 1 ELSE pc[p] + 1)
  BY DEF RemoveTemporary, Continue, Count
<1>4. /\ pc'[p] = IF failed[p] THEN Count(p) + 1 ELSE pc[p] + 1
      /\ \A q \in Process \ {p} : pc'[q] = pc[q]
      /\ DOMAIN pc' = Process
  BY <1>1, <1>3 DEF Set
<1> QED BY <1>1, <1>2, <1>3, <1>4

Acts(p) == Works(p) \/ RemoveTemporary(p) \/ Return(p) \/ Kill(p)

LEMMA SomeoneActs ==
    ASSUME Next
    PROVE  \E p \in Process : Acts(p)
  BY DEF Next, Acts, Works

\* A process changes nothing of another one's.
LEMMA Frame ==
    ASSUME TypeOK, FailureOK, NEW p \in Process, Acts(p), NEW q \in Process, q # p
    PROVE  /\ pc'[q] = pc[q] /\ failed'[q] = failed[q] /\ status'[q] = status[q]
           /\ dirs'[q] = dirs[q] /\ files'[q] = files[q] /\ known'[q] = known[q]
           /\ stream'[q] = stream[q]
<1>1. /\ DOMAIN status = Process /\ DOMAIN dirs = Process /\ DOMAIN files = Process
      /\ DOMAIN known = Process /\ DOMAIN stream = Process
  BY DEF TypeOK
<1>2. pc'[q] = pc[q] /\ failed'[q] = failed[q]
  <2>1. CASE Works(p)
    BY <2>1, Advancing
  <2>2. CASE RemoveTemporary(p)
    BY <2>2, Removing
  <2>3. CASE Return(p) \/ Kill(p)
    BY <2>3 DEF Return, Kill
  <2> QED BY <2>1, <2>2, <2>3 DEF Acts
<1>3. status'[q] = status[q]
  BY <1>1, Working, Removing DEF Acts, Return, Kill, Set
<1>4. dirs'[q] = dirs[q] /\ known'[q] = known[q] /\ stream'[q] = stream[q]
  BY <1>1 DEF Acts, Works, MakeTemporary, RunTool, ReadSymbols, RenameOutput, RenameLinkMap,
              Open, Write, RemoveTemporary, Return, Kill, Set
<1>5. files'[q] = files[q]
  BY <1>1 DEF Acts, Works, MakeTemporary, RunTool, ReadSymbols, RenameOutput, RenameLinkMap,
              Open, Write, RemoveTemporary, Return, Kill, Set
<1> QED BY <1>2, <1>3, <1>4, <1>5

-----------------------------------------------------------------------------
(* The steps of the inductive invariant                                    *)

LEMMA SameJob ==
    ASSUME TypeOK, FailureOK, NEW p \in Process, Acts(p)
    PROVE  job' = job
  BY Working, Removing DEF Acts, Return, Kill

LEMMA TypeStep ==
    ASSUME TypeOK, FailureOK, NEW p \in Process, Acts(p)
    PROVE  TypeOK'
<1>1. job' = job
  BY SameJob
<1>2. pc' \in [Process -> Nat] /\ \A q \in Process : pc'[q] \in 1..(Len(Steps(job[q])) + 1)
  <2>1. pc \in [Process -> Nat] /\ \A q \in Process : pc[q] \in 1..(Count(q) + 1)
    BY DEF TypeOK, Count
  <2>2. DOMAIN pc' = Process /\ pc'[p] \in 1..(Count(p) + 1)
    BY <2>1, Advancing, Removing DEF Acts, Return, Kill
  <2>3. \A q \in Process : pc'[q] \in 1..(Count(q) + 1)
    BY <2>1, <2>2, Frame
  <2>4. pc' = [q \in Process |-> pc'[q]]
    <3>1. Works(p) \/ RemoveTemporary(p) \/ UNCHANGED pc
      BY DEF Acts, Return, Kill
    <3>2. Works(p) => Continue(p) \/ Cleanup(p)
      BY Working
    <3>3. \/ \E v : pc' = Set(pc, p, v)
          \/ UNCHANGED pc
      BY <3>1, <3>2 DEF Continue, Cleanup, RemoveTemporary
    <3> QED BY <2>1, <3>3 DEF Set
  <2>5. \A q \in Process : Count(q) \in Nat
    BY StepCount DEF TypeOK, Count
  <2> QED BY <2>3, <2>4, <2>5 DEF Count
<1>3. failed' \in [Process -> BOOLEAN]
  BY Advancing, Removing DEF Acts, Return, Kill, TypeOK
<1>4. status' \in [Process -> {"running", "ok", "failed", "killed"}]
  <2>1. status \in [Process -> {"running", "ok", "failed", "killed"}]
    BY DEF TypeOK
  <2> QED BY <2>1, Working, Removing DEF Acts, Return, Kill, Set
<1>5. DOMAIN dirs' = Process /\ DOMAIN known' = Process
  BY DEF TypeOK, Acts, Works, MakeTemporary, RunTool, ReadSymbols, RenameOutput, RenameLinkMap,
         Open, Write, RemoveTemporary, Return, Kill, Set
<1>6. DOMAIN files' = Process
  BY DEF TypeOK, Acts, Works, MakeTemporary, RunTool, ReadSymbols, RenameOutput, RenameLinkMap,
         Open, Write, RemoveTemporary, Return, Kill, Set
<1>7. /\ stream' \in [Process -> Inodes \cup {"none"}] /\ DOMAIN inode' = Inodes
      /\ output' \in Inodes \cup {"none"} /\ held' \subseteq Process
  <2>1. /\ stream \in [Process -> Inodes \cup {"none"}] /\ DOMAIN inode = Inodes
        /\ output \in Inodes \cup {"none"} /\ held \subseteq Process
    BY DEF TypeOK
  <2>2. p \in Inodes
    BY DEF Inodes
  <2>3. CASE RenameOutput(p)
    BY <2>1, <2>2, <2>3 DEF RenameOutput, Set
  <2>4. CASE Open(p)
    <3> DEFINE i == IF output = "none" THEN p ELSE output
    <3>1. i \in Inodes
      BY <2>1, <2>2
    <3>2. CASE stream' = Set(stream, p, i) /\ output' = stream'[p]
               /\ inode' = Set(inode, stream'[p], <<Hole, Hole>>)
      <4> HIDE DEF i
      <4> QED BY <2>1, <2>4, <3>1, <3>2 DEF Open, Set
    <3> QED BY <2>1, <2>4, <3>2 DEF Open
  <2>5. CASE Write(p)
    BY <2>1, <2>5 DEF Write
  <2>6. CASE UNCHANGED <<stream, inode, output, held>>
    BY <2>1, <2>6
  <2> QED BY <2>3, <2>4, <2>5, <2>6 DEF Acts, Works, MakeTemporary, RunTool, ReadSymbols,
         RenameLinkMap, RemoveTemporary, Return, Kill
<1>8. ASSUME NEW i \in Inodes PROVE DOMAIN inode'[i] = 1..2
  <2>1. DOMAIN inode = Inodes /\ DOMAIN inode[i] = 1..2
    BY DEF TypeOK
  <2>2. \A h : DOMAIN <<h, h>> = 1..2
    OBVIOUS
  <2>3. CASE RenameOutput(p) \/ Open(p)
    <3>1. inode' = inode \/ \E k, h : inode' = Set(inode, k, <<h, h>>)
      BY <2>3 DEF RenameOutput, Open
    <3> QED BY <2>1, <2>2, <3>1 DEF Set
  <2>4. CASE Write(p)
    <3>1. inode' = inode \/ \E k, h, v : inode' = [inode EXCEPT ![k][h] = v]
      BY <2>4 DEF Write
    <3> QED BY <2>1, <3>1
  <2>5. CASE inode' = inode
    BY <2>1, <2>5
  <2> QED BY <2>3, <2>4, <2>5 DEF Acts, Works, MakeTemporary, RunTool, ReadSymbols,
         RenameLinkMap, RemoveTemporary, Return, Kill
<1> QED BY <1>1, <1>2, <1>3, <1>4, <1>5, <1>6, <1>7, <1>8 DEF TypeOK

LEMMA FailureStep ==
    ASSUME TypeOK, FailureOK, NEW p \in Process, Acts(p)
    PROVE  FailureOK'
<1>1. job' = job
  BY SameJob
<1>2. SUFFICES ASSUME NEW q \in Process
               PROVE  /\ failed'[q] => \/ pc'[q] = Count(q) + 1
                                       \/ Steps(job[q])[pc'[q]].op = "remove"
                      /\ status'[q] = "ok" => ~ failed'[q] /\ pc'[q] = Count(q) + 1
                      /\ status'[q] = "failed" => failed'[q]
  BY <1>1 DEF FailureOK, Step, Count
<1>3. /\ failed[q] => \/ pc[q] = Count(q) + 1
                      \/ Steps(job[q])[pc[q]].op = "remove"
      /\ status[q] = "ok" => ~ failed[q] /\ pc[q] = Count(q) + 1
      /\ status[q] = "failed" => failed[q]
      /\ status \in [Process -> {"running", "ok", "failed", "killed"}]
      /\ failed \in [Process -> BOOLEAN]
  BY DEF FailureOK, Step, Count, TypeOK
<1>4. CASE q # p
  BY <1>3, <1>4, Frame
<1>5. CASE q = p /\ Works(p)
  BY <1>5, Working, Advancing
<1>6. CASE q = p /\ RemoveTemporary(p)
  BY <1>6, Removing
<1>7. CASE q = p /\ Return(p)
  BY <1>3, <1>7 DEF Return, Set, Count
<1>8. CASE q = p /\ Kill(p)
  BY <1>3, <1>8 DEF Kill, Set
<1> QED BY <1>4, <1>5, <1>6, <1>7, <1>8 DEF Acts

\* What a process has in private directories, as its next cleanup finds it.
Tidy(p, D, K, F, c) ==
    /\ D \subseteq Reclaimed(job[p], c)
    /\ \A f \in DOMAIN F : f \in K /\ f[1] \in Reclaimed(job[p], c)

LEMMA ToolResidue ==
    ASSUME TypeOK, FailureOK, NEW p \in Process, At(p, "produce"), pc[p] \in 1..Count(p)
    PROVE  \A f \in Step(p).new : f[1] \in Reclaimed(job[p], pc[p])
<1>1. job[p] \in Jobs /\ Steps(job[p])[pc[p]].op = "produce"
  BY DEF TypeOK, At, Step
<1>2. job[p].mode # "direct"
  BY <1>1, DirectSteps DEF Count
<1> QED BY <1>1, <1>2, RenamingSteps DEF Count, Step

LEMMA ResidueStep ==
    ASSUME TypeOK, FailureOK, ResidueOK, NoResidue, NEW p \in Process, Acts(p)
    PROVE  ResidueOK' /\ NoResidue'
<1>0. job' = job /\ DOMAIN dirs = Process /\ DOMAIN files = Process /\ DOMAIN known = Process
      /\ DOMAIN status = Process
  BY SameJob DEF TypeOK
<1>1. SUFFICES ASSUME NEW q \in Process
               PROVE  /\ status'[q] = "running" => Tidy(q, dirs'[q], known'[q], files'[q], pc'[q])
                      /\ status'[q] \in {"ok", "failed"} => dirs'[q] = {} /\ DOMAIN files'[q] = {}
  BY <1>0 DEF ResidueOK, NoResidue, Tidy
<1>2. /\ status[q] = "running" => Tidy(q, dirs[q], known[q], files[q], pc[q])
      /\ status[q] \in {"ok", "failed"} => dirs[q] = {} /\ DOMAIN files[q] = {}
  BY DEF ResidueOK, NoResidue, Tidy
<1>3. CASE q # p
  BY <1>2, <1>3, Frame
<1>4. CASE q = p /\ Works(p)
  <2>1. /\ status[p] = "running" /\ status'[p] = "running"
        /\ pc[p] \in 1..Count(p) /\ Count(p) \in Nat /\ job[p] \in Jobs
        /\ Reclaimed(job[p], pc'[p]) = Reclaimed(job[p], pc[p])
    BY ZenonT(60), <1>4, Working, Advancing, StepCount DEF Count, TypeOK
  <2> DEFINE R == Reclaimed(job[p], pc[p])
  <2>2. dirs[p] \subseteq R /\ \A f \in DOMAIN files[p] : f \in known[p] /\ f[1] \in R
    BY <1>2, <1>4, <2>1 DEF Tidy
  <2> HIDE DEF R
  <2>3. dirs'[p] \subseteq R
    <3>1. CASE MakeTemporary(p)
      <4>1. job[p].mode # "direct"
        BY <2>1, <3>1, DirectSteps DEF MakeTemporary, At, Step, Count
      <4>2. Step(p).dirs \subseteq R
        BY <2>1, <3>1, <4>1, RenamingSteps DEF MakeTemporary, At, Step, Count, R
      <4> QED BY <1>0, <2>2, <3>1, <4>2 DEF MakeTemporary, Set
    <3>2. CASE UNCHANGED dirs
      BY <2>2, <3>2
    <3> QED BY <1>4, <3>1, <3>2 DEF Works, RunTool, ReadSymbols, RenameOutput, RenameLinkMap,
            Open, Write
  <2>4. \A f \in DOMAIN files'[p] : f \in known'[p] /\ f[1] \in R
    <3>1. CASE RunTool(p)
      <4>1. \A f \in Step(p).new : f[1] \in R
        BY <2>1, <3>1, ToolResidue DEF RunTool, R
      <4>2. /\ known'[p] \in {known[p], known[p] \cup Step(p).new}
            /\ \/ known'[p] = known[p] \cup Step(p).new
               \/ files' = files
        BY <1>0, <3>1 DEF RunTool, Set
      <4>3. \A f \in DOMAIN files'[p] : f \in DOMAIN files[p] \/ f \in Step(p).new
        <5>1. \A g, T, v : DOMAIN With(g, T, v) = DOMAIN g \cup T
          BY DEF With
        <5>2. \/ \E T \in SUBSET Step(p).new : \E v : files' = Set(files, p, With(files[p], T, v))
              \/ files' = files
          BY <3>1 DEF RunTool
        <5>3. \/ \E T \in SUBSET Step(p).new : \E v : files'[p] = With(files[p], T, v)
              \/ files'[p] = files[p]
          BY <1>0, <5>2 DEF Set
        <5>4. ASSUME NEW T \in SUBSET Step(p).new, NEW v, files'[p] = With(files[p], T, v)
              PROVE  \A f \in DOMAIN files'[p] : f \in DOMAIN files[p] \/ f \in Step(p).new
          <6>1. DOMAIN files'[p] = DOMAIN files[p] \cup T
            BY <5>1, <5>4
          <6> QED BY <6>1
        <5> QED BY <5>3, <5>4
      <4> QED BY <2>2, <4>1, <4>2, <4>3
    <3>2. CASE RenameOutput(p) \/ RenameLinkMap(p)
      <4>1. known' = known /\ DOMAIN files'[p] \subseteq DOMAIN files[p]
        BY <1>0, <3>2 DEF RenameOutput, RenameLinkMap, Set, Without
      <4> QED BY <2>2, <4>1
    <3>3. CASE UNCHANGED <<files, known>>
      BY <2>2, <3>3
    <3> QED BY <1>4, <3>1, <3>2, <3>3 DEF Works, MakeTemporary, ReadSymbols, Open, Write
  <2> QED BY <1>4, <2>1, <2>3, <2>4 DEF Tidy, R
<1>5. CASE q = p /\ RemoveTemporary(p)
  <2>1. /\ status[p] = "running" /\ status'[p] = "running" /\ known' = known
        /\ pc[p] \in 1..Count(p) /\ Step(p).op = "remove" /\ Count(p) \in Nat
    BY <1>5, Removing, StepCount DEF Count, TypeOK, RemoveTemporary
  <2>2. Reclaimed(job[p], pc[p]) = Step(p).dirs
    BY <2>1, ReclaimedAt DEF Step, Count
  <2>3. /\ dirs[p] \subseteq Step(p).dirs
        /\ \A f \in DOMAIN files[p] : f \in known[p] /\ f[1] \in Step(p).dirs
    BY <1>2, <1>5, <2>1, <2>2 DEF Tidy
  <2> DEFINE left == {f \in DOMAIN files[p] : f[1] \notin Step(p).dirs \/ f \notin known[p]}
  <2>4. left = {}
    BY <2>3
  <2>5. /\ files' = Set(files, p, [f \in left |-> files[p][f]])
        /\ dirs' = Set(dirs, p, {d \in dirs[p] : \/ d \notin Step(p).dirs
                                                 \/ \E f \in left : f[1] = d})
    BY <1>5 DEF RemoveTemporary
  <2> HIDE DEF left
  <2>6. DOMAIN files'[p] = {} /\ dirs'[p] = {}
    BY <1>0, <2>3, <2>4, <2>5 DEF Set
  <2> QED BY <1>5, <2>1, <2>6 DEF Tidy
<1>6. CASE q = p /\ Return(p)
  <2>1. /\ status[p] = "running" /\ pc[p] = Count(p) + 1 /\ Count(p) \in Nat
        /\ dirs' = dirs /\ files' = files /\ status'[p] # "running"
    BY <1>0, <1>6, StepCount DEF Return, Count, TypeOK, Set
  <2>2. Reclaimed(job[p], pc[p]) = {}
    BY <2>1, ReclaimedEnd DEF Count
  <2>3. dirs[p] = {} /\ DOMAIN files[p] = {}
    BY <1>2, <1>6, <2>1, <2>2 DEF Tidy
  <2> QED BY <1>6, <2>1, <2>3
<1>7. CASE q = p /\ Kill(p)
  <2>1. status'[p] = "killed"
    BY <1>0, <1>7 DEF Kill, Set
  <2> QED BY <1>7, <2>1
<1> QED BY <1>3, <1>4, <1>5, <1>6, <1>7 DEF Acts

\* What a tool that succeeds puts into its file.
LEMMA ToolContents ==
    ASSUME TypeOK, FilesOK, NEW p \in Process, At(p, "produce"), ~ failed[p],
           pc[p] \in 1..Count(p)
    PROVE  Contents(p) = Meant(job[p], pc[p])
<1> DEFINE j == job[p]
           i == pc[p]
           S == Steps(j)
<1>1. j \in Jobs /\ S[i].op = "produce" /\ Step(p) = S[i] /\ status[p] = "running"
  BY DEF TypeOK, At, Step
<1>2. j.mode # "direct"
  BY <1>1, DirectSteps DEF Count
<1>3. CASE S[i].from = {} /\ S[i].part # {}
  BY <1>1, <1>3 DEF Contents, Meant
<1>4. CASE /\ S[i].part = {}
           /\ Parts(j) = {f[2] : f \in S[i].from}
           /\ \A f \in S[i].from :
                 /\ f[2] # LinkMap
                 /\ \E k \in 1..Len(S) : Stands(j, k, i) /\ f \in S[k].new /\ S[k].part = {f[2]}
  <2>1. ASSUME NEW f \in S[i].from PROVE files[p][f] = {f[2]}
    <3>1. PICK k \in 1..Len(S) : Stands(j, k, i) /\ f \in S[k].new /\ S[k].part = {f[2]}
      BY <1>4
    <3>2. files[p][f] = Meant(j, k)
      BY <1>1, <1>4, <3>1 DEF FilesOK
    <3> QED BY <3>1, <3>2 DEF Meant
  <2>2. UNION {files[p][f] : f \in S[i].from} = {f[2] : f \in S[i].from}
    BY <2>1
  <2> QED BY <1>1, <1>4, <2>2 DEF Contents, Meant
<1> QED BY <1>1, <1>2, <1>3, <1>4, ProducingSteps DEF Count

\* A file is either one part or what is linked from all of them.
IsPart(step, f) ==
    \/ step.part = {f[2]} /\ f[2] \notin {Artifact, LinkMap}
    \/ step.part = {} /\ f[2] \in {Artifact, LinkMap}

LEMMA NewFiles ==
    ASSUME NEW j \in Jobs, j.mode # "direct", NEW i \in 1..Len(Steps(j)),
           Steps(j)[i].op = "produce", NEW f \in Steps(j)[i].new
    PROVE  IsPart(Steps(j)[i], f)
<1> DEFINE s == Steps(j)[i]
<1>1. \/ /\ \A g \in s.new : s.part = {g[2]} /\ g[2] \notin {Artifact, LinkMap}
      \/ s.part = {} /\ \A g \in s.new : g[2] \in {Artifact, LinkMap}
  BY ProducingSteps
<1> QED BY <1>1 DEF IsPart

LEMMA FilesStep ==
    ASSUME TypeOK, FailureOK, FilesOK, NEW p \in Process, Acts(p)
    PROVE  FilesOK'
<1>0. job' = job /\ DOMAIN files = Process /\ DOMAIN status = Process
  BY SameJob DEF TypeOK
<1>1. SUFFICES ASSUME NEW q \in Process, status'[q] = "running", ~ failed'[q],
                      NEW k \in 1..Count(q), Stands(job[q], k, pc'[q]),
                      NEW f \in Steps(job[q])[k].new, f[2] # LinkMap
               PROVE  f \in DOMAIN files'[q] /\ files'[q][f] = Meant(job[q], k)
  BY <1>0 DEF FilesOK, Count
<1>2. ASSUME status[q] = "running", ~ failed[q], Stands(job[q], k, pc[q])
      PROVE  f \in DOMAIN files[q] /\ files[q][f] = Meant(job[q], k)
  BY <1>1, <1>2 DEF FilesOK, Count
<1>3. CASE q # p
  BY <1>1, <1>2, <1>3, Frame
<1>4. CASE q = p /\ Works(p)
  <2> DEFINE j == job[p]
             i == pc[p]
             S == Steps(j)
  <2>1. /\ status[p] = "running" /\ ~ failed[p] /\ i \in 1..Count(p) /\ Count(p) \in Nat
        /\ pc'[p] = i + 1 /\ j \in Jobs /\ Continue(p)
    <3>1. status[p] = "running" /\ ~ failed[p] /\ i \in 1..Count(p) /\ (Continue(p) \/ Cleanup(p))
      BY <1>4, Working
    <3>2. pc'[p] = i + 1
      BY <1>1, <1>4, Advancing
    <3>3. ~ Cleanup(p)
      BY <1>1, <1>4 DEF Cleanup, Set, TypeOK
    <3> QED BY <3>1, <3>2, <3>3, StepCount DEF TypeOK, Count
  <2>2. S[k].op = "produce" /\ S[i].op \notin {"remove", "rename"} /\ k <= i
    <3>1. k < i + 1 /\ S[k].op = "produce"
          /\ \A l \in k..((i + 1) - 1) : S[l].op \notin {"remove", "rename"}
      BY <1>1, <1>4, <2>1 DEF Stands
    <3>2. i \in k..((i + 1) - 1) /\ k <= i
      BY <1>4, <2>1, <3>1
    <3> QED BY <3>1, <3>2
  <2>3. k = i \/ Stands(j, k, i)
    <3>1. k # i => k < i /\ \A l \in k..(i - 1) : l \in k..((i + 1) - 1)
      BY <1>4, <2>1, <2>2
    <3> QED BY <1>1, <1>4, <2>1, <2>2, <3>1 DEF Stands
  <2>4. CASE RunTool(p)
    <3>1. /\ At(p, "produce") /\ Contents(p) = Meant(j, i) /\ Step(p) = S[i]
      BY <2>1, <2>4, ToolContents DEF RunTool, Step
    <3>2. files'[p] = With(files[p], S[i].new, Meant(j, i))
      <4>1. ~ Cleanup(p)
        BY <1>1, <1>4 DEF Cleanup, Set, TypeOK
      <4> QED BY <1>0, <2>4, <3>1, <4>1 DEF RunTool, Set
    <3>3. CASE f \in S[i].new
      <4>1. Meant(j, i) = Meant(j, k)
        <5>1. j.mode # "direct" /\ S[i].op = "produce"
          BY <1>1, <2>1, <3>1, DirectSteps DEF Count, At, Step
        <5>2. IsPart(S[i], f)
          BY <2>1, <3>3, <5>1, NewFiles DEF Count
        <5>3. IsPart(S[k], f)
          BY <1>1, <1>4, <2>1, <2>2, <5>1, NewFiles DEF Count
        <5> QED BY <5>2, <5>3 DEF Meant, IsPart
      <4> QED BY <1>4, <3>2, <3>3, <4>1 DEF With
    <3>4. CASE f \notin S[i].new
      <4>1. Stands(j, k, i)
        BY <1>1, <1>4, <2>3, <3>4
      <4>2. f \in DOMAIN files[p] /\ files[p][f] = Meant(j, k)
        BY <1>2, <1>4, <2>1, <4>1
      <4> QED BY <1>4, <3>2, <3>4, <4>2 DEF With
    <3> QED BY <3>3, <3>4
  <2>5. CASE ~ RunTool(p)
    <3>1. S[i].op # "produce"
      BY <1>4, <2>5 DEF Works, MakeTemporary, ReadSymbols, RenameOutput, RenameLinkMap, Open,
             Write, At, Step
    <3>2. f \in DOMAIN files[p] /\ files[p][f] = Meant(j, k)
      BY <1>2, <1>4, <2>1, <2>2, <2>3, <3>1
    <3>3. CASE RenameLinkMap(p)
      <4>1. j.mode # "direct" /\ S[i].op = "map"
        BY <2>1, <3>3, DirectSteps DEF RenameLinkMap, At, Step, Count
      <4>2. S[i].file[2] = LinkMap
        BY <2>1, <4>1, RenamingSteps DEF Count
      <4>3. f # S[i].file
        BY <1>1, <4>2
      <4>4. files'[p] = Without(files[p], {S[i].file}) \/ files'[p] = files[p]
        BY <1>0, <3>3 DEF RenameLinkMap, Set, Step
      <4> QED BY <1>4, <3>2, <4>3, <4>4 DEF Without
    <3>4. CASE UNCHANGED files
      BY <1>4, <3>2, <3>4
    <3>5. ~ RenameOutput(p)
      BY <2>2 DEF RenameOutput, At, Step
    <3> QED BY <1>4, <2>5, <3>3, <3>4, <3>5 DEF Works, MakeTemporary, ReadSymbols, Open, Write
  <2> QED BY <2>4, <2>5
<1>5. CASE q = p /\ RemoveTemporary(p)
  <2>1. /\ pc[p] \in 1..Count(p) /\ Steps(job[p])[pc[p]].op = "remove" /\ ~ failed[p]
        /\ pc'[p] = pc[p] + 1 /\ Count(p) \in Nat
    BY <1>1, <1>5, Removing, StepCount DEF Step, TypeOK, Count
  <2>2. k < pc[p] + 1 /\ Steps(job[p])[k].op = "produce"
        /\ \A l \in k..((pc[p] + 1) - 1) : Steps(job[p])[l].op \notin {"remove", "rename"}
    BY <1>1, <1>5, <2>1 DEF Stands
  <2>3. pc[p] \in k..((pc[p] + 1) - 1)
    BY <1>5, <2>1, <2>2
  <2> QED BY <2>1, <2>2, <2>3
<1>6. CASE q = p /\ Return(p)
  BY <1>0, <1>1, <1>6 DEF Return, Set, TypeOK
<1>7. CASE q = p /\ Kill(p)
  BY <1>0, <1>1, <1>7 DEF Kill, Set
<1> QED BY <1>3, <1>4, <1>5, <1>6, <1>7 DEF Acts

\* Who opens and writes the output in place, and who does not.
LEMMA WhoDoesWhat ==
    ASSUME TypeOK, FailureOK, NEW p \in Process
    PROVE  /\ Open(p) => IsDirect(p) /\ pc[p] = 1
           /\ Write(p) => IsDirect(p) /\ pc[p] \in {2, 3} /\ (Step(p).half = 2 <=> pc[p] = 3)
           /\ Works(p) /\ ~ Open(p) /\ ~ Write(p) => ~ IsDirect(p)
           /\ RemoveTemporary(p) => ~ IsDirect(p)
           /\ RenameOutput(p) => pc[p] = Count(p) - 1
           /\ Works(p) /\ ~ IsDirect(p) /\ ~ RenameOutput(p) => pc[p] + 1 < Count(p)
<1> DEFINE j == job[p]
           i == pc[p]
           S == Steps(j)
           L == Count(p)
<1>0. j \in Jobs /\ L \in Nat /\ Step(p) = S[i] /\ (IsDirect(p) <=> j.mode = "direct")
  BY StepCount DEF TypeOK, Step, Count, IsDirect
<1>1. Works(p) => i \in 1..L /\ S[i].op # "remove"
  BY <1>0, Working
<1>2. RemoveTemporary(p) => i \in 1..L /\ S[i].op = "remove"
  BY <1>0, Removing
<1>3. /\ Open(p) => Works(p) /\ S[i].op = "open"
      /\ Write(p) => Works(p) /\ S[i].op = "write"
      /\ RenameOutput(p) => Works(p) /\ S[i].op = "rename"
      /\ Works(p) /\ ~ Open(p) /\ ~ Write(p) => S[i].op \notin {"open", "write"}
      /\ Works(p) /\ ~ RenameOutput(p) => S[i].op # "rename"
  BY <1>0 DEF Works, MakeTemporary, RunTool, ReadSymbols, RenameOutput, RenameLinkMap, Open,
         Write, At
<1>4. CASE j.mode = "direct"
  <2>1. /\ L = 3 /\ S[1].op = "open" /\ S[2].op = "write" /\ S[2].half = 1
        /\ S[3].op = "write" /\ S[3].half = 2
    BY <1>4, DirectSteps DEF Count
  <2>2. i \in 1..L => i = 1 \/ i = 2 \/ i = 3
    BY <2>1
  <2> QED BY <1>0, <1>1, <1>2, <1>3, <1>4, <2>1, <2>2
<1>5. CASE j.mode # "direct"
  <2>1. /\ L >= 2 /\ S[L].op = "remove" /\ S[L - 1].op = "rename"
        /\ \A k \in 1..L : S[k].op \notin {"open", "write"} /\ (S[k].op = "rename" => k = L - 1)
    BY <1>0, <1>5, RenamingSteps DEF Count
  <2> HIDE DEF S, L, i
  <2>2. Works(p) /\ ~ RenameOutput(p) => i + 1 < L
    <3>1. Works(p) /\ ~ RenameOutput(p) => i # L /\ i # L - 1
      BY <1>1, <1>3, <2>1
    <3> QED BY <1>0, <1>1, <3>1
  <2> QED BY <1>0, <1>1, <1>2, <1>3, <1>5, <2>1, <2>2 DEF i, L
<1> QED BY <1>4, <1>5

LEMMA HeldStep ==
    ASSUME TypeOK, FailureOK, HeldOK, StreamOK, NEW p \in Process, Acts(p)
    PROVE  HeldOK'
<1>0. /\ job' = job /\ DOMAIN inode = Inodes /\ DOMAIN stream = Process
      /\ \A q \in Process : Count(q) \in Nat /\ pc[q] \in 1..(Count(q) + 1)
      /\ failed \in [Process -> BOOLEAN] /\ held \subseteq Process
      /\ output \in Inodes \cup {"none"}
  BY SameJob, StepCount DEF TypeOK, Count
<1>1. SUFFICES ASSUME NEW q \in Process
               PROVE  /\ q \in held' => ~ failed'[q]
                      /\ ~ IsDirect(q) => (q \in held' <=> ~ failed'[q] /\ pc'[q] >= Count(q))
                      /\ ~ IsDirect(q) /\ q \notin held' =>
                            /\ inode'[q] = <<Hole, Hole>>
                            /\ output' # q
                            /\ \A r \in Process : stream'[r] # q
  BY <1>0 DEF HeldOK, IsDirect, Count
<1>2. /\ q \in held => ~ failed[q]
      /\ ~ IsDirect(q) => (q \in held <=> ~ failed[q] /\ pc[q] >= Count(q))
      /\ ~ IsDirect(q) /\ q \notin held =>
            /\ inode[q] = <<Hole, Hole>>
            /\ output # q
            /\ \A r \in Process : stream[r] # q
  BY DEF HeldOK, Count
<1>3. CASE RenameOutput(p)
  <2>1. /\ ~ IsDirect(p) /\ pc[p] = Count(p) - 1 /\ Works(p)
    BY <1>3, WhoDoesWhat DEF Works, Open, Write, RenameOutput, At
  <2>2. p \notin held
    BY <1>0, <2>1 DEF HeldOK, Count
  <2>3. stream' = stream
    BY <1>3 DEF RenameOutput
  <2>4. CASE output' = p /\ held' = held \cup {p} /\ Continue(p)
             /\ \E v : inode' = Set(inode, p, v)
    <3>1. failed' = failed /\ pc'[p] = Count(p) /\ ~ failed[p]
      <4>1. pc'[p] = pc[p] + 1 /\ failed' = failed
        BY <2>4 DEF Continue, Set, TypeOK
      <4>2. ~ failed[p]
        BY <2>1, Working
      <4> QED BY <1>0, <2>1, <4>1, <4>2
    <3>2. CASE q = p
      BY <1>0, <2>4, <3>1, <3>2
    <3>3. CASE q # p
      <4>1. inode'[q] = inode[q]
        BY <1>0, <2>4, <3>3 DEF Set, Inodes
      <4>2. pc'[q] = pc[q] /\ failed'[q] = failed[q]
        BY <3>3, Frame
      <4> QED BY <1>2, <2>3, <2>4, <3>3, <4>1, <4>2
    <3> QED BY <3>2, <3>3
  <2>5. CASE UNCHANGED <<inode, output, held>> /\ Cleanup(p)
    <3>1. failed'[p] = TRUE
      BY <1>0, <2>5 DEF Cleanup, Set
    <3>2. q # p => pc'[q] = pc[q] /\ failed'[q] = failed[q]
      BY Frame
    <3> QED BY <1>2, <2>2, <2>3, <2>5, <3>1, <3>2
  <2> QED BY <1>3, <2>4, <2>5 DEF RenameOutput
<1>4. CASE Open(p)
  <2>1. IsDirect(p) /\ Works(p) /\ held' = held /\ pc[p] = 1 /\ p \notin held
    <3>1. IsDirect(p) /\ pc[p] = 1
      BY <1>4, WhoDoesWhat
    <3>2. p \notin held
      BY <3>1 DEF StreamOK
    <3> QED BY <1>4, <3>1, <3>2 DEF Works, Open
  <2>2. q # p => pc'[q] = pc[q] /\ failed'[q] = failed[q]
    BY Frame
  <2>3. ASSUME ~ IsDirect(q), q \notin held
        PROVE  inode'[q] = <<Hole, Hole>> /\ output' # q /\ \A r \in Process : stream'[r] # q
    <3>1. q # p /\ output # q /\ inode[q] = <<Hole, Hole>> /\ \A r \in Process : stream[r] # q
      BY <1>2, <2>1, <2>3
    <3> DEFINE i == IF output = "none" THEN p ELSE output
    <3>2. i # q /\ i \in Inodes /\ q \in Inodes
      BY <1>0, <3>1 DEF Inodes
    <3> HIDE DEF i
    <3>3. CASE stream' = Set(stream, p, i) /\ output' = stream'[p]
               /\ inode' = Set(inode, stream'[p], <<Hole, Hole>>)
      <4>1. stream'[p] = i /\ output' = i
        BY <1>0, <3>3 DEF Set
      <4>2. \A r \in Process : stream'[r] # q
        BY <1>0, <3>1, <3>2, <3>3 DEF Set
      <4>3. inode'[q] = inode[q]
        BY <1>0, <3>2, <3>3, <4>1 DEF Set
      <4> QED BY <3>1, <3>2, <4>1, <4>2, <4>3
    <3>4. CASE UNCHANGED <<stream, output, inode>>
      BY <3>1, <3>4
    <3> QED BY <1>4, <3>3, <3>4 DEF Open, i
  <2> QED BY <1>2, <2>1, <2>2, <2>3
<1>5. CASE Write(p)
  <2>1. /\ IsDirect(p) /\ pc[p] \in {2, 3} /\ Works(p) /\ ~ failed[p] /\ p \notin held
        /\ stream[p] \in Inodes
    <3>1. IsDirect(p) /\ pc[p] \in {2, 3} /\ Works(p)
      BY <1>5, WhoDoesWhat DEF Works
    <3>2. ~ failed[p]
      BY <3>1, Working
    <3>3. stream[p] # "none" /\ p \notin held
      BY <3>1, <3>2 DEF StreamOK
    <3> QED BY <3>1, <3>2, <3>3 DEF TypeOK
  <2>2. q # p => pc'[q] = pc[q] /\ failed'[q] = failed[q]
    BY Frame
  <2>3. output' = output /\ stream' = stream
    BY <1>5 DEF Write
  <2>4. held' = held \/ (held' = held \cup {p} /\ failed' = failed)
    BY <1>5 DEF Write, Continue
  <2>5. ~ IsDirect(q) /\ q \notin held => inode'[q] = inode[q]
    <3>1. ~ IsDirect(q) /\ q \notin held => stream[p] # q
      BY <1>2
    <3>2. q \in Inodes
      BY DEF Inodes
    <3>3. (\E v : inode' = [inode EXCEPT ![stream[p]] = v]) \/ inode' = inode
      BY <1>5 DEF Write
    <3> QED BY <1>0, <2>1, <3>1, <3>2, <3>3
  <2> QED BY <1>2, <2>1, <2>2, <2>3, <2>4, <2>5
<1>6. CASE Works(p) /\ ~ RenameOutput(p) /\ ~ Open(p) /\ ~ Write(p)
  <2>1. UNCHANGED <<inode, output, held, stream>>
    BY <1>6 DEF Works, MakeTemporary, RunTool, ReadSymbols, RenameLinkMap
  <2>2. ~ IsDirect(p) /\ pc[p] + 1 < Count(p)
    BY <1>6, WhoDoesWhat
  <2>3. p \notin held
    BY <1>0, <2>2 DEF HeldOK, Count
  <2>4. failed'[p] = TRUE \/ pc'[p] = pc[p] + 1
    BY <1>6, Advancing
  <2>5. ~ (~ failed'[p] /\ pc'[p] >= Count(p))
    BY <1>0, <2>2, <2>4
  <2>6. q # p => pc'[q] = pc[q] /\ failed'[q] = failed[q]
    BY Frame
  <2> QED BY <1>2, <2>1, <2>3, <2>5, <2>6
<1>7. CASE RemoveTemporary(p)
  <2>1. UNCHANGED <<inode, output, held, stream, failed>>
    BY <1>7, Removing DEF RemoveTemporary
  <2>2. /\ ~ IsDirect(p) /\ pc[p] \in 1..Count(p) /\ Steps(job[p])[pc[p]].op = "remove"
        /\ pc'[p] = IF failed[p] THEN Count(p) + 1 ELSE pc[p] + 1
    BY <1>7, WhoDoesWhat, Removing DEF Step
  <2>3. pc[p] # Count(p) - 1
    BY <2>2, RenamingSteps DEF Count, IsDirect, TypeOK
  <2>4. ~ failed[p] => (pc'[p] >= Count(p) <=> pc[p] >= Count(p))
    BY <1>0, <2>2, <2>3
  <2>5. q # p => pc'[q] = pc[q]
    BY <1>7, Removing
  <2> QED BY <1>2, <2>1, <2>4, <2>5
<1>8. CASE Return(p) \/ Kill(p)
  <2>1. UNCHANGED <<inode, output, held, stream, failed, pc>>
    BY <1>8 DEF Return, Kill
  <2> QED BY <1>2, <2>1
<1> QED BY <1>3, <1>4, <1>5, <1>6, <1>7, <1>8 DEF Acts

\* A process that writes in place is past its fopen once it has taken a step.
LEMMA DirectMoves ==
    ASSUME TypeOK, FailureOK, NEW p \in Process, IsDirect(p), Works(p)
    PROVE  pc'[p] > 1
<1>1. Count(p) = 3 /\ \A i \in 1..3 : Steps(job[p])[i].op # "remove"
  BY DirectSteps DEF IsDirect, Count
<1>2. pc[p] \in 1..3
  BY <1>1, Working
<1>3. pc'[p] = pc[p] + 1 \/ pc'[p] = 4
  <2>1. \/ pc'[p] = pc[p] + 1
        \/ pc'[p] = Count(p) + 1
        \/ pc'[p] \in 1..Count(p) /\ Steps(job[p])[pc'[p]].op = "remove"
    BY Advancing
  <2> QED BY <1>1, <2>1
<1> QED BY <1>2, <1>3

\* A process opens one stream.
LEMMA StreamKept ==
    ASSUME TypeOK, FailureOK, StreamOK, NEW p \in Process, Acts(p), NEW q \in Process,
           stream[q] # "none"
    PROVE  stream'[q] = stream[q]
<1>1. CASE q # p
  BY <1>1, Frame
<1>2. CASE q = p
  <2>1. ~ Open(p)
    BY <1>2, WhoDoesWhat DEF StreamOK
  <2> QED BY <2>1, <1>2 DEF Acts, Works, MakeTemporary, RunTool, ReadSymbols, RenameOutput,
           RenameLinkMap, Write, RemoveTemporary, Return, Kill
<1> QED BY <1>1, <1>2

LEMMA HeldKept ==
    ASSUME NEW p \in Process, Acts(p)
    PROVE  held \subseteq held'
  BY DEF Acts, Works, MakeTemporary, RunTool, ReadSymbols, RenameOutput, RenameLinkMap,
         Open, Write, RemoveTemporary, Return, Kill

\* Whoever has disturbed another process's file has done so for good.
LEMMA DisturbedStep ==
    ASSUME TypeOK, FailureOK, StreamOK, NEW p \in Process, Acts(p), NEW q \in Process,
           stream[q] # "none", Disturbed(q)
    PROVE  Disturbed(q)'
<1>0. job' = job /\ held \subseteq held'
  BY SameJob, HeldKept
<1>1. PICK r \in Process \ {q} :
          stream[r] = stream[q] \/ (r \in held /\ job[r].mode # "direct")
  BY DEF Disturbed
<1>2. stream[r] = stream[q] => stream'[r] = stream'[q]
  BY StreamKept
<1> QED BY <1>0, <1>1, <1>2 DEF Disturbed

LEMMA ReplacedDisturbs ==
    ASSUME TypeOK, NEW q \in Process, IsDirect(q), Replaced
    PROVE  Disturbed(q)
  BY DEF Replaced, Disturbed, IsDirect, TypeOK

\* Only who disturbs it writes to another process's file.
LEMMA FirstHalf ==
    ASSUME TypeOK, FailureOK, HeldOK, StreamOK, NEW p \in Process, Acts(p),
           NEW q \in Process \ {p}, stream[q] # "none"
    PROVE  inode'[stream[q]] = inode[stream[q]] \/ Disturbed(q)'
<1>0. /\ job' = job /\ DOMAIN inode = Inodes /\ DOMAIN stream = Process
      /\ stream[q] \in Inodes /\ stream'[q] = stream[q]
  BY SameJob, Frame DEF TypeOK
<1>1. CASE RenameOutput(p)
  <2>1. job[p].mode # "direct"
    BY <1>1, WhoDoesWhat DEF Works, Open, Write, RenameOutput, At, IsDirect
  <2>2. inode' = inode \/ p \in held'
    BY <1>1 DEF RenameOutput
  <2> QED BY <1>0, <2>1, <2>2 DEF Disturbed
<1>2. CASE Open(p)
  <2>1. inode' = inode \/ inode' = Set(inode, stream'[p], <<Hole, Hole>>)
    BY <1>2 DEF Open
  <2>2. CASE stream'[p] = stream[q]
    BY <1>0, <2>2 DEF Disturbed
  <2>3. CASE stream'[p] # stream[q]
    BY <1>0, <2>1, <2>3 DEF Set
  <2> QED BY <2>2, <2>3
<1>3. CASE Write(p)
  <2>1. stream' = stream /\ ((\E v : inode' = [inode EXCEPT ![stream[p]] = v]) \/ inode' = inode)
    BY <1>3 DEF Write
  <2>2. CASE stream[p] = stream[q]
    BY <2>1, <2>2 DEF Disturbed
  <2>3. CASE stream[p] # stream[q]
    BY <1>0, <2>1, <2>3
  <2> QED BY <2>2, <2>3
<1>4. CASE inode' = inode
  BY <1>4
<1> QED BY <1>1, <1>2, <1>3, <1>4 DEF Acts, Works, MakeTemporary, RunTool, ReadSymbols,
       RenameLinkMap, RemoveTemporary, Return, Kill

LEMMA StreamStep ==
    ASSUME TypeOK, FailureOK, HeldOK, StreamOK, NEW p \in Process, Acts(p)
    PROVE  StreamOK'
<1>0. /\ job' = job /\ DOMAIN stream = Process /\ pc \in [Process -> Nat]
      /\ failed \in [Process -> BOOLEAN] /\ held \subseteq Process
      /\ output \in Inodes \cup {"none"} /\ p \in Inodes /\ "none" \notin Inodes
  BY SameJob, PublicationAssumption DEF TypeOK, Inodes
<1>1. SUFFICES ASSUME NEW q \in Process
               PROVE  /\ stream'[q] # "none" => IsDirect(q) /\ pc'[q] > 1
                      /\ IsDirect(q) /\ pc'[q] > 1 /\ ~ failed'[q] =>
                            stream'[q] # "none" /\ (stream'[q] = output' \/ Replaced')
                      /\ IsDirect(q) /\ pc'[q] = 3 /\ ~ failed'[q] =>
                            inode'[stream'[q]][1].by = q \/ Disturbed(q)'
                      /\ IsDirect(q) /\ pc'[q] = 4 /\ ~ failed'[q] =>
                            q \in held' \/ Disturbed(q)'
                      /\ IsDirect(q) /\ q \in held' => pc'[q] = 4
  BY <1>0 DEF StreamOK, IsDirect
<1>2. /\ stream[q] # "none" => IsDirect(q) /\ pc[q] > 1
      /\ IsDirect(q) /\ pc[q] > 1 /\ ~ failed[q] =>
            stream[q] # "none" /\ (stream[q] = output \/ Replaced)
      /\ IsDirect(q) /\ pc[q] = 3 /\ ~ failed[q] =>
            inode[stream[q]][1].by = q \/ Disturbed(q)
      /\ IsDirect(q) /\ pc[q] = 4 /\ ~ failed[q] => q \in held \/ Disturbed(q)
      /\ IsDirect(q) /\ q \in held => pc[q] = 4
  BY DEF StreamOK
<1>3. held \subseteq held' /\ Replaced => Replaced'
  BY <1>0 DEF Replaced, IsDirect
<1>4. q # p => pc'[q] = pc[q] /\ failed'[q] = failed[q] /\ stream'[q] = stream[q]
  BY Frame
<1>a. stream[q] # "none" /\ Disturbed(q) => Disturbed(q)'
  BY DisturbedStep
<1>b. q # p /\ stream[q] # "none" => inode'[stream[q]] = inode[stream[q]] \/ Disturbed(q)'
  BY FirstHalf
<1>5. CASE (Works(p) /\ ~ Open(p) /\ ~ Write(p)) \/ RemoveTemporary(p)
  <2>1. ~ IsDirect(p) /\ stream' = stream /\ (held' = held \/ held' = held \cup {p})
    BY <1>5, WhoDoesWhat DEF Works, MakeTemporary, RunTool, ReadSymbols, RenameOutput,
       RenameLinkMap, RemoveTemporary
  <2>2. \/ output' = output
        \/ p \in held'
    BY <1>5 DEF Works, MakeTemporary, RunTool, ReadSymbols, RenameOutput,
       RenameLinkMap, RemoveTemporary
  <2>3. p \in held' => Replaced'
    BY <1>0, <2>1 DEF Replaced, IsDirect
  <2>4. held \subseteq held' /\ (q # p => (q \in held' <=> q \in held))
    BY <2>1
  <2>5. CASE q # p
    BY <1>2, <1>3, <1>4, <1>a, <1>b, <2>2, <2>3, <2>4, <2>5
  <2>6. CASE q = p
    BY <1>2, <2>1, <2>6
  <2> QED BY <2>5, <2>6
<1>6. CASE Open(p)
  <2>1. /\ IsDirect(p) /\ pc[p] = 1 /\ Works(p) /\ held' = held /\ p \notin held
        /\ stream[p] = "none"
    <3>1. IsDirect(p) /\ pc[p] = 1
      BY <1>6, WhoDoesWhat
    <3> QED BY <1>6, <3>1 DEF Works, Open, StreamOK
  <2> DEFINE i == IF output = "none" THEN p ELSE output
  <2>2. i \in Inodes /\ (output # "none" => i = output) /\ i # "none"
    BY <1>0
  <2> HIDE DEF i
  <2>3. CASE Continue(p) /\ stream' = Set(stream, p, i) /\ output' = stream'[p]
    <3>1. stream'[p] = i /\ output' = i /\ pc'[p] = 2
      BY <1>0, <2>1, <2>3 DEF Set, Continue
    <3>2. CASE q = p
      BY <2>1, <2>2, <3>1, <3>2
    <3>3. CASE q # p
      <4>1. stream[q] = output /\ stream[q] # "none" => output' = output
        BY <2>2, <3>1
      <4> QED BY <1>2, <1>3, <1>4, <1>a, <1>b, <2>1, <3>3, <4>1
    <3> QED BY <3>2, <3>3
  <2>4. CASE Cleanup(p) /\ UNCHANGED <<stream, output>>
    <3>1. failed'[p] = TRUE
      BY <1>0, <2>4 DEF Cleanup, Set
    <3> QED BY <1>2, <1>3, <1>4, <1>a, <1>b, <2>1, <2>4, <3>1
  <2> QED BY <1>6, <2>3, <2>4 DEF Open, i
<1>7. CASE Write(p)
  <2>1. /\ IsDirect(p) /\ pc[p] \in {2, 3} /\ (Step(p).half = 2 <=> pc[p] = 3)
        /\ ~ failed[p] /\ output' = output /\ stream' = stream
    <3>1. IsDirect(p) /\ pc[p] \in {2, 3} /\ (Step(p).half = 2 <=> pc[p] = 3)
      BY <1>7, WhoDoesWhat
    <3>2. Works(p) /\ output' = output /\ stream' = stream
      BY <1>7 DEF Works, Write
    <3> QED BY <3>1, <3>2, Working
  <2>2. p \notin held /\ stream[p] # "none" /\ (stream[p] = output \/ Replaced)
    BY <2>1 DEF StreamOK
  <2>m. Works(p) /\ pc'[p] > 1
    BY <1>7, <2>1, DirectMoves DEF Works
  <2>3. CASE /\ Continue(p)
             /\ inode' = [inode EXCEPT ![stream[p]][Step(p).half] =
                             [by |-> p, parts |-> {Psl}]]
             /\ held' = IF /\ Step(p).half = 2 /\ output = stream[p]
                           /\ inode[stream[p]][1].by = p
                          THEN held \cup {p} ELSE held
    <3>1. pc'[p] = pc[p] + 1 /\ failed' = failed /\ held \subseteq held'
      BY <1>0, <2>3 DEF Set, Continue
    <3>2. CASE q = p
      <4>1. ASSUME pc[p] = 3 PROVE pc'[p] = 4 /\ (p \in held' \/ Disturbed(p)')
        <5>1. CASE output = stream[p] /\ inode[stream[p]][1].by = p
          BY <2>1, <2>3, <3>1, <4>1, <5>1
        <5>2. CASE Replaced \/ Disturbed(p)
          BY <1>a, <2>1, <2>2, <3>1, <3>2, <4>1, <5>2, ReplacedDisturbs
        <5> QED BY <1>2, <2>1, <2>2, <3>2, <4>1, <5>1, <5>2
      <4>2. ASSUME pc[p] = 2
            PROVE  pc'[p] = 3 /\ p \notin held' /\ inode'[stream'[p]][1].by = p
        <5>1. Step(p).half = 1 /\ Len(Steps(job[p])) = 3
          BY <2>1, <4>2, DirectSteps DEF Step, IsDirect
        <5>2. stream[p] \in DOMAIN inode /\ 1 \in DOMAIN inode[stream[p]]
          BY <2>2, <1>0 DEF TypeOK
        <5>3. inode'[stream[p]][1] = [by |-> p, parts |-> {Psl}]
          BY <2>3, <5>1, <5>2
        <5> QED BY <2>1, <2>2, <2>3, <3>1, <4>2, <5>1, <5>3
      <4> QED BY <1>3, <2>1, <2>2, <2>m, <3>1, <3>2, <4>1, <4>2
    <3>3. CASE q # p
      BY <1>2, <1>3, <1>4, <1>a, <1>b, <2>1, <2>3, <3>1, <3>3
    <3> QED BY <3>2, <3>3
  <2>4. CASE Cleanup(p) /\ held' = held
    <3>1. failed'[p] = TRUE
      BY <1>0, <2>4 DEF Cleanup, Set
    <3> QED BY <1>2, <1>3, <1>4, <1>a, <1>b, <2>1, <2>2, <2>m, <2>4, <3>1
  <2> QED BY <1>7, <2>3, <2>4 DEF Write
<1>8. CASE Return(p) \/ Kill(p)
  <2>1. UNCHANGED <<output, held, stream, failed, pc, inode>>
    BY <1>8 DEF Return, Kill
  <2> QED BY <1>2, <1>3, <1>a, <2>1
<1> QED BY <1>5, <1>6, <1>7, <1>8 DEF Acts

LEMMA MapStep ==
    ASSUME TypeOK, FailureOK, MapOK, NEW p \in Process, Acts(p)
    PROVE  MapOK'
<1>0. job' = job /\ \A q \in Process : pc[q] \in Nat /\ Count(q) \in Nat
  BY SameJob, StepCount DEF TypeOK, Count
<1>1. SUFFICES ASSUME NEW q \in Process, ~ failed'[q], NEW i \in 1..(pc'[q] - 1),
                      Steps(job[q])[i].op = "map"
               PROVE  map' # "old"
  BY <1>0 DEF MapOK
<1>2. map' = map \/ map' = p
  BY DEF Acts, Works, MakeTemporary, RunTool, ReadSymbols, RenameOutput, RenameLinkMap,
         Open, Write, RemoveTemporary, Return, Kill
<1>3. p # "old"
  BY PublicationAssumption
<1>4. ASSUME ~ failed[q], i \in 1..(pc[q] - 1) PROVE map # "old"
  BY <1>1, <1>4 DEF MapOK
<1>5. CASE q # p
  <2>1. pc'[q] = pc[q] /\ failed'[q] = failed[q]
    BY <1>5, Frame
  <2> QED BY <1>1, <1>2, <1>3, <1>4, <2>1
<1>6. CASE q = p /\ Works(p)
  <2>1. pc'[p] = pc[p] + 1 /\ ~ failed[p] /\ pc[p] \in 1..Count(p)
    BY <1>1, <1>6, Advancing, Working
  <2>2. i = pc[p] \/ i \in 1..(pc[p] - 1)
    BY <1>0, <1>6, <2>1
  <2>3. CASE i = pc[p]
    <3>1. RenameLinkMap(p)
      BY <1>1, <1>6, <2>3 DEF Works, MakeTemporary, RunTool, ReadSymbols, RenameOutput, Open,
             Write, At, Step
    <3>2. ~ Cleanup(p)
      BY <1>1, <1>6 DEF Cleanup, Set, TypeOK
    <3>3. map' = p
      BY <3>1, <3>2 DEF RenameLinkMap
    <3> QED BY <1>3, <3>3
  <2> QED BY <1>2, <1>3, <1>4, <1>6, <2>1, <2>2, <2>3
<1>7. CASE q = p /\ RemoveTemporary(p)
  <2>1. /\ pc'[p] = pc[p] + 1 /\ ~ failed[p] /\ pc[p] \in 1..Count(p)
        /\ Steps(job[p])[pc[p]].op = "remove"
    BY <1>1, <1>7, Removing DEF Step
  <2>2. i # pc[p]
    BY <1>1, <1>7, <2>1
  <2>3. i \in 1..(pc[p] - 1)
    BY <1>0, <1>7, <2>1, <2>2
  <2> QED BY <1>2, <1>3, <1>4, <1>7, <2>1, <2>3
<1>8. CASE q = p /\ (Return(p) \/ Kill(p))
  <2>1. UNCHANGED <<failed, pc, map>>
    BY <1>8 DEF Return, Kill
  <2> QED BY <1>1, <1>4, <2>1
<1> QED BY <1>5, <1>6, <1>7, <1>8 DEF Acts

LEMMA OutputStep ==
    ASSUME TypeOK, FailureOK, FilesOK, StreamOK, OutputComplete, NEW p \in Process, Acts(p)
    PROVE  OutputComplete'
<1>0. /\ job' = job /\ DOMAIN inode = Inodes /\ DOMAIN stream = Process
      /\ output \in Inodes \cup {"none"} /\ p \in Inodes
  BY SameJob DEF TypeOK, Inodes
<1>2. CASE /\ RenameOutput(p) /\ output' = p
           /\ LET half == [by |-> p, parts |-> files[p][Step(p).file]]
              IN inode' = Set(inode, p, <<half, half>>)
  <2> DEFINE j == job[p]
             half == [by |-> p, parts |-> files[p][Step(p).file]]
  <2>1. /\ ~ IsDirect(p) /\ pc[p] = Count(p) - 1 /\ Works(p) /\ ~ failed[p]
        /\ status[p] = "running" /\ j \in Jobs
    <3>1. Works(p) /\ ~ Open(p) /\ ~ Write(p)
      BY <1>2 DEF Works, Open, Write, RenameOutput, At
    <3> QED BY <1>2, <3>1, WhoDoesWhat, Working DEF TypeOK
  <2>2. PICK k \in 1..Count(p) : /\ Stands(j, k, pc[p]) /\ Steps(j)[k].part = {}
                                 /\ Step(p).file \in Steps(j)[k].new
    BY <2>1, RenamedFile DEF Count, Step, IsDirect
  <2>3. Step(p).file[2] # LinkMap
    BY <2>1, RenamedFile DEF Count, Step, IsDirect
  <2>4. files[p][Step(p).file] = Parts(j)
    <3>1. files[p][Step(p).file] = Meant(j, k)
      BY <2>1, <2>2, <2>3 DEF FilesOK, Count
    <3> QED BY <2>2, <3>1 DEF Meant
  <2>5. output' = p /\ inode' = Set(inode, p, <<half, half>>)
    BY <1>2
  <2>6. inode'[p] = <<half, half>>
    BY <1>0, <2>5 DEF Set
  <2>7. <<half, half>> = [h \in 1..2 |-> [by |-> p, parts |-> Parts(j)]]
    <3>1. half = [by |-> p, parts |-> Parts(j)]
      BY <2>4
    <3> HIDE DEF half
    <3>2. <<half, half>> = [h \in 1..2 |-> half]
      OBVIOUS
    <3> QED BY <3>1, <3>2
  <2>8. Complete(p)'
    <3>1. inode'[p] = [h \in 1..2 |-> [by |-> p, parts |-> Parts(job'[p])]]
      BY <1>0, <2>6, <2>7
    <3> QED BY <3>1 DEF Complete
  <2> QED BY <2>5, <2>8 DEF OutputComplete
<1>3. CASE Open(p) /\ output' = stream'[p]
  <2>1. /\ IsDirect(p) /\ output' = stream'[p]
    BY <1>3, WhoDoesWhat DEF Open
  <2> QED BY <1>0, <2>1 DEF OutputComplete, IsDirect
<1>4. CASE Write(p)
  <2>1. /\ IsDirect(p) /\ output' = output /\ stream' = stream
    BY <1>4, WhoDoesWhat DEF Write
  <2>2. CASE output = stream[p]
    BY <1>0, <2>1, <2>2 DEF OutputComplete, IsDirect
  <2>3. CASE output # stream[p] /\ output # "none"
    <3>1. (\E v : inode' = [inode EXCEPT ![stream[p]] = v]) \/ inode' = inode
      BY <1>4 DEF Write
    <3>2. inode'[output] = inode[output]
      BY <1>0, <2>3, <3>1
    <3>3. Complete(output) => Complete(output)'
      BY <1>0, <2>1, <3>2 DEF Complete
    <3> QED BY <1>0, <2>1, <2>3, <3>3 DEF OutputComplete
  <2>4. CASE output = "none"
    BY <2>1, <2>4 DEF OutputComplete
  <2> QED BY <2>2, <2>3, <2>4
<1>5. CASE UNCHANGED <<output, stream, inode>>
  <2>1. Complete(output) => Complete(output)'
    BY <1>0, <1>5 DEF Complete
  <2> QED BY <1>0, <1>5, <2>1 DEF OutputComplete
<1> QED BY <1>2, <1>3, <1>4, <1>5 DEF Acts, Works, MakeTemporary, RunTool, ReadSymbols,
       RenameOutput, RenameLinkMap, Open, RemoveTemporary, Return, Kill

-----------------------------------------------------------------------------
(* Theorems                                                                *)

LEMMA InitialStates ==
    Init => Inductive
<1> SUFFICES ASSUME Init PROVE Inductive
  OBVIOUS
<1>1. /\ job \in [Process -> Jobs] /\ pc = [p \in Process |-> 1]
      /\ failed = [p \in Process |-> FALSE] /\ status = [p \in Process |-> "running"]
      /\ dirs = [p \in Process |-> {}] /\ files = [p \in Process |-> [f \in {} |-> {}]]
      /\ known = [p \in Process |-> {}] /\ stream = [p \in Process |-> "none"]
      /\ inode = [i \in Inodes |-> IF i = "old" THEN <<Old, Old>> ELSE <<Hole, Hole>>]
      /\ output \in {"old", "none"} /\ map = "old" /\ held = {}
  BY DEF Init
<1>2. \A p \in Process : Len(Steps(job[p])) \in Nat /\ Len(Steps(job[p])) >= 2
  BY <1>1, StepCount
<1>3. \A p \in Process : p # "old" /\ p # "none" /\ p \in Inodes
  BY PublicationAssumption DEF Inodes
<1>4. TypeOK
  <2>1. \A p \in Process : pc[p] \in 1..(Len(Steps(job[p])) + 1)
    BY <1>1, <1>2
  <2>2. stream \in [Process -> Inodes \cup {"none"}] /\ output \in Inodes \cup {"none"}
    BY <1>1 DEF Inodes
  <2>3. pc \in [Process -> Nat] /\ failed \in [Process -> BOOLEAN]
        /\ status \in [Process -> {"running", "ok", "failed", "killed"}]
    BY <1>1
  <2>4. DOMAIN inode = Inodes /\ \A i \in Inodes : DOMAIN inode[i] = 1..2
    <3>1. DOMAIN <<Old, Old>> = 1..2 /\ DOMAIN <<Hole, Hole>> = 1..2
      OBVIOUS
    <3> QED BY <1>1, <3>1
  <2> QED BY <1>1, <2>1, <2>2, <2>3, <2>4 DEF TypeOK
<1>5. FailureOK /\ ResidueOK /\ NoResidue
  BY <1>1 DEF FailureOK, ResidueOK, NoResidue
<1>6. FilesOK
  <2>1. SUFFICES ASSUME NEW p \in Process, NEW k \in 1..Len(Steps(job[p])),
                        Stands(job[p], k, pc[p])
                 PROVE  FALSE
    BY DEF FilesOK
  <2> QED BY <1>1, <1>2, <2>1 DEF Stands
<1>7. HeldOK
  <2>1. ASSUME NEW p \in Process
        PROVE  ~ (pc[p] >= Len(Steps(job[p]))) /\ inode[p] = <<Hole, Hole>> /\ output # p
               /\ (\A q \in Process : stream[q] # p) /\ p \notin held
    <3>1. pc[p] = 1 /\ inode[p] = <<Hole, Hole>> /\ p \notin held
      BY <1>1, <1>3
    <3>2. output # p /\ \A q \in Process : stream[q] # p
      BY <1>1, <1>3
    <3> QED BY <1>2, <3>1, <3>2
  <2> QED BY <2>1 DEF HeldOK
<1>8. StreamOK /\ MapOK
  BY <1>1 DEF StreamOK, MapOK
<1>9. OutputComplete
  <2>1. output = "none" \/ inode[output] = <<Old, Old>>
    BY <1>1 DEF Inodes
  <2> QED BY <2>1 DEF OutputComplete, Complete
<1> QED BY <1>4, <1>5, <1>6, <1>7, <1>8, <1>9 DEF Inductive

LEMMA Stutter ==
    ASSUME Inductive, UNCHANGED vars
    PROVE  Inductive'
<1> USE DEF vars
<1>1. TypeOK' /\ FailureOK' /\ ResidueOK' /\ FilesOK' /\ NoResidue'
  BY DEF Inductive, TypeOK, FailureOK, ResidueOK, FilesOK, NoResidue, Step
<1>2. HeldOK' /\ StreamOK' /\ MapOK'
  BY DEF Inductive, HeldOK, StreamOK, MapOK, Replaced, Disturbed, IsDirect
<1>3. OutputComplete'
  BY DEF Inductive, OutputComplete, Complete
<1> QED BY <1>1, <1>2, <1>3 DEF Inductive

LEMMA InductiveStep ==
    ASSUME Inductive, [Next]_vars
    PROVE  Inductive'
<1>1. CASE Next
  <2>1. PICK p \in Process : Acts(p)
    BY <1>1, SomeoneActs
  <2> QED BY <2>1, TypeStep, FailureStep, ResidueStep, FilesStep, HeldStep, StreamStep,
             MapStep, OutputStep DEF Inductive
<1>2. CASE UNCHANGED vars
  BY <1>2, Stutter
<1> QED BY <1>1, <1>2

\* The inductive invariant holds of any number of compilers that publish at one
\* path (native_host_write_object, native_host_merge_c_sources,
\* native_host_link_artifact, link_freestanding).
THEOREM PublicationInvariant == Spec => []Inductive
  BY InitialStates, InductiveStep, PTL DEF Spec

\* The output path holds the old file, nothing, or a complete artifact, at every
\* moment and after every crash, except while or after a process writes in place.
THEOREM OutputIsComplete == Spec => []OutputComplete
<1>1. Inductive => OutputComplete
  BY DEF Inductive
<1> QED BY <1>1, PublicationInvariant, PTL

\* Success is answered for an artifact that was complete at the output path,
\* failure for one that never was, whatever the other processes do; for a lone
\* object, unless another process opened the same file or renamed over it.
THEOREM AnswersAreTrue == Spec => []StatusTruthful
<1>1. Inductive => StatusTruthful
  <2>1. SUFFICES ASSUME Inductive, NEW p \in Process
                 PROVE  /\ status[p] = "ok" =>
                              p \in held \/ (job[p].mode = "direct" /\ Disturbed(p))
                        /\ status[p] = "failed" =>
                              p \notin held /\ (output = p => job[p].mode = "direct")
    BY DEF StatusTruthful
  <2>2. TypeOK /\ FailureOK /\ HeldOK /\ StreamOK
    BY <2>1 DEF Inductive
  <2>3. Len(Steps(job[p])) \in Nat
    BY <2>2, StepCount DEF TypeOK
  <2>4. ASSUME status[p] = "ok"
        PROVE  p \in held \/ (job[p].mode = "direct" /\ Disturbed(p))
    <3>1. ~ failed[p] /\ pc[p] = Len(Steps(job[p])) + 1
      BY <2>2, <2>4 DEF FailureOK
    <3>2. CASE job[p].mode = "direct"
      <4>1. pc[p] = 4
        <5>1. Len(Steps(job[p])) = 3
          BY <3>2, DirectSteps
        <5> QED BY <3>1, <5>1
      <4> QED BY <2>2, <3>1, <3>2, <4>1 DEF StreamOK, IsDirect
    <3>3. CASE job[p].mode # "direct"
      <4>1. pc[p] >= Len(Steps(job[p]))
        BY <2>3, <3>1
      <4> QED BY <2>2, <3>1, <3>3, <4>1 DEF HeldOK, IsDirect
    <3> QED BY <3>2, <3>3
  <2>5. ASSUME status[p] = "failed"
        PROVE  p \notin held /\ (output = p => job[p].mode = "direct")
    BY <2>2, <2>5 DEF FailureOK, HeldOK, IsDirect
  <2> QED BY <2>4, <2>5
<1> QED BY <1>1, PublicationInvariant, PTL

\* The cleanup labels of platform_toolchain.c reclaim every file and directory,
\* whichever call failed.
THEOREM CleanupIsComplete == Spec => []NoResidue
<1>1. Inductive => NoResidue
  BY DEF Inductive
<1> QED BY <1>1, PublicationInvariant, PTL

\* link_freestanding has renamed a map before its executable is in place.
THEOREM MapComesFirst == Spec => []MapPrecedesArtifact
<1>1. Inductive => MapPrecedesArtifact
  <2>1. SUFFICES ASSUME Inductive, NEW p \in Process, job[p].mode = "mapped", p \in held
                 PROVE  map # "old"
    BY DEF MapPrecedesArtifact
  <2>2. /\ job[p] \in Jobs /\ ~ failed[p] /\ pc[p] \in Nat
        /\ pc[p] >= Len(Steps(job[p]))
    BY <2>1 DEF Inductive, TypeOK, HeldOK, IsDirect
  <2>3. Len(Steps(job[p])) \in Nat
    BY <2>2, StepCount
  <2>4. PICK i \in 1..(Len(Steps(job[p])) - 2) : Steps(job[p])[i].op = "map"
    BY <2>1, <2>2, RenamingSteps
  <2>5. i \in 1..(pc[p] - 1)
    BY <2>2, <2>3
  <2> QED BY <2>1, <2>2, <2>4, <2>5 DEF Inductive, MapOK
<1> QED BY <1>1, PublicationInvariant, PTL

\* rename() gives the path a new file: a file that is open elsewhere is changed
\* only by a process that writes in place.
THEOREM RenamingReplaces == Spec => OpenFilesStable
<1> DEFINE Stable == \A i \in Inodes :
               inode[i] # <<Hole, Hole>> /\ inode'[i] # inode[i] =>
                   \E p \in Process : job[p].mode = "direct" /\ stream'[p] = i
<1>1. Inductive /\ [Next]_vars => [Stable]_vars
  <2>1. SUFFICES ASSUME Inductive, Next, NEW i \in Inodes,
                        inode[i] # <<Hole, Hole>>, inode'[i] # inode[i]
                 PROVE  \E p \in Process : job[p].mode = "direct" /\ stream'[p] = i
    OBVIOUS
  <2>2. PICK p \in Process : Acts(p)
    BY <2>1, SomeoneActs
  <2>3. /\ TypeOK /\ FailureOK /\ HeldOK /\ StreamOK
        /\ DOMAIN inode = Inodes /\ DOMAIN stream = Process
    BY <2>1 DEF Inductive, TypeOK
  <2>4. CASE RenameOutput(p)
    <3>1. i = p
      BY <2>1, <2>3, <2>4 DEF RenameOutput, Set
    <3>2. ~ IsDirect(p) /\ pc[p] = Count(p) - 1
      BY <2>3, <2>4, WhoDoesWhat DEF Works, Open, Write, RenameOutput, At
    <3>3. p \notin held
      <4>1. Count(p) \in Nat /\ pc[p] \in Nat
        BY <2>3, StepCount DEF TypeOK, Count
      <4> QED BY <2>3, <3>2, <4>1 DEF HeldOK, Count
    <3> QED BY <2>1, <2>3, <3>1, <3>2, <3>3 DEF HeldOK
  <2>5. CASE Open(p)
    <3>1. IsDirect(p) /\ stream'[p] = i
      <4>1. IsDirect(p)
        BY <2>3, <2>5, WhoDoesWhat
      <4>2. inode' = Set(inode, stream'[p], <<Hole, Hole>>)
        BY <2>1, <2>5 DEF Open
      <4> QED BY <2>1, <2>3, <4>1, <4>2 DEF Set
    <3> QED BY <3>1 DEF IsDirect
  <2>6. CASE Write(p)
    <3>1. IsDirect(p) /\ stream' = stream
      BY <2>3, <2>6, WhoDoesWhat DEF Write
    <3>2. \E v : inode' = [inode EXCEPT ![stream[p]] = v]
      BY <2>1, <2>6 DEF Write
    <3>3. stream[p] = i
      BY <2>1, <2>3, <3>2
    <3> QED BY <3>1, <3>3 DEF IsDirect
  <2>7. CASE inode' = inode
    BY <2>1, <2>7
  <2> QED BY <2>2, <2>4, <2>5, <2>6, <2>7 DEF Acts, Works, MakeTemporary, RunTool, ReadSymbols,
       RenameLinkMap, RemoveTemporary, Return, Kill
<1>2. Spec => [][Stable]_vars
  BY <1>1, PublicationInvariant, PTL DEF Spec
<1> QED BY <1>2 DEF OpenFilesStable
=============================================================================
