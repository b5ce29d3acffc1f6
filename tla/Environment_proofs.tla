------------------------- MODULE Environment_proofs -------------------------
(***************************************************************************)
(* No sequence of operations makes a name ambiguous, KEYWORD left aside,   *)
(* for any number of packages, names and records.  The invariant needs     *)
(* that the index answers as the list does (IndexAgrees) and that no       *)
(* record is shared (Exclusive), so that a change to one record is a       *)
(* change to one name of one package, and that the packages and records    *)
(* not yet in use are empty and unreferenced (TypeOK).                     *)
(***************************************************************************)
EXTENDS Environment, WellFoundedInduction, TLAPS

USE DEF PackageIds, SymbolIds, EntryIds, SeedCount, CL, SourcePackage

-----------------------------------------------------------------------------
(* Lookups.                                                                *)

\* The capacities are numbers.
LEMMA Capacities ==
    /\ PackageCapacity \in Nat /\ SymbolCapacity \in Nat /\ PresentCapacity \in Nat
    /\ UseCapacity \in Nat /\ AliasCapacity \in Nat /\ NameCapacity \in Nat
    /\ BucketCount \in Nat /\ Keyword \in Nat
BY EnvironmentAssumption

\* A name has at most one record in a package, and it is in the chain searched.
LEMMA CandidatesAreListed ==
    ASSUME TypeOK, IndexAgrees, NEW p \in PackageIds, NEW n \in SymbolNames,
           NEW x \in BOOLEAN
    PROVE  Candidates(p, n, x) = {e \in present[p] : NameOf(e) = n /\ (x => entries[e].external)}
<1>1. CASE BucketCount = 0
  BY <1>1 DEF Candidates
<1>2. CASE BucketCount # 0
  <2>1. BucketCount > 0 /\ Hash \in [SymbolNames -> Buckets]
    BY <1>2, EnvironmentAssumption
  <2>2. bucket[p][Hash[n]] = {e \in present[p] : Hash[NameOf(e)] = Hash[n]}
    BY <2>1 DEF IndexAgrees
  <2> QED BY <1>2, <2>2 DEF Candidates
<1> QED BY <1>1, <1>2

\* native_ct_find_present finds the record of the name if there is one.
LEMMA Found ==
    ASSUME TypeOK, IndexAgrees, NEW p \in PackageIds, NEW n \in SymbolNames,
           NEW x \in BOOLEAN
    PROVE  /\ FindPresent(p, n, x) # 0 =>
                /\ FindPresent(p, n, x) \in present[p]
                /\ NameOf(FindPresent(p, n, x)) = n
                /\ x => entries[FindPresent(p, n, x)].external
           /\ FindPresent(p, n, x) = 0 =>
                \A e \in present[p] : NameOf(e) = n => x /\ ~ entries[e].external
           /\ \A e \in present[p] : NameOf(e) = n /\ (x => entries[e].external)
                => FindPresent(p, n, x) = e
<1> DEFINE S == {e \in present[p] : NameOf(e) = n /\ (x => entries[e].external)}
<1>1. Candidates(p, n, x) = S
  BY CandidatesAreListed
<1>2. S \subseteq EntryIds
  BY DEF TypeOK
<1>3. \A e, f \in S : e = f
  BY DEF IndexAgrees
<1>4. S # {} => First(S) \in S
  <2> SUFFICES ASSUME NEW e \in S PROVE First(S) \in S
    OBVIOUS
  <2>1. \A f \in S : f <= e
    BY <1>2, <1>3
  <2> HIDE DEF S
  <2> QED BY <2>1 DEF First
<1>5. FindPresent(p, n, x) = IF S = {} THEN 0 ELSE First(S)
  BY <1>1 DEF FindPresent
<1>6. 0 \notin S
  BY <1>2
<1> QED BY <1>3, <1>4, <1>5, <1>6

\* native_ct_find_used meets the external symbols of that name of the packages
\* used.
LEMMA InheritedSymbols ==
    ASSUME TypeOK, IndexAgrees, NEW p \in PackageIds, NEW n \in SymbolNames, NEW s
    PROVE  s \in Inherited(p, n) <=>
             \E q \in uses[p] : \E e \in External(q) :
                 NameOf(e) = n /\ entries[e].symbol = s
<1>0. \A q \in uses[p] : q \in PackageIds
  BY DEF TypeOK
<1>1. ASSUME NEW q \in uses[p], FindPresent(q, n, TRUE) # 0,
             s = entries[FindPresent(q, n, TRUE)].symbol
      PROVE  \E e \in External(q) : NameOf(e) = n /\ entries[e].symbol = s
  BY <1>0, <1>1, Found DEF External
<1>2. ASSUME NEW q \in uses[p], NEW e \in External(q), NameOf(e) = n,
             entries[e].symbol = s
      PROVE  FindPresent(q, n, TRUE) # 0 /\ s = entries[FindPresent(q, n, TRUE)].symbol
  <2>1. FindPresent(q, n, TRUE) = e
    BY <1>0, <1>2, Found DEF External
  <2>2. e # 0
    <3>1. q \in PackageIds /\ e \in present[q]
      BY <1>0 DEF External
    <3> QED BY <3>1, Capacities DEF TypeOK
  <2> QED BY <2>1, <2>2, <1>2
<1> QED BY <1>1, <1>2 DEF Inherited

\* What the answer of native_ct_find_symbol or native_ct_find_used says of the
\* records.
LEMMA VisibleSymbols ==
    ASSUME TypeOK, IndexAgrees, NEW p \in PackageIds, NEW n \in SymbolNames, NEW s
    PROVE  /\ Inherited(p, n) \subseteq {s} =>
                \A q \in uses[p] : \A e \in External(q) :
                    NameOf(e) = n => entries[e].symbol = s
           /\ ~ Conflict(Inherited(p, n)) =>
                \A q, r \in uses[p] : \A e \in External(q), g \in External(r) :
                    NameOf(e) = n /\ NameOf(g) = n => entries[e].symbol = entries[g].symbol
           /\ Visible(p, n) \subseteq {s} =>
                /\ \A e \in present[p] : NameOf(e) = n => entries[e].symbol = s
                /\ (\A e \in present[p] : NameOf(e) # n) => Inherited(p, n) \subseteq {s}
           /\ Visible(p, n) = {} =>
                /\ \A e \in present[p] : NameOf(e) # n
                /\ Inherited(p, n) = {}
<1>1. \A t : t \in Inherited(p, n) <=>
        \E q \in uses[p] : \E e \in External(q) : NameOf(e) = n /\ entries[e].symbol = t
  BY InheritedSymbols
<1>2. Inherited(p, n) \subseteq {s} =>
        \A q \in uses[p] : \A e \in External(q) : NameOf(e) = n => entries[e].symbol = s
  BY <1>1
<1>3. ~ Conflict(Inherited(p, n)) =>
        \A q, r \in uses[p] : \A e \in External(q), g \in External(r) :
            NameOf(e) = n /\ NameOf(g) = n => entries[e].symbol = entries[g].symbol
  BY <1>1 DEF Conflict
<1> DEFINE f == FindPresent(p, n, FALSE)
<1>4. /\ f # 0 => f \in present[p] /\ NameOf(f) = n
      /\ f = 0 => \A e \in present[p] : NameOf(e) # n
      /\ \A e \in present[p] : NameOf(e) = n => f = e
  BY Found
<1>5. Visible(p, n) = IF f # 0 THEN {entries[f].symbol} ELSE Inherited(p, n)
  BY DEF Visible
<1> HIDE DEF f
<1>6. 0 \notin present[p]
  BY Capacities DEF TypeOK
<1> QED BY <1>2, <1>3, <1>4, <1>5, <1>6

-----------------------------------------------------------------------------
(* What a step does to the records, apart from the rest of the state.      *)

\* Symbols keep their names; homes may change.
NamesKept ==
    /\ symbols' \in Seq(Symbol) /\ Len(symbols') <= SymbolCapacity
    /\ Len(symbols) <= Len(symbols')
    /\ \A t \in 1..Len(symbols) : symbols'[t].name = symbols[t].name

RecordsOK ==
    /\ entries \in Seq(Presence) /\ Len(entries) <= PresentCapacity
    /\ present \in [PackageIds -> SUBSET EntryIds]
    /\ bucket \in [PackageIds -> [Buckets -> SUBSET EntryIds]]
    /\ \A p \in PackageIds : \A e \in present[p] : p <= Len(pname) /\ e <= Len(entries)
    /\ \A e \in 1..Len(entries) : entries[e].symbol <= Len(symbols)

\* Record k of symbol s, named n, joins package p.
RecordAdded(p, k, s, n, x, h) ==
    /\ \A q \in PackageIds : q # p => present'[q] = present[q]
    /\ present'[p] = present[p] \cup {k}
    /\ \A q \in PackageIds : k \notin present[q]
    /\ \A q \in PackageIds : \A e \in present[q] :
          entries'[e] = entries[e] /\ NameOf(e)' = NameOf(e)
    /\ entries'[k] = [symbol |-> s, external |-> x, shadowing |-> h]
    /\ NameOf(k)' = n

\* Record k of package p becomes rec, of the same name.
RecordSet(p, k, rec) ==
    /\ present' = present
    /\ k \in present[p] /\ \A q \in PackageIds : q # p => k \notin present[q]
    /\ \A q \in PackageIds : \A e \in present[q] :
          (e # k => entries'[e] = entries[e]) /\ NameOf(e)' = NameOf(e)
    /\ entries'[k] = rec

\* The facts about entries that the steps below start from.
LEMMA EntryFacts ==
    ASSUME TypeOK, NEW p \in PackageIds, NEW e \in present[p]
    PROVE  /\ e \in 1..Len(entries) /\ e \in Nat /\ e # 0
           /\ entries[e] \in Presence
           /\ entries[e].symbol \in 1..Len(symbols)
           /\ NameOf(e) \in SymbolNames
<1>1. e \in 1..Len(entries) /\ e \in Nat /\ e # 0
  BY Capacities DEF TypeOK
<1>2. entries[e] \in Presence
  BY <1>1 DEF TypeOK
<1>3. entries[e].symbol \in 1..Len(symbols)
  <2>1. \A f \in 1..Len(entries) : entries[f].symbol <= Len(symbols)
    BY DEF TypeOK
  <2>2. entries[e].symbol \in 1..SymbolCapacity /\ Len(symbols) \in Nat
    BY <1>2 DEF TypeOK, Presence
  <2>3. entries[e].symbol <= Len(symbols)
    BY <1>1, <2>1
  <2> QED BY <2>2, <2>3, Capacities
<1>4. symbols[entries[e].symbol] \in Symbol
  BY <1>3 DEF TypeOK
<1> QED BY <1>1, <1>2, <1>3, <1>4 DEF NameOf, Symbol

\* native_ct_add_presence for a name that the package does not have.
LEMMA Added ==
    ASSUME TypeOK, IndexAgrees, Exclusive, NamesKept, PresentRoom,
           NEW p \in PackageIds, NEW s \in 1..Len(symbols'), NEW n \in SymbolNames,
           NEW x \in BOOLEAN, NEW h \in BOOLEAN,
           NEW k, k = Len(entries) + 1, p <= Len(pname), pname' = pname,
           symbols'[s].name = n, AddPresence(p, s, n, x, h),
           \A e \in present[p] : NameOf(e) # n
    PROVE  /\ RecordsOK' /\ IndexAgrees' /\ Exclusive'
           /\ RecordAdded(p, k, s, n, x, h)
<1> DEFINE rec == [symbol |-> s, external |-> x, shadowing |-> h]
<1>1. /\ entries \in Seq(Presence) /\ Len(entries) \in Nat /\ k \in EntryIds
      /\ Len(symbols') \in Nat /\ Len(symbols) \in Nat /\ s \in SymbolIds
  BY Capacities DEF TypeOK, PresentRoom, NamesKept
<1>2. rec \in Presence
  BY <1>1 DEF Presence
<1>3. /\ entries' = Append(entries, rec)
      /\ present' = [present EXCEPT ![p] = present[p] \cup {k}]
      /\ bucket' = IF BucketCount = 0 THEN bucket
                   ELSE [bucket EXCEPT ![p][Hash[n]] = bucket[p][Hash[n]] \cup {k}]
  BY DEF AddPresence, IndexPresence
<1> HIDE DEF rec
<1>4. /\ entries' \in Seq(Presence) /\ Len(entries') = k
      /\ entries'[k] = rec /\ \A e \in 1..Len(entries) : entries'[e] = entries[e]
  BY <1>1, <1>2, <1>3
<1>5. /\ present' \in [PackageIds -> SUBSET EntryIds]
      /\ present'[p] = present[p] \cup {k}
      /\ \A q \in PackageIds : q # p => present'[q] = present[q]
  BY <1>1, <1>3 DEF TypeOK
<1>6. \A q \in PackageIds : k \notin present[q]
  BY <1>1, EntryFacts
<1>7. \A q \in PackageIds : \A e \in present[q] :
        entries'[e] = entries[e] /\ NameOf(e)' = NameOf(e)
  <2> SUFFICES ASSUME NEW q \in PackageIds, NEW e \in present[q]
      PROVE  entries'[e] = entries[e] /\ NameOf(e)' = NameOf(e)
    OBVIOUS
  <2>1. entries'[e] = entries[e] /\ entries[e].symbol \in 1..Len(symbols)
    BY <1>4, EntryFacts
  <2> QED BY <2>1 DEF NameOf, NamesKept
<1>8. NameOf(k)' = n
  <2>1. entries'[k].symbol = s
    BY <1>4 DEF rec
  <2> QED BY <2>1, symbols'[s].name = n DEF NameOf
<1>9. BucketCount > 0 => Hash \in [SymbolNames -> Buckets]
  BY EnvironmentAssumption
<1>10. /\ bucket' \in [PackageIds -> [Buckets -> SUBSET EntryIds]]
       /\ \A q \in PackageIds : q # p => bucket'[q] = bucket[q]
       /\ BucketCount > 0 => \A b \in Buckets :
             bucket'[p][b] = IF b = Hash[n] THEN bucket[p][b] \cup {k} ELSE bucket[p][b]
  <2>1. bucket \in [PackageIds -> [Buckets -> SUBSET EntryIds]]
    BY DEF TypeOK
  <2>2. BucketCount = 0 \/ BucketCount > 0
    BY Capacities
  <2>3. CASE BucketCount = 0
    BY <1>3, <2>1, <2>3, Capacities
  <2>4. CASE BucketCount > 0
    <3>1. BucketCount # 0 /\ Hash[n] \in Buckets
      BY <2>4, <1>9
    <3>2. bucket' = [bucket EXCEPT ![p][Hash[n]] = bucket[p][Hash[n]] \cup {k}]
      BY <3>1, <1>3
    <3>3. bucket[p][Hash[n]] \cup {k} \in SUBSET EntryIds
      BY <3>1, <2>1, <1>1
    <3> HIDE DEF EntryIds
    <3> QED BY <3>1, <3>2, <3>3, <2>1
  <2> QED BY <2>2, <2>3, <2>4
<1>11. RecordsOK'
  <2>1. Len(entries') <= PresentCapacity
    BY <1>1, <1>4
  <2>2. \A q \in PackageIds : \A e \in present'[q] : q <= Len(pname') /\ e <= Len(entries')
    <3>1. \A q \in PackageIds : \A e \in present[q] :
            q <= Len(pname) /\ e <= Len(entries) /\ e \in Nat
      BY EntryFacts DEF TypeOK
    <3> QED BY SMTT(40), <3>1, <1>1, <1>4, <1>5
  <2>3. ASSUME NEW e \in 1..Len(entries')
        PROVE  entries'[e].symbol <= Len(symbols')
    <3>1. CASE e = k
      BY <3>1, <1>1, <1>4 DEF rec
    <3>2. CASE e # k
      <4>1. e \in 1..Len(entries)
        BY <3>2, <1>1, <1>4
      <4>2. entries[e].symbol <= Len(symbols) /\ entries[e].symbol \in 1..SymbolCapacity
        <5>1. \A f \in 1..Len(entries) : entries[f].symbol <= Len(symbols)
          BY DEF TypeOK
        <5>2. entries[e] \in Presence
          BY <4>1, <1>1
        <5> QED BY <4>1, <5>1, <5>2 DEF Presence
      <4> QED BY <4>1, <4>2, <1>1, <1>4, Capacities DEF NamesKept
    <3> QED BY <3>1, <3>2
  <2> QED BY <2>1, <2>2, <2>3, <1>4, <1>5, <1>10 DEF RecordsOK
<1>12. IndexAgrees'
  <2> SUFFICES ASSUME NEW q \in PackageIds
      PROVE  /\ \A e, f \in present'[q] : NameOf(e)' = NameOf(f)' => e = f
             /\ BucketCount > 0 => \A b \in Buckets :
                   bucket'[q][b] = {e \in present'[q] : Hash[NameOf(e)'] = b}
    BY DEF IndexAgrees
  <2>1. /\ \A e, f \in present[q] : NameOf(e) = NameOf(f) => e = f
        /\ BucketCount > 0 => \A b \in Buckets :
              bucket[q][b] = {e \in present[q] : Hash[NameOf(e)] = b}
    BY DEF IndexAgrees
  <2>2. CASE q # p
    BY <2>1, <2>2, <1>5, <1>7, <1>10
  <2>3. CASE q = p
    <3>1. \A e, f \in present'[p] : NameOf(e)' = NameOf(f)' => e = f
      <4>1. \A e \in present[p] : NameOf(e)' # n
        BY <1>7
      <4>2. \A e, f \in present[p] : NameOf(e)' = NameOf(f)' => e = f
        BY <2>1, <2>3, <1>7
      <4> QED BY <4>1, <4>2, <1>5, <1>8
    <3>2. ASSUME BucketCount > 0, NEW b \in Buckets
          PROVE  bucket'[p][b] = {e \in present'[p] : Hash[NameOf(e)'] = b}
      <4>1. bucket'[p][b] = IF b = Hash[n] THEN bucket[p][b] \cup {k} ELSE bucket[p][b]
        BY <3>2, <1>10
      <4>2. bucket[p][b] = {e \in present[p] : Hash[NameOf(e)] = b}
        BY <3>2, <2>1, <2>3
      <4>3. \A e \in present[p] : Hash[NameOf(e)'] = Hash[NameOf(e)]
        BY <1>7
      <4>4. Hash[NameOf(k)'] = Hash[n]
        BY <1>8
      <4> QED BY <4>1, <4>2, <4>3, <4>4, <1>5
    <3> QED BY <2>3, <3>1, <3>2
  <2> QED BY <2>2, <2>3
<1>13. Exclusive'
  BY <1>5, <1>6 DEF Exclusive
<1> QED BY <1>4, <1>5, <1>6, <1>7, <1>8, <1>11, <1>12, <1>13 DEF RecordAdded, rec

\* A record is given another content under the same name.
LEMMA Replaced ==
    ASSUME TypeOK, IndexAgrees, Exclusive, NamesKept, pname' = pname,
           NEW p \in PackageIds, NEW k \in present[p], NEW rec \in Presence,
           rec.symbol \in 1..Len(symbols), symbols[rec.symbol].name = NameOf(k),
           SetEntry(k, rec)
    PROVE  RecordsOK' /\ IndexAgrees' /\ Exclusive' /\ RecordSet(p, k, rec)
<1>1. /\ entries \in Seq(Presence) /\ Len(entries) \in Nat /\ Len(symbols') \in Nat
      /\ Len(symbols) \in Nat /\ Len(symbols) <= Len(symbols')
  BY DEF TypeOK, NamesKept
<1>2. /\ k \in 1..Len(entries)
      /\ entries' = [entries EXCEPT ![k] = rec] /\ present' = present /\ bucket' = bucket
  BY EntryFacts DEF SetEntry
<1>3. /\ entries' \in Seq(Presence) /\ Len(entries') = Len(entries)
      /\ entries'[k] = rec /\ \A e \in 1..Len(entries) : e # k => entries'[e] = entries[e]
  BY <1>1, <1>2
<1>4. \A q \in PackageIds : \A e \in present[q] :
        (e # k => entries'[e] = entries[e]) /\ NameOf(e)' = NameOf(e)
  <2> SUFFICES ASSUME NEW q \in PackageIds, NEW e \in present[q]
      PROVE  (e # k => entries'[e] = entries[e]) /\ NameOf(e)' = NameOf(e)
    OBVIOUS
  <2>1. /\ e \in 1..Len(entries) /\ entries[e].symbol \in 1..Len(symbols)
    BY EntryFacts
  <2>2. CASE e = k
    <3>1. NameOf(k)' = symbols'[rec.symbol].name
      BY <1>3 DEF NameOf
    <3>2. symbols'[rec.symbol].name = symbols[rec.symbol].name
      BY DEF NamesKept
    <3> QED BY <2>2, <3>1, <3>2
  <2>3. CASE e # k
    <3>1. entries'[e] = entries[e]
      BY <2>1, <2>3, <1>3
    <3>2. symbols'[entries[e].symbol].name = symbols[entries[e].symbol].name
      BY <2>1 DEF NamesKept
    <3> QED BY <3>1, <3>2 DEF NameOf
  <2> QED BY <2>2, <2>3
<1>5. RecordsOK'
  <2>1. /\ Len(entries') <= PresentCapacity /\ present' \in [PackageIds -> SUBSET EntryIds]
        /\ bucket' \in [PackageIds -> [Buckets -> SUBSET EntryIds]]
        /\ \A q \in PackageIds : \A e \in present'[q] : q <= Len(pname') /\ e <= Len(entries')
    BY <1>2, <1>3 DEF TypeOK
  <2>2. ASSUME NEW e \in 1..Len(entries')
        PROVE  entries'[e].symbol <= Len(symbols')
    <3>1. CASE e = k
      BY <3>1, <1>1, <1>3
    <3>2. CASE e # k
      <4>1. \A f \in 1..Len(entries) : entries[f].symbol <= Len(symbols)
        BY DEF TypeOK
      <4>2. e \in 1..Len(entries) /\ entries[e] \in Presence /\ entries'[e] = entries[e]
        BY <3>2, <1>1, <1>3
      <4>3. entries[e].symbol \in 1..SymbolCapacity /\ entries[e].symbol <= Len(symbols)
        BY <4>1, <4>2 DEF Presence
      <4> QED BY <4>2, <4>3, <1>1, Capacities
    <3> QED BY <3>1, <3>2
  <2> QED BY <2>1, <2>2, <1>3 DEF RecordsOK
<1>6. IndexAgrees'
  <2> SUFFICES ASSUME NEW q \in PackageIds
      PROVE  /\ \A e, f \in present[q] : NameOf(e)' = NameOf(f)' => e = f
             /\ BucketCount > 0 => \A b \in Buckets :
                   bucket[q][b] = {e \in present[q] : Hash[NameOf(e)'] = b}
    BY <1>2 DEF IndexAgrees
  <2>1. \A e \in present[q] : NameOf(e)' = NameOf(e)
    BY <1>4
  <2> QED BY <2>1 DEF IndexAgrees
<1>7. Exclusive' /\ \A q \in PackageIds : q # p => k \notin present[q]
  BY <1>2 DEF Exclusive
<1> QED BY <1>2, <1>3, <1>4, <1>5, <1>6, <1>7 DEF RecordSet

\* Record k leaves package p.
RecordRemoved(p, k) ==
    /\ \A q \in PackageIds : q # p => present'[q] = present[q]
    /\ present'[p] = present[p] \ {k}
    /\ entries' = entries
    /\ \A q \in PackageIds : \A e \in present[q] : NameOf(e)' = NameOf(e)

Unlinking(p, k) ==
    /\ present' = [present EXCEPT ![p] = present[p] \ {k}]
    /\ bucket' = IF BucketCount = 0 THEN bucket
                 ELSE [bucket EXCEPT ![p][Hash[NameOf(k)]] = bucket[p][Hash[NameOf(k)]] \ {k}]

\* native_ct_unlink_presence takes the record from the list and from its chain.
LEMMA Unlinked ==
    ASSUME TypeOK, IndexAgrees, Exclusive, NamesKept, pname' = pname,
           NEW p \in PackageIds, NEW k \in present[p],
           Unlinking(p, k), entries' = entries
    PROVE  RecordsOK' /\ IndexAgrees' /\ Exclusive' /\ RecordRemoved(p, k)
<1> DEFINE b0 == Hash[NameOf(k)]
<1>1. /\ present' \in [PackageIds -> SUBSET EntryIds]
      /\ present'[p] = present[p] \ {k}
      /\ \A q \in PackageIds : q # p => present'[q] = present[q]
  BY DEF TypeOK, Unlinking
<1>2. \A q \in PackageIds : \A e \in present[q] : NameOf(e)' = NameOf(e)
  <2> SUFFICES ASSUME NEW q \in PackageIds, NEW e \in present[q]
      PROVE  NameOf(e)' = NameOf(e)
    OBVIOUS
  <2>1. entries[e].symbol \in 1..Len(symbols)
    BY EntryFacts
  <2> QED BY <2>1 DEF NameOf, NamesKept
<1>3. BucketCount > 0 => Hash \in [SymbolNames -> Buckets] /\ b0 \in Buckets
  BY EnvironmentAssumption, EntryFacts
<1>4. /\ bucket' \in [PackageIds -> [Buckets -> SUBSET EntryIds]]
      /\ \A q \in PackageIds : q # p => bucket'[q] = bucket[q]
      /\ BucketCount > 0 => \A b \in Buckets :
            bucket'[p][b] = IF b = b0 THEN bucket[p][b] \ {k} ELSE bucket[p][b]
  <2>1. bucket \in [PackageIds -> [Buckets -> SUBSET EntryIds]]
    BY DEF TypeOK
  <2>2. BucketCount = 0 \/ BucketCount > 0
    BY Capacities
  <2>3. CASE BucketCount = 0
    BY <2>1, <2>3, Capacities DEF Unlinking
  <2>4. CASE BucketCount > 0
    <3>1. BucketCount # 0 /\ b0 \in Buckets
      BY <2>4, <1>3
    <3>2. bucket' = [bucket EXCEPT ![p][b0] = bucket[p][b0] \ {k}]
      BY <3>1 DEF Unlinking
    <3>3. bucket[p][b0] \ {k} \in SUBSET EntryIds
      BY <3>1, <2>1
    <3>4. /\ \A q \in PackageIds : q # p => bucket'[q] = bucket[q]
          /\ \A b \in Buckets :
                bucket'[p][b] = IF b = b0 THEN bucket[p][b0] \ {k} ELSE bucket[p][b]
          /\ bucket' \in [PackageIds -> [Buckets -> SUBSET EntryIds]]
      <4> DEFINE v == bucket[p][b0] \ {k}
                 T == SUBSET EntryIds
      <4>1. /\ bucket' = [bucket EXCEPT ![p][b0] = v] /\ v \in T
            /\ b0 \in Buckets /\ bucket \in [PackageIds -> [Buckets -> T]]
        BY <3>1, <3>2, <3>3, <2>1
      <4>2. p \in PackageIds
        OBVIOUS
      <4> HIDE DEF b0, v, T, PackageIds
      <4>3. /\ bucket' \in [PackageIds -> [Buckets -> T]]
            /\ \A q \in PackageIds : q # p => bucket'[q] = bucket[q]
            /\ \A c \in Buckets : bucket'[p][c] = IF c = b0 THEN v ELSE bucket[p][c]
        BY <4>1, <4>2
      <4> QED BY <4>3 DEF v, T
    <3> QED BY <3>4
  <2> QED BY <2>2, <2>3, <2>4
<1>5. RecordsOK'
  <2>1. /\ entries' \in Seq(Presence) /\ Len(entries') <= PresentCapacity
        /\ \A q \in PackageIds : \A e \in present[q] : q <= Len(pname) /\ e <= Len(entries)
        /\ \A e \in 1..Len(entries) : entries[e].symbol <= Len(symbols)
        /\ Len(symbols) \in Nat /\ Len(symbols') \in Nat /\ Len(symbols) <= Len(symbols')
    BY DEF TypeOK, NamesKept
  <2>2. \A q \in PackageIds : \A e \in present'[q] : q <= Len(pname') /\ e <= Len(entries')
    BY <2>1, <1>1
  <2>3. ASSUME NEW e \in 1..Len(entries')
        PROVE  entries'[e].symbol <= Len(symbols')
    <3>1. entries[e] \in Presence /\ entries[e].symbol <= Len(symbols)
      BY <2>1
    <3> QED BY <3>1, <2>1, Capacities DEF Presence
  <2> QED BY <2>1, <2>2, <2>3, <1>1, <1>4 DEF RecordsOK
<1>6. IndexAgrees'
  <2> SUFFICES ASSUME NEW q \in PackageIds
      PROVE  /\ \A e, f \in present'[q] : NameOf(e)' = NameOf(f)' => e = f
             /\ BucketCount > 0 => \A b \in Buckets :
                   bucket'[q][b] = {e \in present'[q] : Hash[NameOf(e)'] = b}
    BY DEF IndexAgrees
  <2>1. /\ \A e, f \in present[q] : NameOf(e) = NameOf(f) => e = f
        /\ BucketCount > 0 => \A b \in Buckets :
              bucket[q][b] = {e \in present[q] : Hash[NameOf(e)] = b}
    BY DEF IndexAgrees
  <2>2. \A e \in present'[q] : e \in present[q] /\ NameOf(e)' = NameOf(e)
    BY <1>1, <1>2
  <2>3. \A e, f \in present'[q] : NameOf(e)' = NameOf(f)' => e = f
    BY <2>1, <2>2
  <2>4. ASSUME BucketCount > 0, NEW b \in Buckets
        PROVE  bucket'[q][b] = {e \in present'[q] : Hash[NameOf(e)'] = b}
    <3>1. bucket[q][b] = {e \in present[q] : Hash[NameOf(e)] = b}
      BY <2>1, <2>4
    <3>2. CASE q # p
      BY <3>1, <3>2, <2>2, <1>1, <1>4
    <3>3. CASE q = p
      <4>1. bucket'[p][b] = IF b = b0 THEN bucket[p][b] \ {k} ELSE bucket[p][b]
        BY <2>4, <1>4
      <4> QED BY <3>1, <3>3, <4>1, <2>2, <1>1
    <3> QED BY <3>2, <3>3
  <2> QED BY <2>3, <2>4
<1>7. Exclusive'
  BY <1>1 DEF Exclusive
<1> QED BY <1>1, <1>2, <1>5, <1>6, <1>7 DEF RecordRemoved

-----------------------------------------------------------------------------
(* No change to the records or to the uses that the code allows makes a    *)
(* name ambiguous.                                                         *)

\* Package u can take symbol s for name n: what CandidateVisible checks.
Sees(u, n, s) ==
    /\ \A f \in present[u] : NameOf(f) = n => entries[f].shadowing \/ entries[f].symbol = s
    /\ (\A f \in present[u] : NameOf(f) # n) =>
          \A q \in uses[u] : \A e \in External(q) : NameOf(e) = n => entries[e].symbol = s

\* native_ct_candidate_visible_p checks it.
LEMMA CandidateSees ==
    ASSUME TypeOK, IndexAgrees, NEW u \in PackageIds, NEW s \in 1..Len(symbols),
           CandidateVisible(u, s)
    PROVE  Sees(u, symbols[s].name, s)
<1> DEFINE n == symbols[s].name
           f == FindPresent(u, n, FALSE)
<1>1. n \in SymbolNames
  <2>1. symbols[s] \in Symbol
    BY DEF TypeOK
  <2> QED BY <2>1 DEF Symbol
<1>2. /\ f = 0 => \A e \in present[u] : NameOf(e) # n
      /\ \A e \in present[u] : NameOf(e) = n => f = e
  BY <1>1, Found
<1>3. /\ f # 0 => entries[f].shadowing \/ entries[f].symbol = s
      /\ f = 0 => Inherited(u, n) \subseteq {s}
  BY Zenon DEF CandidateVisible
<1>4. Inherited(u, n) \subseteq {s} =>
        \A q \in uses[u] : \A e \in External(q) : NameOf(e) = n => entries[e].symbol = s
  <2> HIDE DEF n
  <2>1. \A t : t \in Inherited(u, n) <=>
          \E q \in uses[u] : \E e \in External(q) : NameOf(e) = n /\ entries[e].symbol = t
    BY <1>1, InheritedSymbols
  <2> QED BY <2>1
<1>5. f # 0 => f \in present[u] /\ NameOf(f) = n
  BY <1>1, Found
<1>6. 0 \notin present[u]
  BY Capacities DEF TypeOK
<1> HIDE DEF f
<1> QED BY <1>2, <1>3, <1>4, <1>5, <1>6 DEF Sees

\* The two parts of CoherentIn for one record that package u inherits.
Inherits(u, e) ==
    /\ Agrees(u, e)
    /\ (\A f \in present[u] : NameOf(f) # NameOf(e)) =>
          \A r \in Used(u) : \A g \in External(r) :
              NameOf(g) = NameOf(e) => entries[g].symbol = entries[e].symbol

\* A record is added.
LEMMA CoherentAdded ==
    ASSUME TypeOK, Coherent, uses' = uses, NEW p \in PackageIds, NEW k, NEW s,
           NEW n \in SymbolNames, NEW x \in BOOLEAN, NEW h \in BOOLEAN,
           RecordAdded(p, k, s, n, x, h),
           ~ h => \A q \in uses[p] : \A e \in External(q) : NameOf(e) = n => entries[e].symbol = s,
           x => \A u \in PackageIds : p \in Used(u) => Sees(u, n, s)
    PROVE  Coherent'
<1> SUFFICES ASSUME NEW u \in PackageIds, NEW q \in Used(u), NEW e \in External(q)'
             PROVE  Inherits(u, e)'
  BY Zenon DEF Coherent, CoherentIn, Inherits, Used
<1>0. q \in PackageIds /\ \A r \in Used(u) : r \in PackageIds
  BY DEF TypeOK, Used
<1>1. /\ present'[p] = present[p] \cup {k}
      /\ \A r \in PackageIds : r # p => present'[r] = present[r]
      /\ \A r \in PackageIds : k \notin present[r]
      /\ \A r \in PackageIds : \A f \in present[r] :
            entries'[f] = entries[f] /\ NameOf(f)' = NameOf(f)
      /\ NameOf(k)' = n /\ entries'[k].symbol = s /\ entries'[k].external = x
      /\ entries'[k].shadowing = h
  BY DEF RecordAdded
\* A record of the new state is k or one of before.
<1>2. ASSUME NEW r \in PackageIds, NEW f \in present'[r], f # k
      PROVE  f \in present[r] /\ entries'[f] = entries[f] /\ NameOf(f)' = NameOf(f)
  BY <1>1, <1>2
<1>3. ASSUME NEW r \in PackageIds, k \in present'[r]
      PROVE  r = p
  BY <1>1, <1>3
<1>4. CASE e # k
  <2>1. /\ e \in present[q] /\ entries'[e] = entries[e] /\ NameOf(e)' = NameOf(e)
        /\ e \in External(q)
    BY <1>0, <1>2, <1>4 DEF External
  <2>2. Inherits(u, e)
    BY <2>1 DEF Coherent, CoherentIn, Inherits
  <2>3. ASSUME NEW f \in present'[u], NameOf(f)' = NameOf(e)'
        PROVE  entries'[f].shadowing \/ entries'[f].symbol = entries'[e].symbol
    <3>1. CASE f = k
      <4>1. u = p /\ NameOf(e) = n
        BY <3>1, <2>1, <2>3, <1>1, <1>3
      <4> QED BY <4>1, <3>1, <2>1, <1>1 DEF Used
    <3>2. CASE f # k
      BY <3>2, <2>1, <2>2, <2>3, <1>2 DEF Inherits, Agrees
    <3> QED BY <3>1, <3>2
  <2>4. ASSUME \A f \in present'[u] : NameOf(f)' # NameOf(e)',
               NEW r \in Used(u), NEW g \in External(r)', NameOf(g)' = NameOf(e)'
        PROVE  entries'[g].symbol = entries'[e].symbol
    <3>1. \A f \in present[u] : NameOf(f) # NameOf(e)
      BY <2>1, <2>4, <1>1
    <3>2. CASE g = k
      <4>1. r = p /\ x /\ NameOf(e) = n
        BY <3>2, <2>1, <2>4, <1>0, <1>1, <1>3 DEF External
      <4>2. Sees(u, n, s)
        BY <4>1
      <4>3. entries[e].symbol = s
        BY <4>1, <4>2, <3>1, <2>1 DEF Sees, Used
      <4> QED BY <4>3, <3>2, <2>1, <1>1
    <3>3. CASE g # k
      <4>1. g \in External(r) /\ entries'[g] = entries[g] /\ NameOf(g) = NameOf(e)
        BY <3>3, <2>1, <2>4, <1>0, <1>2 DEF External
      <4> QED BY <4>1, <3>1, <2>1, <2>2 DEF Inherits
    <3> QED BY <3>2, <3>3
  <2> QED BY <2>3, <2>4 DEF Inherits, Agrees, Used
<1>5. CASE e = k
  <2>1. q = p /\ x
    BY <1>0, <1>1, <1>3, <1>5 DEF External
  <2>2. Sees(u, n, s)
    BY <2>1
  <2>3. ASSUME NEW f \in present'[u], NameOf(f)' = NameOf(e)'
        PROVE  entries'[f].shadowing \/ entries'[f].symbol = entries'[e].symbol
    <3>1. CASE f = k
      BY <3>1, <1>5
    <3>2. CASE f # k
      BY <3>2, <2>2, <2>3, <1>1, <1>2, <1>5 DEF Sees
    <3> QED BY <3>1, <3>2
  <2>4. ASSUME \A f \in present'[u] : NameOf(f)' # NameOf(e)',
               NEW r \in Used(u), NEW g \in External(r)', NameOf(g)' = NameOf(e)'
        PROVE  entries'[g].symbol = entries'[e].symbol
    <3>1. \A f \in present[u] : NameOf(f) # n
      BY <2>4, <1>1, <1>5
    <3>2. CASE g = k
      BY <3>2, <1>5
    <3>3. CASE g # k
      <4>1. g \in External(r) /\ entries'[g] = entries[g] /\ NameOf(g) = n
        BY <3>3, <2>4, <1>0, <1>1, <1>2, <1>5 DEF External
      <4> QED BY <4>1, <3>1, <2>2, <1>1, <1>5 DEF Sees, Used
    <3> QED BY <3>2, <3>3
  <2> QED BY <2>3, <2>4 DEF Inherits, Agrees, Used
<1> QED BY <1>4, <1>5

\* A record gets another content: it is external only if it was, or if every user
\* can take its symbol, and it shadows unless its symbol stays.
LEMMA CoherentReplaced ==
    ASSUME TypeOK, Coherent, uses' = uses, NEW p \in PackageIds, NEW k, NEW rec \in Presence,
           RecordSet(p, k, rec),
           rec.shadowing \/ (rec.symbol = entries[k].symbol /\ ~ entries[k].shadowing),
           rec.external =>
             \/ entries[k].external /\ rec.symbol = entries[k].symbol
             \/ \A u \in PackageIds : p \in Used(u) => Sees(u, NameOf(k), rec.symbol)
    PROVE  Coherent'
<1> SUFFICES ASSUME NEW u \in PackageIds, NEW q \in Used(u), NEW e \in External(q)'
             PROVE  Inherits(u, e)'
  BY Zenon DEF Coherent, CoherentIn, Inherits, Used
<1>0. q \in PackageIds /\ \A r \in Used(u) : r \in PackageIds
  BY DEF TypeOK, Used
<1>1. /\ present' = present /\ k \in present[p]
      /\ \A r \in PackageIds : \A f \in present[r] :
            (f # k => entries'[f] = entries[f]) /\ NameOf(f)' = NameOf(f)
      /\ \A r \in PackageIds : k \in present[r] => r = p
      /\ entries'[k] = rec
  BY DEF RecordSet
<1>2. /\ e \in present[q] /\ entries'[e].external /\ NameOf(e)' = NameOf(e)
      /\ e # k => entries'[e] = entries[e] /\ e \in External(q)
  BY <1>0, <1>1 DEF External
<1>3. \A f \in present[u] : NameOf(f)' = NameOf(f)
  BY <1>1
\* The symbols seen by users of p when the record has become external.
<1>4. ASSUME rec.external, ~ (entries[k].external /\ rec.symbol = entries[k].symbol),
             p \in Used(u)
      PROVE  Sees(u, NameOf(k), rec.symbol)
  BY <1>4
<1>5. e # k \/ (entries[k].external /\ rec.symbol = entries[k].symbol) => Inherits(u, e)
  <2> SUFFICES ASSUME e # k \/ (entries[k].external /\ rec.symbol = entries[k].symbol)
               PROVE  Inherits(u, e)
    OBVIOUS
  <2>1. e \in External(q)
    BY <1>2 DEF External
  <2> QED BY <2>1 DEF Coherent, CoherentIn, Inherits
<1>6. ASSUME NEW f \in present[u], NameOf(f) = NameOf(e)
      PROVE  entries'[f].shadowing \/ entries'[f].symbol = entries'[e].symbol
  <2>1. CASE f = k /\ e = k
    BY <2>1
  <2>2. CASE f = k /\ e # k
    <3>1. entries[k].shadowing \/ entries[k].symbol = entries[e].symbol
      BY <2>2, <1>5, <1>6 DEF Inherits, Agrees
    <3> QED BY <2>2, <3>1, <1>1, <1>2
  <2>3. CASE f # k /\ e # k
    <3>1. entries[f].shadowing \/ entries[f].symbol = entries[e].symbol
      BY <2>3, <1>5, <1>6 DEF Inherits, Agrees
    <3> QED BY <2>3, <3>1, <1>1, <1>2
  <2>4. CASE f # k /\ e = k
    <3>1. entries'[f] = entries[f] /\ q = p /\ rec.external
      BY <2>4, <1>0, <1>1, <1>2
    <3>2. CASE entries[k].external /\ rec.symbol = entries[k].symbol
      <4>1. entries[f].shadowing \/ entries[f].symbol = entries[k].symbol
        BY <3>2, <2>4, <1>5, <1>6 DEF Inherits, Agrees
      <4> QED BY <4>1, <3>1, <3>2, <2>4, <1>1
    <3>3. CASE ~ (entries[k].external /\ rec.symbol = entries[k].symbol)
      <4>1. Sees(u, NameOf(k), rec.symbol)
        BY <3>1, <3>3, <1>4
      <4>2. entries[f].shadowing \/ entries[f].symbol = rec.symbol
        BY <4>1, <2>4, <1>6 DEF Sees
      <4> QED BY <4>2, <3>1, <2>4, <1>1
    <3> QED BY <3>2, <3>3
  <2> QED BY <2>1, <2>2, <2>3, <2>4
<1>7. ASSUME \A f \in present[u] : NameOf(f) # NameOf(e),
             NEW r \in Used(u), NEW g \in External(r)', NameOf(g)' = NameOf(e)'
      PROVE  entries'[g].symbol = entries'[e].symbol
  <2>0. /\ r \in PackageIds /\ g \in present[r] /\ entries'[g].external
        /\ NameOf(g) = NameOf(e)
        /\ g # k => entries'[g] = entries[g] /\ g \in External(r)
    BY <1>0, <1>1, <1>2, <1>7 DEF External
  <2>1. CASE g = k /\ e = k
    BY <2>1
  <2>2. CASE g = k /\ e # k
    <3>1. r = p /\ rec.external
      BY <2>0, <2>2, <1>1
    <3>2. CASE entries[k].external /\ rec.symbol = entries[k].symbol
      <4>1. k \in External(r)
        BY <3>2, <2>0, <2>2 DEF External
      <4>2. entries[k].symbol = entries[e].symbol
        BY <4>1, <2>0, <2>2, <1>5, <1>7 DEF Inherits
      <4> QED BY <4>2, <3>2, <2>2, <1>1, <1>2
    <3>3. CASE ~ (entries[k].external /\ rec.symbol = entries[k].symbol)
      <4>1. Sees(u, NameOf(k), rec.symbol)
        BY <3>1, <3>3, <1>4
      <4>2. entries[e].symbol = rec.symbol
        BY <4>1, <2>0, <2>2, <1>2, <1>7 DEF Sees, Used
      <4> QED BY <4>2, <2>2, <1>1, <1>2
    <3> QED BY <3>2, <3>3
  <2>3. CASE g # k /\ e # k
    <3>1. entries[g].symbol = entries[e].symbol
      BY <2>0, <2>3, <1>5, <1>7 DEF Inherits
    <3> QED BY <3>1, <2>0, <2>3, <1>2
  <2>4. CASE g # k /\ e = k
    <3>1. q = p /\ rec.external
      BY <2>4, <1>0, <1>1, <1>2
    <3>2. CASE entries[k].external /\ rec.symbol = entries[k].symbol
      <4>1. entries[g].symbol = entries[k].symbol
        BY <3>2, <2>0, <2>4, <1>5, <1>7 DEF Inherits
      <4> QED BY <4>1, <3>2, <2>0, <2>4, <1>1
    <3>3. CASE ~ (entries[k].external /\ rec.symbol = entries[k].symbol)
      <4>1. Sees(u, NameOf(k), rec.symbol)
        BY <3>1, <3>3, <1>4
      <4>2. entries[g].symbol = rec.symbol
        BY <4>1, <2>0, <2>4, <1>7 DEF Sees, Used
      <4> QED BY <4>2, <2>0, <2>4, <1>1
    <3> QED BY <3>2, <3>3
  <2> QED BY <2>1, <2>2, <2>3, <2>4
<1> QED BY <1>1, <1>2, <1>3, <1>6, <1>7 DEF Inherits, Agrees, Used

\* A record is removed, and what the package then inherits is one symbol.
LEMMA CoherentRemoved ==
    ASSUME TypeOK, Coherent, uses' = uses, NEW p \in PackageIds, NEW k \in present[p],
           RecordRemoved(p, k),
           \A q, r \in uses[p] : \A e \in External(q), g \in External(r) :
               NameOf(e) = NameOf(k) /\ NameOf(g) = NameOf(k) =>
                   entries[e].symbol = entries[g].symbol
    PROVE  Coherent'
<1> SUFFICES ASSUME NEW u \in PackageIds, NEW q \in Used(u), NEW e \in External(q)'
             PROVE  Inherits(u, e)'
  BY Zenon DEF Coherent, CoherentIn, Inherits, Used
<1>0. q \in PackageIds /\ \A r \in Used(u) : r \in PackageIds
  BY DEF TypeOK, Used
<1>1. /\ present'[p] = present[p] \ {k} /\ entries' = entries
      /\ \A r \in PackageIds : r # p => present'[r] = present[r]
      /\ \A r \in PackageIds : \A f \in present[r] : NameOf(f)' = NameOf(f)
  BY DEF RecordRemoved
<1>2. \A r \in PackageIds : present'[r] \subseteq present[r]
  BY <1>1
<1>3. e \in External(q) /\ NameOf(e)' = NameOf(e)
  BY <1>0, <1>1, <1>2 DEF External
<1>4. Inherits(u, e)
  BY <1>3 DEF Coherent, CoherentIn, Inherits
<1>5. Agrees(u, e)'
  BY <1>1, <1>2, <1>3, <1>4 DEF Inherits, Agrees
<1>6. ASSUME \A f \in present'[u] : NameOf(f)' # NameOf(e)',
             NEW r \in Used(u), NEW g \in External(r)', NameOf(g)' = NameOf(e)'
      PROVE  entries'[g].symbol = entries'[e].symbol
  <2>1. g \in External(r) /\ NameOf(g) = NameOf(e)
    BY <1>0, <1>1, <1>2, <1>3, <1>6 DEF External
  <2>2. CASE \A f \in present[u] : NameOf(f) # NameOf(e)
    BY <2>1, <2>2, <1>1, <1>4 DEF Inherits
  <2>3. CASE \E f \in present[u] : NameOf(f) = NameOf(e)
    <3>1. u = p /\ NameOf(e) = NameOf(k)
      BY <2>3, <1>1, <1>3, <1>6
    <3> QED BY <3>1, <2>1, <1>1, <1>3 DEF Used
  <2> QED BY <2>2, <2>3
<1> QED BY <1>5, <1>6 DEF Inherits, Used

\* The records stay and the package uses another one, whose external symbols it can
\* all take.
LEMMA CoherentUse ==
    ASSUME TypeOK, IndexAgrees, Coherent, NEW p \in PackageIds, NEW q0 \in PackageIds,
           UNCHANGED <<present, entries>>,
           \A r \in PackageIds : \A f \in present[r] : NameOf(f)' = NameOf(f),
           \A u \in PackageIds : u # p => uses'[u] = uses[u],
           uses'[p] = uses[p] \cup {q0},
           \A e \in External(q0) : Sees(p, NameOf(e), entries[e].symbol)
    PROVE  Coherent'
<1> SUFFICES ASSUME NEW u \in PackageIds, NEW q \in Used(u)', NEW e \in External(q)'
             PROVE  Inherits(u, e)'
  BY Zenon DEF Coherent, CoherentIn, Inherits
<1>0. /\ q \in PackageIds /\ \A r \in Used(u)' : r \in PackageIds
      /\ \A r \in Used(u)' : r \in Used(u) \/ (u = p /\ r = q0)
  <2>1. Used(u)' = uses'[u] \ {Keyword} /\ Used(u) = uses[u] \ {Keyword}
    BY DEF Used
  <2>2. uses[u] \subseteq PackageIds
    BY DEF TypeOK
  <2>3. \A r \in uses'[u] : r \in uses[u] \/ (u = p /\ r = q0)
    <3>1. CASE u = p
      BY <3>1
    <3>2. CASE u # p
      BY <3>2
    <3> QED BY <3>1, <3>2
  <2> HIDE DEF PackageIds
  <2> QED BY <2>1, <2>2, <2>3
<1>1. \A r \in PackageIds : \A f : f \in External(r)' <=> f \in External(r)
  BY DEF External
<1>2. \A r \in PackageIds : \A f \in External(r) : NameOf(f)' = NameOf(f) /\ f \in present[r]
  BY DEF External
<1>3. e \in External(q) /\ NameOf(e)' = NameOf(e)
  BY <1>0, <1>1, <1>2
<1>4. q \in Used(u) => Inherits(u, e)
  BY <1>3 DEF Coherent, CoherentIn, Inherits
<1>5. ~ (q \in Used(u)) => u = p /\ Sees(p, NameOf(e), entries[e].symbol)
  BY <1>0, <1>3
<1>6. ASSUME NEW f \in present[u], NameOf(f) = NameOf(e)
      PROVE  entries[f].shadowing \/ entries[f].symbol = entries[e].symbol
  BY <1>4, <1>5, <1>6 DEF Inherits, Agrees, Sees
<1>7. ASSUME \A f \in present[u] : NameOf(f) # NameOf(e),
             NEW r \in Used(u)', NEW g \in External(r), NameOf(g) = NameOf(e)
      PROVE  entries[g].symbol = entries[e].symbol
  <2>1. CASE q \in Used(u) /\ r \in Used(u)
    BY <2>1, <1>4, <1>7 DEF Inherits
  <2>2. CASE q \in Used(u) /\ r \notin Used(u)
    <3>1. u = p /\ Sees(p, NameOf(g), entries[g].symbol)
      BY <2>2, <1>0, <1>7
    <3> QED BY <3>1, <2>2, <1>3, <1>7 DEF Sees, Used
  <2>3. CASE q \notin Used(u) /\ r \in Used(u)
    BY <2>3, <1>5, <1>7 DEF Sees, Used
  <2>4. CASE q \notin Used(u) /\ r \notin Used(u)
    <3>1. q = q0 /\ r = q0
      BY <2>4, <1>0
    <3>2. g \in present[q0] /\ e \in present[q0]
      BY <3>1, <1>2, <1>3, <1>7
    <3>3. g = e
      BY <3>2, <1>7 DEF IndexAgrees
    <3> QED BY <3>3
  <2> QED BY <2>1, <2>2, <2>3, <2>4
<1>8. Agrees(u, e)'
  BY <1>3, <1>6 DEF Agrees
<1>9. ASSUME \A f \in present[u] : NameOf(f)' # NameOf(e)',
             NEW r \in Used(u)', NEW g \in External(r)', NameOf(g)' = NameOf(e)'
      PROVE  entries[g].symbol = entries[e].symbol
  <2>1. r \in PackageIds /\ g \in External(r) /\ NameOf(g) = NameOf(e)
    BY <1>0, <1>1, <1>2, <1>3, <1>9
  <2>2. \A f \in present[u] : NameOf(f) # NameOf(e)
    BY <1>3, <1>9
  <2> QED BY <2>1, <2>2, <1>7
<1> QED BY <1>8, <1>9 DEF Inherits

\* The records stay and no package uses more than before.
LEMMA CoherentFewer ==
    ASSUME TypeOK, Coherent, UNCHANGED <<present, entries>>,
           \A r \in PackageIds : \A f \in present[r] : NameOf(f)' = NameOf(f),
           \A u \in PackageIds : uses'[u] \subseteq uses[u]
    PROVE  Coherent'
<1> SUFFICES ASSUME NEW u \in PackageIds, NEW q \in Used(u)', NEW e \in External(q)'
             PROVE  Inherits(u, e)'
  BY Zenon DEF Coherent, CoherentIn, Inherits
<1>1. \A r \in Used(u)' : r \in Used(u) /\ r \in PackageIds
  BY DEF TypeOK, Used
<1>2. \A r \in PackageIds : \A f \in External(r)' :
         f \in External(r) /\ NameOf(f)' = NameOf(f)
  BY DEF External
<1>3. e \in External(q) /\ NameOf(e)' = NameOf(e) /\ Inherits(u, e)
  BY <1>1, <1>2 DEF Coherent, CoherentIn, Inherits
<1> QED BY <1>1, <1>2, <1>3 DEF Inherits, Agrees

-----------------------------------------------------------------------------
(* A home is a package that holds the symbol.                              *)

\* A home, where there is one, is a package.
LEMMA Homes ==
    ASSUME TypeOK, NEW t \in 1..Len(symbols)
    PROVE  symbols[t].home # 0 => symbols[t].home \in PackageIds
<1>1. symbols[t] \in Symbol
  BY DEF TypeOK
<1> QED BY <1>1, Capacities DEF Symbol

\* Record k of symbol s joins p: s may have p as its home, the others keep theirs
\* or lose it.
LEMMA HomeAdded ==
    ASSUME TypeOK, HomeHolds, NEW p \in PackageIds, NEW k, NEW s, NEW n, NEW x, NEW h,
           RecordAdded(p, k, s, n, x, h),
           \A t \in 1..Len(symbols') :
               \/ symbols'[t].home = 0
               \/ t = s /\ symbols'[t].home = p
               \/ t \in 1..Len(symbols) /\ symbols'[t].home = symbols[t].home
    PROVE  HomeHolds'
<1> SUFFICES ASSUME NEW t \in 1..Len(symbols'), symbols'[t].home # 0
             PROVE  \E e \in present'[symbols'[t].home] : entries'[e].symbol = t
  BY DEF HomeHolds
<1>1. CASE t = s /\ symbols'[t].home = p
  <2>1. k \in present'[p] /\ entries'[k].symbol = s
    BY DEF RecordAdded
  <2> QED BY <1>1, <2>1
<1>2. CASE t \in 1..Len(symbols) /\ symbols'[t].home = symbols[t].home
  <2>1. symbols[t].home \in PackageIds
    BY <1>2, Homes
  <2>2. PICK e \in present[symbols[t].home] : entries[e].symbol = t
    BY <1>2 DEF HomeHolds
  <2>3. e \in present'[symbols[t].home] /\ entries'[e] = entries[e]
    BY <2>1, <2>2 DEF RecordAdded
  <2> QED BY <1>2, <2>2, <2>3
<1> QED BY <1>1, <1>2

\* The records stay.
LEMMA HomeKept ==
    ASSUME TypeOK, HomeHolds, UNCHANGED <<present, entries>>,
           \A t \in 1..Len(symbols') :
               \/ symbols'[t].home = 0
               \/ \E e \in present[symbols'[t].home] : entries[e].symbol = t
               \/ t \in 1..Len(symbols) /\ symbols'[t].home = symbols[t].home
    PROVE  HomeHolds'
BY DEF HomeHolds

\* Record k of p gets another content: the symbol it held has not p as its home
\* any more.
LEMMA HomeReplaced ==
    ASSUME TypeOK, HomeHolds, NEW p \in PackageIds, NEW k, NEW rec,
           RecordSet(p, k, rec), Len(symbols') = Len(symbols),
           \A t \in 1..Len(symbols) :
               \/ symbols'[t].home = 0
               \/ /\ symbols'[t].home = symbols[t].home
                  /\ t = entries[k].symbol => rec.symbol = t \/ symbols[t].home # p
    PROVE  HomeHolds'
<1> SUFFICES ASSUME NEW t \in 1..Len(symbols), symbols'[t].home # 0
             PROVE  \E e \in present'[symbols'[t].home] : entries'[e].symbol = t
  BY DEF HomeHolds
<1>1. symbols'[t].home = symbols[t].home /\ symbols[t].home \in PackageIds
  BY Homes
<1>2. PICK e \in present[symbols[t].home] : entries[e].symbol = t
  BY <1>1 DEF HomeHolds
<1>3. e \in present'[symbols[t].home]
  BY <1>2 DEF RecordSet
<1>4. CASE e # k
  BY <1>1, <1>2, <1>3, <1>4 DEF RecordSet
<1>5. CASE e = k
  <2>1. symbols[t].home = p
    BY <1>1, <1>2, <1>5 DEF RecordSet
  <2>2. rec.symbol = t
    BY <2>1, <1>1, <1>2, <1>5
  <2> QED BY <2>2, <1>1, <1>3, <1>5 DEF RecordSet
<1> QED BY <1>4, <1>5

\* Record k leaves p: its symbol has not p as its home any more.
LEMMA HomeRemoved ==
    ASSUME TypeOK, HomeHolds, NEW p \in PackageIds, NEW k,
           RecordRemoved(p, k), Len(symbols') = Len(symbols),
           \A t \in 1..Len(symbols) :
               \/ symbols'[t].home = 0
               \/ /\ symbols'[t].home = symbols[t].home
                  /\ t = entries[k].symbol => symbols[t].home # p
    PROVE  HomeHolds'
<1> SUFFICES ASSUME NEW t \in 1..Len(symbols), symbols'[t].home # 0
             PROVE  \E e \in present'[symbols'[t].home] : entries'[e].symbol = t
  BY DEF HomeHolds
<1>1. symbols'[t].home = symbols[t].home /\ symbols[t].home \in PackageIds
  BY Homes
<1>2. PICK e \in present[symbols[t].home] : entries[e].symbol = t
  BY <1>1 DEF HomeHolds
<1>3. e = k => symbols[t].home # p
  BY <1>1, <1>2
<1>4. e \in present'[symbols[t].home]
  BY <1>1, <1>2, <1>3 DEF RecordRemoved
<1> QED BY <1>1, <1>2, <1>4 DEF RecordRemoved

-----------------------------------------------------------------------------
(* The inductive invariant, and the rest of the type invariant.            *)

Inv == TypeOK /\ IndexAgrees /\ Exclusive /\ HomeHolds /\ Coherent

OthersOK ==
    /\ pname \in Seq(PackageNames) /\ Len(pname) <= PackageCapacity
    /\ symbols \in Seq(Symbol) /\ Len(symbols) <= SymbolCapacity
    /\ aliases \in Seq(Alias) /\ Len(aliases) <= AliasCapacity
    /\ uses \in [PackageIds -> SUBSET PackageIds]
    /\ use_count \in 0..UseCapacity /\ name_count \in 0..NameCapacity
    /\ current \in 1..Len(pname) /\ error \in {0, 1, 2, 3, 4, 6, 8, 9, 10}
    /\ \A p \in PackageIds : \A q \in uses[p] : p <= Len(pname) /\ q <= Len(pname)
    /\ \A i \in 1..Len(aliases) : aliases[i].package <= Len(pname)

\* TypeOK is about the records and about the rest.
LEMMA TypeParts == TypeOK <=> RecordsOK /\ OthersOK
BY Zenon DEF TypeOK, RecordsOK, OthersOK

\* The same after a step.
LEMMA TypePartsPrimed == RecordsOK' /\ OthersOK' => TypeOK'
BY Zenon DEF TypeOK, RecordsOK, OthersOK

\* Most operations leave the packages, their nicknames and uses alone.
LEMMA OthersKept ==
    ASSUME TypeOK, symbols' \in Seq(Symbol), Len(symbols') <= SymbolCapacity,
           UNCHANGED <<pname, uses, aliases, use_count, current, error>>,
           name_count' \in 0..NameCapacity
    PROVE  OthersOK'
<1>1. OthersOK
  BY TypeParts
<1> QED BY <1>1 DEF OthersOK

\* native_ct_fail, and the steps that only set the error.
LEMMA FailStep ==
    ASSUME Inv, NEW c \in {0, 1, 2, 3, 4, 6, 8, 9, 10}, error' = c, UNCHANGED tables
    PROVE  Inv'
<1>0. UNCHANGED <<pname, present, bucket, uses, symbols, entries, aliases,
                  use_count, name_count, current>>
  BY DEF tables
<1>1. TypeOK'
  BY <1>0 DEF Inv, TypeOK
<1>2. IndexAgrees' /\ Exclusive' /\ HomeHolds'
  BY <1>0 DEF Inv, IndexAgrees, Exclusive, HomeHolds, NameOf
<1>3. Coherent'
  BY <1>0 DEF Inv, Coherent, CoherentIn, Agrees, External, Used, NameOf
<1> QED BY <1>1, <1>2, <1>3 DEF Inv

-----------------------------------------------------------------------------
(* The steps that the operations share.                                    *)

\* The tables of names are left alone; a symbol may get or lose its home.
HomeChange ==
    /\ symbols' \in Seq(Symbol) /\ Len(symbols') = Len(symbols)
    /\ \A t \in 1..Len(symbols) : symbols'[t].name = symbols[t].name

\* native_ct_symbol_from_name for a name that the package does not have: the
\* tables get symbol s and record k.
LEMMA NewRecord ==
    ASSUME Inv, NEW p \in PackageIds, p <= Len(pname), NEW n \in SymbolNames,
           NEW h \in BOOLEAN, SymbolRoom, pname' = pname,
           \A e \in present[p] : NameOf(e) # n,
           NEW s, s = Len(symbols) + 1, NEW k, k = Len(entries) + 1, NEW x \in BOOLEAN,
           symbols' = Append(symbols, [home |-> p, name |-> n]),
           AddPresence(p, s, n, x, h)
    PROVE  /\ symbols' \in Seq(Symbol) /\ Len(symbols') = s
           /\ \A t \in 1..Len(symbols) : symbols'[t] = symbols[t]
           /\ NamesKept /\ symbols'[s].home = p
           /\ RecordsOK' /\ IndexAgrees' /\ Exclusive'
           /\ RecordAdded(p, k, s, n, x, h)
<1> DEFINE sym == [home |-> p, name |-> n]
<1>1. symbols' = Append(symbols, sym)
  OBVIOUS
<1>2. TypeOK /\ IndexAgrees /\ Exclusive
  BY DEF Inv
<1>3. sym \in Symbol
  BY Capacities DEF Symbol
<1>4. /\ symbols \in Seq(Symbol) /\ Len(symbols) \in Nat /\ Len(symbols) < SymbolCapacity
      /\ PresentRoom
  BY <1>2 DEF TypeOK, SymbolRoom
<1> HIDE DEF sym
<1>5. /\ symbols' \in Seq(Symbol) /\ Len(symbols') = s /\ symbols'[s] = sym
      /\ \A t \in 1..Len(symbols) : symbols'[t] = symbols[t]
  BY <1>1, <1>3, <1>4
<1>6. NamesKept /\ s \in 1..Len(symbols')
  <2>1. \A t \in 1..Len(symbols) : symbols'[t].name = symbols[t].name
    BY <1>5
  <2>2. Len(symbols') <= SymbolCapacity /\ Len(symbols) <= Len(symbols') /\ s \in 1..Len(symbols')
    BY <1>4, <1>5, Capacities
  <2> QED BY <2>1, <2>2, <1>5 DEF NamesKept
<1>7. symbols'[s].name = n /\ symbols'[s].home = p
  BY <1>5 DEF sym
<1>8. /\ RecordsOK' /\ IndexAgrees' /\ Exclusive'
      /\ RecordAdded(p, k, s, n, x, h)
  BY <1>1, <1>2, <1>4, <1>6, <1>7, Added
<1> QED BY <1>5, <1>6, <1>7, <1>8

\* It keeps the invariant.
LEMMA NewSymbolStep ==
    ASSUME Inv, NEW p \in PackageIds, p <= Len(pname), NEW n \in SymbolNames,
           NEW h \in BOOLEAN, SymbolRoom, NamesRoom(Length[n]), NewSymbol(p, n, h),
           UNCHANGED <<pname, uses, aliases, use_count, current, error>>,
           \A e \in present[p] : NameOf(e) # n,
           ~ h => \A q \in uses[p] : \A e \in External(q) : NameOf(e) # n
    PROVE  Inv'
<1>1. PICK s : s = Len(symbols) + 1
  OBVIOUS
<1>2. PICK k : k = Len(entries) + 1
  OBVIOUS
<1>3. PICK x \in BOOLEAN : x = (p = Keyword)
  OBVIOUS
<1>4. /\ symbols' = Append(symbols, [home |-> p, name |-> n])
      /\ name_count' = name_count + Length[n] /\ AddPresence(p, s, n, x, h)
  BY Zenon, <1>1, <1>3 DEF NewSymbol
<1>5. TypeOK /\ IndexAgrees /\ Exclusive /\ HomeHolds /\ Coherent
  BY DEF Inv
<1>6. Len(symbols) \in Nat
  BY <1>5 DEF TypeOK
<1>7. /\ symbols' \in Seq(Symbol) /\ Len(symbols') = s
      /\ \A t \in 1..Len(symbols) : symbols'[t] = symbols[t]
      /\ NamesKept /\ symbols'[s].home = p
      /\ RecordsOK' /\ IndexAgrees' /\ Exclusive'
      /\ RecordAdded(p, k, s, n, x, h)
  BY <1>1, <1>2, <1>4, NewRecord
<1>8. Coherent'
  <2>1. x => \A u \in PackageIds : p \notin Used(u)
    BY <1>3 DEF Used
  <2> QED BY <2>1, <1>5, <1>7, CoherentAdded
<1>9. HomeHolds'
  <2>1. \A t \in 1..Len(symbols') :
          \/ t = s /\ symbols'[t].home = p
          \/ t \in 1..Len(symbols) /\ symbols'[t].home = symbols[t].home
    <3>1. \A t \in 1..Len(symbols') : t = s \/ t \in 1..Len(symbols)
      BY <1>1, <1>6, <1>7
    <3> QED BY <3>1, <1>7
  <2> QED BY <2>1, <1>5, <1>7, HomeAdded
<1>10. OthersOK'
  <2>1. name_count' \in 0..NameCapacity
    <3>1. Length[n] \in Nat
      BY EnvironmentAssumption DEF Names
    <3>2. name_count \in 0..NameCapacity
      BY <1>5 DEF TypeOK
    <3> QED BY <3>1, <3>2, <1>4, Capacities DEF NamesRoom
  <2> QED BY <2>1, <1>5, <1>7, OthersKept DEF NamesKept
<1> QED BY <1>7, <1>8, <1>9, <1>10, TypePartsPrimed DEF Inv

\* A symbol becomes present; it may get the package as its home.
LEMMA AddStep ==
    ASSUME Inv, NEW p \in PackageIds, p <= Len(pname), NEW s \in 1..Len(symbols),
           NEW n, n = symbols[s].name, NEW x \in BOOLEAN, NEW h \in BOOLEAN,
           PresentRoom, AddPresence(p, s, n, x, h), KeepNames, error' = error, HomeChange,
           \A t \in 1..Len(symbols) :
               symbols'[t].home = symbols[t].home \/ (t = s /\ symbols'[t].home = p),
           \A e \in present[p] : NameOf(e) # n,
           ~ h => \A q \in uses[p] : \A e \in External(q) : NameOf(e) = n => entries[e].symbol = s,
           x => \A u \in PackageIds : p \in Used(u) => Sees(u, n, s)
    PROVE  Inv'
<1>1. TypeOK /\ IndexAgrees /\ Exclusive /\ HomeHolds /\ Coherent
  BY DEF Inv
<1>2. PICK k : k = Len(entries) + 1
  OBVIOUS
<1>3. NamesKept /\ Len(symbols') = Len(symbols) /\ symbols'[s].name = n
  BY <1>1 DEF HomeChange, NamesKept, TypeOK
<1>4. n \in SymbolNames
  <2>1. symbols[s] \in Symbol
    BY <1>1 DEF TypeOK
  <2> QED BY <2>1 DEF Symbol
<1>5. UNCHANGED <<pname, uses, aliases, use_count, name_count, current>>
  BY DEF KeepNames
<1>6. RecordsOK' /\ IndexAgrees' /\ Exclusive' /\ RecordAdded(p, k, s, n, x, h)
  BY <1>1, <1>2, <1>3, <1>4, <1>5, Added
<1>7. Coherent'
  BY <1>1, <1>4, <1>5, <1>6, CoherentAdded
<1>8. HomeHolds'
  BY <1>1, <1>3, <1>6, HomeAdded
<1>9. OthersOK'
  BY <1>1, <1>3, <1>5, OthersKept DEF NamesKept, TypeOK
<1> QED BY <1>6, <1>7, <1>8, <1>9, TypePartsPrimed DEF Inv

\* The record of a name gets another content.
LEMMA SetStep ==
    ASSUME Inv, NEW p \in PackageIds, NEW k \in present[p], NEW rec \in Presence,
           rec.symbol \in 1..Len(symbols), symbols[rec.symbol].name = NameOf(k),
           SetEntry(k, rec), KeepNames, error' = error, HomeChange,
           \A t \in 1..Len(symbols) :
               \/ symbols'[t].home = 0
               \/ /\ symbols'[t].home = symbols[t].home
                  /\ t = entries[k].symbol => rec.symbol = t \/ symbols[t].home # p,
           rec.shadowing \/ (rec.symbol = entries[k].symbol /\ ~ entries[k].shadowing),
           rec.external =>
             \/ entries[k].external /\ rec.symbol = entries[k].symbol
             \/ \A u \in PackageIds : p \in Used(u) => Sees(u, NameOf(k), rec.symbol)
    PROVE  Inv'
<1>1. TypeOK /\ IndexAgrees /\ Exclusive /\ HomeHolds /\ Coherent
  BY DEF Inv
<1>2. NamesKept /\ Len(symbols') = Len(symbols)
  BY <1>1 DEF HomeChange, NamesKept, TypeOK
<1>3. UNCHANGED <<pname, uses, aliases, use_count, name_count, current>>
  BY DEF KeepNames
<1>4. RecordsOK' /\ IndexAgrees' /\ Exclusive' /\ RecordSet(p, k, rec)
  BY <1>1, <1>2, <1>3, Replaced
<1>5. Coherent'
  BY <1>1, <1>3, <1>4, CoherentReplaced
<1>6. HomeHolds'
  BY <1>1, <1>2, <1>4, HomeReplaced
<1>7. OthersOK'
  BY <1>1, <1>2, <1>3, OthersKept DEF NamesKept, TypeOK
<1> QED BY <1>4, <1>5, <1>6, <1>7, TypePartsPrimed DEF Inv

\* A record that stays keeps its name.
LEMMA NamesStay ==
    ASSUME TypeOK, NamesKept, entries' = entries
    PROVE  \A r \in PackageIds : \A f \in present[r] : NameOf(f)' = NameOf(f)
<1> SUFFICES ASSUME NEW r \in PackageIds, NEW f \in present[r]
             PROVE  NameOf(f)' = NameOf(f)
  OBVIOUS
<1>1. entries[f].symbol \in 1..Len(symbols)
  BY EntryFacts
<1> QED BY <1>1 DEF NameOf, NamesKept

\* The records stay: symbols are added without a home or get one they are present
\* in, and packages are added.
LEMMA QuietStep ==
    ASSUME Inv, KeepRecords, Len(pname) <= Len(pname'), NamesKept, OthersOK', Coherent',
           \A t \in 1..Len(symbols') :
               \/ symbols'[t].home = 0
               \/ \E e \in present[symbols'[t].home] : entries[e].symbol = t
               \/ t \in 1..Len(symbols) /\ symbols'[t].home = symbols[t].home
    PROVE  Inv'
<1>1. TypeOK /\ IndexAgrees /\ Exclusive /\ HomeHolds /\ Coherent
  BY DEF Inv
<1>2. UNCHANGED <<present, bucket, entries>>
  BY DEF KeepRecords
<1>3. \A r \in PackageIds : \A f \in present[r] : NameOf(f)' = NameOf(f)
  BY <1>1, <1>2, NamesStay
<1>4. RecordsOK'
  <2>1. /\ RecordsOK /\ Len(symbols) \in Nat /\ Len(symbols') \in Nat
        /\ Len(symbols) <= Len(symbols')
    <3>1. RecordsOK /\ OthersOK
      BY <1>1, TypeParts
    <3> QED BY <3>1 DEF NamesKept, OthersOK
  <2>2. ASSUME NEW e \in 1..Len(entries)
        PROVE  entries[e].symbol <= Len(symbols')
    <3>1. entries[e] \in Presence /\ entries[e].symbol <= Len(symbols)
      BY <2>1 DEF RecordsOK
    <3> QED BY <3>1, <2>1, Capacities DEF Presence
  <2>3. \A q \in PackageIds : \A e \in present[q] : q <= Len(pname') /\ e <= Len(entries)
    <3>1. Len(pname) \in Nat /\ Len(pname') \in Nat
      BY <1>1 DEF TypeOK, OthersOK
    <3>2. \A q \in PackageIds : \A e \in present[q] : q <= Len(pname) /\ e <= Len(entries)
      BY <2>1 DEF RecordsOK
    <3> QED BY <3>1, <3>2, Capacities
  <2> QED BY <2>1, <2>2, <2>3, <1>2 DEF RecordsOK
<1>5. IndexAgrees'
  <2> SUFFICES ASSUME NEW q \in PackageIds
      PROVE  /\ \A e, f \in present[q] : NameOf(e)' = NameOf(f)' => e = f
             /\ BucketCount > 0 => \A b \in Buckets :
                   bucket[q][b] = {e \in present[q] : Hash[NameOf(e)'] = b}
    BY <1>2 DEF IndexAgrees
  <2>1. \A e \in present[q] : NameOf(e)' = NameOf(e)
    BY <1>3
  <2> QED BY <2>1, <1>1 DEF IndexAgrees
<1>6. Exclusive'
  BY <1>1, <1>2 DEF Exclusive
<1>7. HomeHolds'
  BY <1>1, <1>2, HomeKept
<1> QED BY <1>4, <1>5, <1>6, <1>7, TypePartsPrimed DEF Inv

\* The same when no package uses more than before.
LEMMA QuietFewer ==
    ASSUME Inv, KeepRecords, Len(pname) <= Len(pname'), NamesKept, OthersOK',
           \A u \in PackageIds : uses'[u] \subseteq uses[u],
           \A t \in 1..Len(symbols') :
               \/ symbols'[t].home = 0
               \/ \E e \in present[symbols'[t].home] : entries[e].symbol = t
               \/ t \in 1..Len(symbols) /\ symbols'[t].home = symbols[t].home
    PROVE  Inv'
<1>1. TypeOK /\ Coherent /\ UNCHANGED <<present, entries>>
  BY DEF Inv, KeepRecords
<1>2. \A r \in PackageIds : \A f \in present[r] : NameOf(f)' = NameOf(f)
  BY <1>1, NamesStay
<1>3. Coherent'
  BY <1>1, <1>2, CoherentFewer
<1> QED BY <1>3, QuietStep

-----------------------------------------------------------------------------
(* The operations.                                                         *)

\* What the checks of the arguments give.
LEMMA Valid ==
    ASSUME TypeOK
    PROVE  /\ \A p : ValidPackage(p) => p \in PackageIds /\ p <= Len(pname)
           /\ \A s : ValidSymbol(s) =>
                 s \in 1..Len(symbols) /\ s \in SymbolIds
                 /\ symbols[s] \in Symbol /\ symbols[s].name \in SymbolNames
<1>1. Len(pname) \in Nat /\ Len(pname) <= PackageCapacity
  BY DEF TypeOK
<1>2. symbols \in Seq(Symbol) /\ Len(symbols) \in Nat /\ Len(symbols) <= SymbolCapacity
  BY DEF TypeOK
<1>3. \A s \in 1..Len(symbols) : symbols[s] \in Symbol
  BY <1>2
<1> QED BY <1>1, <1>2, <1>3, Capacities DEF ValidPackage, ValidSymbol, Symbol

\* The symbols are left alone.
LEMMA Unchanged ==
    ASSUME Inv, symbols' = symbols
    PROVE  /\ NamesKept /\ HomeChange /\ Len(symbols') = Len(symbols)
           /\ \A t \in 1..Len(symbols) : symbols'[t].home = symbols[t].home
<1>1. symbols \in Seq(Symbol) /\ Len(symbols) <= SymbolCapacity /\ Len(symbols) \in Nat
  BY DEF Inv, TypeOK
<1> QED BY <1>1 DEF NamesKept, HomeChange

\* Interning a name that is not visible.
LEMMA FreshName ==
    ASSUME Inv, NEW p \in PackageIds, NEW n \in SymbolNames, Visible(p, n) = {}
    PROVE  /\ \A e \in present[p] : NameOf(e) # n
           /\ \A q \in uses[p] : \A e \in External(q) : NameOf(e) # n
<1>1. TypeOK /\ IndexAgrees
  BY DEF Inv
<1>2. /\ \A e \in present[p] : NameOf(e) # n
      /\ Inherited(p, n) = {}
  <2>1. \A s : Visible(p, n) = {} =>
          (\A e \in present[p] : NameOf(e) # n) /\ Inherited(p, n) = {}
    BY <1>1, VisibleSymbols
  <2> QED BY <2>1
<1>3. \A s : s \in Inherited(p, n) <=>
        \E q \in uses[p] : \E e \in External(q) : NameOf(e) = n /\ entries[e].symbol = s
  BY <1>1, InheritedSymbols
<1> QED BY <1>2, <1>3

\* native_ct_intern_name_span.
LEMMA SpanStep ==
    ASSUME Inv, NEW p, NEW n \in SymbolNames, NamesRoom(Length[n]), InternNameSpan(p, n)
    PROVE  Inv'
<1>0. TypeOK
  BY DEF Inv
<1>1. ASSUME NEW c \in {1, 3, 4}, Fail(c)
      PROVE  Inv'
  BY <1>1, FailStep DEF Fail
<1>2. ASSUME ValidPackage(p), Visible(p, n) = {}, SymbolRoom, NewSymbol(p, n, FALSE),
             Done, UNCHANGED <<pname, uses, aliases, use_count, current>>
      PROVE  Inv'
  <2>1. p \in PackageIds /\ p <= Len(pname)
    BY <1>0, <1>2, Valid
  <2>2. /\ \A e \in present[p] : NameOf(e) # n
        /\ \A q \in uses[p] : \A e \in External(q) : NameOf(e) # n
    BY <1>2, <2>1, FreshName
  <2> QED BY <1>2, <2>1, <2>2, NewSymbolStep DEF Done
<1> QED BY Zenon, <1>1, <1>2 DEF InternNameSpan

\* native_ct_intern.
LEMMA InternStep ==
    ASSUME Inv, NEW p \in PackageIds, NEW n \in SymbolNames, Intern(p, n)
    PROVE  Inv'
<1>1. ASSUME NEW c \in {1, 3, 4}, Fail(c)
      PROVE  Inv'
  BY <1>1, FailStep DEF Fail
<1>2. ASSUME NamesRoom(Length[n]), InternNameSpan(p, n)
      PROVE  Inv'
  BY <1>2, SpanStep
<1> QED BY Zenon, <1>1, <1>2 DEF Intern, InternNameSpan

\* native_ct_uninterned_span.
LEMMA UninternedStep ==
    ASSUME Inv, NEW n \in SymbolNames, NamesRoom(Length[n]), UninternedSpan(n)
    PROVE  Inv'
<1>1. ASSUME Fail(1)
      PROVE  Inv'
  BY <1>1, FailStep DEF Fail
<1>2. ASSUME Len(symbols) < SymbolCapacity,
             symbols' = Append(symbols, [home |-> 0, name |-> n]),
             name_count' = name_count + Length[n], Done, KeepRecords,
             UNCHANGED <<pname, uses, aliases, use_count, current>>
      PROVE  Inv'
  <2> DEFINE sym == [home |-> 0, name |-> n]
  <2>1. TypeOK /\ symbols \in Seq(Symbol) /\ Len(symbols) \in Nat
    BY DEF Inv, TypeOK
  <2>2. sym \in Symbol
    BY Capacities DEF Symbol
  <2>3. sym.home = 0
    OBVIOUS
  <2> HIDE DEF sym
  <2>4. /\ symbols' \in Seq(Symbol) /\ Len(symbols') = Len(symbols) + 1
        /\ symbols'[Len(symbols) + 1] = sym
        /\ \A t \in 1..Len(symbols) : symbols'[t] = symbols[t]
    BY <1>2, <2>1, <2>2 DEF sym
  <2>5. NamesKept
    <3>1. \A t \in 1..Len(symbols) : symbols'[t].name = symbols[t].name
      BY <2>4
    <3>2. Len(symbols') <= SymbolCapacity /\ Len(symbols) <= Len(symbols')
      BY <1>2, <2>1, <2>4, Capacities
    <3> QED BY <3>1, <3>2, <2>4 DEF NamesKept
  <2>6. \A t \in 1..Len(symbols') :
          symbols'[t].home = 0 \/ (t \in 1..Len(symbols) /\ symbols'[t].home = symbols[t].home)
    <3>1. \A t \in 1..Len(symbols') : t \in 1..Len(symbols) \/ t = Len(symbols) + 1
      BY <2>1, <2>4
    <3> QED BY <3>1, <2>3, <2>4
  <2>7. name_count' \in 0..NameCapacity
    <3>1. Length[n] \in Nat
      BY EnvironmentAssumption DEF Names
    <3>2. name_count \in 0..NameCapacity
      BY <2>1 DEF TypeOK
    <3> QED BY <3>1, <3>2, <1>2, Capacities DEF NamesRoom
  <2>8. OthersOK'
    BY <1>2, <2>1, <2>5, <2>7, OthersKept DEF NamesKept, Done
  <2>9. Len(pname) <= Len(pname')
    BY <1>2, <2>1 DEF TypeOK
  <2> QED BY <1>2, <2>5, <2>6, <2>8, <2>9, QuietFewer
<1> QED BY Zenon, <1>1, <1>2 DEF UninternedSpan

\* The bytes of a token include those of its name.
LEMMA TokenRoom ==
    ASSUME TypeOK, NEW t \in Tokens, NamesRoom(TokenBytes(t))
    PROVE  NamesRoom(Length[t.name]) /\ t.name \in SymbolNames
<1>1. t.name \in SymbolNames /\ (Qualified(t) => t.package \in PackageNames)
  BY DEF Tokens, Qualified
<1>2. /\ Length[t.name] \in Nat /\ (Qualified(t) => Length[t.package] \in Nat)
      /\ name_count \in Nat
  <2>1. Length \in [SymbolNames \cup PackageNames -> Nat]
    BY EnvironmentAssumption DEF Names
  <2>2. name_count \in Nat
    BY Capacities DEF TypeOK
  <2> QED BY <1>1, <2>1, <2>2
<1> QED BY <1>1, <1>2, Capacities DEF NamesRoom, TokenBytes

\* native_ct_read_symbol.
LEMMA ReadStep ==
    ASSUME Inv, NEW t \in Tokens, ReadSymbol(t)
    PROVE  Inv'
<1>1. ASSUME NEW c \in {1, 6, 9}, Fail(c)
      PROVE  Inv'
  BY <1>1, FailStep DEF Fail
<1>2. ASSUME NamesRoom(TokenBytes(t)), UninternedSpan(t.name)
      PROVE  Inv'
  BY <1>2, TokenRoom, UninternedStep DEF Inv
<1>3. ASSUME NamesRoom(TokenBytes(t)), NEW p, InternNameSpan(p, t.name)
      PROVE  Inv'
  BY <1>3, TokenRoom, SpanStep DEF Inv
<1> QED BY Zenon, <1>1, <1>2, <1>3 DEF ReadSymbol, ReadQualified

\* A nonempty set of numbers has a least element.
LEMMA Least ==
    ASSUME NEW S, S \subseteq Nat, S # {}
    PROVE  \E x \in S : \A y \in S : x <= y
<1>1. PICK x \in S : \A y \in S : ~ (<<y, x>> \in OpToRel(<, Nat))
  BY NatLessThanWellFounded, WFMin
<1>2. \A y \in S : ~ (y < x)
  BY <1>1 DEF OpToRel
<1> QED BY <1>2

\* A name found is that of a package in use.
LEMMA PackageFound ==
    ASSUME TypeOK, NEW n
    PROVE  FindPackage(n) \in 0..Len(pname)
<1> DEFINE named == Named(n)
           nick == {i \in 1..Len(aliases) : aliases[i].name = n}
           a == CHOOSE i \in nick : \A j \in nick : i <= j
           b == CHOOSE p \in named : \A q \in named : p <= q
<1>1. /\ Len(pname) \in Nat /\ Len(aliases) \in Nat
      /\ \A i \in 1..Len(aliases) : aliases[i].package \in 1..Len(pname)
  <2>1. Len(pname) \in Nat /\ Len(aliases) \in Nat
    BY DEF TypeOK
  <2>2. ASSUME NEW i \in 1..Len(aliases)
        PROVE  aliases[i].package \in 1..Len(pname)
    <3>1. aliases[i] \in Alias
      BY DEF TypeOK
    <3>2. aliases[i].package <= Len(pname)
      BY DEF TypeOK
    <3> QED BY <2>1, <3>1, <3>2, Capacities DEF Alias
  <2> QED BY <2>1, <2>2
<1>2. named \subseteq 1..Len(pname) /\ nick \subseteq 1..Len(aliases)
  BY DEF Named
<1>3. FindPackage(n) = IF named # {} THEN b
                       ELSE IF nick # {} THEN aliases[a].package
                       ELSE 0
  BY Zenon DEF FindPackage
<1> HIDE DEF named, nick
<1>4. named # {} => b \in named
  <2>1. named \subseteq Nat
    BY <1>1, <1>2
  <2> QED BY <2>1, Least
<1>5. nick # {} => a \in nick
  <2>1. nick \subseteq Nat
    BY <1>1, <1>2
  <2> QED BY <2>1, Least
<1> HIDE DEF a, b
<1>6. nick # {} => aliases[a].package \in 1..Len(pname)
  BY <1>1, <1>2, <1>5
<1>7. named # {} => b \in 1..Len(pname)
  BY <1>2, <1>4
<1>8. 0 \in 0..Len(pname) /\ \A i \in 1..Len(pname) : i \in 0..Len(pname)
  BY <1>1
<1> QED BY Zenon, <1>3, <1>6, <1>7, <1>8

\* native_ct_make_package: the lists of the new package were empty before.
LEMMA MakePackageStep ==
    ASSUME Inv, NEW n \in PackageNames, MakePackage(n)
    PROVE  Inv'
<1>1. ASSUME NEW c \in {1, 2}, Fail(c)
      PROVE  Inv'
  BY <1>1, FailStep DEF Fail
<1>2. ASSUME PackageRoom(n), pname' = Append(pname, n),
             present' = [present EXCEPT ![Len(pname) + 1] = {}],
             uses' = [uses EXCEPT ![Len(pname) + 1] = {}],
             bucket' = [bucket EXCEPT ![Len(pname) + 1] = [h \in Buckets |-> {}]],
             name_count' = name_count + Length[n], Done,
             UNCHANGED <<symbols, entries, aliases, use_count, current>>
      PROVE  Inv'
  <2>1. TypeOK /\ IndexAgrees /\ RecordsOK /\ OthersOK
    BY TypeParts DEF Inv
  <2>2. PICK m : m = Len(pname) + 1
    OBVIOUS
  <2>3. /\ Len(pname) \in Nat /\ m \in PackageIds /\ pname' \in Seq(PackageNames)
        /\ Len(pname') = m /\ ~ (m <= Len(pname))
    BY <1>2, <2>1, <2>2, Capacities DEF OthersOK, PackageRoom
  <2>4. present[m] = {}
    BY <2>1, <2>3 DEF RecordsOK
  <2>5. uses[m] = {}
    BY <2>1, <2>3 DEF OthersOK
  <2>6. bucket[m] = [h \in Buckets |-> {}]
    <3>1. \A h \in Buckets : BucketCount > 0
      BY Capacities DEF Buckets
    <3>2. \A h \in Buckets : bucket[m][h] = {}
      BY <3>1, <2>1, <2>3, <2>4 DEF IndexAgrees
    <3>3. bucket[m] \in [Buckets -> SUBSET EntryIds]
      BY <2>1, <2>3 DEF RecordsOK
    <3> QED BY <3>2, <3>3
  <2>7. present' = present
    BY <1>2, <2>1, <2>2, <2>4 DEF RecordsOK
  <2>8. uses' = uses
    BY <1>2, <2>1, <2>2, <2>5 DEF OthersOK
  <2>9. bucket' = bucket
    <3> DEFINE e == [h \in Buckets |-> {}]
    <3>1. bucket' = [bucket EXCEPT ![m] = e] /\ bucket[m] = e
      BY <1>2, <2>2, <2>6
    <3>2. bucket \in [PackageIds -> [Buckets -> SUBSET EntryIds]]
      BY <2>1 DEF RecordsOK
    <3> HIDE DEF e
    <3> QED BY <3>1, <3>2
  <2>10. KeepRecords /\ NamesKept /\ Len(pname) <= Len(pname')
    BY <1>2, <2>2, <2>3, <2>7, <2>9, Unchanged DEF KeepRecords
  <2>11. OthersOK'
    <3>1. name_count' \in 0..NameCapacity
      <4>1. Length[n] \in Nat
        BY EnvironmentAssumption DEF Names
      <4>2. name_count \in 0..NameCapacity /\ NamesRoom(Length[n])
        BY <1>2, <2>1 DEF OthersOK, PackageRoom
      <4> QED BY <1>2, <4>1, <4>2, Capacities DEF NamesRoom
    <3>2. Len(pname') <= PackageCapacity /\ current' \in 1..Len(pname')
      BY <1>2, <2>1, <2>2, <2>3 DEF OthersOK, PackageRoom
    <3>3. \A p \in PackageIds : \A q \in uses'[p] : p <= Len(pname') /\ q <= Len(pname')
      <4>1. \A p \in PackageIds : \A q \in uses[p] :
              p <= Len(pname) /\ q <= Len(pname) /\ q \in PackageIds
        BY <2>1 DEF OthersOK
      <4> QED BY <4>1, <2>2, <2>3, <2>8, Capacities
    <3>4. \A i \in 1..Len(aliases') : aliases'[i].package <= Len(pname')
      <4>1. \A i \in 1..Len(aliases) : aliases[i] \in Alias /\ aliases[i].package <= Len(pname)
        BY <2>1 DEF OthersOK
      <4> QED BY <4>1, <1>2, <2>2, <2>3, Capacities DEF Alias
    <3> QED BY <3>1, <3>2, <3>3, <3>4, <1>2, <2>1, <2>3, <2>8 DEF OthersOK, Done
  <2> QED BY <1>2, <2>8, <2>10, <2>11, QuietFewer
<1> QED BY Zenon, <1>1, <1>2 DEF MakePackage

\* native_ct_add_alias.
LEMMA AddAliasStep ==
    ASSUME Inv, NEW p \in PackageIds, NEW n \in PackageNames, AddAlias(p, n)
    PROVE  Inv'
<1>1. ASSUME NEW c \in {1, 2, 4}, Fail(c)
      PROVE  Inv'
  BY <1>1, FailStep DEF Fail
<1>2. ASSUME ValidPackage(p), Len(aliases) < AliasCapacity, NamesRoom(Length[n]),
             aliases' = Append(aliases, [package |-> p, name |-> n]),
             name_count' = name_count + Length[n], Done, KeepRecords,
             UNCHANGED <<pname, uses, symbols, use_count, current>>
      PROVE  Inv'
  <2> DEFINE a == [package |-> p, name |-> n]
  <2>1. TypeOK /\ OthersOK
    BY TypeParts DEF Inv
  <2>2. a \in Alias /\ a.package <= Len(pname)
    BY <1>2, <2>1, Valid DEF Alias
  <2> HIDE DEF a
  <2>3. /\ aliases \in Seq(Alias) /\ Len(aliases) \in Nat
        /\ \A i \in 1..Len(aliases) : aliases[i].package <= Len(pname)
    BY <2>1 DEF OthersOK
  <2>4. /\ aliases' \in Seq(Alias) /\ Len(aliases') = Len(aliases) + 1
        /\ aliases'[Len(aliases) + 1] = a
        /\ \A i \in 1..Len(aliases) : aliases'[i] = aliases[i]
    BY <1>2, <2>2, <2>3 DEF a
  <2>5. \A i \in 1..Len(aliases') : aliases'[i].package <= Len(pname')
    <3>1. \A i \in 1..Len(aliases') : i \in 1..Len(aliases) \/ i = Len(aliases) + 1
      BY <2>3, <2>4
    <3> QED BY <3>1, <1>2, <2>2, <2>3, <2>4
  <2>6. name_count' \in 0..NameCapacity
    <3>1. Length[n] \in Nat
      BY EnvironmentAssumption DEF Names
    <3>2. name_count \in 0..NameCapacity
      BY <2>1 DEF OthersOK
    <3> QED BY <1>2, <3>1, <3>2, Capacities DEF NamesRoom
  <2>7. Len(aliases') <= AliasCapacity
    BY <1>2, <2>3, <2>4, Capacities
  <2>8. OthersOK'
    BY <1>2, <2>1, <2>4, <2>5, <2>6, <2>7 DEF OthersOK, Done
  <2>9. NamesKept /\ Len(pname) <= Len(pname')
    BY <1>2, <2>1, Unchanged DEF OthersOK
  <2> QED BY <1>2, <2>8, <2>9, QuietFewer
<1> QED BY Zenon, <1>1, <1>2 DEF AddAlias

\* native_package_select.
LEMMA SelectStep ==
    ASSUME Inv, NEW n \in PackageNames, SelectPackage(n)
    PROVE  Inv'
<1>1. TypeOK /\ OthersOK
  BY TypeParts DEF Inv
<1>2. /\ FindPackage(n) # 0 /\ current' = FindPackage(n)
      /\ UNCHANGED <<pname, present, bucket, uses, symbols, entries, aliases,
                     use_count, name_count, error>>
  BY Zenon DEF SelectPackage
<1>3. current' \in 1..Len(pname')
  <2>1. FindPackage(n) \in 0..Len(pname) /\ Len(pname) \in Nat
    BY <1>1, PackageFound DEF OthersOK
  <2> QED BY <1>2, <2>1
<1>4. OthersOK'
  BY <1>1, <1>2, <1>3 DEF OthersOK
<1>5. NamesKept /\ KeepRecords /\ Len(pname) <= Len(pname')
  BY <1>1, <1>2, Unchanged DEF KeepRecords, OthersOK
<1> QED BY <1>2, <1>4, <1>5, QuietFewer

\* native_ct_unuse_package.
LEMMA UnuseStep ==
    ASSUME Inv, NEW p \in PackageIds, NEW q \in PackageIds, UnusePackage(p, q)
    PROVE  Inv'
<1>1. ASSUME Fail(4)
      PROVE  Inv'
  BY <1>1, FailStep DEF Fail
<1>2. ASSUME uses' = [uses EXCEPT ![p] = @ \ {q}], Done, KeepRecords,
             UNCHANGED <<pname, symbols, aliases, use_count, name_count, current>>
      PROVE  Inv'
  <2>1. OthersOK
    BY TypeParts DEF Inv
  <2>2. /\ uses' \in [PackageIds -> SUBSET PackageIds]
        /\ \A u \in PackageIds : uses'[u] \subseteq uses[u]
    BY <1>2, <2>1 DEF OthersOK
  <2>3. OthersOK'
    BY <1>2, <2>1, <2>2 DEF OthersOK, Done
  <2>4. NamesKept /\ Len(pname) <= Len(pname')
    BY <1>2, <2>1, Unchanged DEF OthersOK
  <2> QED BY <1>2, <2>2, <2>3, <2>4, QuietFewer
<1> QED BY Zenon, <1>1, <1>2 DEF UnusePackage

\* native_ct_use_package: every external symbol of the package used is visible.
LEMMA UseStep ==
    ASSUME Inv, NEW p \in PackageIds, NEW q \in PackageIds, UsePackage(p, q)
    PROVE  Inv'
<1>1. ASSUME NEW c \in {1, 3, 4, 10}, Fail(c)
      PROVE  Inv'
  BY <1>1, FailStep DEF Fail
<1>2. ASSUME ValidPackage(p), ValidPackage(q), UseExportsValid(p, q),
             use_count < UseCapacity, uses' = [uses EXCEPT ![p] = @ \cup {q}],
             use_count' = use_count + 1, Done, KeepRecords,
             UNCHANGED <<pname, symbols, aliases, name_count, current>>
      PROVE  Inv'
  <2>1. TypeOK /\ IndexAgrees /\ Coherent /\ OthersOK
    BY TypeParts DEF Inv
  <2>2. p <= Len(pname) /\ q <= Len(pname)
    BY <1>2, <2>1, Valid
  <2>3. /\ uses' \in [PackageIds -> SUBSET PackageIds]
        /\ uses'[p] = uses[p] \cup {q}
        /\ \A u \in PackageIds : u # p => uses'[u] = uses[u]
    BY <1>2, <2>1 DEF OthersOK
  <2>4. OthersOK'
    <3>1. use_count' \in 0..UseCapacity
      BY <1>2, <2>1, Capacities DEF OthersOK
    <3>2. \A u \in PackageIds : \A r \in uses'[u] : u <= Len(pname) /\ r <= Len(pname)
      BY <2>1, <2>2, <2>3 DEF OthersOK
    <3> QED BY <3>1, <3>2, <1>2, <2>1, <2>3 DEF OthersOK, Done
  <2>5. NamesKept /\ Len(pname) <= Len(pname') /\ UNCHANGED <<present, entries>>
    BY <1>2, <2>1, Unchanged DEF OthersOK, KeepRecords
  <2>6. \A r \in PackageIds : \A f \in present[r] : NameOf(f)' = NameOf(f)
    BY <2>1, <2>5, NamesStay
  <2>7. ASSUME NEW e \in External(q)
        PROVE  Sees(p, NameOf(e), entries[e].symbol)
    <3>1. e \in present[q] /\ CandidateVisible(p, entries[e].symbol)
      BY <1>2 DEF External, UseExportsValid
    <3>2. entries[e].symbol \in 1..Len(symbols)
      BY <2>1, <3>1, EntryFacts
    <3> QED BY <2>1, <3>1, <3>2, CandidateSees DEF NameOf
  <2>8. Coherent'
    BY <2>1, <2>3, <2>5, <2>6, <2>7, CoherentUse
  <2> QED BY <1>2, <2>4, <2>5, <2>8, QuietStep
<1> QED BY Zenon, <1>1, <1>2 DEF UsePackage

\* native_ct_import_commit gives a symbol a home at most.
LEMMA HomeGiven ==
    ASSUME Inv, NEW p \in PackageIds, NEW s \in 1..Len(symbols),
           symbols' = IF symbols[s].home = 0 THEN [symbols EXCEPT ![s].home = p] ELSE symbols
    PROVE  /\ HomeChange
           /\ \A t \in 1..Len(symbols) :
                 symbols'[t].home = symbols[t].home \/ (t = s /\ symbols'[t].home = p)
<1>1. CASE symbols[s].home = 0
  <2>1. symbols \in Seq(Symbol) /\ p \in 0..PackageCapacity
    <3>1. symbols \in Seq(Symbol)
      BY DEF Inv, TypeOK
    <3> QED BY <3>1, Capacities
  <2>2. symbols[s] \in Symbol
    BY <2>1
  <2>3. symbols' = [symbols EXCEPT ![s] = [symbols[s] EXCEPT !.home = p]]
    BY <1>1
  <2>4. /\ [symbols[s] EXCEPT !.home = p] \in Symbol
        /\ [symbols[s] EXCEPT !.home = p].home = p
        /\ [symbols[s] EXCEPT !.home = p].name = symbols[s].name
    BY <2>1, <2>2 DEF Symbol
  <2> QED BY <2>1, <2>3, <2>4 DEF HomeChange
<1>2. CASE symbols[s].home # 0
  BY <1>2, Unchanged
<1> QED BY <1>1, <1>2

\* native_ct_import_symbol: nothing else is visible by that name.
LEMMA ImportStep ==
    ASSUME Inv, NEW p \in PackageIds, NEW s \in SymbolIds, ImportSymbol(p, s)
    PROVE  Inv'
<1> DEFINE n == symbols[s].name
           e == FindPresent(p, n, FALSE)
<1>1. ASSUME NEW c \in {1, 3, 4}, Fail(c)
      PROVE  Inv'
  BY <1>1, FailStep DEF Fail
<1>2. ASSUME ValidPair(p, s), Visible(p, n) \subseteq {s},
             symbols' = IF symbols[s].home = 0 THEN [symbols EXCEPT ![s].home = p] ELSE symbols,
             Done, KeepNames,
             \/ e # 0 /\ KeepRecords
             \/ e = 0 /\ PresentRoom /\ AddPresence(p, s, n, FALSE, FALSE)
      PROVE  Inv'
  <2>1. TypeOK /\ IndexAgrees /\ OthersOK
    BY TypeParts DEF Inv
  <2>2. p <= Len(pname) /\ s \in 1..Len(symbols) /\ n \in SymbolNames
    BY <1>2, <2>1, Valid DEF ValidPair
  <2>3. /\ HomeChange
        /\ \A t \in 1..Len(symbols) :
              symbols'[t].home = symbols[t].home \/ (t = s /\ symbols'[t].home = p)
    BY <1>2, <2>2, HomeGiven
  <2>4. /\ e # 0 => e \in present[p] /\ NameOf(e) = n
        /\ e = 0 => \A f \in present[p] : NameOf(f) # n
    BY <2>1, <2>2, Found
  <2>5. /\ \A f \in present[p] : NameOf(f) = n => entries[f].symbol = s
        /\ (\A f \in present[p] : NameOf(f) # n) => Inherited(p, n) \subseteq {s}
        /\ Inherited(p, n) \subseteq {s} => \A q \in uses[p] : \A f \in External(q) :
              NameOf(f) = n => entries[f].symbol = s
    <3>1. Visible(p, n) \subseteq {s} /\ n \in SymbolNames
      BY <1>2, <2>2
    <3> HIDE DEF n
    <3> QED BY <3>1, <2>1, VisibleSymbols
  <2>6. CASE e # 0 /\ KeepRecords
    <3>1. NamesKept /\ Len(symbols') = Len(symbols)
      BY <2>1, <2>3 DEF HomeChange, NamesKept, OthersOK
    <3>2. entries[e].symbol = s /\ e \in present[p]
      BY <2>4, <2>5, <2>6
    <3>3. \A t \in 1..Len(symbols') :
            \/ \E f \in present[symbols'[t].home] : entries[f].symbol = t
            \/ t \in 1..Len(symbols) /\ symbols'[t].home = symbols[t].home
      BY <2>3, <3>1, <3>2
    <3>4. UNCHANGED <<pname, uses, aliases, use_count, name_count, current, error>>
      BY <1>2 DEF KeepNames, Done
    <3>5. OthersOK'
      BY <2>1, <3>1, <3>4, OthersKept DEF NamesKept, OthersOK
    <3>6. Len(pname) <= Len(pname')
      BY <2>1, <3>4 DEF OthersOK
    <3> QED BY <2>6, <3>1, <3>3, <3>4, <3>5, <3>6, QuietFewer
  <2>7. CASE e = 0 /\ PresentRoom /\ AddPresence(p, s, n, FALSE, FALSE)
    <3>1. /\ \A f \in present[p] : NameOf(f) # n
          /\ \A q \in uses[p] : \A f \in External(q) : NameOf(f) = n => entries[f].symbol = s
      BY <2>4, <2>5, <2>7
    <3> QED BY <1>2, <2>2, <2>3, <2>7, <3>1, AddStep DEF Done
  <2> QED BY <1>2, <2>6, <2>7
<1> QED BY Zenon, <1>1, <1>2 DEF ImportSymbol, ImportCommit

\* native_ct_validate_export_users: every package that uses p can take s.
LEMMA UsersSee ==
    ASSUME TypeOK, IndexAgrees, NEW p \in PackageIds, NEW s \in 1..Len(symbols),
           ExportUsersValid(p, s), NEW u \in PackageIds, p \in Used(u)
    PROVE  Sees(u, symbols[s].name, s)
<1>1. p \in uses[u]
  BY DEF Used
<1>2. u \in 1..Len(pname)
  BY <1>1, Capacities DEF TypeOK
<1> QED BY <1>1, <1>2, CandidateSees DEF ExportUsersValid

\* A record that keeps its symbol.
LEMMA SameSymbol ==
    ASSUME Inv, NEW p \in PackageIds, NEW k \in present[p], NEW rec \in Presence,
           rec.symbol = entries[k].symbol, SetEntry(k, rec), KeepNames, error' = error,
           symbols' = symbols,
           rec.shadowing \/ rec.shadowing = entries[k].shadowing,
           rec.external =>
             \/ entries[k].external
             \/ \A u \in PackageIds : p \in Used(u) => Sees(u, NameOf(k), rec.symbol)
    PROVE  Inv'
<1>1. rec.symbol \in 1..Len(symbols) /\ symbols[rec.symbol].name = NameOf(k)
  BY EntryFacts DEF Inv, NameOf
<1>2. HomeChange /\ \A t \in 1..Len(symbols) : symbols'[t].home = symbols[t].home
  BY Unchanged
<1>3. rec.shadowing \/ ~ entries[k].shadowing
  BY EntryFacts DEF Inv, Presence
<1> QED BY <1>1, <1>2, <1>3, SetStep

\* native_ct_export_symbol: every user of the package can see the symbol.
LEMMA ExportStep ==
    ASSUME Inv, NEW p \in PackageIds, NEW s \in SymbolIds, ExportSymbol(p, s)
    PROVE  Inv'
<1> DEFINE n == symbols[s].name
           e == FindPresent(p, n, FALSE)
<1>1. ASSUME NEW c \in {1, 3, 4}, Fail(c)
      PROVE  Inv'
  BY <1>1, FailStep DEF Fail
<1>2. ASSUME ValidPair(p, s), Visible(p, n) = {s}, ExportUsersValid(p, s),
             Done, KeepNames, UNCHANGED symbols,
             \/ e = 0 /\ PresentRoom /\ AddPresence(p, s, n, TRUE, FALSE)
             \/ e # 0 /\ SetEntry(e, [entries[e] EXCEPT !.external = TRUE])
      PROVE  Inv'
  <2>1. TypeOK /\ IndexAgrees
    BY DEF Inv
  <2>2. p <= Len(pname) /\ s \in 1..Len(symbols) /\ n \in SymbolNames
    BY <1>2, <2>1, Valid DEF ValidPair
  <2>3. /\ e # 0 => e \in present[p] /\ NameOf(e) = n
        /\ e = 0 => \A f \in present[p] : NameOf(f) # n
    BY <2>1, <2>2, Found
  <2>4. /\ \A f \in present[p] : NameOf(f) = n => entries[f].symbol = s
        /\ (\A f \in present[p] : NameOf(f) # n) => Inherited(p, n) \subseteq {s}
        /\ Inherited(p, n) \subseteq {s} => \A q \in uses[p] : \A f \in External(q) :
              NameOf(f) = n => entries[f].symbol = s
    BY ZenonT(60), <1>2, <2>1, <2>2, VisibleSymbols
  <2>5. \A u \in PackageIds : p \in Used(u) => Sees(u, n, s)
    BY <1>2, <2>1, <2>2, UsersSee
  <2>6. CASE e = 0 /\ PresentRoom /\ AddPresence(p, s, n, TRUE, FALSE)
    <3>1. /\ \A f \in present[p] : NameOf(f) # n
          /\ \A q \in uses[p] : \A f \in External(q) : NameOf(f) = n => entries[f].symbol = s
      BY <2>3, <2>4, <2>6
    <3>2. HomeChange /\ \A t \in 1..Len(symbols) : symbols'[t].home = symbols[t].home
      BY <1>2, Unchanged
    <3> QED BY <1>2, <2>2, <2>5, <2>6, <3>1, <3>2, AddStep DEF Done
  <2>7. CASE e # 0 /\ SetEntry(e, [entries[e] EXCEPT !.external = TRUE])
    <3> DEFINE rec == [entries[e] EXCEPT !.external = TRUE]
    <3>1. e \in present[p] /\ NameOf(e) = n /\ entries[e].symbol = s
      BY <2>3, <2>4, <2>7
    <3>2. entries[e] \in Presence
      BY <2>1, <3>1, EntryFacts
    <3>3. /\ rec \in Presence /\ rec.symbol = entries[e].symbol
          /\ rec.shadowing = entries[e].shadowing
      BY <3>2 DEF Presence
    <3>4. SetEntry(e, rec)
      BY <2>7
    <3> HIDE DEF rec, e, n
    <3> QED BY <1>2, <2>5, <3>1, <3>3, <3>4, SameSymbol DEF Done
  <2> QED BY <1>2, <2>6, <2>7
<1> QED BY Zenon, <1>1, <1>2 DEF ExportSymbol, MarkExternal

\* native_ct_unexport_symbol.
LEMMA UnexportStep ==
    ASSUME Inv, NEW p \in PackageIds, NEW s \in SymbolIds, UnexportSymbol(p, s)
    PROVE  Inv'
<1> DEFINE n == symbols[s].name
           e == FindPresent(p, n, FALSE)
           rec == [entries[e] EXCEPT !.external = FALSE]
<1>1. ASSUME NEW c \in {3, 4}, Fail(c)
      PROVE  Inv'
  BY <1>1, FailStep DEF Fail
<1>2. ASSUME ValidPair(p, s), e # 0, SetEntry(e, rec), Done, KeepNames, UNCHANGED symbols
      PROVE  Inv'
  <2>1. TypeOK /\ IndexAgrees
    BY DEF Inv
  <2>2. n \in SymbolNames
    BY <1>2, <2>1, Valid DEF ValidPair
  <2>3. e \in present[p]
    BY <1>2, <2>1, <2>2, Found
  <2>4. entries[e] \in Presence
    BY <2>1, <2>3, EntryFacts
  <2>5. /\ rec \in Presence /\ rec.symbol = entries[e].symbol
        /\ rec.shadowing = entries[e].shadowing /\ ~ rec.external
    BY <2>4 DEF Presence
  <2> HIDE DEF rec, e, n
  <2> QED BY <1>2, <2>3, <2>5, SameSymbol DEF Done
<1> QED BY Zenon, <1>1, <1>2 DEF UnexportSymbol

\* native_ct_shadow_name.
LEMMA ShadowStep ==
    ASSUME Inv, NEW p \in PackageIds, NEW n \in SymbolNames, ShadowName(p, n)
    PROVE  Inv'
<1> DEFINE e == FindPresent(p, n, FALSE)
           rec == [entries[e] EXCEPT !.shadowing = TRUE]
<1>0. TypeOK /\ IndexAgrees
  BY DEF Inv
<1>1. ASSUME NEW c \in {1, 4}, Fail(c)
      PROVE  Inv'
  BY <1>1, FailStep DEF Fail
<1>2. ASSUME e # 0, SetEntry(e, rec), Done, KeepNames, UNCHANGED symbols
      PROVE  Inv'
  <2>1. e \in present[p]
    BY <1>0, <1>2, Found
  <2>2. entries[e] \in Presence
    BY <1>0, <2>1, EntryFacts
  <2>3. /\ rec \in Presence /\ rec.symbol = entries[e].symbol
        /\ rec.external = entries[e].external /\ rec.shadowing
    BY <2>2 DEF Presence
  <2> HIDE DEF rec, e
  <2> QED BY <1>2, <2>1, <2>3, SameSymbol DEF Done
<1>3. ASSUME ValidPackage(p), e = 0, SymbolRoom, NamesRoom(Length[n]), NewSymbol(p, n, TRUE),
             Done, UNCHANGED <<pname, uses, aliases, use_count, current>>
      PROVE  Inv'
  <2>1. p <= Len(pname)
    BY <1>0, <1>3, Valid
  <2>2. \A f \in present[p] : NameOf(f) # n
    BY <1>0, <1>3, Found
  <2> QED BY <1>3, <2>1, <2>2, NewSymbolStep DEF Done
<1> QED BY Zenon, <1>1, <1>2, <1>3 DEF ShadowName

\* native_ct_detach_home.
LEMMA Detached ==
    ASSUME Inv, NEW p \in PackageIds, NEW s \in 1..Len(symbols), DetachHome(p, s)
    PROVE  /\ HomeChange
           /\ \A t \in 1..Len(symbols) :
                 \/ symbols'[t].home = 0
                 \/ symbols'[t].home = symbols[t].home /\ (t = s => symbols[t].home # p)
<1>1. CASE symbols[s].home = p
  <2>1. symbols \in Seq(Symbol) /\ 0 \in 0..PackageCapacity
    BY Capacities DEF Inv, TypeOK
  <2>2. symbols[s] \in Symbol
    BY <2>1
  <2>3. symbols' = [symbols EXCEPT ![s] = [symbols[s] EXCEPT !.home = 0]]
    BY <1>1 DEF DetachHome
  <2>4. /\ [symbols[s] EXCEPT !.home = 0] \in Symbol
        /\ [symbols[s] EXCEPT !.home = 0].home = 0
        /\ [symbols[s] EXCEPT !.home = 0].name = symbols[s].name
    BY <2>1, <2>2 DEF Symbol
  <2> QED BY <2>1, <2>3, <2>4 DEF HomeChange
<1>2. CASE symbols[s].home # p
  <2>1. symbols' = symbols
    BY <1>2 DEF DetachHome
  <2> QED BY <1>2, <2>1, Unchanged
<1> QED BY <1>1, <1>2

\* native_ct_shadowing_import: the record taken over is not external any more.
LEMMA ShadowingImportStep ==
    ASSUME Inv, NEW p \in PackageIds, NEW s \in SymbolIds, ShadowingImport(p, s)
    PROVE  Inv'
<1> DEFINE n == symbols[s].name
           e == FindPresent(p, n, FALSE)
           mark == [entries[e] EXCEPT !.shadowing = TRUE]
           take == [symbol |-> s, external |-> FALSE, shadowing |-> TRUE]
<1>0. TypeOK /\ IndexAgrees
  BY DEF Inv
<1>1. ASSUME NEW c \in {1, 4}, Fail(c)
      PROVE  Inv'
  BY <1>1, FailStep DEF Fail
<1>2. ASSUME ValidPair(p, s)
      PROVE  /\ p <= Len(pname) /\ s \in 1..Len(symbols) /\ n \in SymbolNames
             /\ e # 0 => e \in present[p] /\ NameOf(e) = n /\ entries[e] \in Presence
             /\ e = 0 => \A f \in present[p] : NameOf(f) # n
  <2>1. p <= Len(pname) /\ s \in 1..Len(symbols) /\ n \in SymbolNames
    BY <1>0, <1>2, Valid DEF ValidPair
  <2>2. /\ e # 0 => e \in present[p] /\ NameOf(e) = n
        /\ e = 0 => \A f \in present[p] : NameOf(f) # n
    BY <1>0, <2>1, Found
  <2> QED BY <1>0, <2>1, <2>2, EntryFacts
<1>3. ASSUME ValidPair(p, s), e = 0, PresentRoom, AddPresence(p, s, n, FALSE, TRUE),
             Done, KeepNames, UNCHANGED symbols
      PROVE  Inv'
  <2>1. HomeChange /\ \A t \in 1..Len(symbols) : symbols'[t].home = symbols[t].home
    BY <1>3, Unchanged
  <2> QED BY <1>2, <1>3, <2>1, AddStep DEF Done
<1>4. ASSUME ValidPair(p, s), e # 0, SetEntry(e, mark), Done, KeepNames, UNCHANGED symbols
      PROVE  Inv'
  <2>1. e \in present[p] /\ entries[e] \in Presence
    BY <1>2, <1>4
  <2>2. /\ mark \in Presence /\ mark.symbol = entries[e].symbol
        /\ mark.external = entries[e].external /\ mark.shadowing
    BY <2>1 DEF Presence
  <2> HIDE DEF mark, e
  <2> QED BY <1>4, <2>1, <2>2, SameSymbol DEF Done
<1>5. ASSUME ValidPair(p, s), e # 0, DetachHome(p, entries[e].symbol), SetEntry(e, take),
             Done, KeepNames
      PROVE  Inv'
  <2>1. /\ e \in present[p] /\ NameOf(e) = n /\ s \in 1..Len(symbols)
    BY <1>2, <1>5
  <2>2. entries[e].symbol \in 1..Len(symbols)
    BY <1>0, <2>1, EntryFacts
  <2>3. /\ take \in Presence /\ take.symbol = s /\ ~ take.external /\ take.shadowing
    BY DEF Presence
  <2>4. /\ HomeChange
        /\ \A t \in 1..Len(symbols) :
              \/ symbols'[t].home = 0
              \/ symbols'[t].home = symbols[t].home
                 /\ (t = entries[e].symbol => symbols[t].home # p)
    <3> HIDE DEF e
    <3> QED BY <1>5, <2>2, Detached
  <2>5. symbols[s].name = NameOf(e)
    BY <2>1
  <2> HIDE DEF take, e, n
  <2> QED BY <1>5, <2>1, <2>3, <2>4, <2>5, SetStep DEF Done
<1> QED BY Zenon, <1>1, <1>3, <1>4, <1>5 DEF ShadowingImport

\* native_ct_unintern_symbol: what is inherited under the name is one symbol.
LEMMA UninternStep ==
    ASSUME Inv, NEW p \in PackageIds, NEW s \in SymbolIds, UninternSymbol(p, s)
    PROVE  Inv'
<1> DEFINE n == symbols[s].name
           e == FindPresent(p, n, FALSE)
<1>0. TypeOK /\ IndexAgrees /\ Exclusive /\ HomeHolds /\ Coherent
  BY DEF Inv
<1>1. ASSUME NEW c \in {3, 4}, Fail(c)
      PROVE  Inv'
  BY <1>1, FailStep DEF Fail
<1>2. ASSUME ValidPair(p, s), e # 0, entries[e].symbol = s, ~ Conflict(Inherited(p, n)),
             UnlinkPresence(p, s), Done, KeepNames
      PROVE  Inv'
  <2>1. s \in 1..Len(symbols) /\ n \in SymbolNames
    BY <1>0, <1>2, Valid DEF ValidPair
  <2>2. e \in present[p] /\ NameOf(e) = n
    BY ZenonT(60), <1>0, <1>2, <2>1, Found
  <2>3. PICK k : k = e
    OBVIOUS
  <2>4. k \in present[p] /\ NameOf(k) = n /\ entries[k].symbol = s /\ k \in Nat
    BY <1>0, <1>2, <2>2, <2>3, EntryFacts
  <2>5. First({f \in present[p] : entries[f].symbol = s}) = k
    <3> DEFINE S == {f \in present[p] : entries[f].symbol = s}
    <3>1. \A f \in S : f = k
      BY <1>0, <2>4 DEF IndexAgrees, NameOf
    <3>2. k \in S /\ k <= k
      BY <2>4
    <3> HIDE DEF S
    <3>3. First(S) = k
      BY <3>1, <3>2 DEF First
    <3> QED BY <3>3 DEF S
  <2>6. Unlinking(p, k) /\ entries' = entries /\ DetachHome(p, s)
    BY <1>2, <2>5 DEF UnlinkPresence, Unlinking
  <2>7. /\ HomeChange
        /\ \A t \in 1..Len(symbols) :
              \/ symbols'[t].home = 0
              \/ symbols'[t].home = symbols[t].home /\ (t = s => symbols[t].home # p)
    BY <2>1, <2>6, Detached
  <2>8. NamesKept /\ Len(symbols') = Len(symbols)
    BY <1>0, <2>7 DEF HomeChange, NamesKept, TypeOK
  <2>9. UNCHANGED <<pname, uses, aliases, use_count, name_count, current, error>>
    BY <1>2 DEF KeepNames, Done
  <2>10. RecordsOK' /\ IndexAgrees' /\ Exclusive' /\ RecordRemoved(p, k)
    BY <1>0, <2>4, <2>6, <2>8, <2>9, Unlinked
  <2>11. Coherent'
    <3>1. \A q, r \in uses[p] : \A f \in External(q), g \in External(r) :
            NameOf(f) = n /\ NameOf(g) = n => entries[f].symbol = entries[g].symbol
      <4>1. ~ Conflict(Inherited(p, n)) /\ n \in SymbolNames
        BY <1>2, <2>1
      <4> HIDE DEF n
      <4> QED BY <4>1, <1>0, VisibleSymbols
    <3> HIDE DEF n
    <3> QED BY <3>1, <1>0, <2>4, <2>9, <2>10, CoherentRemoved
  <2>12. HomeHolds'
    BY <1>0, <2>4, <2>7, <2>8, <2>10, HomeRemoved
  <2>13. OthersOK'
    BY <1>0, <2>8, <2>9, OthersKept DEF NamesKept, TypeOK
  <2> QED BY <2>10, <2>11, <2>12, <2>13, TypePartsPrimed DEF Inv
<1> QED BY Zenon, <1>1, <1>2 DEF UninternSymbol

-----------------------------------------------------------------------------
(* The theorems.                                                           *)

\* native_ct_seed_standard establishes the invariant.
LEMMA InitOK == Init => Inv
<1> SUFFICES ASSUME Init PROVE Inv
  OBVIOUS
<1>1. /\ SeedPackages \in Seq(PackageNames) /\ Len(SeedPackages) >= 2
      /\ Len(SeedPackages) \in Nat /\ Len(SeedPackages) <= PackageCapacity
      /\ SeedNames \in Seq(SymbolNames) /\ Len(SeedNames) \in Nat
      /\ Len(SeedNames) <= SymbolCapacity /\ Len(SeedNames) <= PresentCapacity
      /\ \A i, j \in 1..Len(SeedNames) : SeedNames[i] = SeedNames[j] => i = j
      /\ ClAlias \in PackageNames /\ UseCapacity \in Nat \ {0} /\ AliasCapacity \in Nat \ {0}
      /\ NameCapacity \in Nat /\ SeedBytes \in 0..NameCapacity
  BY EnvironmentAssumption
<1>2. symbols = [i \in 1..Len(SeedNames) |-> [home |-> 1, name |-> SeedNames[i]]]
  BY DEF Init
<1>3. /\ symbols \in Seq(Symbol) /\ Len(symbols) = Len(SeedNames)
      /\ \A i \in 1..Len(SeedNames) : symbols[i].home = 1 /\ symbols[i].name = SeedNames[i]
  <2>1. \A i \in 1..Len(SeedNames) : [home |-> 1, name |-> SeedNames[i]] \in Symbol
    BY <1>1, Capacities DEF Symbol
  <2> QED BY <1>1, <1>2, <2>1
<1>4. entries = [i \in 1..Len(SeedNames) |->
                   [symbol |-> i, external |-> TRUE, shadowing |-> FALSE]]
  BY DEF Init
<1>5. /\ entries \in Seq(Presence) /\ Len(entries) = Len(SeedNames)
      /\ \A i \in 1..Len(SeedNames) : entries[i].symbol = i /\ entries[i].external
      /\ \A i \in 1..Len(SeedNames) : NameOf(i) = SeedNames[i]
  <2>1. \A i \in 1..Len(SeedNames) :
          [symbol |-> i, external |-> TRUE, shadowing |-> FALSE] \in Presence
    BY <1>1, Capacities DEF Presence
  <2>2. \A i \in 1..Len(SeedNames) : entries[i].symbol = i /\ entries[i].external
    BY <1>4
  <2> QED BY <1>1, <1>3, <1>4, <2>1, <2>2 DEF NameOf
<1>0. 1..Len(SeedNames) \subseteq EntryIds /\ 1 \in PackageIds
  BY <1>1, Capacities
<1>6. /\ present \in [PackageIds -> SUBSET EntryIds]
      /\ \A p \in PackageIds : present[p] = IF p = 1 THEN 1..Len(SeedNames) ELSE {}
  <2> DEFINE I == 1..Len(SeedNames)
  <2>1. present = [p \in PackageIds |-> IF p = 1 THEN I ELSE {}]
    BY DEF Init
  <2>2. I \subseteq EntryIds
    BY <1>0
  <2> HIDE DEF I, PackageIds, EntryIds
  <2>3. /\ present \in [PackageIds -> SUBSET EntryIds]
        /\ \A p \in PackageIds : present[p] = IF p = 1 THEN I ELSE {}
    BY <2>1, <2>2
  <2> QED BY <2>3 DEF I
<1>7. /\ bucket \in [PackageIds -> [Buckets -> SUBSET EntryIds]]
      /\ \A p \in PackageIds, h \in Buckets :
           bucket[p][h] = IF p = 1 THEN {i \in 1..Len(SeedNames) : Hash[SeedNames[i]] = h} ELSE {}
  <2>1. bucket = [p \in PackageIds |-> [h \in Buckets |->
                    IF p = 1 THEN {i \in 1..Len(SeedNames) : Hash[SeedNames[i]] = h} ELSE {}]]
    BY DEF Init
  <2>2. \A h : {i \in 1..Len(SeedNames) : Hash[SeedNames[i]] = h} \subseteq EntryIds
    <3> HIDE DEF EntryIds
    <3> QED BY <1>0
  <2> QED BY <2>1, <2>2
<1>8. /\ uses \in [PackageIds -> SUBSET PackageIds]
      /\ \A p \in PackageIds : uses[p] = IF p = Len(SeedPackages) THEN {1} ELSE {}
  <2>1. uses = [p \in PackageIds |-> IF p = Len(SeedPackages) THEN {1} ELSE {}]
    BY DEF Init
  <2> HIDE DEF PackageIds
  <2> QED BY <2>1, <1>0
<1>9. RecordsOK
  <2>1. Len(pname) >= 2 /\ Len(pname) \in Nat
    BY <1>1 DEF Init
  <2> QED BY <2>1, <1>1, <1>3, <1>5, <1>6, <1>7 DEF RecordsOK
<1>10. OthersOK
  <2>1. /\ pname = SeedPackages /\ aliases = <<[package |-> 1, name |-> ClAlias]>>
        /\ use_count = 1 /\ name_count = SeedBytes /\ current = Len(SeedPackages) /\ error = 0
    BY DEF Init
  <2>2. [package |-> 1, name |-> ClAlias] \in Alias
    BY <1>1, Capacities DEF Alias
  <2>3. /\ aliases \in Seq(Alias) /\ Len(aliases) = 1
        /\ \A i \in 1..Len(aliases) : aliases[i].package = 1
    BY <2>1, <2>2
  <2>4. \A p \in PackageIds : \A q \in uses[p] : p <= Len(pname) /\ q <= Len(pname)
    BY <1>1, <1>8, <2>1
  <2> QED BY <1>1, <1>3, <1>8, <2>1, <2>3, <2>4, Capacities DEF OthersOK
<1>11. IndexAgrees
  <2> SUFFICES ASSUME NEW p \in PackageIds
      PROVE  /\ \A e, f \in present[p] : NameOf(e) = NameOf(f) => e = f
             /\ \A h \in Buckets : bucket[p][h] = {e \in present[p] : Hash[NameOf(e)] = h}
    BY DEF IndexAgrees
  <2>1. CASE p = 1
    <3>1. present[p] = 1..Len(SeedNames)
      BY <2>1, <1>6
    <3>2. \A e, f \in present[p] : NameOf(e) = NameOf(f) => e = f
      BY <3>1, <1>1, <1>5
    <3>3. \A h \in Buckets : bucket[p][h] = {e \in present[p] : Hash[NameOf(e)] = h}
      <4>1. \A e \in present[p] : NameOf(e) = SeedNames[e]
        BY <3>1, <1>5
      <4>2. \A h \in Buckets : bucket[p][h] = {i \in present[p] : Hash[SeedNames[i]] = h}
        <5> SUFFICES ASSUME NEW h \in Buckets
                     PROVE  bucket[p][h] = {i \in present[p] : Hash[SeedNames[i]] = h}
          OBVIOUS
        <5>1. bucket[p][h] = {i \in 1..Len(SeedNames) : Hash[SeedNames[i]] = h}
          BY <2>1, <1>7
        <5> QED BY <5>1, <3>1
      <4> QED BY <4>1, <4>2
    <3> QED BY <3>2, <3>3
  <2>2. CASE p # 1
    BY <2>2, <1>6, <1>7
  <2> QED BY <2>1, <2>2
<1>12. Exclusive
  BY <1>6 DEF Exclusive
<1>13. HomeHolds
  BY <1>1, <1>3, <1>5, <1>6, Capacities DEF HomeHolds
<1>14. Coherent
  <2> SUFFICES ASSUME NEW p \in PackageIds, NEW q \in Used(p), NEW e \in External(q)
      PROVE  Inherits(p, e)
    BY Zenon DEF Coherent, CoherentIn, Inherits
  <2>1. p = Len(SeedPackages) /\ \A r \in Used(p) : r = 1
    BY <1>8 DEF Used
  <2>2. present[p] = {}
    BY <1>1, <1>6, <2>1
  <2>3. \A g \in External(1) : g \in 1..Len(SeedNames)
    BY <1>1, <1>6, Capacities DEF External
  <2>4. \A g \in External(1) : NameOf(g) = NameOf(e) => g = e
    BY <1>1, <1>5, <2>1, <2>3
  <2> QED BY <2>1, <2>2, <2>4 DEF Inherits, Agrees
<1> QED BY <1>9, <1>10, <1>11, <1>12, <1>13, <1>14, TypeParts DEF Inv

\* Every operation preserves it.
LEMMA NextOK == Inv /\ [Next]_vars => Inv'
<1> SUFFICES ASSUME Inv, [Next]_vars PROVE Inv'
  OBVIOUS
<1>1. ASSUME NEW c \in {0, 8}, error' = c, UNCHANGED tables
      PROVE  Inv'
  BY <1>1, FailStep
<1>2. CASE Reading
  BY Zenon, <1>1, <1>2, ReadStep, MakePackageStep, SelectStep, AddAliasStep
     DEF Reading, ReadMalformed, Fail
<1>3. CASE Defining
  BY Zenon, <1>3, InternStep, ShadowStep, UseStep, ImportStep, ExportStep,
     ShadowingImportStep DEF Defining
<1>4. CASE Withdrawing
  BY Zenon, <1>1, <1>4, UnuseStep, UninternStep, UnexportStep DEF Withdrawing, ClearError
<1>5. CASE UNCHANGED vars
  <2>1. error' = error /\ UNCHANGED tables
    BY <1>5 DEF vars, tables
  <2>2. error \in {0, 1, 2, 3, 4, 6, 8, 9, 10}
    BY DEF Inv, TypeOK
  <2> QED BY <2>1, <2>2, FailStep
<1> QED BY Zenon, <1>2, <1>3, <1>4, <1>5 DEF Next

\* The tables of bootstrap/frontend/environment satisfy the whole invariant
\* whatever operations are called.
THEOREM Invariance == Spec => []Inv
BY InitOK, NextOK, PTL DEF Spec

\* bootstrap/frontend/environment: counts never pass the capacities supplied, and
\* no stored reference is that of an unused record.
THEOREM TypeCorrect == Spec => []TypeOK
<1>1. Inv => TypeOK
  BY DEF Inv
<1> QED BY <1>1, Invariance, PTL

\* The hash chains and the presence lists agree, so both find the same record.
THEOREM IndexCorrect == Spec => []IndexAgrees
<1>1. Inv => IndexAgrees
  BY DEF Inv
<1> QED BY <1>1, Invariance, PTL

\* A symbol is present in its home package.
THEOREM HomesHold == Spec => []HomeHolds
<1>1. Inv => HomeHolds
  BY DEF Inv
<1> QED BY <1>1, Invariance, PTL

\* Leaving KEYWORD aside no name is ever ambiguous: what a package inherits agrees
\* with its present symbol unless that shadows, and with what else it inherits.
THEOREM NamesCoherent == Spec => []Coherent
<1>1. Inv => Coherent
  BY DEF Inv
<1> QED BY <1>1, Invariance, PTL

-----------------------------------------------------------------------------
(* A step that only adds changes no meaning.                               *)

\* What native_ct_find_symbol answers, in terms of the records.
Means(p, n, s) ==
    \/ \E e \in present[p] : NameOf(e) = n /\ entries[e].symbol = s
    \/ /\ \A e \in present[p] : NameOf(e) # n
       /\ \E q \in uses[p] : \E e \in External(q) : NameOf(e) = n /\ entries[e].symbol = s

LEMMA VisibleMeans ==
    ASSUME NEW p \in PackageIds, NEW n \in SymbolNames
    PROVE  TypeOK /\ IndexAgrees => \A s : s \in Visible(p, n) <=> Means(p, n, s)
<1> SUFFICES ASSUME TypeOK, IndexAgrees, NEW s
    PROVE  s \in Visible(p, n) <=> Means(p, n, s)
  OBVIOUS
<1> DEFINE f == FindPresent(p, n, FALSE)
<1>1. /\ f # 0 => f \in present[p] /\ NameOf(f) = n
      /\ f = 0 => \A e \in present[p] : NameOf(e) # n
      /\ \A e \in present[p] : NameOf(e) = n => f = e
  BY Found
<1>2. Visible(p, n) = IF f # 0 THEN {entries[f].symbol} ELSE Inherited(p, n)
  BY DEF Visible
<1>4. s \in Inherited(p, n) <=>
        \E q \in uses[p] : \E e \in External(q) : NameOf(e) = n /\ entries[e].symbol = s
  BY InheritedSymbols
<1> HIDE DEF f
<1>3. 0 \notin present[p]
  BY EntryFacts
<1> QED BY <1>1, <1>2, <1>3, <1>4 DEF Means

\* The same after a step.
LEMMA VisibleMeansPrimed ==
    ASSUME NEW p \in PackageIds, NEW n \in SymbolNames
    PROVE  TypeOK' /\ IndexAgrees' => \A s : s \in Visible(p, n)' <=> Means(p, n, s)'
<1> DEFINE Q == \A s : s \in Visible(p, n) <=> Means(p, n, s)
<1>1. TypeOK /\ IndexAgrees => Q
  BY VisibleMeans
<1> HIDE DEF Q
<1>2. TypeOK' /\ IndexAgrees' => Q'
  BY <1>1, PTL
<1> QED BY <1>2 DEF Q

\* Symbols keep their names, no record returns to a list, and package u uses no
\* other packages than before unless it looked at what it comes to inherit.
Orderly(u) ==
    /\ Len(symbols) <= Len(symbols')
    /\ \A t \in 1..Len(symbols) : symbols'[t].name = symbols[t].name
    /\ \A q \in PackageIds : \A f \in present'[q] : f \in present[q] \/ f = Len(entries) + 1
    /\ \/ uses'[u] \subseteq uses[u]
       \/ \E q \in PackageIds :
             /\ UseExportsValid(u, q) /\ uses'[u] = uses[u] \cup {q}
             /\ UNCHANGED <<present, entries, symbols>>

\* The shapes of a step that is orderly.
LEMMA OrderlyShapes ==
    ASSUME TypeOK, NEW u \in PackageIds
    PROVE  /\ UNCHANGED <<symbols, present, uses>> => Orderly(u)
           /\ \A home, n : symbols' = Append(symbols, [home |-> home, name |-> n])
                 /\ UNCHANGED <<present, uses>> => Orderly(u)
           /\ \A p, s, n, x, h : HomeChange /\ AddPresence(p, s, n, x, h) /\ uses' = uses
                 => Orderly(u)
           /\ \A p, n, h : NewSymbol(p, n, h) /\ uses' = uses => Orderly(u)
           /\ HomeChange /\ uses' = uses /\ (\A q \in PackageIds : present'[q] \subseteq present[q])
                 => Orderly(u)
           /\ symbols' = symbols /\ (\A q \in PackageIds : present'[q] \subseteq present[q])
                /\ uses'[u] \subseteq uses[u] => Orderly(u)
<1>1. symbols \in Seq(Symbol) /\ Len(symbols) \in Nat
  BY DEF TypeOK
<1>2. present \in [PackageIds -> SUBSET EntryIds]
  BY DEF TypeOK
<1>3. symbols' = symbols => /\ Len(symbols) <= Len(symbols')
                            /\ \A t \in 1..Len(symbols) : symbols'[t].name = symbols[t].name
  BY <1>1
<1>4. ASSUME NEW home, NEW n, symbols' = Append(symbols, [home |-> home, name |-> n])
      PROVE  /\ Len(symbols) <= Len(symbols')
             /\ \A t \in 1..Len(symbols) : symbols'[t].name = symbols[t].name
  BY <1>1, <1>4
<1>5. HomeChange => /\ Len(symbols) <= Len(symbols')
                    /\ \A t \in 1..Len(symbols) : symbols'[t].name = symbols[t].name
  BY <1>1 DEF HomeChange
<1>6. ASSUME NEW p, NEW s, NEW n, NEW x, NEW h, AddPresence(p, s, n, x, h)
      PROVE  \A q \in PackageIds : \A f \in present'[q] : f \in present[q] \/ f = Len(entries) + 1
  <2>1. present' = [present EXCEPT ![p] = @ \cup {Len(entries) + 1}]
    BY <1>6 DEF AddPresence
  <2> QED BY <1>2, <2>1
<1>7. ASSUME NEW p, NEW n, NEW h, NewSymbol(p, n, h), uses' = uses
      PROVE  Orderly(u)
  <2>1. /\ symbols' = Append(symbols, [home |-> p, name |-> n])
        /\ AddPresence(p, Len(symbols) + 1, n, p = Keyword, h)
    BY <1>7 DEF NewSymbol
  <2>2. \A q \in PackageIds : \A f \in present'[q] : f \in present[q] \/ f = Len(entries) + 1
    BY Zenon, <1>6, <2>1
  <2> QED BY <1>4, <1>7, <2>1, <2>2 DEF Orderly
<1>8. ASSUME NEW p, NEW s, NEW n, NEW x, NEW h, HomeChange, AddPresence(p, s, n, x, h),
             uses' = uses
      PROVE  Orderly(u)
  BY Zenon, <1>5, <1>6, <1>8 DEF Orderly
<1>9. UNCHANGED <<symbols, present, uses>> => Orderly(u)
  BY <1>3 DEF Orderly
<1>10. ASSUME NEW home, NEW n, symbols' = Append(symbols, [home |-> home, name |-> n]),
              UNCHANGED <<present, uses>>
       PROVE  Orderly(u)
  BY <1>4, <1>10 DEF Orderly
<1>11. HomeChange /\ uses' = uses /\ (\A q \in PackageIds : present'[q] \subseteq present[q])
         => Orderly(u)
  BY <1>5 DEF Orderly
<1>12. symbols' = symbols /\ (\A q \in PackageIds : present'[q] \subseteq present[q])
          /\ uses'[u] \subseteq uses[u] => Orderly(u)
  BY <1>3 DEF Orderly
<1> QED BY Zenon, <1>7, <1>8, <1>9, <1>10, <1>11, <1>12

\* Detaching a symbol keeps the names.
LEMMA DetachedNames ==
    ASSUME TypeOK, NEW p, NEW t, DetachHome(p, t)
    PROVE  HomeChange
<1>1. symbols \in Seq(Symbol) /\ Len(symbols) \in Nat
  BY DEF TypeOK
<1>2. CASE symbols' = symbols
  BY <1>1, <1>2 DEF HomeChange
<1>3. CASE symbols' = [symbols EXCEPT ![t].home = 0]
  <2>1. Len(symbols') = Len(symbols)
    BY <1>1, <1>3
  <2>2. ASSUME NEW i \in 1..Len(symbols) PROVE symbols'[i].name = symbols[i].name
    <3>1. symbols[i] \in Symbol
      BY <1>1
    <3>2. symbols'[i] = IF i = t THEN [symbols[i] EXCEPT !.home = 0] ELSE symbols[i]
      BY <1>1, <1>3
    <3> QED BY <3>1, <3>2 DEF Symbol
  <2>3. ASSUME NEW i \in 1..Len(symbols) PROVE symbols'[i] \in Symbol
    <3>1. symbols[i] \in Symbol /\ 0 \in 0..PackageCapacity
      BY <1>1, Capacities
    <3>2. symbols'[i] = IF i = t THEN [symbols[i] EXCEPT !.home = 0] ELSE symbols[i]
      BY <1>1, <1>3
    <3> QED BY <3>1, <3>2 DEF Symbol
  <2>4. symbols' \in Seq(Symbol)
    <3>1. CASE t \in 1..Len(symbols)
      <4>1. [symbols[t] EXCEPT !.home = 0] \in Symbol
        BY <1>1, <1>3, <2>3, <3>1
      <4>2. symbols' = [symbols EXCEPT ![t] = [symbols[t] EXCEPT !.home = 0]]
        BY <1>3
      <4> QED BY <1>1, <3>1, <4>1, <4>2
    <3>2. CASE t \notin 1..Len(symbols)
      <4>1. symbols' = symbols
        BY <1>1, <1>3, <3>2
      <4> QED BY <1>1, <4>1
    <3> QED BY <3>1, <3>2
  <2> QED BY <2>1, <2>2, <2>4 DEF HomeChange
<1> QED BY <1>2, <1>3 DEF DetachHome

\* Every step is.
LEMMA StepIsOrderly ==
    ASSUME Inv, [Next]_vars, NEW u \in PackageIds
    PROVE  Orderly(u)
<1>0. TypeOK
  BY DEF Inv
<1>c. symbols' = symbols => HomeChange
  BY Unchanged
<1>f. ASSUME NEW c, Fail(c) PROVE Orderly(u)
  BY Zenon, <1>0, <1>f, OrderlyShapes DEF Fail, tables
<1>e. ASSUME NEW e, NEW record, SetEntry(e, record), KeepNames, HomeChange PROVE Orderly(u)
  <2>1. present' = present /\ uses' = uses
    BY <1>e DEF SetEntry, KeepNames
  <2> QED BY <1>0, <1>e, <2>1, OrderlyShapes
<1>1. ASSUME NEW p, NEW n, InternNameSpan(p, n) PROVE Orderly(u)
  <2>1. ASSUME NewSymbol(p, n, FALSE), UNCHANGED <<pname, uses, aliases, use_count, current>>
        PROVE  Orderly(u)
    BY Zenon, <1>0, <2>1, OrderlyShapes
  <2> QED BY Zenon, <1>1, <1>f, <2>1 DEF InternNameSpan
<1>2. ASSUME NEW p, NEW n, Intern(p, n) PROVE Orderly(u)
  BY Zenon, <1>1, <1>2, <1>f DEF Intern, InternNameSpan
<1>3. ASSUME NEW t, ReadSymbol(t) PROVE Orderly(u)
  <2>1. ASSUME UninternedSpan(t.name) PROVE Orderly(u)
    BY Zenon, <1>0, <1>f, <2>1, OrderlyShapes DEF UninternedSpan, KeepRecords
  <2> QED BY Zenon, <1>1, <1>3, <1>f, <2>1 DEF ReadSymbol, ReadQualified
<1>4. CASE Reading
  <2>1. ASSUME NEW n, MakePackage(n) PROVE Orderly(u)
    <3>1. ASSUME present' = [present EXCEPT ![Len(pname) + 1] = {}],
                 uses' = [uses EXCEPT ![Len(pname) + 1] = {}], symbols' = symbols
          PROVE  Orderly(u)
      <4>1. /\ \A q \in PackageIds : present'[q] \subseteq present[q]
            /\ uses'[u] \subseteq uses[u]
        BY <1>0, <3>1 DEF TypeOK
      <4> QED BY <1>0, <3>1, <4>1, OrderlyShapes
    <3> QED BY Zenon, <1>f, <2>1, <3>1 DEF MakePackage
  <2>2. ASSUME NEW n, SelectPackage(n) PROVE Orderly(u)
    BY Zenon, <1>0, <2>2, OrderlyShapes DEF SelectPackage
  <2>3. ASSUME NEW p, NEW n, AddAlias(p, n) PROVE Orderly(u)
    BY Zenon, <1>0, <1>f, <2>3, OrderlyShapes DEF AddAlias, KeepRecords
  <2> QED BY Zenon, <1>3, <1>4, <1>f, <2>1, <2>2, <2>3 DEF Reading, ReadMalformed
<1>5. ASSUME NEW p, NEW n, ShadowName(p, n) PROVE Orderly(u)
  <2>1. ASSUME NewSymbol(p, n, TRUE), UNCHANGED <<pname, uses, aliases, use_count, current>>
        PROVE  Orderly(u)
    BY Zenon, <1>0, <2>1, OrderlyShapes
  <2> QED BY Zenon, <1>5, <1>c, <1>e, <1>f, <2>1 DEF ShadowName
<1>6. ASSUME NEW p, NEW q \in PackageIds, UsePackage(p, q) PROVE Orderly(u)
  <2>1. ASSUME UseExportsValid(p, q), uses' = [uses EXCEPT ![p] = @ \cup {q}], KeepRecords,
               symbols' = symbols
        PROVE  Orderly(u)
    <3>1. CASE u = p
      <4>1. uses'[u] = uses[u] \cup {q}
        BY <1>0, <2>1, <3>1 DEF TypeOK
      <4>2. UNCHANGED <<present, entries, symbols>>
        BY <2>1 DEF KeepRecords
      <4>3. symbols \in Seq(Symbol)
        BY <1>0 DEF TypeOK
      <4> QED BY <2>1, <3>1, <4>1, <4>2, <4>3 DEF Orderly
    <3>2. CASE u # p
      <4>1. uses'[u] = uses[u] /\ present' = present
        BY <1>0, <2>1, <3>2 DEF TypeOK, KeepRecords
      <4> QED BY <1>0, <2>1, <4>1, OrderlyShapes
    <3> QED BY <3>1, <3>2
  <2> QED BY Zenon, <1>6, <1>f, <2>1 DEF UsePackage
<1>7. ASSUME NEW p, NEW s, ImportSymbol(p, s) PROVE Orderly(u)
  <2>1. ASSUME ValidPair(p, s), KeepNames,
               symbols' = IF symbols[s].home = 0 THEN [symbols EXCEPT ![s].home = p]
                          ELSE symbols,
               KeepRecords \/ AddPresence(p, s, symbols[s].name, FALSE, FALSE)
        PROVE  Orderly(u)
    <3>1. p \in PackageIds /\ s \in 1..Len(symbols)
      BY <1>0, <2>1, Valid DEF ValidPair
    <3>2. HomeChange
      BY <2>1, <3>1, HomeGiven
    <3>3. uses' = uses
      BY <2>1 DEF KeepNames
    <3>4. CASE KeepRecords
      <4>1. present' = present
        BY <3>4 DEF KeepRecords
      <4> QED BY <1>0, <3>2, <3>3, <4>1, OrderlyShapes
    <3> QED BY Zenon, <1>0, <2>1, <3>2, <3>3, <3>4, OrderlyShapes
  <2> QED BY Zenon, <1>7, <1>f, <2>1 DEF ImportSymbol, ImportCommit
<1>8. ASSUME NEW p, NEW s, ExportSymbol(p, s) PROVE Orderly(u)
  <2>1. ASSUME AddPresence(p, s, symbols[s].name, TRUE, FALSE), KeepNames, symbols' = symbols
        PROVE  Orderly(u)
    BY Zenon, <1>0, <1>c, <2>1, OrderlyShapes DEF KeepNames
  <2> QED BY Zenon, <1>8, <1>c, <1>e, <1>f, <2>1 DEF ExportSymbol, MarkExternal
<1>9. ASSUME NEW p, NEW s, ShadowingImport(p, s) PROVE Orderly(u)
  <2>1. ASSUME AddPresence(p, s, symbols[s].name, FALSE, TRUE), KeepNames, symbols' = symbols
        PROVE  Orderly(u)
    BY Zenon, <1>0, <1>c, <2>1, OrderlyShapes DEF KeepNames
  <2>2. ASSUME NEW t, DetachHome(p, t) PROVE HomeChange
    BY <1>0, <2>2, DetachedNames
  <2> QED BY Zenon, <1>9, <1>c, <1>e, <1>f, <2>1, <2>2 DEF ShadowingImport
<1>10. CASE Defining
  BY Zenon, <1>2, <1>5, <1>6, <1>7, <1>8, <1>9, <1>10 DEF Defining
<1>11. CASE Withdrawing
  <2>1. ASSUME NEW p, NEW s, UninternSymbol(p, s) PROVE Orderly(u)
    <3>1. ASSUME NEW e, present' = [present EXCEPT ![p] = @ \ {e}], DetachHome(p, s), KeepNames
          PROVE  Orderly(u)
      <4>1. HomeChange
        BY <1>0, <3>1, DetachedNames
      <4>2. uses' = uses /\ \A q \in PackageIds : present'[q] \subseteq present[q]
        BY <1>0, <3>1 DEF TypeOK, KeepNames
      <4> QED BY <1>0, <4>1, <4>2, OrderlyShapes
    <3> QED BY Zenon, <1>f, <2>1, <3>1 DEF UninternSymbol, UnlinkPresence
  <2>2. ASSUME NEW p, NEW q, UnusePackage(p, q) PROVE Orderly(u)
    <3>1. ASSUME uses' = [uses EXCEPT ![p] = @ \ {q}], KeepRecords, symbols' = symbols
          PROVE  Orderly(u)
      <4>1. uses'[u] \subseteq uses[u] /\ present' = present
        BY <1>0, <3>1 DEF TypeOK, KeepRecords
      <4> QED BY <1>0, <3>1, <4>1, OrderlyShapes
    <3> QED BY Zenon, <1>f, <2>2, <3>1 DEF UnusePackage
  <2>3. ASSUME NEW p, NEW s, UnexportSymbol(p, s) PROVE Orderly(u)
    BY Zenon, <1>c, <1>e, <1>f, <2>3 DEF UnexportSymbol
  <2>4. ASSUME ClearError PROVE Orderly(u)
    BY Zenon, <1>0, <2>4, OrderlyShapes DEF ClearError, tables
  <2> QED BY Zenon, <1>11, <2>1, <2>2, <2>3, <2>4 DEF Withdrawing
<1>12. CASE UNCHANGED vars
  BY <1>0, <1>12, OrderlyShapes DEF vars
<1> QED BY Zenon, <1>4, <1>10, <1>11, <1>12 DEF Next

\* A package that comes to use another one keeps what its names mean.
LEMMA UseIsStable ==
    ASSUME TypeOK, IndexAgrees, TypeOK', IndexAgrees',
           NEW u \in PackageIds, NEW m \in SymbolNames, NEW q \in PackageIds,
           UseExportsValid(u, q), uses'[u] = uses[u] \cup {q},
           UNCHANGED <<present, entries, symbols>>, Visible(u, m) # {}
    PROVE  Visible(u, m)' = Visible(u, m)
<1>1. \A t : t \in Visible(u, m) <=> Means(u, m, t)
  BY VisibleMeans
<1>2. \A t : t \in Visible(u, m)' <=> Means(u, m, t)'
  BY VisibleMeansPrimed
<1>3. PICK v : Means(u, m, v)
  BY <1>1
<1>4. ASSUME NEW e \in External(q), NameOf(e) = m
      PROVE  Sees(u, m, entries[e].symbol)
  <2>1. e \in present[q] /\ CandidateVisible(u, entries[e].symbol)
    BY <1>4 DEF External, UseExportsValid
  <2>2. entries[e].symbol \in 1..Len(symbols)
    BY <2>1, EntryFacts
  <2> QED BY <1>4, <2>1, <2>2, CandidateSees DEF NameOf
<1>5. ASSUME NEW t PROVE Means(u, m, t)' <=> Means(u, m, t)
  <2>1. /\ \A e : NameOf(e)' = NameOf(e)
        /\ \A r : External(r)' = External(r)
    BY DEF NameOf, External
  <2>2. Means(u, m, t) => Means(u, m, t)'
    BY <2>1 DEF Means
  <2>3. ASSUME Means(u, m, t)' PROVE Means(u, m, t)
    <3>1. CASE \E e \in present[u] : NameOf(e) = m
      BY <2>1, <2>3, <3>1 DEF Means
    <3>2. CASE \A e \in present[u] : NameOf(e) # m
      <4>1. PICK r \in uses[u] \cup {q} : \E e \in External(r) :
                NameOf(e) = m /\ entries[e].symbol = t
        BY <2>1, <2>3, <3>2 DEF Means
      <4>2. PICK e \in External(r) : NameOf(e) = m /\ entries[e].symbol = t
        BY <4>1
      <4>3. CASE r \in uses[u]
        BY <3>2, <4>2, <4>3 DEF Means
      <4>4. CASE r = q
        <5>1. Sees(u, m, t)
          BY <1>4, <4>2, <4>4
        <5>2. v = t
          BY <1>3, <3>2, <5>1 DEF Means, Sees
        <5> QED BY <1>3, <5>2
      <4> QED BY <4>1, <4>3, <4>4
    <3> QED BY <3>1, <3>2
  <2> QED BY <2>2, <2>3
<1> QED BY <1>1, <1>2, <1>5

\* No step that only adds changes a meaning: the record that gave it is still
\* there, and what joins it agrees with it because names are coherent afterwards.
LEMMA StepIsStable ==
    ASSUME Inv, Inv', [Next]_vars, OnlyAdds,
           NEW u \in PackageIds, NEW m \in SymbolNames, Keyword \notin uses[u],
           Visible(u, m) # {}
    PROVE  Visible(u, m)' = Visible(u, m)
<1>0. /\ TypeOK /\ IndexAgrees /\ CoherentIn(u)
      /\ TypeOK' /\ IndexAgrees' /\ CoherentIn(u)'
  BY DEF Inv, Coherent
<1>1. \A t : t \in Visible(u, m) <=> Means(u, m, t)
  BY <1>0, VisibleMeans
<1>2. \A t : t \in Visible(u, m)' <=> Means(u, m, t)'
  BY <1>0, VisibleMeansPrimed
<1>3. PICK v : Means(u, m, v)
  BY <1>1
<1>4. Orderly(u)
  BY StepIsOrderly
<1>5. ASSUME NEW q \in PackageIds, NEW e \in present[q]
      PROVE  /\ e \in present'[q] /\ entries'[e].symbol = entries[e].symbol
             /\ NameOf(e)' = NameOf(e)
             /\ entries[e].external => entries'[e].external
  <2>1. e \in 1..Len(entries) /\ entries[e].symbol \in 1..Len(symbols)
    BY <1>0, EntryFacts
  <2>2. /\ e \in present'[q] /\ entries'[e].symbol = entries[e].symbol
        /\ entries[e].external => entries'[e].external
    BY <2>1 DEF OnlyAdds
  <2> QED BY <1>4, <2>1, <2>2 DEF NameOf, Orderly
<1>6. /\ \A e, f \in present[u] : NameOf(e) = NameOf(f) => e = f
      /\ \A e, f \in present'[u] : NameOf(e)' = NameOf(f)' => e = f
  BY <1>0 DEF IndexAgrees
<1>7. CASE \E q \in PackageIds :
              /\ UseExportsValid(u, q) /\ uses'[u] = uses[u] \cup {q}
              /\ UNCHANGED <<present, entries, symbols>>
  BY <1>0, <1>7, UseIsStable
<1>8. CASE uses'[u] \subseteq uses[u]
  <2>1. uses'[u] = uses[u] /\ uses[u] \subseteq PackageIds
    BY <1>0, <1>8 DEF OnlyAdds, TypeOK
  <2>2. Used(u) = uses[u] /\ Used(u)' = uses[u]
    BY <2>1 DEF Used
  <2>3. CASE \E e \in present[u] : NameOf(e) = m
    <3>1. PICK e \in present[u] : NameOf(e) = m
      BY <2>3
    <3>2. ASSUME NEW t PROVE Means(u, m, t) <=> t = entries[e].symbol
      BY <1>6, <3>1 DEF Means
    <3>3. e \in present'[u] /\ NameOf(e)' = m /\ entries'[e].symbol = entries[e].symbol
      BY <1>5, <3>1
    <3>4. ASSUME NEW t PROVE Means(u, m, t)' <=> t = entries[e].symbol
      BY <1>6, <3>3 DEF Means
    <3> QED BY <1>1, <1>2, <3>2, <3>4
  <2>4. CASE \A e \in present[u] : NameOf(e) # m
    <3>0. PICK q \in uses[u] : \E e \in External(q) : NameOf(e) = m /\ entries[e].symbol = v
      BY <1>3, <2>4 DEF Means
    <3>1. PICK e \in External(q) : NameOf(e) = m /\ entries[e].symbol = v
      BY <3>0
    <3>2. q \in PackageIds /\ e \in present[q] /\ entries[e].external
      BY <2>1, <3>1 DEF External
    <3>3. e \in External(q)' /\ NameOf(e)' = m /\ entries'[e].symbol = v
      BY <1>5, <3>1, <3>2 DEF External
    <3>4. ASSUME NEW t PROVE Means(u, m, t) <=> t = v
      <4>1. ASSUME Means(u, m, t) PROVE t = v
        <5>0. PICK r \in uses[u] : \E g \in External(r) : NameOf(g) = m /\ entries[g].symbol = t
          BY <2>4, <4>1 DEF Means
        <5>1. PICK g \in External(r) : NameOf(g) = m /\ entries[g].symbol = t
          BY <5>0
        <5> QED BY <1>0, <2>2, <2>4, <3>1, <5>1 DEF CoherentIn
      <4> QED BY <1>3, <4>1
    <3>5. ASSUME NEW t PROVE Means(u, m, t)' <=> t = v
      <4>1. CASE \A f \in present'[u] : NameOf(f)' # m
        <5>1. Means(u, m, v)'
          BY <2>1, <3>1, <3>3, <4>1 DEF Means
        <5>2. ASSUME Means(u, m, t)' PROVE t = v
          <6>0. PICK r \in uses[u] : \E g \in External(r)' :
                    NameOf(g)' = m /\ entries'[g].symbol = t
            BY <2>1, <4>1, <5>2 DEF Means
          <6>1. PICK g \in External(r)' : NameOf(g)' = m /\ entries'[g].symbol = t
            BY <6>0
          <6> QED BY <1>0, <2>2, <3>1, <3>3, <4>1, <6>1 DEF CoherentIn
        <5> QED BY <5>1, <5>2
      <4>2. ASSUME NEW f \in present'[u], NameOf(f)' = m
            PROVE  Means(u, m, t)' <=> t = v
        <5>1. f \notin present[u]
          BY <1>5, <2>4, <4>2
        <5>2. f = Len(entries) + 1
          BY <1>4, <4>2, <5>1 DEF Orderly
        <5>3. f <= Len(entries') /\ Len(entries) \in Nat /\ Len(entries') \in Nat
          <6>1. entries \in Seq(Presence) /\ entries' \in Seq(Presence')
            BY <1>0 DEF TypeOK
          <6>2. \A q2 \in PackageIds : \A g \in present'[q2] : g <= Len(entries')
            BY <1>0 DEF TypeOK
          <6> QED BY <4>2, <6>1, <6>2
        <5>4. ~ entries'[f].shadowing
          <6>1. f \in (Len(entries) + 1)..Len(entries')
            BY <5>2, <5>3
          <6> QED BY <6>1 DEF OnlyAdds
        <5>5. entries'[f].symbol = v
          <6>1. Agrees(u, e)'
            BY <1>0, <2>2, <3>1, <3>3 DEF CoherentIn
          <6> QED BY <3>3, <4>2, <5>4, <6>1 DEF Agrees
        <5> QED BY <1>6, <4>2, <5>5 DEF Means
      <4> QED BY <4>1, <4>2
    <3> QED BY <1>1, <1>2, <3>4, <3>5
  <2> QED BY <2>3, <2>4
<1> QED BY <1>4, <1>7, <1>8 DEF Orderly

\* What a name means in a package that does not use KEYWORD changes only when
\* something is withdrawn or a shadowing record is made, whatever the tables and the
\* packages: interning, reading, importing, exporting and using never do it.
THEOREM AddingStable == Spec => AddingIsStable
<1> DEFINE A == OnlyAdds =>
                  \A p \in 1..Len(pname), n \in SymbolNames :
                      Keyword \notin uses[p] /\ Visible(p, n) # {}
                         => Visible(p, n)' = Visible(p, n)
<1>1. Inv /\ Inv' /\ [Next]_vars => A
  <2> SUFFICES ASSUME Inv, Inv', [Next]_vars, OnlyAdds, NEW p \in 1..Len(pname),
                      NEW n \in SymbolNames, Keyword \notin uses[p], Visible(p, n) # {}
      PROVE  Visible(p, n)' = Visible(p, n)
    OBVIOUS
  <2>1. p \in PackageIds
    BY Valid DEF Inv, ValidPackage
  <2> QED BY <2>1, StepIsStable
<1> HIDE DEF A
<1>2. Inv /\ Inv' /\ [Next]_vars => [A]_vars
  BY <1>1
<1>3. Spec => [][A]_vars
  BY <1>2, Invariance, PTL DEF Spec
<1> QED BY <1>3 DEF A, AddingIsStable

=============================================================================
