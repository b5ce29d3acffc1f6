---------------------------- MODULE Environment ----------------------------
(***************************************************************************)
(* bootstrap/frontend/environment: the packages and symbols of a           *)
(* compilation, in tables of fixed capacity that the caller supplies.      *)
(* Packages, symbols and presence records are one-based table indices; a   *)
(* presence record says that a symbol is present in a package.  The error  *)
(* latches: until the caller clears it every operation returns at once.    *)
(*                                                                         *)
(* A new record is linked in front of its list and of its hash chain and   *)
(* removal keeps the order, so both are ordered by decreasing index and    *)
(* are modelled as sets.  A call that changes nothing is a stuttering      *)
(* step.  The standard packages are cut down to SeedPackages and the       *)
(* catalogue to the external symbols SeedNames of CL.                      *)
(***************************************************************************)
EXTENDS Naturals, Sequences

CONSTANTS
    SymbolNames, PackageNames,
    Length,        \* bytes of a name
    SeedNames,     \* the names exported by CL
    SeedBytes,     \* the bytes of all names of the standard packages
    SeedPackages,  \* the first packages: CL, ..., SOURCE, which uses CL
    ClAlias,
    Keyword,       \* env.keyword_package, 0 when there is none
    BucketCount,   \* hash chains of a package; 0: search the list
    Hash,          \* native_ct_hash_name
    PackageCapacity, SymbolCapacity, PresentCapacity, UseCapacity,
    AliasCapacity, BucketCapacity, NameCapacity

CL == 1
SourcePackage == Len(SeedPackages)

PackageIds == 1..PackageCapacity
SymbolIds == 1..SymbolCapacity
EntryIds == 1..PresentCapacity
Buckets == 0..(BucketCount - 1)
Names == SymbolNames \cup PackageNames
SeedCount == Len(SeedNames)

ASSUME EnvironmentAssumption ==
    /\ Length \in [Names -> Nat]
    /\ SeedPackages \in Seq(PackageNames) /\ Len(SeedPackages) >= 2
    /\ ClAlias \in PackageNames
    /\ Keyword \in {0} \cup 2..(Len(SeedPackages) - 1)
    /\ SeedNames \in Seq(SymbolNames)
    /\ \A i, j \in 1..Len(SeedNames) : SeedNames[i] = SeedNames[j] => i = j
    /\ BucketCount \in Nat
    /\ BucketCount > 0 => Hash \in [SymbolNames -> Buckets]
    /\ PackageCapacity \in Nat /\ PackageCapacity >= Len(SeedPackages)
    /\ SymbolCapacity \in Nat /\ SymbolCapacity >= Len(SeedNames)
    /\ PresentCapacity \in Nat /\ PresentCapacity >= Len(SeedNames)
    /\ UseCapacity \in Nat \ {0} /\ AliasCapacity \in Nat \ {0}
    /\ BucketCapacity \in Nat /\ BucketCapacity >= Len(SeedPackages) * BucketCount
    /\ NameCapacity \in Nat /\ SeedBytes \in 0..NameCapacity

VARIABLES
    pname,       \* the names of the packages
    present,     \* the presence list of each package
    bucket,      \* the hash chains of each package
    uses,        \* the use list of each package
    symbols,     \* the home (0: none) and the name of each symbol
    entries,     \* presence records: symbol, external, shadowing
    aliases,     \* nicknames
    use_count, name_count,
    current,     \* env.current_package
    error

tables == <<pname, present, bucket, uses, symbols, entries, aliases,
            use_count, name_count, current>>
vars == <<pname, present, bucket, uses, symbols, entries, aliases,
          use_count, name_count, current, error>>

Symbol == [home : 0..PackageCapacity, name : SymbolNames]
Presence == [symbol : SymbolIds, external : BOOLEAN, shadowing : BOOLEAN]
Alias == [package : PackageIds, name : PackageNames]

\* native_ct_seed_standard on empty tables.
Init ==
    /\ pname = SeedPackages
    /\ symbols = [i \in 1..SeedCount |-> [home |-> CL, name |-> SeedNames[i]]]
    /\ entries = [i \in 1..SeedCount |->
                    [symbol |-> i, external |-> TRUE, shadowing |-> FALSE]]
    /\ present = [p \in PackageIds |-> IF p = CL THEN 1..SeedCount ELSE {}]
    /\ bucket = [p \in PackageIds |-> [h \in Buckets |->
                   IF p = CL THEN {i \in 1..SeedCount : Hash[SeedNames[i]] = h} ELSE {}]]
    /\ uses = [p \in PackageIds |-> IF p = SourcePackage THEN {CL} ELSE {}]
    /\ aliases = <<[package |-> CL, name |-> ClAlias]>>
    /\ use_count = 1
    /\ name_count = SeedBytes
    /\ current = SourcePackage
    /\ error = 0

-----------------------------------------------------------------------------
(* Lookups.                                                                *)

ValidPackage(p) == p \in 1..Len(pname)
ValidSymbol(s) == s \in 1..Len(symbols)
NameOf(e) == symbols[entries[e].symbol].name

\* The record at the front of a list or of a chain.
First(S) == CHOOSE e \in S : \A f \in S : f <= e

\* native_ct_find_present; 0 when there is none.
Candidates(p, n, external) ==
    {e \in IF BucketCount = 0 THEN present[p] ELSE bucket[p][Hash[n]] :
        NameOf(e) = n /\ (external => entries[e].external)}
FindPresent(p, n, external) ==
    IF Candidates(p, n, external) = {} THEN 0 ELSE First(Candidates(p, n, external))

\* native_ct_find_used: the symbols met on the use list.  Two different ones are
\* error 3.
Inherited(p, n) ==
    {entries[FindPresent(q, n, TRUE)].symbol :
        q \in {q \in uses[p] : FindPresent(q, n, TRUE) # 0}}

\* native_ct_find_symbol; more than one element stands for error 3.
Visible(p, n) ==
    IF FindPresent(p, n, FALSE) # 0 THEN {entries[FindPresent(p, n, FALSE)].symbol}
    ELSE Inherited(p, n)
Conflict(S) == \E s, t \in S : s # t

\* native_ct_find_package: names first, then nicknames.
Named(n) == {p \in 1..Len(pname) : pname[p] = n}
FindPackage(n) ==
    LET nick == {i \in 1..Len(aliases) : aliases[i].name = n} IN
    IF Named(n) # {} THEN CHOOSE p \in Named(n) : \A q \in Named(n) : p <= q
    ELSE IF nick # {} THEN aliases[CHOOSE i \in nick : \A j \in nick : i <= j].package
    ELSE 0

PresentRoom == Len(entries) < PresentCapacity
SymbolRoom == Len(symbols) < SymbolCapacity /\ PresentRoom
\* Mutant: one byte too many.
MutantNamesRoom(k) == NameCapacity + 1 - name_count >= k
NamesRoom(k) == NameCapacity - name_count >= k

-----------------------------------------------------------------------------
(* Steps shared by the operations.                                         *)

\* native_ct_fail, and the tables as they were.
Fail(code) == error' = code /\ UNCHANGED tables
Done == error' = error

\* native_ct_index_presence: record e of a symbol named n joins its chain.
IndexPresence(p, n, e) ==
    bucket' = IF BucketCount = 0 THEN bucket
              ELSE [bucket EXCEPT ![p][Hash[n]] = @ \cup {e}]

\* native_ct_add_presence: record e for a symbol of name n.
AddPresence(p, s, n, external, shadowing) ==
    LET e == Len(entries) + 1 IN
    /\ entries' = Append(entries,
           [symbol |-> s, external |-> external, shadowing |-> shadowing])
    /\ present' = [present EXCEPT ![p] = @ \cup {e}]
    /\ IndexPresence(p, n, e)

\* native_ct_symbol_from_name, external in KEYWORD.
NewSymbol(p, n, shadowing) ==
    /\ symbols' = Append(symbols, [home |-> p, name |-> n])
    /\ name_count' = name_count + Length[n]
    /\ AddPresence(p, Len(symbols) + 1, n, p = Keyword, shadowing)

KeepNames == UNCHANGED <<pname, uses, aliases, use_count, name_count, current>>
KeepRecords == UNCHANGED <<present, bucket, entries>>
SetEntry(e, record) ==
    /\ entries' = [entries EXCEPT ![e] = record]
    /\ UNCHANGED <<present, bucket>>

-----------------------------------------------------------------------------
(* packages.lisp, aliases.lisp, symbols.lisp.                              *)

PackageRoom(n) ==
    /\ Len(pname) < PackageCapacity
    /\ (Len(pname) + 1) * BucketCount <= BucketCapacity
    /\ NamesRoom(Length[n])

\* native_ct_make_package with native_ct_clear_package_index.
MakePackage(n) ==
    /\ error = 0
    /\ \/ FindPackage(n) # 0 /\ Fail(2)
       \/ FindPackage(n) = 0 /\ ~ PackageRoom(n) /\ Fail(1)
       \/ /\ FindPackage(n) = 0 /\ PackageRoom(n)
          /\ pname' = Append(pname, n)
          /\ present' = [present EXCEPT ![Len(pname) + 1] = {}]
          /\ uses' = [uses EXCEPT ![Len(pname) + 1] = {}]
          /\ bucket' = [bucket EXCEPT ![Len(pname) + 1] = [h \in Buckets |-> {}]]
          /\ name_count' = name_count + Length[n]
          /\ Done /\ UNCHANGED <<symbols, entries, aliases, use_count, current>>

\* native_ct_add_alias.
AddAlias(p, n) ==
    /\ error = 0
    /\ \/ ~ ValidPackage(p) /\ Fail(4)
       \/ ValidPackage(p) /\ FindPackage(n) \notin {0, p} /\ Fail(2)
       \/ /\ ValidPackage(p) /\ FindPackage(n) = 0
          /\ Len(aliases) = AliasCapacity \/ ~ NamesRoom(Length[n])
          /\ Fail(1)
       \/ /\ ValidPackage(p) /\ FindPackage(n) = 0
          /\ Len(aliases) < AliasCapacity /\ NamesRoom(Length[n])
          /\ aliases' = Append(aliases, [package |-> p, name |-> n])
          /\ name_count' = name_count + Length[n]
          /\ Done /\ KeepRecords
          /\ UNCHANGED <<pname, uses, symbols, use_count, current>>

\* native_ct_intern: the name is copied when a symbol is made for it.
Intern(p, n) ==
    /\ error = 0
    /\ \/ ~ ValidPackage(p) /\ Fail(4)
       \/ ValidPackage(p) /\ Conflict(Visible(p, n)) /\ Fail(3)
       \/ /\ ValidPackage(p) /\ Visible(p, n) = {}
          /\ ~ (SymbolRoom /\ NamesRoom(Length[n]))
          /\ Fail(1)
       \/ /\ ValidPackage(p) /\ Visible(p, n) = {}
          /\ SymbolRoom /\ NamesRoom(Length[n])
          /\ NewSymbol(p, n, FALSE)
          /\ Done /\ UNCHANGED <<pname, uses, aliases, use_count, current>>

-----------------------------------------------------------------------------
(* read_names.lisp, read_symbols.lisp: one symbol token.  Its bytes are     *)
(* decoded behind the names in use; name_count goes back unless a symbol    *)
(* keeps them.                                                             *)

Tokens == [form : {"plain", "keyword", "uninterned"}, name : SymbolNames]
          \cup [form : {"external", "internal"}, package : PackageNames, name : SymbolNames]

Qualified(t) == t.form \in {"external", "internal"}
TokenBytes(t) ==
    Length[t.name] + IF Qualified(t) THEN Length[t.package] ELSE 0
TokenPackage(t) ==
    CASE t.form = "plain" -> current
      [] t.form = "keyword" -> Keyword
      [] OTHER -> FindPackage(t.package)

\* native_ct_intern_name_span.
InternNameSpan(p, n) ==
    \/ ~ ValidPackage(p) /\ Fail(4)
    \/ ValidPackage(p) /\ Conflict(Visible(p, n)) /\ Fail(3)
    \/ ValidPackage(p) /\ Visible(p, n) = {} /\ ~ SymbolRoom /\ Fail(1)
    \/ /\ ValidPackage(p) /\ Visible(p, n) = {} /\ SymbolRoom
       /\ NewSymbol(p, n, FALSE)
       /\ Done /\ UNCHANGED <<pname, uses, aliases, use_count, current>>

\* native_ct_uninterned_span.
UninternedSpan(n) ==
    \/ Len(symbols) = SymbolCapacity /\ Fail(1)
    \/ /\ Len(symbols) < SymbolCapacity
       /\ symbols' = Append(symbols, [home |-> 0, name |-> n])
       /\ name_count' = name_count + Length[n]
       /\ Done /\ KeepRecords
       /\ UNCHANGED <<pname, uses, aliases, use_count, current>>

\* native_ct_read_qualified: a single colon outside KEYWORD only finds.
ReadQualified(t, p) ==
    \/ p = 0 /\ Fail(6)
    \/ /\ p # 0 /\ p # Keyword /\ t.form = "external"
       /\ FindPresent(p, t.name, TRUE) = 0
       /\ Fail(9)
    \/ p # 0 /\ (p = Keyword \/ t.form = "internal") /\ InternNameSpan(p, t.name)

\* native_ct_read_symbol.
ReadSymbol(t) ==
    /\ error = 0
    /\ \/ ~ NamesRoom(TokenBytes(t)) /\ Fail(1)
       \/ /\ NamesRoom(TokenBytes(t))
          /\ \/ t.form = "uninterned" /\ UninternedSpan(t.name)
             \/ t.form \in {"plain", "keyword"} /\ InternNameSpan(TokenPackage(t), t.name)
             \/ Qualified(t) /\ ReadQualified(t, TokenPackage(t))

\* native_ct_read_symbol on a token that is no symbol.
ReadMalformed == error = 0 /\ Fail(8)

\* native_package_select, in-package; an unknown name is not an error of the
\* environment.
SelectPackage(n) ==
    /\ error = 0 /\ FindPackage(n) # 0
    /\ current' = FindPackage(n)
    /\ UNCHANGED <<pname, present, bucket, uses, symbols, entries, aliases,
                   use_count, name_count, error>>

-----------------------------------------------------------------------------
(* operations.lisp.                                                        *)

\* native_ct_package_symbol_valid_p.
ValidPair(p, s) == ValidPackage(p) /\ ValidSymbol(s)

\* native_ct_import_commit: a symbol without a home gets one once it is present.
ImportCommit(p, s) ==
    LET n == symbols[s].name
        found == FindPresent(p, n, FALSE) # 0
    IN \/ ~ found /\ ~ PresentRoom /\ Fail(1)
       \/ /\ \/ found /\ KeepRecords
             \/ ~ found /\ PresentRoom /\ AddPresence(p, s, n, FALSE, FALSE)
          /\ symbols' = IF symbols[s].home = 0 THEN [symbols EXCEPT ![s].home = p]
                        ELSE symbols
          /\ Done /\ KeepNames

\* native_ct_import_symbol.
ImportSymbol(p, s) ==
    /\ error = 0
    /\ \/ ~ ValidPair(p, s) /\ Fail(4)
       \/ ValidPair(p, s) /\ ~ Visible(p, symbols[s].name) \subseteq {s} /\ Fail(3)
       \/ ValidPair(p, s) /\ Visible(p, symbols[s].name) \subseteq {s} /\ ImportCommit(p, s)

\* Mutant: what the package inherits from others is not looked at.
MutantCandidate(p, s) ==
    LET e == FindPresent(p, symbols[s].name, FALSE)
    IN e # 0 => entries[e].shadowing \/ entries[e].symbol = s
\* native_ct_candidate_visible_p: package p can see symbol s by its name.
CandidateVisible(p, s) ==
    LET n == symbols[s].name
        e == FindPresent(p, n, FALSE)
    IN IF e # 0 THEN entries[e].shadowing \/ entries[e].symbol = s
       ELSE Inherited(p, n) \subseteq {s}

\* native_ct_validate_use_exports.
UseExportsValid(p, q) ==
    \A e \in present[q] : entries[e].external => CandidateVisible(p, entries[e].symbol)

\* native_ct_use_package with native_ct_link_use.
UsePackage(p, q) ==
    /\ error = 0
    /\ \/ ~ (ValidPackage(p) /\ ValidPackage(q)) /\ Fail(4)
       \/ /\ ValidPackage(p) /\ ValidPackage(q)
          /\ \/ p = Keyword /\ Fail(10)
             \/ /\ p # Keyword /\ q \notin uses[p]
                /\ \/ ~ UseExportsValid(p, q) /\ Fail(3)
                   \/ UseExportsValid(p, q) /\ use_count = UseCapacity /\ Fail(1)
                   \/ /\ UseExportsValid(p, q) /\ use_count < UseCapacity
                      /\ uses' = [uses EXCEPT ![p] = @ \cup {q}]
                      /\ use_count' = use_count + 1
                      /\ Done /\ KeepRecords
                      /\ UNCHANGED <<pname, symbols, aliases, name_count, current>>

\* Mutant: the last package is not looked at.
MutantExportUsers(p, s) ==
    \A u \in 1..(Len(pname) - 1) : p \in uses[u] => CandidateVisible(u, s)
\* native_ct_validate_export_users.
ExportUsersValid(p, s) ==
    \A u \in 1..Len(pname) : p \in uses[u] => CandidateVisible(u, s)

\* native_ct_mark_external.
MarkExternal(p, s) ==
    LET n == symbols[s].name
        e == FindPresent(p, n, FALSE)
    IN \/ e = 0 /\ ~ PresentRoom /\ Fail(1)
       \/ /\ \/ e = 0 /\ PresentRoom /\ AddPresence(p, s, n, TRUE, FALSE)
             \/ e # 0 /\ SetEntry(e, [entries[e] EXCEPT !.external = TRUE])
          /\ Done /\ KeepNames /\ UNCHANGED symbols

\* native_ct_export_symbol.
ExportSymbol(p, s) ==
    /\ error = 0
    /\ \/ ~ ValidPair(p, s) /\ Fail(4)
       \/ /\ ValidPair(p, s)
          /\ \/ Visible(p, symbols[s].name) # {s} /\ Fail(3)
             \/ /\ Visible(p, symbols[s].name) = {s}
                /\ \/ ~ ExportUsersValid(p, s) /\ Fail(3)
                   \/ ExportUsersValid(p, s) /\ MarkExternal(p, s)

\* native_ct_shadow_name with native_ct_mark_shadowing.
ShadowName(p, n) ==
    LET e == FindPresent(p, n, FALSE) IN
    /\ error = 0
    /\ \/ ~ ValidPackage(p) /\ Fail(4)
       \/ /\ ValidPackage(p) /\ e # 0
          /\ SetEntry(e, [entries[e] EXCEPT !.shadowing = TRUE])
          /\ Done /\ KeepNames /\ UNCHANGED symbols
       \/ /\ ValidPackage(p) /\ e = 0
          /\ \/ ~ (SymbolRoom /\ NamesRoom(Length[n])) /\ Fail(1)
             \/ /\ SymbolRoom /\ NamesRoom(Length[n])
                /\ NewSymbol(p, n, TRUE)
                /\ Done /\ UNCHANGED <<pname, uses, aliases, use_count, current>>

\* Mutant: the symbol keeps its home.
MutantDetachHome(p, s) == symbols' = symbols
\* native_ct_detach_home.
DetachHome(p, s) ==
    symbols' = IF symbols[s].home = p THEN [symbols EXCEPT ![s].home = 0] ELSE symbols

\* native_ct_shadowing_import: the record of another symbol of that name is taken
\* over.
ShadowingImport(p, s) ==
    /\ error = 0
    /\ \/ ~ ValidPair(p, s) /\ Fail(4)
       \/ /\ ValidPair(p, s)
          /\ LET n == symbols[s].name
                 e == FindPresent(p, n, FALSE)
             IN \/ e = 0 /\ ~ PresentRoom /\ Fail(1)
                \/ /\ e = 0 /\ PresentRoom
                   /\ AddPresence(p, s, n, FALSE, TRUE)
                   /\ Done /\ KeepNames /\ UNCHANGED symbols
                \/ /\ e # 0 /\ entries[e].symbol = s
                   /\ SetEntry(e, [entries[e] EXCEPT !.shadowing = TRUE])
                   /\ Done /\ KeepNames /\ UNCHANGED symbols
                \/ /\ e # 0 /\ entries[e].symbol # s
                   /\ DetachHome(p, entries[e].symbol)
                   /\ SetEntry(e, [symbol |-> s, external |-> FALSE, shadowing |-> TRUE])
                   /\ Done /\ KeepNames

\* Mutant: the record stays in its chain.
MutantUnlink(p, s) ==
    LET e == First({f \in present[p] : entries[f].symbol = s}) IN
    /\ present' = [present EXCEPT ![p] = @ \ {e}]
    /\ UNCHANGED <<bucket, entries>>
    /\ DetachHome(p, s)
\* native_ct_unlink_presence: the record of s leaves the list and its chain.
UnlinkPresence(p, s) ==
    LET e == First({f \in present[p] : entries[f].symbol = s}) IN
    /\ present' = [present EXCEPT ![p] = @ \ {e}]
    /\ bucket' = IF BucketCount = 0 THEN bucket
                 ELSE [bucket EXCEPT ![p][Hash[NameOf(e)]] = @ \ {e}]
    /\ UNCHANGED entries
    /\ DetachHome(p, s)

\* native_ct_unintern_symbol.
UninternSymbol(p, s) ==
    /\ error = 0
    /\ \/ ~ ValidPair(p, s) /\ Fail(4)
       \/ /\ ValidPair(p, s)
          /\ LET n == symbols[s].name
                 e == FindPresent(p, n, FALSE)
             IN /\ e # 0 /\ entries[e].symbol = s
                /\ \/ Conflict(Inherited(p, n)) /\ Fail(3)
                   \/ /\ ~ Conflict(Inherited(p, n))
                      /\ UnlinkPresence(p, s)
                      /\ Done /\ KeepNames

\* native_ct_unuse_package; the use record stays consumed.
UnusePackage(p, q) ==
    /\ error = 0
    /\ \/ ~ (ValidPackage(p) /\ ValidPackage(q)) /\ Fail(4)
       \/ /\ ValidPackage(p) /\ ValidPackage(q) /\ q \in uses[p]
          /\ uses' = [uses EXCEPT ![p] = @ \ {q}]
          /\ Done /\ KeepRecords
          /\ UNCHANGED <<pname, symbols, aliases, use_count, name_count, current>>

\* native_ct_unexport_symbol.
UnexportSymbol(p, s) ==
    /\ error = 0
    /\ \/ ~ ValidPair(p, s) /\ Fail(4)
       \/ /\ ValidPair(p, s)
          /\ LET n == symbols[s].name
                 e == FindPresent(p, n, FALSE)
             IN \/ Visible(p, n) # {s} /\ Fail(3)
                \/ /\ Visible(p, n) = {s} /\ e # 0
                   /\ SetEntry(e, [entries[e] EXCEPT !.external = FALSE])
                   /\ Done /\ KeepNames /\ UNCHANGED symbols

\* The caller clears a latched error and goes on.
ClearError == error # 0 /\ error' = 0 /\ UNCHANGED tables

\* What the source of a unit asks of the environment form by form.
Reading ==
    \/ ReadMalformed
    \/ \E t \in Tokens : ReadSymbol(t)
    \/ \E n \in PackageNames :
          \/ MakePackage(n) \/ SelectPackage(n)
          \/ \E p \in PackageIds : AddAlias(p, n)

\* What a defpackage form does to a package.
Defining ==
    \E p \in PackageIds :
        \/ \E n \in SymbolNames : Intern(p, n) \/ ShadowName(p, n)
        \/ \E q \in PackageIds : UsePackage(p, q)
        \/ \E s \in SymbolIds :
              ImportSymbol(p, s) \/ ExportSymbol(p, s) \/ ShadowingImport(p, s)

\* What only a client of the component calls.
Withdrawing ==
    \/ ClearError
    \/ \E p \in PackageIds :
          \/ \E q \in PackageIds : UnusePackage(p, q)
          \/ \E s \in SymbolIds : UninternSymbol(p, s) \/ UnexportSymbol(p, s)

Next == Reading \/ Defining \/ Withdrawing

Spec == Init /\ [][Next]_vars

\* A part of the behaviours of Spec: the operations on a fixed set of packages,
\* between symbols that the reader interns.
ReadInterned == \E t \in Tokens : t.form # "uninterned" /\ ReadSymbol(t)
OperationsSpec == Init /\ [][Defining \/ Withdrawing \/ ReadInterned]_vars

-----------------------------------------------------------------------------
(* Properties.                                                             *)

\* Counts stay within the caller's capacities and every reference stored in a
\* table is that of a record in use.
TypeOK ==
    /\ pname \in Seq(PackageNames) /\ Len(pname) <= PackageCapacity
    /\ symbols \in Seq(Symbol) /\ Len(symbols) <= SymbolCapacity
    /\ entries \in Seq(Presence) /\ Len(entries) <= PresentCapacity
    /\ aliases \in Seq(Alias) /\ Len(aliases) <= AliasCapacity
    /\ present \in [PackageIds -> SUBSET EntryIds]
    /\ bucket \in [PackageIds -> [Buckets -> SUBSET EntryIds]]
    /\ uses \in [PackageIds -> SUBSET PackageIds]
    /\ use_count \in 0..UseCapacity /\ name_count \in 0..NameCapacity
    /\ current \in 1..Len(pname) /\ error \in {0, 1, 2, 3, 4, 6, 8, 9, 10}
    /\ \A p \in PackageIds : \A e \in present[p] : p <= Len(pname) /\ e <= Len(entries)
    /\ \A e \in 1..Len(entries) : entries[e].symbol <= Len(symbols)
    /\ \A p \in PackageIds : \A q \in uses[p] : p <= Len(pname) /\ q <= Len(pname)
    /\ \A i \in 1..Len(aliases) : aliases[i].package <= Len(pname)

\* A package has at most one symbol of a name, and the hash chains hold what the
\* list holds, each record in the chain of its name: after any order of
\* insertions, replacements and removals the index and the list give the same
\* answers.
IndexAgrees ==
    \A p \in PackageIds :
        /\ \A e, f \in present[p] : NameOf(e) = NameOf(f) => e = f
        /\ BucketCount > 0 =>
              \A h \in Buckets : bucket[p][h] = {e \in present[p] : Hash[NameOf(e)] = h}

\* No record is on the lists of two packages.
Exclusive == \A p, q \in PackageIds : present[p] \cap present[q] # {} => p = q

\* A symbol that has a home is present there: replacing or removing it detached it.
HomeHolds ==
    \A s \in 1..Len(symbols) : symbols[s].home # 0 =>
        \E e \in present[symbols[s].home] : entries[e].symbol = s

\* What package p inherits under the name of record e agrees with what it has.
Agrees(p, e) ==
    \A f \in present[p] : NameOf(f) = NameOf(e) =>
        entries[f].shadowing \/ entries[f].symbol = entries[e].symbol
External(p) == {e \in present[p] : entries[e].external}
Used(p) == uses[p] \ {Keyword}
CoherentIn(p) ==
    \A q \in Used(p) : \A e \in External(q) :
        /\ Agrees(p, e)
        /\ (\A f \in present[p] : NameOf(f) # NameOf(e)) =>
              \A r \in Used(p) : \A g \in External(r) :
                  NameOf(g) = NameOf(e) => entries[g].symbol = entries[e].symbol

\* Every operation that could make a name ambiguous is refused beforehand: leaving
\* aside what it inherits from KEYWORD, a name means in a package its present
\* symbol, which inherited ones equal unless it shadows them, or the one symbol
\* inherited.
Coherent == \A p \in PackageIds : CoherentIn(p)

\* docs/core.md: "Visibility conflicts are checked before committing graph
\* changes", so no lookup meets one.  But interning or shadowing in KEYWORD
\* makes an external symbol there and looks at no package that uses KEYWORD.
ConflictsChecked ==
    \A p \in 1..Len(pname), n \in SymbolNames : ~ Conflict(Visible(p, n))

\* A step withdraws nothing and adds no record that shadows: it interns, reads,
\* imports, exports (a present symbol or an inherited one), marks a record
\* shadowing, uses a package or makes one, or it fails.
OnlyAdds ==
    /\ \A p \in PackageIds : present[p] \subseteq present'[p] /\ uses[p] \subseteq uses'[p]
    /\ \A e \in 1..Len(entries) :
          /\ entries'[e].symbol = entries[e].symbol
          /\ entries[e].external => entries'[e].external
    /\ \A e \in (Len(entries) + 1)..Len(entries') : ~ entries'[e].shadowing

\* What a name already means in a package that does not use KEYWORD stays what it
\* means there when anything is added anywhere: the checks of use, import and export
\* (native_ct_candidate_visible_p) refuse what would change it.
AddingIsStable ==
    [][OnlyAdds =>
          \A p \in 1..Len(pname), n \in SymbolNames :
              Keyword \notin uses[p] /\ Visible(p, n) # {} => Visible(p, n)' = Visible(p, n)]_vars

=============================================================================
