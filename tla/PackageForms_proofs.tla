------------------------ MODULE PackageForms_proofs ------------------------
(***************************************************************************)
(* Package forms act on the environment through its operations alone: the  *)
(* source of a unit, whatever its forms are and wherever one of them       *)
(* fails, is a sequence of steps of Environment, and what is proved of     *)
(* those holds in every state between them.  A form that succeeds did all  *)
(* it says, a form leaves the other packages alone, and a conflict it      *)
(* meets is one of what it asks for.                                       *)
(***************************************************************************)
EXTENDS PackageForms, Environment_proofs

\* What a form that is being applied has: a package, arguments of its own, and
\* an environment without an error.
Applying ==
    stage = "applying" => /\ error = 0 /\ package \in PackageIds
                          /\ form \in Forms /\ todo \subseteq Steps(form)

\* The designator of a step names what its option is about.
LEMMA StepNames ==
    ASSUME NEW f \in Forms, NEW s \in Steps(f), NEW option, option = f.options[s[1]]
    PROVE  /\ option.kind \in NamesPackages =>
                 s[2] # 0 /\ option.names[s[2]] \in PackageNames
           /\ option.kind \in {"shadow", "intern", "export"} =>
                 s[2] # 0 /\ option.names[s[2]] \in SymbolNames
           /\ option.kind \in Importing /\ s[2] # 0 =>
                 option.names[s[2]] \in SymbolNames
<1>1. PICK o \in DOMAIN f.options :
         s \in {o} \X (DOMAIN f.options[o].names
                        \cup IF f.options[o].kind \in Importing THEN {0} ELSE {})
  BY DEF Steps
<1>2. f.options \in Seq(Option)
  BY FormsAssumption DEF Form
<1>3. s[1] = o
  BY <1>1
<1>4. option \in Option /\ s[2] \in DOMAIN option.names
                                     \cup IF option.kind \in Importing THEN {0} ELSE {}
  BY <1>1, <1>2, <1>3
<1>5. option.kind \in NamesPackages => option.names \in Seq(PackageNames)
  BY <1>4 DEF Option, NamesPackages, Importing
<1>6. option.kind \in {"shadow", "intern", "export"} => option.names \in Seq(SymbolNames)
  BY <1>4 DEF Option, NamesPackages, Importing
<1>7. option.kind \in Importing => option.names \in Seq(SymbolNames)
  BY <1>4 DEF Option, NamesPackages, Importing
<1>8. CASE option.kind \in NamesPackages
  <2>1. s[2] \in DOMAIN option.names
    BY <1>4, <1>8 DEF NamesPackages, Importing
  <2> QED BY <1>5, <1>8, <2>1 DEF NamesPackages, Importing
<1>9. CASE option.kind \in {"shadow", "intern", "export"}
  <2>1. s[2] \in DOMAIN option.names
    BY <1>4, <1>9 DEF NamesPackages, Importing
  <2> QED BY <1>6, <1>9, <2>1 DEF NamesPackages, Importing
<1>10. CASE option.kind \in Importing
  <2>1. s[2] # 0 => s[2] \in DOMAIN option.names
    BY <1>4, <1>10
  <2> QED BY <1>7, <1>10, <2>1 DEF NamesPackages, Importing
<1> QED BY <1>8, <1>9, <1>10

\* A package that is found is one of the table.
LEMMA FoundPackage ==
    ASSUME Inv, NEW n
    PROVE  FindPackage(n) # 0 => FindPackage(n) \in PackageIds /\ ValidPackage(FindPackage(n))
<1>1. FindPackage(n) \in 0..Len(pname)
  BY PackageFound DEF Inv
<1>2. Len(pname) \in Nat /\ Len(pname) <= PackageCapacity
  BY DEF Inv, TypeOK
<1> QED BY <1>1, <1>2, Capacities DEF ValidPackage, PackageIds

\* One argument of an option is one operation of the environment, or none.
LEMMA ArgumentIsOperation ==
    ASSUME Inv, Applying, stage = "applying", NEW s \in todo, NEW option, NEW n,
           option = form.options[s[1]],
           n = IF s[2] = 0 THEN option.from ELSE option.names[s[2]],
           ApplyArgument(s, option, n)
    PROVE  [Next]_vars
<1>a. /\ error = 0 /\ package \in PackageIds /\ form \in Forms /\ s \in Steps(form)
  BY DEF Applying
<1>n. /\ option.kind \in NamesPackages => n \in PackageNames
      /\ option.kind \in {"shadow", "intern", "export"} => n \in SymbolNames
      /\ option.kind \in Importing /\ s[2] > 0 => n \in SymbolNames
  <2>1. /\ option.kind \in NamesPackages =>
              s[2] # 0 /\ option.names[s[2]] \in PackageNames
        /\ option.kind \in {"shadow", "intern", "export"} =>
              s[2] # 0 /\ option.names[s[2]] \in SymbolNames
        /\ option.kind \in Importing /\ s[2] # 0 => option.names[s[2]] \in SymbolNames
    BY <1>a, StepNames
  <2>2. s[2] > 0 => s[2] # 0
    OBVIOUS
  <2> QED BY <2>1, <2>2
<1>1. CASE UNCHANGED vars
  BY <1>1
<1>2. CASE s[2] > 0 /\ option.kind \in Importing /\ ApplyImport(s, n, option.from, option.kind)
  <2> DEFINE q == FindPackage(option.from)
  <2>1. n \in SymbolNames
    BY <1>2, <1>n
  <2>2. q # 0 => q \in PackageIds /\ ValidPackage(q)
    BY FoundPackage
  <2>3. CASE q # 0 /\ Conflict(Visible(q, n)) /\ Fail(3)
    <3>1. Intern(q, n)
      BY <1>a, <2>2, <2>3 DEF Intern
    <3> QED BY <2>1, <2>2, <2>3, <3>1 DEF Next, Defining
  <2>4. CASE \E symbol \in SymbolIds :
                ImportSymbol(package, symbol) \/ ShadowingImport(package, symbol)
    BY <1>a, <2>4 DEF Next, Defining
  <2> QED BY <1>2, <1>1, <2>3, <2>4 DEF ApplyImport
<1>3. CASE option.kind = "nicknames" /\ ApplyNickname(s, n)
  <2>1. n \in PackageNames
    BY <1>3, <1>n DEF NamesPackages
  <2> QED BY <1>a, <1>1, <1>3, <2>1 DEF ApplyNickname, Nothing, Next, Reading
<1>4. CASE option.kind = "shadow" /\ ApplyShadow(s, n)
  BY <1>a, <1>n, <1>4 DEF ApplyShadow, Next, Defining
<1>5. CASE option.kind = "use" /\ ApplyUse(s, n)
  <2>1. FindPackage(n) # 0 => FindPackage(n) \in PackageIds
    BY FoundPackage
  <2> QED BY <1>a, <1>1, <1>5, <2>1 DEF ApplyUse, Nothing, Next, Defining
<1>6. CASE option.kind = "intern" /\ ApplyIntern(s, n)
  BY <1>a, <1>n, <1>1, <1>6 DEF ApplyIntern, Nothing, Next, Defining
<1>7. CASE option.kind = "export" /\ ApplyExport(s, n)
  BY <1>a, <1>n, <1>7 DEF ApplyExport, Next, Defining
<1>8. CASE ApplyFrom(s, n)
  BY <1>1, <1>8 DEF ApplyFrom, Nothing
<1> QED BY Zenon, <1>1, <1>2, <1>3, <1>4, <1>5, <1>6, <1>7, <1>8 DEF ApplyArgument

\* Every step of the source of a unit is an operation of the environment.
LEMMA FormIsOperation ==
    ASSUME Inv, Applying, [FormNext]_allVars
    PROVE  [Next]_vars
<1>1. CASE Read
  BY Zenon, <1>1 DEF Read, Next, Reading
<1>2. CASE \E n \in PackageNames, string, extra \in BOOLEAN : Select(n, string, extra)
  BY Zenon, <1>2 DEF Select, Next, Reading
<1>3. CASE \E f \in Forms : Define(f)
  <2>1. PICK f \in Forms : Define(f)
    BY <1>3
  <2>2. f.name \in PackageNames
    BY FormsAssumption DEF Form
  <2> QED BY Zenon, <2>1, <2>2 DEF Define, Next, Reading
<1>4. CASE Apply
  <2>1. PICK s \in todo :
           ApplyArgument(s, form.options[s[1]],
              IF s[2] = 0 THEN form.options[s[1]].from ELSE form.options[s[1]].names[s[2]])
    BY Zenon, <1>4 DEF Apply
  <2>2. stage = "applying"
    BY <1>4 DEF Apply
  <2> QED BY Zenon, <2>1, <2>2, ArgumentIsOperation
<1>5. CASE Finish
  BY <1>5 DEF Finish
<1>6. CASE UNCHANGED allVars
  BY <1>6 DEF allVars
<1> QED BY Zenon, <1>1, <1>2, <1>3, <1>4, <1>5, <1>6 DEF FormNext

\* An argument ends the form, or leaves it its package and its other arguments.
LEMMA ArgumentEnds ==
    ASSUME Applying, stage = "applying", NEW s, NEW option, NEW n, ApplyArgument(s, option, n)
    PROVE  \/ stage' = "failed"
           \/ error' = 0 /\ UNCHANGED <<form, package>> /\ todo' \subseteq todo
<1>1. CASE Failed
  BY <1>1 DEF Failed, Leave
<1>2. CASE After(s)
  BY <1>1, <1>2 DEF After, Applied
<1>3. CASE Nothing(s)
  BY <1>3 DEF Nothing, Applied, Applying, vars
<1>4. CASE error' = 0 /\ UNCHANGED <<stage, form, package, todo>>
  BY <1>4
<1> QED BY Zenon, <1>1, <1>2, <1>3, <1>4
           DEF ApplyArgument, ApplyFrom, ApplyImport, ApplyNickname, ApplyShadow, ApplyUse,
               ApplyIntern, ApplyExport

\* A form keeps its package and its arguments until it ends.
LEMMA ApplyingStep ==
    ASSUME Inv, Applying, Inv', [FormNext]_allVars
    PROVE  Applying'
<1>1. CASE Read \/ \E n \in PackageNames, string, extra \in BOOLEAN : Select(n, string, extra)
  <2>1. stage' # "applying"
    BY Zenon, <1>1 DEF Read, Select, Failed, Leave, formVars
  <2> QED BY <2>1 DEF Applying
<1>2. CASE \E f \in Forms : Define(f)
  <2>1. PICK f \in Forms : Define(f)
    BY <1>2
  <2>2. CASE stage' = "failed"
    BY <2>2 DEF Applying
  <2>3. CASE /\ MakePackage(f.name) /\ error' = 0
             /\ form' = f /\ package' = Len(pname') /\ todo' = Steps(f)
    <3>1. Len(pname') \in Nat /\ Len(pname') <= PackageCapacity
      BY DEF Inv, TypeOK
    <3>2. current' \in 1..Len(pname')
      BY DEF Inv, TypeOK
    <3>3. Len(pname') \in PackageIds
      BY <3>1, <3>2, Capacities DEF PackageIds
    <3> QED BY <2>3, <3>3 DEF Applying, Steps
  <2> QED BY <2>1, <2>2, <2>3 DEF Define, Failed, Leave
<1>3. CASE Apply
  <2>1. PICK s, option, n : s \in todo /\ ApplyArgument(s, option, n)
    BY Zenon, <1>3 DEF Apply
  <2>3. stage = "applying"
    BY <1>3 DEF Apply
  <2>2. \/ stage' = "failed"
        \/ error' = 0 /\ UNCHANGED <<form, package>> /\ todo' \subseteq todo
    BY <2>1, <2>3, ArgumentEnds
  <2> QED BY <2>2, <2>3 DEF Applying, Steps
<1>4. CASE Finish
  BY <1>4 DEF Finish, Leave, Applying
<1>5. CASE UNCHANGED allVars
  BY <1>5 DEF allVars, vars, formVars, Applying, Steps
<1> QED BY Zenon, <1>1, <1>2, <1>3, <1>4, <1>5 DEF FormNext

\* The source of a unit is a behaviour of the environment: native_package_define
\* changes the packages through the checked operations alone, in whatever order
\* the options are written and wherever the form fails.
THEOREM FormsAreOperations == FormSpec => Spec /\ []Inv
<1>1. FormInit => Init /\ Inv /\ Applying
  BY InitOK DEF FormInit, Applying
<1>2. Inv /\ Applying /\ [FormNext]_allVars => [Next]_vars
  BY FormIsOperation
<1>3. Inv /\ [Next]_vars => Inv'
  BY NextOK
<1>4. Inv /\ Applying /\ Inv' /\ [FormNext]_allVars => Applying'
  BY ApplyingStep
<1> QED BY <1>1, <1>2, <1>3, <1>4, PTL DEF FormSpec, Spec

\* No form overruns a table or leaves a reference to a record not in use, also
\* where a form of several phases fails in a later one.
THEOREM FormsTypeCorrect == FormSpec => []TypeOK
<1>1. Inv => TypeOK
  BY DEF Inv
<1> QED BY <1>1, FormsAreOperations, PTL

\* A form that fails with some of its phases applied leaves no name ambiguous in
\* any package, the package it was defining included, as far as Coherent goes: what
\* a package inherits from KEYWORD is left aside, for reading :x can make x
\* ambiguous in a package that uses KEYWORD (run environment_keyword).
THEOREM FormsCoherent == FormSpec => []Coherent
<1>1. Inv => Coherent
  BY DEF Inv
<1> QED BY <1>1, FormsAreOperations, PTL

USE DEF PackageIds, SymbolIds, EntryIds

-----------------------------------------------------------------------------
(* What an operation on one package leaves alone.                          *)

\* No symbol gets another name.
SymbolsNamed == \A t \in 1..Len(symbols) : symbols'[t].name = symbols[t].name

\* The records of the packages other than p, and what they use, stay.
Local(p) ==
    \A q \in PackageIds : q # p =>
        /\ uses'[q] = uses[q] /\ present'[q] = present[q]
        /\ \A e \in present[q] : entries'[e] = entries[e] /\ NameOf(e)' = NameOf(e)

\* A record is added to p.
LEMMA LocalAdd ==
    ASSUME Inv, NEW p \in PackageIds, NEW s, NEW n, NEW x, NEW h,
           AddPresence(p, s, n, x, h), SymbolsNamed, uses' = uses
    PROVE  Local(p)
<1> DEFINE rec == [symbol |-> s, external |-> x, shadowing |-> h]
<1>0. TypeOK
  BY DEF Inv
<1>1. entries \in Seq(Presence) /\ present \in [PackageIds -> SUBSET EntryIds]
  BY <1>0 DEF TypeOK
<1>2. /\ entries' = Append(entries, rec)
      /\ present' = [present EXCEPT ![p] = @ \cup {Len(entries) + 1}]
  BY DEF AddPresence
<1> HIDE DEF rec
<1>3. \A e \in 1..Len(entries) : entries'[e] = entries[e]
  BY <1>1, <1>2
<1> SUFFICES ASSUME NEW q \in PackageIds, q # p
    PROVE  /\ present'[q] = present[q]
           /\ \A e \in present[q] : entries'[e] = entries[e] /\ NameOf(e)' = NameOf(e)
  BY DEF Local
<1>4. present'[q] = present[q]
  BY <1>1, <1>2
<1>5. ASSUME NEW e \in present[q]
      PROVE  entries'[e] = entries[e] /\ NameOf(e)' = NameOf(e)
  <2>1. e \in 1..Len(entries) /\ entries[e].symbol \in 1..Len(symbols)
    BY <1>0, EntryFacts
  <2>2. entries'[e] = entries[e]
    BY <1>3, <2>1
  <2> QED BY <2>1, <2>2 DEF NameOf, SymbolsNamed
<1> QED BY <1>4, <1>5

\* A record of p gets another content.
LEMMA LocalSet ==
    ASSUME Inv, NEW p \in PackageIds, NEW k \in present[p], NEW rec,
           SetEntry(k, rec), SymbolsNamed, uses' = uses
    PROVE  Local(p)
<1>0. TypeOK /\ Exclusive
  BY DEF Inv
<1>1. entries' = [entries EXCEPT ![k] = rec] /\ present' = present
  BY DEF SetEntry
<1>2. entries \in Seq(Presence)
  BY <1>0 DEF TypeOK
<1> SUFFICES ASSUME NEW q \in PackageIds, q # p, NEW e \in present[q]
    PROVE  entries'[e] = entries[e] /\ NameOf(e)' = NameOf(e)
  BY <1>1 DEF Local
<1>3. e # k
  BY <1>0 DEF Exclusive
<1>4. e \in 1..Len(entries) /\ entries[e].symbol \in 1..Len(symbols)
  BY <1>0, EntryFacts
<1>5. entries'[e] = entries[e]
  BY <1>1, <1>2, <1>3, <1>4
<1> QED BY <1>4, <1>5 DEF NameOf, SymbolsNamed

\* The records stay.
LEMMA LocalKeep ==
    ASSUME Inv, NEW p \in PackageIds, KeepRecords, SymbolsNamed,
           \A q \in PackageIds : q # p => uses'[q] = uses[q]
    PROVE  Local(p)
<1>0. TypeOK
  BY DEF Inv
<1> SUFFICES ASSUME NEW q \in PackageIds, q # p, NEW e \in present[q]
    PROVE  NameOf(e)' = NameOf(e)
  BY DEF Local, KeepRecords
<1>1. entries[e].symbol \in 1..Len(symbols)
  BY <1>0, EntryFacts
<1> QED BY <1>1 DEF NameOf, SymbolsNamed, KeepRecords

\* The symbols keep their names when one is added, gets a home or loses it.
LEMMA NamesAreKept ==
    ASSUME Inv
    PROVE  /\ symbols' = symbols => SymbolsNamed
           /\ \A symbol : symbols' = Append(symbols, symbol) => SymbolsNamed
           /\ HomeChange => SymbolsNamed
<1>1. symbols \in Seq(Symbol)
  BY DEF Inv, TypeOK
<1> QED BY <1>1 DEF SymbolsNamed, HomeChange

\* Every operation that a form calls on its package leaves the others alone.
LEMMA OperationIsLocal ==
    ASSUME Inv, NEW p \in PackageIds,
           \/ \E n \in SymbolNames : Intern(p, n) \/ ShadowName(p, n)
           \/ \E q \in PackageIds : UsePackage(p, q)
           \/ \E n \in PackageNames : AddAlias(p, n)
           \/ \E s \in SymbolIds :
                 ImportSymbol(p, s) \/ ExportSymbol(p, s) \/ ShadowingImport(p, s)
           \/ UNCHANGED tables
    PROVE  Local(p)
<1>0. TypeOK /\ IndexAgrees
  BY DEF Inv
<1>1. ASSUME UNCHANGED tables PROVE Local(p)
  <2>1. KeepRecords /\ symbols' = symbols /\ uses' = uses
    BY <1>1 DEF tables, KeepRecords
  <2> QED BY <2>1, LocalKeep, NamesAreKept
<1>2. ASSUME NEW c, Fail(c) PROVE Local(p)
  BY <1>1, <1>2 DEF Fail
<1>3. ASSUME NEW n, NEW h, NewSymbol(p, n, h), uses' = uses PROVE Local(p)
  <2>1. SymbolsNamed
    BY Zenon, <1>3, NamesAreKept DEF NewSymbol
  <2> QED BY Zenon, <1>3, <2>1, LocalAdd DEF NewSymbol
<1>4. ASSUME NEW n, Intern(p, n) PROVE Local(p)
  BY Zenon, <1>2, <1>3, <1>4 DEF Intern
<1>5. ASSUME NEW n \in SymbolNames, NEW rec, FindPresent(p, n, FALSE) # 0,
             SetEntry(FindPresent(p, n, FALSE), rec), uses' = uses, SymbolsNamed
      PROVE  Local(p)
  <2>1. FindPresent(p, n, FALSE) \in present[p]
    BY <1>0, <1>5, Found
  <2> QED BY <1>5, <2>1, LocalSet
<1>6. ASSUME NEW n \in SymbolNames, ShadowName(p, n) PROVE Local(p)
  <2>1. symbols' = symbols => SymbolsNamed
    BY NamesAreKept
  <2> QED BY Zenon, <1>2, <1>3, <1>5, <1>6, <2>1 DEF ShadowName, KeepNames
<1>7. ASSUME NEW q, UsePackage(p, q) PROVE Local(p)
  <2>1. ASSUME uses' = [uses EXCEPT ![p] = @ \cup {q}], KeepRecords, symbols' = symbols
        PROVE  Local(p)
    <3>1. \A r \in PackageIds : r # p => uses'[r] = uses[r]
      BY <1>0, <2>1 DEF TypeOK
    <3> QED BY <2>1, <3>1, LocalKeep, NamesAreKept
  <2> QED BY Zenon, <1>2, <1>7, <2>1 DEF UsePackage
<1>8. ASSUME NEW n, AddAlias(p, n) PROVE Local(p)
  <2>1. ASSUME uses' = uses, KeepRecords, symbols' = symbols
        PROVE  Local(p)
    BY <2>1, LocalKeep, NamesAreKept
  <2> QED BY Zenon, <1>2, <1>8, <2>1 DEF AddAlias
<1>9. ASSUME NEW s, ImportSymbol(p, s) PROVE Local(p)
  <2>1. ASSUME ValidPair(p, s), KeepNames,
               \/ KeepRecords
               \/ AddPresence(p, s, symbols[s].name, FALSE, FALSE),
               symbols' = IF symbols[s].home = 0 THEN [symbols EXCEPT ![s].home = p]
                          ELSE symbols
        PROVE  Local(p)
    <3>1. s \in 1..Len(symbols)
      BY <1>0, <2>1, Valid DEF ValidPair
    <3>2. SymbolsNamed
      BY <2>1, <3>1, HomeGiven, NamesAreKept
    <3>3. uses' = uses
      BY <2>1 DEF KeepNames
    <3> QED BY <2>1, <3>2, <3>3, LocalAdd, LocalKeep
  <2> QED BY Zenon, <1>2, <1>9, <2>1 DEF ImportSymbol, ImportCommit
<1>10. ASSUME NEW s, ExportSymbol(p, s) PROVE Local(p)
  <2>1. ASSUME ValidPair(p, s), KeepNames, symbols' = symbols,
               \/ AddPresence(p, s, symbols[s].name, TRUE, FALSE)
               \/ \E rec : /\ FindPresent(p, symbols[s].name, FALSE) # 0
                           /\ SetEntry(FindPresent(p, symbols[s].name, FALSE), rec)
        PROVE  Local(p)
    <3>1. symbols[s].name \in SymbolNames
      BY <1>0, <2>1, Valid DEF ValidPair
    <3>2. SymbolsNamed
      BY <2>1, NamesAreKept
    <3>3. uses' = uses
      BY <2>1 DEF KeepNames
    <3> QED BY Zenon, <1>5, <2>1, <3>1, <3>2, <3>3, LocalAdd
  <2> QED BY Zenon, <1>2, <1>10, <2>1 DEF ExportSymbol, MarkExternal
<1>11. ASSUME NEW s, ShadowingImport(p, s) PROVE Local(p)
  <2> DEFINE f == FindPresent(p, symbols[s].name, FALSE)
  <2>1. ASSUME ValidPair(p, s), KeepNames,
               \/ symbols' = symbols /\ AddPresence(p, s, symbols[s].name, FALSE, TRUE)
               \/ /\ symbols' = symbols \/ DetachHome(p, entries[f].symbol)
                  /\ \E rec : f # 0 /\ SetEntry(f, rec)
        PROVE  Local(p)
    <3>1. symbols[s].name \in SymbolNames
      BY <1>0, <2>1, Valid DEF ValidPair
    <3>2. ASSUME f # 0, DetachHome(p, entries[f].symbol) PROVE SymbolsNamed
      <4>1. f \in present[p]
        BY <1>0, <3>1, <3>2, Found
      <4>2. PICK t : t = entries[f].symbol
        OBVIOUS
      <4>3. t \in 1..Len(symbols)
        BY <1>0, <4>1, <4>2, EntryFacts
      <4> HIDE DEF f
      <4> QED BY <3>2, <4>2, <4>3, Detached, NamesAreKept
    <3>3. symbols' = symbols => SymbolsNamed
      BY NamesAreKept
    <3>4. uses' = uses
      BY <2>1 DEF KeepNames
    <3> QED BY Zenon, <1>5, <2>1, <3>1, <3>2, <3>3, <3>4, LocalAdd
  <2> QED BY Zenon, <1>2, <1>11, <2>1 DEF ShadowingImport
<1> QED BY Zenon, <1>1, <1>4, <1>6, <1>7, <1>8, <1>9, <1>10, <1>11

\* What a name means in a package that does not use p does not depend on p.
LEMMA LocalMeaning ==
    ASSUME Inv, Inv', NEW p \in PackageIds, Local(p), NEW q \in PackageIds, q # p,
           p \notin uses[q], NEW n \in SymbolNames
    PROVE  Visible(q, n)' = Visible(q, n)
<1>0. TypeOK /\ IndexAgrees /\ TypeOK' /\ IndexAgrees'
  BY DEF Inv
<1>1. \A t : t \in Visible(q, n) <=> Means(q, n, t)
  BY <1>0, VisibleMeans
<1>2. \A t : t \in Visible(q, n)' <=> Means(q, n, t)'
  BY <1>0, VisibleMeansPrimed
<1>3. \A r \in {q} \cup uses[q] :
        /\ present'[r] = present[r]
        /\ \A e \in present[r] : entries'[e] = entries[e] /\ NameOf(e)' = NameOf(e)
  BY <1>0 DEF Local, TypeOK
<1>4. uses'[q] = uses[q]
  BY DEF Local
<1>5. ASSUME NEW t PROVE Means(q, n, t)' <=> Means(q, n, t)
  <2>1. \A r \in {q} \cup uses[q] : \A e : e \in present'[r] <=> e \in present[r]
    BY <1>3
  <2>2. (\E e \in present'[q] : NameOf(e)' = n /\ entries'[e].symbol = t)
          <=> \E e \in present[q] : NameOf(e) = n /\ entries[e].symbol = t
    BY <1>3, <2>1
  <2>3. (\A e \in present'[q] : NameOf(e)' # n) <=> \A e \in present[q] : NameOf(e) # n
    BY <1>3, <2>1
  <2>4. (\E r \in uses[q] : \E e \in present'[r] :
            entries'[e].external /\ NameOf(e)' = n /\ entries'[e].symbol = t)
          <=> \E r \in uses[q] : \E e \in present[r] :
                 entries[e].external /\ NameOf(e) = n /\ entries[e].symbol = t
    BY <1>3, <2>1
  <2> QED BY <1>4, <2>2, <2>3, <2>4 DEF Means, External
<1> QED BY <1>1, <1>2, <1>5

\* The operation for one argument leaves the other packages alone.
LEMMA ArgumentIsLocal ==
    ASSUME Inv, Applying, stage = "applying", NEW s \in todo, NEW option, NEW n,
           option = form.options[s[1]],
           n = IF s[2] = 0 THEN option.from ELSE option.names[s[2]],
           ApplyArgument(s, option, n)
    PROVE  Local(package)
<1>a. /\ package \in PackageIds /\ form \in Forms /\ s \in Steps(form)
  BY DEF Applying
<1>n. /\ option.kind \in NamesPackages => n \in PackageNames
      /\ option.kind \in {"shadow", "intern", "export"} => n \in SymbolNames
  BY <1>a, StepNames
<1>1. CASE UNCHANGED tables
  BY <1>a, <1>1, OperationIsLocal
<1>2. CASE UNCHANGED vars
  BY <1>1, <1>2 DEF vars, tables
<1>3. CASE ApplyImport(s, n, option.from, option.kind)
  <2>1. ASSUME NEW t \in SymbolIds, ImportSymbol(package, t) \/ ShadowingImport(package, t)
        PROVE  Local(package)
    BY <1>a, <2>1, OperationIsLocal
  <2>2. ASSUME Fail(3) PROVE Local(package)
    BY <1>1, <2>2 DEF Fail
  <2> QED BY Zenon, <1>2, <1>3, <2>1, <2>2 DEF ApplyImport
<1>4. CASE option.kind = "nicknames" /\ ApplyNickname(s, n)
  <2>1. n \in PackageNames
    BY <1>4, <1>n DEF NamesPackages
  <2>2. ASSUME AddAlias(package, n) PROVE Local(package)
    BY <1>a, <2>1, <2>2, OperationIsLocal
  <2> QED BY Zenon, <1>2, <1>4, <2>2 DEF ApplyNickname, Nothing
<1>5. CASE option.kind = "shadow" /\ ApplyShadow(s, n)
  BY <1>a, <1>n, <1>5, OperationIsLocal DEF ApplyShadow
<1>6. CASE option.kind = "use" /\ ApplyUse(s, n)
  <2>1. FindPackage(n) # 0 => FindPackage(n) \in PackageIds
    BY FoundPackage
  <2>2. ASSUME NEW q \in PackageIds, UsePackage(package, q) PROVE Local(package)
    BY <1>a, <2>2, OperationIsLocal
  <2> QED BY Zenon, <1>2, <1>6, <2>1, <2>2 DEF ApplyUse, Nothing
<1>7. CASE option.kind = "intern" /\ ApplyIntern(s, n)
  <2>1. ASSUME Intern(package, n) PROVE Local(package)
    BY <1>a, <1>n, <1>7, <2>1, OperationIsLocal
  <2> QED BY Zenon, <1>2, <1>7, <2>1 DEF ApplyIntern, Nothing
<1>8. CASE option.kind = "export" /\ ApplyExport(s, n)
  <2>1. ASSUME Intern(package, n) PROVE Local(package)
    BY <1>a, <1>n, <1>8, <2>1, OperationIsLocal
  <2>2. ASSUME NEW t \in SymbolIds, ExportSymbol(package, t) PROVE Local(package)
    BY <1>a, <2>2, OperationIsLocal
  <2> QED BY Zenon, <1>8, <2>1, <2>2 DEF ApplyExport
<1>9. CASE ApplyFrom(s, n)
  BY Zenon, <1>2, <1>9 DEF ApplyFrom, Nothing
<1> QED BY Zenon, <1>2, <1>3, <1>4, <1>5, <1>6, <1>7, <1>8, <1>9 DEF ApplyArgument

\* What is done while a form is applied leaves the other packages alone.
LEMMA ApplyingIsLocal ==
    ASSUME Inv, Applying, stage = "applying", [FormNext]_allVars
    PROVE  Local(package)
<1>1. CASE UNCHANGED vars
  <2>1. UNCHANGED tables /\ package \in PackageIds
    BY <1>1 DEF vars, tables, Applying
  <2> QED BY <2>1, OperationIsLocal
<1>2. CASE Apply
  <2>1. PICK s \in todo :
           ApplyArgument(s, form.options[s[1]],
              IF s[2] = 0 THEN form.options[s[1]].from ELSE form.options[s[1]].names[s[2]])
    BY Zenon, <1>2 DEF Apply
  <2> QED BY Zenon, <2>1, ArgumentIsLocal
<1>3. CASE Finish \/ UNCHANGED allVars
  BY <1>1, <1>3 DEF Finish, allVars
<1>4. CASE Read \/ (\E n \in PackageNames, string, extra \in BOOLEAN : Select(n, string, extra)) \/ \E f \in Forms : Define(f)
  BY <1>4 DEF Read, Select, Define
<1> QED BY Zenon, <1>2, <1>3, <1>4 DEF FormNext

\* No other package uses the one that a form defines: it is new, and a form
\* changes what its own package uses alone.
Unused == stage = "applying" => \A q \in PackageIds : q # package => package \notin uses[q]

\* No step makes another package use the package of the form.
LEMMA UnusedStep ==
    ASSUME Inv, Applying, Unused, [FormNext]_allVars
    PROVE  Unused'
<1>1. CASE stage = "applying"
  <2>1. Local(package)
    BY <1>1, ApplyingIsLocal
  <2>2. stage' = "applying" => package' = package
    <3>1. CASE Apply
      <4>1. PICK s, option, n : ApplyArgument(s, option, n)
        BY Zenon, <3>1 DEF Apply
      <4> QED BY <1>1, <4>1, ArgumentEnds
    <3>2. CASE Finish
      BY <3>2 DEF Finish, Leave
    <3>3. CASE UNCHANGED allVars
      BY <3>3 DEF allVars, formVars
    <3>4. CASE Read \/ (\E n \in PackageNames, string, extra \in BOOLEAN : Select(n, string, extra)) \/ \E f \in Forms : Define(f)
      BY <1>1, <3>4 DEF Read, Select, Define
    <3> QED BY Zenon, <3>1, <3>2, <3>3, <3>4 DEF FormNext
  <2> QED BY <1>1, <2>1, <2>2 DEF Unused, Local
<1>2. CASE stage # "applying"
  <2>1. CASE stage' # "applying"
    BY <2>1 DEF Unused
  <2>2. CASE stage' = "applying"
    <3>1. PICK f \in Forms : Define(f)
      BY Zenon, <1>2, <2>2
         DEF FormNext, Read, Select, Failed, Leave, Apply, Finish, allVars, formVars
    <3>2. MakePackage(f.name) /\ error' = 0 /\ package' = Len(pname')
      BY Zenon, <2>2, <3>1 DEF Define, Failed, Leave
    <3>3. pname' = Append(pname, f.name) /\ uses' = [uses EXCEPT ![Len(pname) + 1] = {}]
      BY <3>2 DEF MakePackage, Fail
    <3>4. pname \in Seq(PackageNames) /\ Len(pname) \in Nat /\ Len(pname') = Len(pname) + 1
      BY <3>3 DEF Inv, TypeOK
    <3>5. /\ uses \in [PackageIds -> SUBSET PackageIds]
          /\ \A p \in PackageIds : \A q \in uses[p] : q <= Len(pname)
      BY DEF Inv, TypeOK
    <3>6. \A q \in PackageIds : uses'[q] \subseteq uses[q]
      BY <3>3, <3>5
    <3>7. \A q \in PackageIds : Len(pname) + 1 \notin uses[q]
      BY <3>4, <3>5, Capacities
    <3> QED BY <3>2, <3>4, <3>6, <3>7 DEF Unused
  <2> QED BY <2>1, <2>2
<1> QED BY <1>1, <1>2

\* A name is given to a package only when no package has it, and to a new package
\* or as a nickname.
LEMMA NamesGrow ==
    ASSUME [Next]_vars
    PROVE  \/ UNCHANGED <<pname, aliases>>
           \/ \E m : FindPackage(m) = 0 /\ pname' = Append(pname, m) /\ aliases' = aliases
           \/ \E p, m : /\ FindPackage(m) = 0 /\ pname' = pname
                        /\ aliases' = Append(aliases, [package |-> p, name |-> m])
<1> DEFINE named == \/ UNCHANGED <<pname, aliases>>
                    \/ \E m : FindPackage(m) = 0 /\ pname' = Append(pname, m) /\ aliases' = aliases
                    \/ \E p, m : /\ FindPackage(m) = 0 /\ pname' = pname
                                 /\ aliases' = Append(aliases, [package |-> p, name |-> m])
<1>1. ASSUME UNCHANGED <<pname, aliases>> PROVE named
  BY <1>1
<1>2. ASSUME NEW m, MakePackage(m) PROVE named
  BY Zenon, <1>2 DEF MakePackage, Fail, tables
<1>3. ASSUME NEW p, NEW m, AddAlias(p, m) PROVE named
  BY Zenon, <1>3 DEF AddAlias, Fail, tables
<1> SUFFICES named
  OBVIOUS
<1> HIDE DEF named
<1>4. ASSUME NEW c, Fail(c) PROVE named
  BY Zenon, <1>1, <1>4 DEF Fail, tables
<1>5. CASE Reading
  <2>1. ASSUME NEW t, ReadSymbol(t) PROVE named
    BY Zenon, <1>1, <1>4, <2>1
       DEF ReadSymbol, ReadQualified, UninternedSpan, InternNameSpan
  <2>2. ASSUME NEW m, SelectPackage(m) PROVE named
    BY Zenon, <1>1, <2>2 DEF SelectPackage
  <2> QED BY Zenon, <1>2, <1>3, <1>4, <1>5, <2>1, <2>2 DEF Reading, ReadMalformed
<1>6. CASE Defining
  <2>1. ASSUME NEW p, NEW m, Intern(p, m) \/ ShadowName(p, m) PROVE named
    BY Zenon, <1>1, <1>4, <2>1 DEF Intern, ShadowName, KeepNames
  <2>2. ASSUME NEW p, NEW q, UsePackage(p, q) PROVE named
    BY Zenon, <1>1, <1>4, <2>2 DEF UsePackage
  <2>3. ASSUME NEW p, NEW s, ImportSymbol(p, s) \/ ExportSymbol(p, s) \/ ShadowingImport(p, s)
        PROVE  named
    BY Zenon, <1>1, <1>4, <2>3
       DEF ImportSymbol, ImportCommit, ExportSymbol, MarkExternal, ShadowingImport, KeepNames
  <2> QED BY Zenon, <1>6, <2>1, <2>2, <2>3 DEF Defining
<1>7. CASE Withdrawing
  <2>1. ASSUME NEW p, NEW q, UnusePackage(p, q) PROVE named
    BY Zenon, <1>1, <1>4, <2>1 DEF UnusePackage
  <2>2. ASSUME NEW p, NEW s, UninternSymbol(p, s) \/ UnexportSymbol(p, s) PROVE named
    BY Zenon, <1>1, <1>4, <2>2 DEF UninternSymbol, UnexportSymbol, KeepNames
  <2>3. ASSUME ClearError PROVE named
    BY Zenon, <1>1, <2>3 DEF ClearError, tables
  <2> QED BY Zenon, <1>7, <2>1, <2>2, <2>3 DEF Withdrawing
<1>8. CASE UNCHANGED vars
  BY <1>1, <1>8 DEF vars
<1> QED BY Zenon, <1>5, <1>6, <1>7, <1>8 DEF Next

\* native_ct_find_package goes on finding what it found.
LEMMA StillFound ==
    ASSUME Inv, [Next]_vars, NEW n, FindPackage(n) # 0
    PROVE  FindPackage(n)' = FindPackage(n)
<1> DEFINE nick == {i \in 1..Len(aliases) : aliases[i].name = n}
<1>1. pname \in Seq(PackageNames) /\ aliases \in Seq(Alias)
  BY DEF Inv, TypeOK
<1>2. ASSUME UNCHANGED <<pname, aliases>> PROVE FindPackage(n)' = FindPackage(n)
  BY <1>2 DEF FindPackage, Named
<1>3. ASSUME NEW m, m # n, pname' = Append(pname, m), aliases' = aliases
      PROVE  FindPackage(n)' = FindPackage(n)
  <2>1. Named(n)' = Named(n)
    BY <1>1, <1>3 DEF Named
  <2> QED BY <1>3, <2>1 DEF FindPackage
<1>4. ASSUME NEW m, m # n, NEW p, aliases' = Append(aliases, [package |-> p, name |-> m]),
             pname' = pname
      PROVE  FindPackage(n)' = FindPackage(n)
  <2>1. Named(n)' = Named(n)
    BY <1>4 DEF Named
  <2>2. nick' = nick /\ \A i \in nick : aliases'[i] = aliases[i]
    BY <1>1, <1>4
  <2> DEFINE first(S) == CHOOSE i \in S : \A j \in S : i <= j
  <2>3. nick # {} => first(nick) \in nick
    <3>1. nick \subseteq Nat
      OBVIOUS
    <3> HIDE DEF nick
    <3>2. nick # {} => \E i \in nick : \A j \in nick : i <= j
      BY <3>1, Least
    <3> QED BY <3>2
  <2>4. /\ FindPackage(n) = IF Named(n) # {} THEN first(Named(n))
                            ELSE IF nick # {} THEN aliases[first(nick)].package ELSE 0
        /\ FindPackage(n)' = IF Named(n)' # {} THEN first(Named(n)')
                             ELSE IF nick' # {} THEN aliases'[first(nick')].package ELSE 0
    BY Zenon DEF FindPackage
  <2> HIDE DEF nick, first
  <2> QED BY <2>1, <2>2, <2>3, <2>4
<1> QED BY Zenon, <1>2, <1>3, <1>4, NamesGrow

-----------------------------------------------------------------------------
(* What an operation that succeeds does to its package.                    *)

\* Record k, the one of the package under name n, is added or changed; nothing else
\* of the package is.
Touches(p, n, k) ==
    /\ uses' = uses
    /\ present'[p] = present[p] \cup {k}
    /\ \A e \in present[p] : NameOf(e) = n <=> e = k
    /\ \A e \in present[p] : NameOf(e)' = NameOf(e) /\ (e # k => entries'[e] = entries[e])
    /\ NameOf(k)' = n

\* It keeps its symbol and its marks.
Grows(p, k) ==
    k \in present[p] =>
        /\ entries'[k].symbol = entries[k].symbol
        /\ entries[k].external => entries'[k].external
        /\ entries[k].shadowing => entries'[k].shadowing

\* The symbols at home in p stay at home.
HomesStay(p) ==
    \A t \in 1..Len(symbols) : symbols[t].home = p => symbols'[t].home = p

\* A symbol at home in p that is not the one of record k stays at home.
OtherHomesStay(p, k) ==
    \A t \in 1..Len(symbols) :
        symbols[t].home = p => symbols'[t].home = p \/ t = entries[k].symbol

\* A new record is the only one that AddPresence touches.
LEMMA AddTouches ==
    ASSUME Inv, NEW p \in PackageIds, NEW s \in 1..Len(symbols'), NEW n \in SymbolNames,
           NEW x \in BOOLEAN, NEW h \in BOOLEAN, NEW k, k = Len(entries) + 1,
           AddPresence(p, s, n, x, h), SymbolsNamed, uses' = uses, symbols'[s].name = n,
           \A e \in present[p] : NameOf(e) # n
    PROVE  /\ Touches(p, n, k) /\ k \notin present[p]
           /\ entries'[k].symbol = s /\ entries'[k].external = x /\ entries'[k].shadowing = h
<1> DEFINE rec == [symbol |-> s, external |-> x, shadowing |-> h]
<1>0. TypeOK
  BY DEF Inv
<1>1. /\ entries \in Seq(Presence) /\ Len(entries) \in Nat
      /\ present \in [PackageIds -> SUBSET EntryIds]
  BY <1>0 DEF TypeOK
<1>2. entries' = Append(entries, rec) /\ present' = [present EXCEPT ![p] = @ \cup {k}]
  BY DEF AddPresence
<1>3. rec.symbol = s /\ rec.external = x /\ rec.shadowing = h
  OBVIOUS
<1> HIDE DEF rec
<1>4. entries'[k] = rec /\ \A e \in 1..Len(entries) : entries'[e] = entries[e]
  BY <1>1, <1>2
<1>5. present'[p] = present[p] \cup {k}
  BY <1>1, <1>2
<1>6. k \notin present[p]
  BY <1>0, <1>1, EntryFacts
<1>7. ASSUME NEW e \in present[p]
      PROVE  NameOf(e)' = NameOf(e) /\ entries'[e] = entries[e]
  <2>1. e \in 1..Len(entries) /\ entries[e].symbol \in 1..Len(symbols)
    BY <1>0, EntryFacts
  <2>2. entries'[e] = entries[e]
    BY <1>4, <2>1
  <2> QED BY <2>1, <2>2 DEF NameOf, SymbolsNamed
<1>8. NameOf(k)' = n
  <2>1. entries'[k].symbol = s
    BY <1>3, <1>4
  <2> QED BY <2>1, symbols'[s].name = n DEF NameOf
<1> QED BY <1>3, <1>4, <1>5, <1>6, <1>7, <1>8 DEF Touches

\* A replaced record is the only one that SetEntry touches.
LEMMA SetTouches ==
    ASSUME Inv, NEW p \in PackageIds, NEW n \in SymbolNames, NEW k \in present[p],
           NameOf(k) = n, NEW rec, SetEntry(k, rec), SymbolsNamed, uses' = uses,
           rec.symbol \in 1..Len(symbols), symbols[rec.symbol].name = n
    PROVE  Touches(p, n, k) /\ entries'[k] = rec
<1>0. TypeOK /\ IndexAgrees
  BY DEF Inv
<1>1. entries \in Seq(Presence)
  BY <1>0 DEF TypeOK
<1>2. entries' = [entries EXCEPT ![k] = rec] /\ present' = present
  BY DEF SetEntry
<1>3. k \in 1..Len(entries)
  BY <1>0, EntryFacts
<1>4. entries'[k] = rec /\ \A e \in 1..Len(entries) : e # k => entries'[e] = entries[e]
  BY <1>1, <1>2, <1>3
<1>5. NameOf(k)' = n
  BY <1>4 DEF NameOf, SymbolsNamed
<1>6. \A e \in present[p] : NameOf(e) = n <=> e = k
  BY <1>0 DEF IndexAgrees
<1>7. ASSUME NEW e \in present[p], e # k
      PROVE  NameOf(e)' = NameOf(e) /\ entries'[e] = entries[e]
  <2>1. e \in 1..Len(entries) /\ entries[e].symbol \in 1..Len(symbols)
    BY <1>0, EntryFacts
  <2>2. entries'[e] = entries[e]
    BY <1>4, <1>7, <2>1
  <2> QED BY <2>1, <2>2 DEF NameOf, SymbolsNamed
<1> QED BY <1>2, <1>4, <1>5, <1>6, <1>7 DEF Touches

\* native_ct_symbol_from_name in a package other than KEYWORD.
LEMMA NewTouches ==
    ASSUME Inv, NEW p \in PackageIds, p # Keyword, NEW n \in SymbolNames, NEW h \in BOOLEAN,
           NewSymbol(p, n, h), uses' = uses, \A e \in present[p] : NameOf(e) # n
    PROVE  \E k : /\ Touches(p, n, k) /\ k \notin present[p] /\ HomesStay(p)
                  /\ ~ entries'[k].external /\ entries'[k].shadowing = h
                  /\ symbols'[entries'[k].symbol].home = p
<1>0. symbols \in Seq(Symbol) /\ Len(symbols) \in Nat
  BY DEF Inv, TypeOK
<1>1. PICK s : s = Len(symbols) + 1
  OBVIOUS
<1>2. PICK k : k = Len(entries) + 1
  OBVIOUS
<1>3. PICK x \in BOOLEAN : x = FALSE
  OBVIOUS
<1>4. symbols' = Append(symbols, [home |-> p, name |-> n]) /\ AddPresence(p, s, n, x, h)
  <2>1. (p = Keyword) = x
    BY <1>3
  <2> QED BY Zenon, <1>1, <2>1 DEF NewSymbol
<1>5. /\ s \in 1..Len(symbols') /\ symbols'[s].name = n /\ symbols'[s].home = p
      /\ \A t \in 1..Len(symbols) : symbols'[t] = symbols[t]
  BY <1>0, <1>1, <1>4
<1>6. SymbolsNamed /\ HomesStay(p)
  BY <1>5 DEF SymbolsNamed, HomesStay
<1>7. /\ Touches(p, n, k) /\ k \notin present[p]
      /\ entries'[k].symbol = s /\ entries'[k].external = x /\ entries'[k].shadowing = h
  BY <1>2, <1>4, <1>5, <1>6, AddTouches
<1> QED BY <1>3, <1>5, <1>6, <1>7

\* An operation that reports no error did not fail.
LEMMA NoFailure ==
    ASSUME error' = 0
    PROVE  ~ Fail(1) /\ ~ Fail(3) /\ ~ Fail(4)
BY DEF Fail

\* native_ct_intern makes a symbol.
LEMMA InternTouches ==
    ASSUME Inv, NEW p \in PackageIds, p # Keyword, NEW n \in SymbolNames, Intern(p, n),
           error' = 0
    PROVE  \E k : /\ Touches(p, n, k) /\ k \notin present[p] /\ HomesStay(p)
                  /\ ~ entries'[k].external /\ ~ entries'[k].shadowing
<1>1. Visible(p, n) = {} /\ NewSymbol(p, n, FALSE) /\ uses' = uses
  BY Zenon, NoFailure DEF Intern
<1>2. \A e \in present[p] : NameOf(e) # n
  BY <1>1, FreshName
<1>3. PICK h \in BOOLEAN : h = FALSE
  OBVIOUS
<1>4. NewSymbol(p, n, h)
  BY Zenon, <1>1, <1>3
<1> QED BY <1>1, <1>2, <1>3, <1>4, NewTouches

\* native_ct_shadow_name marks the record of the name or makes one.
LEMMA ShadowTouches ==
    ASSUME Inv, NEW p \in PackageIds, p # Keyword, NEW n \in SymbolNames, ShadowName(p, n),
           error' = 0
    PROVE  \E k : /\ Touches(p, n, k) /\ Grows(p, k) /\ HomesStay(p)
                  /\ entries'[k].shadowing
                  /\ k \in present[p] => entries'[k].external = entries[k].external
                  /\ k \notin present[p] => /\ ~ entries'[k].external
                                            /\ symbols'[entries'[k].symbol].home = p
<1> DEFINE f == FindPresent(p, n, FALSE)
           rec == [entries[f] EXCEPT !.shadowing = TRUE]
<1>0. TypeOK /\ IndexAgrees
  BY DEF Inv
<1>1. CASE f # 0 /\ SetEntry(f, rec) /\ uses' = uses /\ symbols' = symbols
  <2>1. f \in present[p] /\ NameOf(f) = n
    BY <1>0, <1>1, Found
  <2>2. entries[f] \in Presence /\ entries[f].symbol \in 1..Len(symbols)
    BY <1>0, <2>1, EntryFacts
  <2>3. /\ rec.symbol = entries[f].symbol /\ rec.external = entries[f].external
        /\ rec.shadowing
    BY <2>2 DEF Presence
  <2>4. SymbolsNamed /\ HomesStay(p)
    BY <1>1, NamesAreKept DEF HomesStay
  <2>5. symbols[rec.symbol].name = n
    BY <2>1, <2>3 DEF NameOf
  <2> HIDE DEF rec, f
  <2>6. Touches(p, n, f) /\ entries'[f] = rec
    BY <1>1, <2>1, <2>2, <2>3, <2>4, <2>5, SetTouches
  <2> QED BY <2>1, <2>3, <2>4, <2>6 DEF Grows
<1>2. CASE f = 0 /\ NewSymbol(p, n, TRUE) /\ uses' = uses
  <2>1. \A e \in present[p] : NameOf(e) # n
    BY <1>0, <1>2, Found
  <2>2. PICK h \in BOOLEAN : h = TRUE
    OBVIOUS
  <2>3. NewSymbol(p, n, h)
    BY Zenon, <1>2, <2>2
  <2>4. PICK k : /\ Touches(p, n, k) /\ k \notin present[p] /\ HomesStay(p)
                 /\ ~ entries'[k].external /\ entries'[k].shadowing = h
                 /\ symbols'[entries'[k].symbol].home = p
    BY <1>2, <2>1, <2>3, NewTouches
  <2> QED BY <2>2, <2>4 DEF Grows
<1>3. uses' = uses /\ (f # 0 => symbols' = symbols)
  BY Zenon DEF ShadowName, Fail, KeepNames, tables
<1>4. (f # 0 /\ SetEntry(f, rec)) \/ (f = 0 /\ NewSymbol(p, n, TRUE))
  BY Zenon, NoFailure DEF ShadowName
<1> QED BY Zenon, <1>1, <1>2, <1>3, <1>4

\* native_ct_import_symbol keeps the record that holds the symbol or makes one.
LEMMA ImportTouches ==
    ASSUME Inv, NEW p \in PackageIds, NEW s, NEW n, ImportSymbol(p, s), error' = 0,
           n = symbols[s].name
    PROVE  \E k : /\ Touches(p, n, k) /\ Grows(p, k) /\ HomesStay(p)
                  /\ entries'[k].symbol = s
                  /\ k \in present[p] => entries'[k] = entries[k]
                  /\ k \notin present[p] => ~ entries'[k].external /\ ~ entries'[k].shadowing
<1>0. TypeOK /\ IndexAgrees
  BY DEF Inv
<1>1. /\ ValidPair(p, s) /\ Visible(p, n) \subseteq {s} /\ KeepNames
      /\ symbols' = IF symbols[s].home = 0 THEN [symbols EXCEPT ![s].home = p] ELSE symbols
      /\ \/ FindPresent(p, n, FALSE) # 0 /\ KeepRecords
         \/ FindPresent(p, n, FALSE) = 0 /\ AddPresence(p, s, n, FALSE, FALSE)
  BY Zenon, NoFailure DEF ImportSymbol, ImportCommit
<1>2. s \in 1..Len(symbols) /\ n \in SymbolNames
  BY <1>0, <1>1, Valid DEF ValidPair
<1>3. /\ HomeChange
      /\ \A t \in 1..Len(symbols) :
            symbols'[t].home = symbols[t].home \/ (t = s /\ symbols'[t].home = p)
  BY <1>1, <1>2, HomeGiven
<1>4. SymbolsNamed /\ HomesStay(p) /\ uses' = uses
  BY <1>1, <1>3, NamesAreKept DEF HomesStay, KeepNames
<1>5. CASE FindPresent(p, n, FALSE) # 0 /\ KeepRecords
  <2>1. PICK k : k = FindPresent(p, n, FALSE)
    OBVIOUS
  <2>2. k \in present[p] /\ NameOf(k) = n
    BY <1>0, <1>2, <1>5, <2>1, Found
  <2>3. entries[k].symbol = s
    <3>1. \A t : t \in Visible(p, n) <=> Means(p, n, t)
      BY <1>0, <1>2, VisibleMeans
    <3>2. Means(p, n, entries[k].symbol)
      BY <2>2 DEF Means
    <3> QED BY <1>1, <3>1, <3>2
  <2>4. UNCHANGED <<present, entries>>
    BY <1>5 DEF KeepRecords
  <2>5. \A e \in present[p] : entries[e].symbol \in 1..Len(symbols)
    BY <1>0, EntryFacts
  <2>6. \A e \in present[p] : NameOf(e)' = NameOf(e)
    BY <1>4, <2>4, <2>5 DEF NameOf, SymbolsNamed
  <2>7. \A e \in present[p] : NameOf(e) = n <=> e = k
    BY <1>0, <2>2 DEF IndexAgrees
  <2>8. Touches(p, n, k)
    BY <1>4, <2>2, <2>4, <2>6, <2>7 DEF Touches
  <2> QED BY <1>4, <2>2, <2>3, <2>4, <2>8 DEF Grows
<1>6. CASE FindPresent(p, n, FALSE) = 0 /\ AddPresence(p, s, n, FALSE, FALSE)
  <2>1. \A e \in present[p] : NameOf(e) # n
    BY <1>0, <1>2, <1>6, Found
  <2>2. s \in 1..Len(symbols') /\ symbols'[s].name = n
    BY <1>2, <1>3 DEF HomeChange
  <2>3. PICK k : k = Len(entries) + 1
    OBVIOUS
  <2>4. PICK x \in BOOLEAN : x = FALSE
    OBVIOUS
  <2>5. AddPresence(p, s, n, x, x)
    BY Zenon, <1>6, <2>4
  <2>6. /\ Touches(p, n, k) /\ k \notin present[p]
        /\ entries'[k].symbol = s /\ entries'[k].external = x /\ entries'[k].shadowing = x
    BY <1>2, <1>4, <2>1, <2>2, <2>3, <2>5, AddTouches
  <2> QED BY <1>4, <2>4, <2>6 DEF Grows
<1> QED BY <1>1, <1>5, <1>6

\* native_ct_export_symbol marks the record that holds the symbol or makes one.
LEMMA ExportTouches ==
    ASSUME Inv, NEW p \in PackageIds, NEW s, NEW n, ExportSymbol(p, s), error' = 0,
           n = symbols[s].name
    PROVE  \E k : /\ Touches(p, n, k) /\ Grows(p, k) /\ HomesStay(p)
                  /\ entries'[k].symbol = s /\ entries'[k].external
                  /\ k \in present[p] => entries'[k].shadowing = entries[k].shadowing
                  /\ k \notin present[p] => ~ entries'[k].shadowing
<1> DEFINE f == FindPresent(p, n, FALSE)
           rec == [entries[f] EXCEPT !.external = TRUE]
<1>0. TypeOK /\ IndexAgrees
  BY DEF Inv
<1>1. /\ ValidPair(p, s) /\ Visible(p, n) = {s} /\ KeepNames /\ symbols' = symbols
      /\ \/ f # 0 /\ SetEntry(f, rec)
         \/ f = 0 /\ AddPresence(p, s, n, TRUE, FALSE)
  BY Zenon, NoFailure DEF ExportSymbol, MarkExternal
<1>2. s \in 1..Len(symbols) /\ n \in SymbolNames
  BY <1>0, <1>1, Valid DEF ValidPair
<1>4. SymbolsNamed /\ HomesStay(p) /\ uses' = uses
  BY <1>1, NamesAreKept DEF HomesStay, KeepNames
<1>5. CASE f # 0 /\ SetEntry(f, rec)
  <2>1. f \in present[p] /\ NameOf(f) = n
    BY <1>0, <1>2, <1>5, Found
  <2>2. entries[f] \in Presence /\ entries[f].symbol \in 1..Len(symbols)
    BY <1>0, <2>1, EntryFacts
  <2>3. /\ rec.symbol = entries[f].symbol /\ rec.shadowing = entries[f].shadowing
        /\ rec.external
    BY <2>2 DEF Presence
  <2>4. entries[f].symbol = s
    <3> HIDE DEF f
    <3>1. \A t : t \in Visible(p, n) <=> Means(p, n, t)
      BY <1>0, <1>2, VisibleMeans
    <3>2. Means(p, n, entries[f].symbol)
      BY <2>1 DEF Means
    <3> QED BY <1>1, <3>1, <3>2
  <2>5. symbols[rec.symbol].name = n
    BY <2>1, <2>3 DEF NameOf
  <2> HIDE DEF rec, f
  <2>6. Touches(p, n, f) /\ entries'[f] = rec
    BY <1>2, <1>4, <1>5, <2>1, <2>2, <2>3, <2>5, SetTouches
  <2> QED BY <1>4, <2>1, <2>3, <2>4, <2>6 DEF Grows
<1>6. CASE f = 0 /\ AddPresence(p, s, n, TRUE, FALSE)
  <2>1. \A e \in present[p] : NameOf(e) # n
    BY <1>0, <1>2, <1>6, Found
  <2>2. s \in 1..Len(symbols') /\ symbols'[s].name = n
    BY <1>1, <1>2
  <2>3. PICK k : k = Len(entries) + 1
    OBVIOUS
  <2>4. PICK x \in BOOLEAN, h \in BOOLEAN : x = TRUE /\ h = FALSE
    OBVIOUS
  <2>5. AddPresence(p, s, n, x, h)
    BY Zenon, <1>6, <2>4
  <2>6. /\ Touches(p, n, k) /\ k \notin present[p]
        /\ entries'[k].symbol = s /\ entries'[k].external = x /\ entries'[k].shadowing = h
    BY <1>2, <1>4, <2>1, <2>2, <2>3, <2>5, AddTouches
  <2> QED BY <1>4, <2>4, <2>6 DEF Grows
<1> QED BY <1>1, <1>5, <1>6

\* native_ct_shadowing_import makes the record of the name hold the symbol; a
\* symbol it held before loses its home in the package.
LEMMA ShadowingTouches ==
    ASSUME Inv, NEW p \in PackageIds, NEW s, NEW n, ShadowingImport(p, s), error' = 0,
           n = symbols[s].name
    PROVE  \E k : /\ Touches(p, n, k)
                  /\ entries'[k].symbol = s /\ entries'[k].shadowing
                  /\ (k \in present[p] => entries[k].symbol = s) => Grows(p, k) /\ HomesStay(p)
                  /\ k \in present[p] => OtherHomesStay(p, k)
                  /\ entries'[k].external => k \in present[p] /\ entries[k].external
<1> DEFINE f == FindPresent(p, n, FALSE)
           mark == [entries[f] EXCEPT !.shadowing = TRUE]
           take == [symbol |-> s, external |-> FALSE, shadowing |-> TRUE]
<1>0. TypeOK /\ IndexAgrees
  BY DEF Inv
<1>1. /\ ValidPair(p, s) /\ KeepNames
      /\ \/ f = 0 /\ AddPresence(p, s, n, FALSE, TRUE) /\ symbols' = symbols
         \/ f # 0 /\ entries[f].symbol = s /\ SetEntry(f, mark) /\ symbols' = symbols
         \/ f # 0 /\ entries[f].symbol # s /\ DetachHome(p, entries[f].symbol) /\ SetEntry(f, take)
  BY Zenon, NoFailure DEF ShadowingImport
<1>2. s \in 1..Len(symbols) /\ n \in SymbolNames /\ uses' = uses
  BY <1>0, <1>1, Valid DEF ValidPair, KeepNames
<1>3. f # 0 => /\ f \in present[p] /\ NameOf(f) = n
               /\ entries[f] \in Presence /\ entries[f].symbol \in 1..Len(symbols)
  <2>1. f # 0 => f \in present[p] /\ NameOf(f) = n
    BY <1>0, <1>2, Found
  <2> QED BY <1>0, <2>1, EntryFacts
<1>4. symbols' = symbols => SymbolsNamed /\ HomesStay(p)
  BY NamesAreKept DEF HomesStay
<1>5. CASE f = 0 /\ AddPresence(p, s, n, FALSE, TRUE) /\ symbols' = symbols
  <2>1. \A e \in present[p] : NameOf(e) # n
    BY <1>0, <1>2, <1>5, Found
  <2>2. s \in 1..Len(symbols') /\ symbols'[s].name = n
    BY <1>2, <1>5
  <2>3. PICK k : k = Len(entries) + 1
    OBVIOUS
  <2>4. PICK x \in BOOLEAN, h \in BOOLEAN : x = FALSE /\ h = TRUE
    OBVIOUS
  <2>5. AddPresence(p, s, n, x, h)
    BY Zenon, <1>5, <2>4
  <2>6. /\ Touches(p, n, k) /\ k \notin present[p]
        /\ entries'[k].symbol = s /\ entries'[k].external = x /\ entries'[k].shadowing = h
    BY <1>2, <1>4, <1>5, <2>1, <2>2, <2>3, <2>5, AddTouches
  <2> QED BY <1>4, <1>5, <2>4, <2>6 DEF Grows
<1>6. CASE f # 0 /\ entries[f].symbol = s /\ SetEntry(f, mark) /\ symbols' = symbols
  <2>1. /\ mark.symbol = entries[f].symbol /\ mark.external = entries[f].external
        /\ mark.shadowing
    BY <1>3, <1>6 DEF Presence
  <2>2. symbols[mark.symbol].name = n
    BY <1>6, <2>1
  <2> HIDE DEF mark, f
  <2>3. Touches(p, n, f) /\ entries'[f] = mark
    BY <1>2, <1>3, <1>4, <1>6, <2>1, <2>2, SetTouches
  <2>4. OtherHomesStay(p, f)
    BY <1>6 DEF OtherHomesStay
  <2> QED BY <1>3, <1>4, <1>6, <2>1, <2>3, <2>4 DEF Grows
<1>7. CASE /\ f # 0 /\ entries[f].symbol # s
           /\ DetachHome(p, entries[f].symbol) /\ SetEntry(f, take)
  <2>1. take.symbol = s /\ ~ take.external /\ take.shadowing
    OBVIOUS
  <2>2. symbols[take.symbol].name = n
    BY <2>1
  <2> HIDE DEF take, f
  <2>3. PICK t : t = entries[f].symbol
    OBVIOUS
  <2>4. t \in 1..Len(symbols) /\ DetachHome(p, t)
    BY <1>3, <1>7, <2>3
  <2>5. HomeChange
    BY <2>4, Detached
  <2>6. SymbolsNamed
    BY <2>5, NamesAreKept
  <2>7. OtherHomesStay(p, f)
    <3>1. symbols \in Seq(Symbol)
      BY <1>0 DEF TypeOK
    <3> QED BY <2>3, <2>4, <3>1 DEF DetachHome, OtherHomesStay
  <2>8. Touches(p, n, f) /\ entries'[f] = take
    BY <1>2, <1>3, <1>7, <2>1, <2>2, <2>6, SetTouches
  <2> QED BY <1>3, <1>7, <2>1, <2>7, <2>8
<1> QED BY <1>1, <1>5, <1>6, <1>7

-----------------------------------------------------------------------------
(* What has been applied of a form, and where the records of its package   *)
(* come from.                                                              *)

\* The lookups as functions.
PackageOf == [m \in PackageNames |-> FindPackage(m)]
VisibleIn == [q \in PackageIds |-> [n \in SymbolNames |-> Visible(q, n)]]

\* The order of the arguments of form f; some of T belong to phases up to i.
PhaseAt(f, t) == Phase(f.options[t[1]].kind)
Before(f, s, t) ==
    \/ PhaseAt(f, s) < PhaseAt(f, t)
    \/ /\ PhaseAt(f, s) = PhaseAt(f, t)
       /\ s[1] < t[1] \/ (s[1] = t[1] /\ s[2] < t[2])
Pending(f, T, i) == \E t \in T : PhaseAt(f, t) <= i

\* What the form says of a name.
ShadowsIn(f, n) ==
    \E o \in DOMAIN f.options :
       /\ f.options[o].kind \in {"shadow", "shadowing-import-from"}
       /\ n \in Arguments(f.options[o])
ImportedBy(f, D, n) ==
    \E d \in D : /\ d[2] # 0 /\ f.options[d[1]].kind = "import-from"
                 /\ f.options[d[1]].names[d[2]] = n
Overridden(f, o, n) ==
    \E l \in DOMAIN f.options : /\ o < l /\ f.options[l].kind = "shadowing-import-from"
                                /\ n \in Arguments(f.options[l])
UseNames(f) ==
    UNION {Arguments(f.options[o]) : o \in {o \in DOMAIN f.options : f.options[o].kind = "use"}}
\* What native_package_validate_definition makes sure of.
WellFormed(f) ==
    /\ \A o \in DOMAIN f.options : f.options[o].kind # "other"
    /\ \A o, l \in DOMAIN f.options :
          DisjointKinds(f.options[o].kind, f.options[l].kind) =>
             \A n \in Arguments(f.options[o]), m \in Arguments(f.options[l]) : n # m

\* What argument i of option o asked for holds in package p, and no later phase
\* undoes it.
Kept(p, f, o, i) ==
    LET n == f.options[o].names[i]
        kind == f.options[o].kind
        q == PackageOf[f.options[o].from]
    IN /\ kind = "nicknames" => PackageOf[n] = p
       /\ kind = "use" => PackageOf[n] \in uses[p]
       /\ kind = "shadow" => \E e \in present[p] :
             NameOf(e) = n /\ entries[e].shadowing /\ symbols[entries[e].symbol].home = p
       /\ kind = "import-from" =>
             q # 0 /\ \E e \in present[p] :
                NameOf(e) = n /\ VisibleIn[q][n] = {entries[e].symbol}
       /\ kind = "shadowing-import-from" =>
             q # 0 /\ \E e \in present[p] :
                /\ NameOf(e) = n /\ entries[e].shadowing
                /\ VisibleIn[q][n] = {entries[e].symbol} \/ Overridden(f, o, n)
       /\ kind = "intern" => VisibleIn[p][n] # {}
       /\ kind = "export" => \E e \in present[p] : NameOf(e) = n /\ entries[e].external

\* Where record e of the package comes from when the arguments T are left.
Provenance(p, f, T, e) ==
    /\ entries[e].shadowing => ShadowsIn(f, NameOf(e))
    /\ ~ entries[e].shadowing =>
          /\ ~ Pending(f, T, 4)
          /\ Pending(f, T, 5) => ImportedBy(f, Steps(f) \ T, NameOf(e))
    /\ entries[e].external => ~ Pending(f, T, 6)
    /\ Pending(f, T, 2) => symbols[entries[e].symbol].home = p

\* What holds in package p when the arguments T of form f are left.
Held(p, f, T) ==
    /\ \A d \in Steps(f) \ T : d[2] # 0 => Kept(p, f, d[1], d[2])
    /\ \A e \in present[p] : Provenance(p, f, T, e)
    /\ \A q \in uses[p] : \E m \in UseNames(f) : PackageOf[m] = q

\* While a form is applied: it is valid, its arguments are taken in order, and its
\* package holds what those taken asked for.
FormInv ==
    /\ Len(pname) >= Len(SeedPackages)
    /\ stage = "applying" =>
          /\ package # Keyword /\ WellFormed(form)
          /\ \A d \in Steps(form) \ todo, t \in todo : Before(form, d, t)
          /\ Held(package, form, todo)

-----------------------------------------------------------------------------

\* The phase of each kind of option.
LEMMA PhaseNumbers ==
    /\ Phase("nicknames") = 1 /\ Phase("shadow") = 2 /\ Phase("shadowing-import-from") = 3
    /\ Phase("use") = 4 /\ Phase("import-from") = 5 /\ Phase("intern") = 6
    /\ Phase("export") = 7
<1>1. /\ Phases[1] = "nicknames" /\ Phases[2] = "shadow"
      /\ Phases[3] = "shadowing-import-from" /\ Phases[4] = "use"
      /\ Phases[5] = "import-from" /\ Phases[6] = "intern" /\ Phases[7] = "export"
  BY DEF Phases
<1>2. \A i \in 1..7 : i = 1 \/ i = 2 \/ i = 3 \/ i = 4 \/ i = 5 \/ i = 6 \/ i = 7
  OBVIOUS
<1>3. \A i, j \in 1..7 : Phases[i] = Phases[j] => i = j
  BY <1>1, <1>2
<1>4. ASSUME NEW i \in 1..7 PROVE Phase(Phases[i]) = i
  BY <1>3 DEF Phase
<1> HIDE DEF Phases
<1> QED BY <1>1, <1>4

\* The options and the arguments of a form.
LEMMA StepFacts ==
    ASSUME NEW f \in Forms, NEW s \in Steps(f), NEW option, option = f.options[s[1]],
           WellFormed(f)
    PROVE  /\ s[1] \in DOMAIN f.options /\ s[1] \in Nat /\ s[2] \in Nat
           /\ s = <<s[1], s[2]>>
           /\ s[2] # 0 => /\ s[2] \in DOMAIN option.names
                          /\ option.names[s[2]] \in Arguments(option)
           /\ option.kind \in {"nicknames", "use", "shadow", "intern", "export",
                               "import-from", "shadowing-import-from"}
           /\ option.kind \in Importing => option.from \in PackageNames
           /\ option.kind \in NamesPackages =>
                 s[2] # 0 /\ option.names[s[2]] \in PackageNames
           /\ option.kind \in {"shadow", "intern", "export"} =>
                 s[2] # 0 /\ option.names[s[2]] \in SymbolNames
           /\ option.kind \in Importing /\ s[2] # 0 =>
                 option.names[s[2]] \in SymbolNames
<1>1. PICK o \in DOMAIN f.options :
         s \in {o} \X (DOMAIN f.options[o].names
                        \cup IF f.options[o].kind \in Importing THEN {0} ELSE {})
  BY DEF Steps
<1>2. f.options \in Seq(Option)
  BY FormsAssumption DEF Form
<1>3. s[1] = o /\ s = <<s[1], s[2]>>
  BY <1>1
<1>4. option \in Option /\ s[2] \in DOMAIN option.names
                                     \cup IF option.kind \in Importing THEN {0} ELSE {}
  BY <1>1, <1>2, <1>3
<1>5. s[1] \in DOMAIN f.options /\ s[1] \in Nat
  BY <1>1, <1>2, <1>3
<1>6. option.kind \in Importing => option.from \in PackageNames
  BY <1>4 DEF Option, NamesPackages, Importing
<1>7. /\ option.kind \in NamesPackages => s[2] # 0 /\ option.names[s[2]] \in PackageNames
      /\ option.kind \in {"shadow", "intern", "export"} =>
            s[2] # 0 /\ option.names[s[2]] \in SymbolNames
      /\ option.kind \in Importing /\ s[2] # 0 => option.names[s[2]] \in SymbolNames
  BY StepNames
<1>8. option.names \in Seq(PackageNames) \/ option.names \in Seq(SymbolNames)
  <2>1. option.kind # "other"
    BY <1>1, <1>3 DEF WellFormed
  <2> QED BY <1>4, <2>1 DEF Option, NamesPackages, Importing
<1>9. option.kind \in {"nicknames", "use", "shadow", "intern", "export",
                       "import-from", "shadowing-import-from"}
  <2>1. option.kind # "other"
    BY <1>1, <1>3 DEF WellFormed
  <2> QED BY <1>4, <2>1 DEF Option, NamesPackages, Importing
<1>10. s[2] # 0 => s[2] \in DOMAIN option.names /\ option.names[s[2]] \in Arguments(option)
  <2>1. s[2] # 0 => s[2] \in DOMAIN option.names
    BY <1>4
  <2> QED BY <2>1 DEF Arguments
<1>11. s[2] \in Nat
  BY <1>4, <1>8
<1> QED BY <1>3, <1>5, <1>6, <1>7, <1>9, <1>10, <1>11

\* The functions give what the lookups give, before and after a step.
LEMMA LookupSymbol ==
    ASSUME NEW q \in PackageIds, NEW n \in SymbolNames
    PROVE  VisibleIn[q][n] = Visible(q, n) /\ VisibleIn'[q][n] = Visible(q, n)'
<1> DEFINE Q == VisibleIn[q][n] = Visible(q, n)
<1>1. Q
  BY DEF VisibleIn
<1> HIDE DEF Q
<1>2. Q'
  BY <1>1, PTL
<1> QED BY <1>1, <1>2 DEF Q

\* The function finds what FindPackage finds, in the next state as well.
LEMMA LookupPackage ==
    ASSUME NEW m \in PackageNames
    PROVE  PackageOf[m] = FindPackage(m) /\ PackageOf'[m] = FindPackage(m)'
<1> DEFINE Q == PackageOf[m] = FindPackage(m)
<1>1. Q
  BY DEF PackageOf
<1> HIDE DEF Q
<1>2. Q'
  BY <1>1, PTL
<1> QED BY <1>1, <1>2 DEF Q

\* A record decides what its name means.
LEMMA PresentMeans ==
    ASSUME NEW p \in PackageIds, NEW e
    PROVE  Inv /\ e \in present[p] =>
              NameOf(e) \in SymbolNames /\ VisibleIn[p][NameOf(e)] = {entries[e].symbol}
<1> SUFFICES ASSUME Inv, e \in present[p]
    PROVE  NameOf(e) \in SymbolNames /\ VisibleIn[p][NameOf(e)] = {entries[e].symbol}
  OBVIOUS
<1>1. TypeOK /\ IndexAgrees
  BY DEF Inv
<1>2. PICK n : n = NameOf(e)
  OBVIOUS
<1>3. n \in SymbolNames
  <2>1. entries[e].symbol \in 1..Len(symbols) /\ symbols \in Seq(Symbol)
    BY <1>1, EntryFacts DEF TypeOK
  <2>2. \A t \in 1..Len(symbols) : symbols[t].name \in SymbolNames
    BY <1>1, Valid DEF ValidSymbol
  <2> QED BY <1>2, <2>1, <2>2 DEF NameOf
<1>4. \A t : t \in VisibleIn[p][n] <=> Means(p, n, t)
  BY <1>1, <1>3, VisibleMeans, LookupSymbol
<1>5. \A f \in present[p] : NameOf(f) = n => f = e
  BY <1>1, <1>2 DEF IndexAgrees
<1>6. \A t : Means(p, n, t) <=> t = entries[e].symbol
  BY <1>2, <1>5 DEF Means
<1>7. VisibleIn[p][n] = {entries[e].symbol}
  BY <1>4, <1>6
<1> QED BY <1>2, <1>3, <1>7

\* PresentMeans holds of the next state as well.
LEMMA PresentMeansPrimed ==
    ASSUME NEW p \in PackageIds, NEW e
    PROVE  Inv' /\ e \in present'[p] =>
              NameOf(e)' \in SymbolNames /\ VisibleIn'[p][NameOf(e)'] = {entries'[e].symbol}
<1> DEFINE Q == Inv /\ e \in present[p] =>
                   NameOf(e) \in SymbolNames /\ VisibleIn[p][NameOf(e)] = {entries[e].symbol}
<1>1. Q
  BY PresentMeans
<1> HIDE DEF Q
<1>2. Q'
  BY <1>1, PTL
<1> QED BY <1>2 DEF Q

\* What a step of a form leaves of the world outside its package p, and what it
\* makes of the names of p.
Settled(p) ==
    /\ Local(p)
    /\ \A m \in PackageNames : PackageOf[m] # 0 => PackageOf'[m] = PackageOf[m]
    /\ \A q \in PackageIds : q # p =>
          \A n \in SymbolNames : VisibleIn'[q][n] = VisibleIn[q][n]
    /\ \A e \in present'[p] : VisibleIn'[p][NameOf(e)'] = {entries'[e].symbol}

\* A step of a form settles what is outside its package.
LEMMA FormStepSettles ==
    ASSUME Inv, Inv', Applying, Unused, stage = "applying", [FormNext]_allVars
    PROVE  Settled(package)
<1>1. Local(package) /\ package \in PackageIds
  BY ApplyingIsLocal DEF Applying
<1>2. ASSUME NEW m \in PackageNames, PackageOf[m] # 0
      PROVE  PackageOf'[m] = PackageOf[m]
  <2>1. FindPackage(m) # 0
    BY <1>2, LookupPackage
  <2>2. FindPackage(m)' = FindPackage(m)
    BY <2>1, FormIsOperation, StillFound
  <2> QED BY <2>2, LookupPackage
<1>3. ASSUME NEW q \in PackageIds, q # package, NEW n \in SymbolNames
      PROVE  VisibleIn'[q][n] = VisibleIn[q][n]
  <2>1. package \notin uses[q]
    BY <1>3 DEF Unused
  <2>2. Visible(q, n)' = Visible(q, n)
    BY <1>1, <1>3, <2>1, LocalMeaning
  <2> QED BY <2>2, LookupSymbol
<1>4. PICK p \in PackageIds : p = package
  BY <1>1
<1>5. \A e \in present'[p] : VisibleIn'[p][NameOf(e)'] = {entries'[e].symbol}
  BY PresentMeansPrimed
<1> QED BY <1>1, <1>2, <1>3, <1>4, <1>5 DEF Settled

\* Package p keeps its records and what it uses.
Widens(p) ==
    /\ uses[p] \subseteq uses'[p]
    /\ \A e \in present[p] : e \in present'[p] /\ NameOf(e)' = NameOf(e)

\* Its records keep their symbols and marks too, and these their home.
Enlarges(p) ==
    /\ Widens(p) /\ HomesStay(p)
    /\ \A e \in present[p] :
          /\ entries'[e].symbol = entries[e].symbol
          /\ entries[e].external => entries'[e].external
          /\ entries[e].shadowing => entries'[e].shadowing

\* A name that means something goes on meaning something.
LEMMA StaysVisible ==
    ASSUME Inv, Inv', NEW p \in PackageIds, Local(p), Widens(p), NEW n \in SymbolNames,
           VisibleIn[p][n] # {}
    PROVE  VisibleIn'[p][n] # {}
<1>0. TypeOK /\ IndexAgrees /\ TypeOK' /\ IndexAgrees'
  BY DEF Inv
<1>1. \A t : t \in VisibleIn[p][n] <=> Means(p, n, t)
  BY <1>0, VisibleMeans, LookupSymbol
<1>2. \A t : t \in VisibleIn'[p][n] <=> Means(p, n, t)'
  BY <1>0, VisibleMeansPrimed, LookupSymbol
<1>3. PICK t : Means(p, n, t)
  BY <1>1
<1>4. CASE \E e \in present'[p] : NameOf(e)' = n
  <2>1. PICK e \in present'[p] : NameOf(e)' = n
    BY <1>4
  <2>2. PICK u : u = entries'[e].symbol
    OBVIOUS
  <2>3. Means(p, n, u)'
    BY <2>1, <2>2 DEF Means
  <2> QED BY <1>2, <2>3
<1>5. CASE \A e \in present'[p] : NameOf(e)' # n
  <2>1. \A e \in present[p] : NameOf(e) # n
    BY <1>5 DEF Widens
  <2>2. PICK q \in uses[p] : \E e \in External(q) : NameOf(e) = n /\ entries[e].symbol = t
    BY <1>3, <2>1 DEF Means
  <2>3. PICK e \in present[q] : entries[e].external /\ NameOf(e) = n /\ entries[e].symbol = t
    BY <2>2 DEF External
  <2>4. q \in PackageIds /\ q # p /\ q \in uses'[p]
    BY <1>0, <2>1, <2>3 DEF TypeOK, Widens
  <2>5. e \in present'[q] /\ entries'[e] = entries[e] /\ NameOf(e)' = NameOf(e)
    BY <2>3, <2>4 DEF Local
  <2>6. Means(p, n, t)'
    BY <1>5, <2>3, <2>4, <2>5 DEF Means, External
  <2> QED BY <1>2, <2>6
<1> QED BY <1>4, <1>5

\* What an argument asked for goes on holding while the package is enlarged.
LEMMA KeptGrows ==
    ASSUME Inv, Inv', NEW p \in PackageIds, Settled(p), Enlarges(p),
           NEW f \in Forms, WellFormed(f), NEW d \in Steps(f), d[2] # 0,
           Kept(p, f, d[1], d[2])
    PROVE  Kept(p, f, d[1], d[2])'
<1> DEFINE option == f.options[d[1]]
           n == option.names[d[2]]
<1>1. /\ option.kind \in NamesPackages => n \in PackageNames
      /\ option.kind \in {"shadow", "intern", "export"} \cup Importing => n \in SymbolNames
      /\ option.kind \in Importing => option.from \in PackageNames
      /\ option.kind \in {"nicknames", "use", "shadow", "intern", "export",
                          "import-from", "shadowing-import-from"}
  BY StepFacts
<1>2. \A e \in present[p] : entries[e].symbol \in 1..Len(symbols)
  BY EntryFacts DEF Inv
<1>3. CASE option.kind = "nicknames"
  <2>1. n \in PackageNames /\ PackageOf[n] = p /\ PackageOf[n] # 0
    BY <1>1, <1>3 DEF NamesPackages, Kept
  <2> QED BY <1>3, <2>1 DEF Kept, Settled
<1>4. CASE option.kind = "use"
  <2>1. n \in PackageNames /\ PackageOf[n] \in uses[p]
    BY <1>1, <1>4 DEF NamesPackages, Kept
  <2>2. PackageOf[n] # 0
    <3>1. uses[p] \subseteq PackageIds
      BY DEF Inv, TypeOK
    <3> QED BY <2>1, <3>1
  <2> QED BY <1>4, <2>1, <2>2 DEF Kept, Settled, Enlarges, Widens
<1>5. CASE option.kind = "shadow"
  BY <1>2, <1>5 DEF Kept, Enlarges, Widens, HomesStay
<1>6. CASE option.kind = "intern"
  <2>1. n \in SymbolNames /\ VisibleIn[p][n] # {}
    BY <1>1, <1>6 DEF Kept
  <2>2. VisibleIn'[p][n] # {}
    BY <2>1, StaysVisible DEF Settled, Enlarges
  <2> QED BY <1>6, <2>2 DEF Kept
<1>7. CASE option.kind = "export"
  BY <1>7 DEF Kept, Enlarges, Widens
<1>8. ASSUME option.kind \in Importing, PackageOf[option.from] # 0
      PROVE  /\ PackageOf'[option.from] = PackageOf[option.from]
             /\ \A e \in present[p] :
                   /\ NameOf(e) = n
                   /\ VisibleIn[PackageOf[option.from]][n] = {entries[e].symbol}
                   => VisibleIn'[PackageOf[option.from]][n] = {entries'[e].symbol}
  <2>1. option.from \in PackageNames /\ n \in SymbolNames
    BY <1>1, <1>8
  <2>2. PICK q : q = PackageOf[option.from]
    OBVIOUS
  <2>3. q \in PackageIds
    BY <1>8, <2>1, <2>2, FoundPackage, LookupPackage
  <2>4. \A e \in present[p] : /\ entries'[e].symbol = entries[e].symbol
                              /\ e \in present'[p] /\ NameOf(e)' = NameOf(e)
    BY DEF Enlarges, Widens
  <2>5. \A e \in present[p] : NameOf(e) = n /\ VisibleIn[q][n] = {entries[e].symbol} =>
           VisibleIn'[q][n] = {entries'[e].symbol}
    <3>1. CASE q # p
      BY <2>1, <2>3, <2>4, <3>1 DEF Settled
    <3>2. CASE q = p
      BY <2>4, <3>2 DEF Settled
    <3> QED BY <3>1, <3>2
  <2> QED BY ZenonT(40), <1>8, <2>1, <2>2, <2>5 DEF Settled
<1>9. CASE option.kind = "import-from"
  <2>1. option.kind \in Importing
    BY <1>9 DEF Importing
  <2>2. PICK e \in present[p] : /\ PackageOf[option.from] # 0 /\ NameOf(e) = n
                                /\ VisibleIn[PackageOf[option.from]][n] = {entries[e].symbol}
    BY <1>9 DEF Kept
  <2>3. e \in present'[p] /\ NameOf(e)' = n
    BY <2>2 DEF Enlarges, Widens
  <2> QED BY ZenonT(40), <1>8, <1>9, <2>1, <2>2, <2>3 DEF Kept
<1>10. CASE option.kind = "shadowing-import-from"
  <2>1. option.kind \in Importing
    BY <1>10 DEF Importing
  <2>2. PICK e \in present[p] : /\ PackageOf[option.from] # 0 /\ NameOf(e) = n
                                /\ entries[e].shadowing
                                /\ \/ VisibleIn[PackageOf[option.from]][n] = {entries[e].symbol}
                                   \/ Overridden(f, d[1], n)
    BY <1>10 DEF Kept
  <2>3. e \in present'[p] /\ NameOf(e)' = n /\ entries'[e].shadowing
    BY ZenonT(40), <2>2 DEF Enlarges, Widens
  <2> QED BY ZenonT(40), <1>8, <1>10, <2>1, <2>2, <2>3 DEF Kept
<1> QED BY <1>1, <1>3, <1>4, <1>5, <1>6, <1>7, <1>9, <1>10

\* Touching one record enlarges the package when it grows.
LEMMA TouchingEnlarges ==
    ASSUME NEW p, NEW n, NEW k, Touches(p, n, k), Grows(p, k), HomesStay(p)
    PROVE  Enlarges(p)
BY DEF Touches, Grows, Enlarges, Widens

\* A package that keeps its records and uses is enlarged.
LEMMA KeepingEnlarges ==
    ASSUME NEW p, UNCHANGED <<present, entries, symbols>>, uses[p] \subseteq uses'[p]
    PROVE  Enlarges(p)
<1>1. \A e : NameOf(e)' = NameOf(e)
  BY DEF NameOf
<1> QED BY <1>1 DEF Enlarges, Widens, HomesStay

\* What precedes a shadowing import.
LEMMA BeforeShadowingImport ==
    ASSUME NEW f, NEW d, NEW s, Before(f, d, s),
           f.options[s[1]].kind = "shadowing-import-from"
    PROVE  /\ f.options[d[1]].kind \notin {"use", "import-from", "intern", "export"}
           /\ f.options[d[1]].kind = "shadowing-import-from" /\ d[1] # s[1] => d[1] < s[1]
BY PhaseNumbers DEF Before, PhaseAt

\* A shadowing import replaces a record only where an option of the same name gives
\* way to it: names that are shadowed otherwise are kept apart from it.
LEMMA KeptWhenShadowed ==
    ASSUME Inv, Inv', NEW p \in PackageIds, Settled(p),
           NEW f \in Forms, WellFormed(f), NEW s \in Steps(f), s[2] # 0,
           NEW n, n = f.options[s[1]].names[s[2]],
           f.options[s[1]].kind = "shadowing-import-from",
           NEW t, VisibleIn[PackageOf[f.options[s[1]].from]][n] = {t},
           NEW k \in present[p], Touches(p, n, k), OtherHomesStay(p, k),
           entries'[k].symbol = t, entries'[k].shadowing,
           NEW d \in Steps(f), d[2] # 0, Before(f, d, s), Kept(p, f, d[1], d[2])
    PROVE  Kept(p, f, d[1], d[2])'
<1> DEFINE option == f.options[d[1]]
           m == option.names[d[2]]
<1>1. /\ option.kind \in NamesPackages => m \in PackageNames
      /\ option.kind \in {"shadow", "intern", "export"} \cup Importing => m \in SymbolNames
      /\ option.kind \in Importing => option.from \in PackageNames
      /\ option.kind \in {"nicknames", "use", "shadow", "intern", "export",
                          "import-from", "shadowing-import-from"}
      /\ d[1] \in DOMAIN f.options /\ d[1] \in Nat /\ m \in Arguments(option)
  BY StepFacts
<1>2. /\ s[1] \in DOMAIN f.options /\ s[1] \in Nat /\ n \in Arguments(f.options[s[1]])
      /\ n \in SymbolNames
  BY StepFacts DEF Importing
<1>4. option.kind \in {"nicknames", "shadow", "shadowing-import-from"}
  BY ZenonT(40), <1>1, BeforeShadowingImport
<1>5. \A e \in present[p] : /\ NameOf(e) = n <=> e = k
                            /\ e \in present'[p] /\ NameOf(e)' = NameOf(e)
                            /\ e # k => entries'[e] = entries[e]
  BY DEF Touches
<1>6. CASE option.kind = "nicknames"
  <2>1. m \in PackageNames /\ PackageOf[m] = p /\ PackageOf[m] # 0
    <3>1. m \in PackageNames
      BY <1>1, <1>6 DEF NamesPackages
    <3>2. PackageOf[m] = p
      BY <1>6 DEF Kept
    <3> QED BY <3>1, <3>2
  <2> QED BY <1>6, <2>1 DEF Kept, Settled
<1>7. CASE option.kind = "shadow"
  <2>1. PICK e \in present[p] : /\ NameOf(e) = m /\ entries[e].shadowing
                                /\ symbols[entries[e].symbol].home = p
    BY <1>7 DEF Kept
  <2>2. m # n
    <3>1. DisjointKinds(option.kind, f.options[s[1]].kind)
      BY <1>7 DEF DisjointKinds, Importing
    <3> QED BY ZenonT(40), <1>1, <1>2, <3>1 DEF WellFormed
  <2>3. e # k /\ entries'[e] = entries[e]
    BY ZenonT(60), <1>5, <2>1, <2>2
  <2>4. entries[e].symbol \in 1..Len(symbols) /\ entries[e].symbol # entries[k].symbol
    <3>1. entries[e].symbol \in 1..Len(symbols)
      BY EntryFacts DEF Inv
    <3>2. NameOf(e) # NameOf(k)
      BY ZenonT(40), <1>5, <2>1, <2>2
    <3> QED BY <3>1, <3>2 DEF NameOf
  <2>5. symbols'[entries[e].symbol].home = p
    BY <2>1, <2>4 DEF OtherHomesStay
  <2> QED BY <1>5, <1>7, <2>1, <2>3, <2>5 DEF Kept
<1>8. CASE option.kind = "shadowing-import-from"
  <2>1. PICK q : q = PackageOf[option.from]
    OBVIOUS
  <2>2. PICK e \in present[p] : /\ q # 0 /\ NameOf(e) = m /\ entries[e].shadowing
                                /\ VisibleIn[q][m] = {entries[e].symbol} \/ Overridden(f, d[1], m)
    BY ZenonT(40), <1>8, <2>1 DEF Kept
  <2>3. option.from \in PackageNames /\ m \in SymbolNames
    BY <1>1, <1>8 DEF Importing
  <2>4. PackageOf'[option.from] = q
    BY ZenonT(40), <2>1, <2>2, <2>3 DEF Settled
  <2>5. q \in PackageIds
    BY ZenonT(40), <2>1, <2>2, <2>3, FoundPackage, LookupPackage
  <2>6. e \in present'[p] /\ NameOf(e)' = m /\ entries'[e].shadowing
    BY ZenonT(40), <1>5, <2>2
  <2>7. \/ entries'[e].symbol = entries[e].symbol
        \/ Overridden(f, d[1], m)
    <3>1. CASE m # n
      BY ZenonT(40), <1>5, <2>2, <3>1
    <3>2. CASE m = n /\ d[1] = s[1]
      <4>1. e = k
        BY ZenonT(40), <1>5, <2>2, <3>2
      <4>2. CASE VisibleIn[q][m] = {entries[e].symbol}
        BY ZenonT(40), <2>1, <3>2, <4>1, <4>2
      <4> QED BY ZenonT(40), <2>2, <4>2
    <3>3. CASE m = n /\ d[1] # s[1]
      <4>2. d[1] < s[1]
        BY ZenonT(40), <1>8, <3>3, BeforeShadowingImport
      <4> QED BY ZenonT(40), <1>2, <3>3, <4>2 DEF Overridden
    <3> QED BY <3>1, <3>2, <3>3
  <2>8. VisibleIn[q][m] = {entries[e].symbol} /\ entries'[e].symbol = entries[e].symbol =>
           VisibleIn'[q][m] = {entries'[e].symbol}
    <3>1. CASE q # p
      BY ZenonT(60), <2>3, <2>5, <3>1 DEF Settled
    <3>2. CASE q = p
      BY ZenonT(40), <2>6, <3>2 DEF Settled
    <3> QED BY ZenonT(40), <3>1, <3>2
  <2> QED BY ZenonT(40), <1>8, <2>2, <2>4, <2>6, <2>7, <2>8 DEF Kept
<1> QED BY <1>4, <1>6, <1>7, <1>8

\* Argument s of form f is the next of the arguments T.
Turn(f, T, s) ==
    /\ f \in Forms /\ WellFormed(f) /\ T \subseteq Steps(f) /\ s \in T
    /\ \A t \in T \ {s} : Before(f, s, t)

\* The phases before that of the argument are over.
LEMMA PhasesOver ==
    ASSUME NEW f, NEW T, NEW s, Turn(f, T, s), NEW t \in T
    PROVE  PhaseAt(f, t) \in Nat /\ PhaseAt(f, s) <= PhaseAt(f, t)
<1>1. PhaseAt(f, t) \in Nat /\ PhaseAt(f, s) \in Nat
  <2>1. /\ f.options[t[1]].kind \in {"nicknames", "use", "shadow", "intern", "export",
                                     "import-from", "shadowing-import-from"}
        /\ f.options[s[1]].kind \in {"nicknames", "use", "shadow", "intern", "export",
                                     "import-from", "shadowing-import-from"}
    BY StepFacts DEF Turn
  <2> QED BY <2>1, PhaseNumbers DEF PhaseAt
<1> QED BY <1>1 DEF Turn, Before

\* A record that stays keeps its provenance.
LEMMA ProvenanceStays ==
    ASSUME NEW p, NEW f, NEW T, NEW U, U \subseteq T, NEW e,
           NameOf(e)' = NameOf(e), entries'[e] = entries[e],
           symbols[entries[e].symbol].home = p => symbols'[entries[e].symbol].home = p,
           Provenance(p, f, T, e)
    PROVE  Provenance(p, f, U, e)'
<1>1. \A i : Pending(f, U, i) => Pending(f, T, i)
  BY DEF Pending
<1>2. \A n : ImportedBy(f, Steps(f) \ T, n) => ImportedBy(f, Steps(f) \ U, n)
  BY DEF ImportedBy
<1> QED BY <1>1, <1>2 DEF Provenance

\* So do all but the record that is touched.
LEMMA ProvenanceStep ==
    ASSUME Inv, NEW p \in PackageIds, NEW f, NEW T, NEW U, U \subseteq T,
           NEW n, NEW k, Touches(p, n, k),
           HomesStay(p) \/ (k \in present[p] /\ OtherHomesStay(p, k)),
           \A e \in present[p] : Provenance(p, f, T, e), Provenance(p, f, U, k)'
    PROVE  \A e \in present'[p] : Provenance(p, f, U, e)'
<1> SUFFICES ASSUME NEW e \in present'[p], e # k PROVE Provenance(p, f, U, e)'
  OBVIOUS
<1>1. e \in present[p] /\ NameOf(e)' = NameOf(e) /\ entries'[e] = entries[e]
  BY DEF Touches
<1>2. entries[e].symbol \in 1..Len(symbols)
  BY <1>1, EntryFacts DEF Inv
<1>3. k \in present[p] => entries[e].symbol # entries[k].symbol
  <2>1. k \in present[p] => NameOf(e) # NameOf(k)
    BY <1>1 DEF Touches
  <2> QED BY <2>1 DEF NameOf
<1>4. symbols[entries[e].symbol].home = p => symbols'[entries[e].symbol].home = p
  BY <1>2, <1>3 DEF HomesStay, OtherHomesStay
<1> QED BY <1>1, <1>4, ProvenanceStays

\* The names of packages that a form uses.
LEMMA UseNamesArePackages ==
    ASSUME NEW f \in Forms, NEW m \in UseNames(f)
    PROVE  m \in PackageNames
<1>1. PICK o \in DOMAIN f.options : f.options[o].kind = "use" /\ m \in Arguments(f.options[o])
  BY DEF UseNames
<1>2. f.options \in Seq(Option)
  BY FormsAssumption DEF Form
<1>3. f.options[o] \in Option
  BY <1>2
<1>4. f.options[o].names \in Seq(PackageNames)
  BY <1>1, <1>3 DEF Option, NamesPackages, Importing
<1> QED BY <1>1, <1>4 DEF Arguments

\* The packages that p uses are still found under the names the form gives them.
LEMMA UsesNamed ==
    ASSUME Inv, NEW p \in PackageIds, Settled(p), NEW f \in Forms, NEW T, Held(p, f, T),
           NEW q \in uses[p]
    PROVE  \E m \in UseNames(f) : PackageOf'[m] = q
<1>1. PICK m \in UseNames(f) : PackageOf[m] = q
  BY DEF Held
<1>2. m \in PackageNames
  BY UseNamesArePackages
<1>3. q # 0
  <2>1. uses[p] \subseteq PackageIds
    BY DEF Inv, TypeOK
  <2> QED BY <2>1
<1> QED BY <1>1, <1>2, <1>3 DEF Settled

\* A step that touches one record and keeps what it holds.
LEMMA HeldTouched ==
    ASSUME Inv, Inv', NEW p \in PackageIds, Settled(p), NEW f, NEW T, NEW s, Turn(f, T, s),
           NEW U, U = T \/ (U = T \ {s} /\ (s[2] # 0 => Kept(p, f, s[1], s[2])')),
           NEW n, NEW k, Touches(p, n, k), Grows(p, k), HomesStay(p),
           Provenance(p, f, U, k)', Held(p, f, T)
    PROVE  Held(p, f, U)'
<1>1. Enlarges(p)
  BY TouchingEnlarges
<1>2. ASSUME NEW d \in Steps(f) \ U, d[2] # 0 PROVE Kept(p, f, d[1], d[2])'
  <2>1. CASE d \in T
    <3>1. d = s /\ U # T
      BY <1>2, <2>1
    <3> QED BY <1>2, <3>1
  <2>2. CASE d \notin T
    <3>1. Kept(p, f, d[1], d[2])
      BY <1>2, <2>2 DEF Held
    <3> QED BY <1>1, <1>2, <3>1, KeptGrows DEF Turn
  <2> QED BY <2>1, <2>2
<1>3. \A e \in present'[p] : Provenance(p, f, U, e)'
  BY ProvenanceStep DEF Held
<1>4. \A q \in uses'[p] : \E m \in UseNames(f) : PackageOf'[m] = q
  BY UsesNamed DEF Touches, Turn
<1> QED BY <1>2, <1>3, <1>4 DEF Held

\* A step that leaves the records alone.
LEMMA HeldUntouched ==
    ASSUME Inv, Inv', NEW p \in PackageIds, Settled(p), NEW f, NEW T, NEW s, Turn(f, T, s),
           NEW U, U = T \ {s}, s[2] # 0 => Kept(p, f, s[1], s[2])',
           UNCHANGED <<present, entries, symbols>>, uses[p] \subseteq uses'[p],
           \A q \in uses'[p] \ uses[p] : \E m \in UseNames(f) : PackageOf'[m] = q,
           Held(p, f, T)
    PROVE  Held(p, f, U)'
<1>1. Enlarges(p)
  BY KeepingEnlarges
<1>2. ASSUME NEW d \in Steps(f) \ U, d[2] # 0 PROVE Kept(p, f, d[1], d[2])'
  <2>1. CASE d \in T
    <3>1. d = s
      BY <1>2, <2>1
    <3> QED BY <1>2, <3>1
  <2>2. CASE d \notin T
    <3>1. Kept(p, f, d[1], d[2])
      BY <1>2, <2>2 DEF Held
    <3> QED BY <1>1, <1>2, <3>1, KeptGrows DEF Turn
  <2> QED BY <2>1, <2>2
<1>3. ASSUME NEW e \in present'[p] PROVE Provenance(p, f, U, e)'
  <2>1. e \in present[p] /\ NameOf(e)' = NameOf(e)
    BY DEF NameOf
  <2>2. Provenance(p, f, T, e)
    BY <2>1 DEF Held
  <2> QED BY <2>1, <2>2, ProvenanceStays
<1>4. \A q \in uses'[p] : \E m \in UseNames(f) : PackageOf'[m] = q
  BY UsesNamed DEF Turn
<1> QED BY <1>2, <1>3, <1>4 DEF Held

\* The phase of the argument, what is over and what is left when it is done.
LEMMA Left ==
    ASSUME NEW f, NEW T, NEW s, Turn(f, T, s), NEW kind, kind = f.options[s[1]].kind,
           NEW U, U = T \/ U = T \ {s}
    PROVE  /\ kind = "shadow" => Pending(f, T, 2) /\ Pending(f, T, 6)
           /\ kind \in {"shadowing-import-from", "import-from", "intern", "export"} =>
                 ~ Pending(f, U, 2)
           /\ kind \in {"import-from", "intern", "export"} => ~ Pending(f, U, 4)
           /\ kind \in {"intern", "export"} => ~ Pending(f, U, 5)
           /\ kind = "export" => ~ Pending(f, U, 6)
<1>1. PICK i : i = PhaseAt(f, s)
  OBVIOUS
<1>2. /\ kind = "shadow" => i = 2
      /\ kind = "shadowing-import-from" => i = 3
      /\ kind = "import-from" => i = 5
      /\ kind = "intern" => i = 6
      /\ kind = "export" => i = 7
  BY <1>1, PhaseNumbers DEF PhaseAt
<1>3. \A t \in U : PhaseAt(f, t) \in Nat /\ i <= PhaseAt(f, t)
  BY <1>1, PhasesOver
<1>4. s \in T
  BY DEF Turn
<1>5. kind = "shadow" => Pending(f, T, 2) /\ Pending(f, T, 6)
  BY <1>1, <1>2, <1>4 DEF Pending
<1>6. kind = "shadowing-import-from" => ~ Pending(f, U, 2)
  BY <1>2, <1>3 DEF Pending
<1>7. kind = "import-from" => ~ Pending(f, U, 2) /\ ~ Pending(f, U, 4)
  BY <1>2, <1>3 DEF Pending
<1>8. kind = "intern" => ~ Pending(f, U, 2) /\ ~ Pending(f, U, 4) /\ ~ Pending(f, U, 5)
  BY <1>2, <1>3 DEF Pending
<1>9. kind = "export" => /\ ~ Pending(f, U, 2) /\ ~ Pending(f, U, 4)
                         /\ ~ Pending(f, U, 5) /\ ~ Pending(f, U, 6)
  BY <1>2, <1>3 DEF Pending
<1> QED BY <1>5, <1>6, <1>7, <1>8, <1>9

\* What is held after :shadow took an argument.
LEMMA HeldShadow ==
    ASSUME Inv, Inv', NEW p \in PackageIds, p # Keyword, Settled(p),
           NEW f, NEW T, NEW s, Turn(f, T, s), Held(p, f, T), s[2] # 0,
           f.options[s[1]].kind = "shadow",
           NEW n, n = f.options[s[1]].names[s[2]], ShadowName(p, n), error' = 0
    PROVE  Held(p, f, T \ {s})'
<1>1. n \in SymbolNames /\ s[1] \in DOMAIN f.options /\ n \in Arguments(f.options[s[1]])
  BY StepFacts DEF Turn
<1>2. PICK k : /\ Touches(p, n, k) /\ Grows(p, k) /\ HomesStay(p)
               /\ entries'[k].shadowing
               /\ k \in present[p] => entries'[k].external = entries[k].external
               /\ k \notin present[p] => /\ ~ entries'[k].external
                                         /\ symbols'[entries'[k].symbol].home = p
  BY <1>1, ShadowTouches
<1>3. NameOf(k)' = n /\ k \in present'[p]
  BY <1>2 DEF Touches
<1>4. Pending(f, T, 2) /\ Pending(f, T, 6)
  BY Zenon, Left
<1>5. symbols'[entries'[k].symbol].home = p /\ ~ entries'[k].external
  <2>1. CASE k \notin present[p]
    BY <1>2, <2>1
  <2>2. CASE k \in present[p]
    <3>1. Provenance(p, f, T, k)
      BY <2>2 DEF Held
    <3>2. symbols[entries[k].symbol].home = p /\ ~ entries[k].external
      BY <1>4, <3>1 DEF Provenance
    <3>3. entries[k].symbol \in 1..Len(symbols)
      BY <2>2, EntryFacts DEF Inv
    <3> QED BY <1>2, <2>2, <3>2, <3>3 DEF Grows, HomesStay
  <2> QED BY <2>1, <2>2
<1>6. Kept(p, f, s[1], s[2])'
  BY <1>2, <1>3, <1>5 DEF Kept
<1>7. Provenance(p, f, T \ {s}, k)'
  <2>1. ShadowsIn(f, n)
    BY <1>1 DEF ShadowsIn
  <2> QED BY <1>2, <1>3, <1>5, <2>1 DEF Provenance
<1> QED BY <1>2, <1>6, <1>7, HeldTouched

\* What is held after :intern took an argument.
LEMMA HeldIntern ==
    ASSUME Inv, Inv', NEW p \in PackageIds, p # Keyword, Settled(p),
           NEW f, NEW T, NEW s, Turn(f, T, s), Held(p, f, T), s[2] # 0,
           f.options[s[1]].kind \in {"intern", "export"},
           NEW n, n = f.options[s[1]].names[s[2]], Intern(p, n), error' = 0,
           NEW U, U = T \/ (U = T \ {s} /\ f.options[s[1]].kind = "intern")
    PROVE  Held(p, f, U)'
<1>1. n \in SymbolNames
  BY StepFacts DEF Turn
<1>2. PICK k : /\ Touches(p, n, k) /\ k \notin present[p] /\ HomesStay(p)
               /\ ~ entries'[k].external /\ ~ entries'[k].shadowing
  BY <1>1, InternTouches
<1>3. NameOf(k)' = n /\ k \in present'[p] /\ Grows(p, k)
  BY <1>2 DEF Touches, Grows
<1>4. ~ Pending(f, U, 2) /\ ~ Pending(f, U, 4) /\ ~ Pending(f, U, 5)
  BY Zenon, Left
<1>5. VisibleIn'[p][n] # {}
  BY <1>3 DEF Settled
<1>6. f.options[s[1]].kind = "intern" => Kept(p, f, s[1], s[2])'
  BY <1>5 DEF Kept
<1>7. Provenance(p, f, U, k)'
  BY <1>2, <1>4 DEF Provenance
<1> QED BY <1>2, <1>3, <1>6, <1>7, HeldTouched

\* What is held after :export took an argument.
LEMMA HeldExport ==
    ASSUME Inv, Inv', NEW p \in PackageIds, Settled(p),
           NEW f, NEW T, NEW s, Turn(f, T, s), Held(p, f, T), s[2] # 0,
           f.options[s[1]].kind = "export",
           NEW n, n = f.options[s[1]].names[s[2]], NEW t, n = symbols[t].name,
           ExportSymbol(p, t), error' = 0
    PROVE  Held(p, f, T \ {s})'
<1>2. PICK k : /\ Touches(p, n, k) /\ Grows(p, k) /\ HomesStay(p)
               /\ entries'[k].symbol = t /\ entries'[k].external
               /\ k \in present[p] => entries'[k].shadowing = entries[k].shadowing
               /\ k \notin present[p] => ~ entries'[k].shadowing
  BY ExportTouches
<1>3. NameOf(k)' = n /\ k \in present'[p]
  BY <1>2 DEF Touches
<1>4. /\ ~ Pending(f, T \ {s}, 2) /\ ~ Pending(f, T \ {s}, 4)
      /\ ~ Pending(f, T \ {s}, 5) /\ ~ Pending(f, T \ {s}, 6)
  BY Zenon, Left
<1>5. entries'[k].shadowing => ShadowsIn(f, n)
  <2>1. CASE k \in present[p]
    <3>1. Provenance(p, f, T, k) /\ NameOf(k) = n
      BY <1>2, <2>1 DEF Held, Touches
    <3> QED BY <1>2, <2>1, <3>1 DEF Provenance
  <2>2. CASE k \notin present[p]
    BY <1>2, <2>2
  <2> QED BY <2>1, <2>2
<1>6. Kept(p, f, s[1], s[2])'
  BY <1>2, <1>3 DEF Kept
<1>7. Provenance(p, f, T \ {s}, k)'
  BY <1>3, <1>4, <1>5 DEF Provenance
<1> QED BY <1>2, <1>6, <1>7, HeldTouched

\* A symbol that is found under a name has it.
LEMMA MeaningNamed ==
    ASSUME Inv, NEW q \in PackageIds, NEW n \in SymbolNames, NEW t \in Visible(q, n)
    PROVE  symbols[t].name = n
<1>1. Means(q, n, t)
  BY VisibleMeans DEF Inv
<1> QED BY <1>1 DEF Means, NameOf, External

\* The package a symbol is imported from goes on giving it.
LEMMA SourceStays ==
    ASSUME Inv, NEW p \in PackageIds, Settled(p), NEW from \in PackageNames, NEW q,
           q = PackageOf[from], q # 0, NEW n \in SymbolNames, NEW t, VisibleIn[q][n] = {t},
           NEW k \in present'[p], NameOf(k)' = n, entries'[k].symbol = t
    PROVE  PackageOf'[from] = q /\ VisibleIn'[q][n] = {t}
<1>1. q \in PackageIds
  BY FoundPackage, LookupPackage
<1>2. CASE q # p
  BY <1>1, <1>2 DEF Settled
<1>3. CASE q = p
  BY <1>3 DEF Settled
<1> QED BY <1>2, <1>3 DEF Settled

\* What is held after :import-from took an argument.
LEMMA HeldImport ==
    ASSUME Inv, Inv', NEW p \in PackageIds, Settled(p),
           NEW f, NEW T, NEW s, Turn(f, T, s), Held(p, f, T), s[2] # 0,
           f.options[s[1]].kind = "import-from",
           NEW n, n = f.options[s[1]].names[s[2]], NEW t, n = symbols[t].name,
           NEW q, q = PackageOf[f.options[s[1]].from], q # 0, VisibleIn[q][n] = {t},
           ImportSymbol(p, t), error' = 0
    PROVE  Held(p, f, T \ {s})'
<1>1. /\ n \in SymbolNames /\ s[1] \in DOMAIN f.options /\ n \in Arguments(f.options[s[1]])
      /\ f.options[s[1]].from \in PackageNames
  BY StepFacts DEF Turn, Importing
<1>2. PICK k : /\ Touches(p, n, k) /\ Grows(p, k) /\ HomesStay(p)
               /\ entries'[k].symbol = t
               /\ k \in present[p] => entries'[k] = entries[k]
               /\ k \notin present[p] => ~ entries'[k].external /\ ~ entries'[k].shadowing
  BY ImportTouches
<1>3. NameOf(k)' = n /\ k \in present'[p]
  BY <1>2 DEF Touches
<1>4. PackageOf'[f.options[s[1]].from] = q /\ VisibleIn'[q][n] = {t}
  <2>1. PICK from : from = f.options[s[1]].from
    OBVIOUS
  <2>2. from \in PackageNames /\ n \in SymbolNames /\ q = PackageOf[from]
    BY <1>1, <2>1
  <2>3. k \in present'[p] /\ NameOf(k)' = n /\ entries'[k].symbol = t
    BY <1>2, <1>3
  <2>4. PackageOf'[from] = q /\ VisibleIn'[q][n] = {t}
    BY SMTT(30), <2>2, <2>3, SourceStays
  <2> QED BY <2>1, <2>4
<1>5. Kept(p, f, s[1], s[2])'
  BY ZenonT(40), <1>2, <1>3, <1>4 DEF Kept
<1>6. Provenance(p, f, T \ {s}, k)'
  <2>1. CASE k \in present[p]
    <3>1. Provenance(p, f, T, k) /\ NameOf(k)' = NameOf(k)
      BY <1>2, <2>1 DEF Held, Touches
    <3>2. entries[k].symbol \in 1..Len(symbols)
      BY <2>1, EntryFacts DEF Inv
    <3>3. PICK U : U = T \ {s}
      OBVIOUS
    <3>4. Provenance(p, f, U, k)'
      BY <1>2, <2>1, <3>1, <3>2, <3>3, ProvenanceStays DEF HomesStay
    <3> QED BY <3>3, <3>4
  <2>2. CASE k \notin present[p]
    <3>1. ~ Pending(f, T \ {s}, 2) /\ ~ Pending(f, T \ {s}, 4)
      BY Zenon, Left
    <3>2. ImportedBy(f, Steps(f) \ (T \ {s}), n)
      BY DEF ImportedBy, Turn
    <3> QED BY <1>2, <1>3, <2>2, <3>1, <3>2 DEF Provenance
  <2> QED BY <2>1, <2>2
<1> QED BY <1>2, <1>5, <1>6, HeldTouched

\* What is held after :shadowing-import-from took an argument: a record it
\* replaces was asked for by an option that gives way to it.
LEMMA HeldShadowingImport ==
    ASSUME Inv, Inv', NEW p \in PackageIds, Settled(p),
           NEW f, NEW T, NEW s, Turn(f, T, s), Held(p, f, T), s[2] # 0,
           \A d \in Steps(f) \ T : Before(f, d, s),
           f.options[s[1]].kind = "shadowing-import-from",
           NEW n, n = f.options[s[1]].names[s[2]], NEW t, n = symbols[t].name,
           NEW q, q = PackageOf[f.options[s[1]].from], q # 0, VisibleIn[q][n] = {t},
           ShadowingImport(p, t), error' = 0
    PROVE  Held(p, f, T \ {s})'
<1>1. /\ n \in SymbolNames /\ s[1] \in DOMAIN f.options /\ n \in Arguments(f.options[s[1]])
      /\ f.options[s[1]].from \in PackageNames
  BY StepFacts DEF Turn, Importing
<1>2. PICK k : /\ Touches(p, n, k)
               /\ entries'[k].symbol = t /\ entries'[k].shadowing
               /\ (k \in present[p] => entries[k].symbol = t) => Grows(p, k) /\ HomesStay(p)
               /\ k \in present[p] => OtherHomesStay(p, k)
               /\ entries'[k].external => k \in present[p] /\ entries[k].external
  BY ShadowingTouches
<1>3. NameOf(k)' = n /\ k \in present'[p]
  BY <1>2 DEF Touches
<1>4. PackageOf'[f.options[s[1]].from] = q /\ VisibleIn'[q][n] = {t}
  <2>1. PICK from : from = f.options[s[1]].from
    OBVIOUS
  <2>2. from \in PackageNames /\ n \in SymbolNames /\ q = PackageOf[from]
    BY <1>1, <2>1
  <2>3. k \in present'[p] /\ NameOf(k)' = n /\ entries'[k].symbol = t
    BY <1>2, <1>3
  <2>4. PackageOf'[from] = q /\ VisibleIn'[q][n] = {t}
    BY SMTT(30), <2>2, <2>3, SourceStays
  <2> QED BY <2>1, <2>4
<1>5. Kept(p, f, s[1], s[2])'
  BY <1>2, <1>3, <1>4 DEF Kept
<1>6. PICK U : U = T \ {s}
  OBVIOUS
<1>7. Provenance(p, f, U, k)'
  <2>1. ~ Pending(f, U, 2)
    BY Zenon, <1>6, Left
  <2>2. ShadowsIn(f, n)
    BY <1>1 DEF ShadowsIn
  <2>3. entries'[k].external => ~ Pending(f, U, 6)
    <3>1. entries'[k].external => Provenance(p, f, T, k)
      BY <1>2 DEF Held
    <3>2. Pending(f, U, 6) => Pending(f, T, 6)
      BY <1>6 DEF Pending
    <3> QED BY <1>2, <3>1, <3>2 DEF Provenance
  <2> QED BY <1>2, <1>3, <2>1, <2>2, <2>3 DEF Provenance
<1>8. CASE k \in present[p] => entries[k].symbol = t
  <2>1. Held(p, f, U)'
    BY <1>2, <1>5, <1>6, <1>7, <1>8, HeldTouched
  <2> QED BY <1>6, <2>1
<1>9. CASE k \in present[p]
  <2>1. ASSUME NEW d \in Steps(f) \ U, d[2] # 0 PROVE Kept(p, f, d[1], d[2])'
    <3>1. CASE d \in T
      <4>1. d = s
        BY <1>6, <3>1
      <4> QED BY <1>5, <4>1
    <3>2. CASE d \notin T
      <4>1. Kept(p, f, d[1], d[2]) /\ Before(f, d, s)
        BY <2>1, <3>2 DEF Held
      <4>2. f \in Forms /\ WellFormed(f) /\ s \in Steps(f)
        BY DEF Turn
      <4> QED BY <1>2, <1>9, <2>1, <4>1, <4>2, KeptWhenShadowed
    <3> QED BY <3>1, <3>2
  <2>2. \A e \in present'[p] : Provenance(p, f, U, e)'
    BY <1>2, <1>6, <1>7, <1>9, ProvenanceStep DEF Held
  <2>3. \A r \in uses'[p] : \E m \in UseNames(f) : PackageOf'[m] = r
    BY <1>2, UsesNamed DEF Touches, Turn
  <2>4. Held(p, f, U)'
    BY <2>1, <2>2, <2>3 DEF Held
  <2> QED BY <1>6, <2>4
<1> QED BY <1>8, <1>9

\* A nickname that was given finds its package.
LEMMA AliasFound ==
    ASSUME Inv, NEW p, NEW n, AddAlias(p, n), error' = 0
    PROVE  FindPackage(n)' = p
<1> DEFINE nick == {i \in 1..Len(aliases) : aliases[i].name = n}
           first(S) == CHOOSE i \in S : \A j \in S : i <= j
           k == Len(aliases) + 1
<1>1. aliases \in Seq(Alias) /\ Len(aliases) \in Nat /\ pname \in Seq(PackageNames)
  BY DEF Inv, TypeOK
<1>2. /\ FindPackage(n) = 0
      /\ aliases' = Append(aliases, [package |-> p, name |-> n]) /\ pname' = pname
  <2>1. ~ Fail(1) /\ ~ Fail(2) /\ ~ Fail(4)
    BY DEF Fail
  <2> QED BY Zenon, <2>1 DEF AddAlias
<1>3. FindPackage(n) = IF Named(n) # {} THEN first(Named(n))
                       ELSE IF nick # {} THEN aliases[first(nick)].package ELSE 0
  BY Zenon DEF FindPackage
<1>4. FindPackage(n)' = IF Named(n)' # {} THEN first(Named(n)')
                        ELSE IF nick' # {} THEN aliases'[first(nick')].package ELSE 0
  BY Zenon DEF FindPackage
<1>5. Named(n)' = Named(n) /\ Named(n) \subseteq Nat \ {0}
  BY <1>1, <1>2 DEF Named
<1>6. ASSUME NEW S, S \subseteq Nat, S # {} PROVE first(S) \in S
  <2>1. \E i \in S : \A j \in S : i <= j
    BY <1>6, Least
  <2> QED BY <2>1
<1>7. nick \subseteq Nat
  OBVIOUS
<1>8. nick' = nick \cup {k} /\ aliases'[k].package = p
  BY <1>1, <1>2
<1>9. \A i \in nick : aliases[i].package # 0
  <2>1. \A i \in 1..Len(aliases) : aliases[i] \in Alias
    BY <1>1
  <2> QED BY <2>1 DEF Alias
<1> HIDE DEF nick, first
<1>10. Named(n) = {}
  <2>1. Named(n) # {} => first(Named(n)) # 0
    BY <1>5, <1>6
  <2> QED BY <1>2, <1>3, <2>1
<1>11. nick = {}
  <2>1. nick # {} => first(nick) \in nick
    BY <1>6, <1>7
  <2> QED BY <1>2, <1>3, <1>9, <1>10, <2>1
<1>12. nick' = {k} /\ k \in Nat
  BY <1>1, <1>8, <1>11
<1>13. first(nick') = k
  BY <1>6, <1>12
<1> QED BY <1>4, <1>5, <1>8, <1>10, <1>12, <1>13

\* What is held after :nicknames took an argument.
LEMMA HeldNickname ==
    ASSUME Inv, Inv', NEW p \in PackageIds, Settled(p),
           NEW f, NEW T, NEW s, Turn(f, T, s), Held(p, f, T), s[2] # 0,
           f.options[s[1]].kind = "nicknames",
           NEW n, n = f.options[s[1]].names[s[2]], AddAlias(p, n), error' = 0
    PROVE  Held(p, f, T \ {s})'
<1>1. n \in PackageNames
  BY StepFacts DEF Turn, NamesPackages
<1>2. PackageOf'[n] = p
  BY <1>1, AliasFound, LookupPackage
<1>3. Kept(p, f, s[1], s[2])'
  BY <1>2 DEF Kept
<1>4. UNCHANGED <<present, entries, symbols>> /\ uses' = uses
  BY Zenon DEF AddAlias, Fail, tables, KeepRecords
<1>5. PICK U : U = T \ {s}
  OBVIOUS
<1>6. Held(p, f, U)'
  BY <1>3, <1>4, <1>5, HeldUntouched
<1> QED BY <1>5, <1>6

\* What is held after :use took an argument.
LEMMA HeldUse ==
    ASSUME Inv, Inv', NEW p \in PackageIds, Settled(p),
           NEW f, NEW T, NEW s, Turn(f, T, s), Held(p, f, T), s[2] # 0,
           f.options[s[1]].kind = "use",
           NEW n, n = f.options[s[1]].names[s[2]], NEW q, q = PackageOf[n], q # 0,
           UsePackage(p, q), error' = 0
    PROVE  Held(p, f, T \ {s})'
<1>1. n \in PackageNames /\ s[1] \in DOMAIN f.options /\ n \in Arguments(f.options[s[1]])
  BY StepFacts DEF Turn, NamesPackages
<1>2. /\ uses' = [uses EXCEPT ![p] = @ \cup {q}]
      /\ UNCHANGED <<present, entries, symbols>>
  <2>1. ~ Fail(1) /\ ~ Fail(3) /\ ~ Fail(4) /\ ~ Fail(10)
    BY DEF Fail
  <2> QED BY Zenon, <2>1 DEF UsePackage, KeepRecords
<1>3. uses'[p] = uses[p] \cup {q}
  BY ZenonT(40), <1>2 DEF Inv, TypeOK
<1>4. PackageOf'[n] = q
  BY <1>1 DEF Settled
<1>5. Kept(p, f, s[1], s[2])'
  BY ZenonT(40), <1>3, <1>4 DEF Kept
<1>6. n \in UseNames(f)
  BY <1>1 DEF UseNames
<1>7. PICK U : U = T \ {s}
  BY ZenonT(40)
<1>8. Held(p, f, U)'
  BY ZenonT(40), <1>2, <1>3, <1>4, <1>5, <1>6, <1>7, HeldUntouched
<1> QED BY <1>7, <1>8

\* The argument asks for what is there.
LEMMA HeldNothing ==
    ASSUME Inv, Inv', NEW p \in PackageIds, Settled(p),
           NEW f, NEW T, NEW s, Turn(f, T, s), Held(p, f, T), UNCHANGED vars,
           NEW n, n = f.options[s[1]].names[s[2]],
           \/ s[2] = 0
           \/ f.options[s[1]].kind = "nicknames" /\ PackageOf[n] = p
           \/ f.options[s[1]].kind = "use" /\ PackageOf[n] \in uses[p]
           \/ f.options[s[1]].kind = "intern" /\ VisibleIn[p][n] # {}
    PROVE  Held(p, f, T \ {s})'
<1>1. UNCHANGED <<present, entries, symbols>> /\ uses' = uses
  BY ZenonT(40) DEF vars
<1>2. Enlarges(p)
  BY ZenonT(40), <1>1, KeepingEnlarges
<1>3. s[2] # 0 => Kept(p, f, s[1], s[2])
  BY ZenonT(40) DEF Kept
<1>4. s[2] # 0 => Kept(p, f, s[1], s[2])'
  BY ZenonT(40), <1>2, <1>3, KeptGrows DEF Turn
<1>5. PICK U : U = T \ {s}
  BY ZenonT(40)
<1>6. Held(p, f, U)'
  BY ZenonT(40), <1>1, <1>4, <1>5, HeldUntouched
<1> QED BY ZenonT(40), <1>5, <1>6

\* One argument of an option, when the form goes on.
LEMMA ArgumentHolds ==
    ASSUME Inv, Inv', NEW p \in PackageIds, p # Keyword, Settled(p),
           NEW f, NEW T, NEW s, Turn(f, T, s), Held(p, f, T),
           \A d \in Steps(f) \ T : Before(f, d, s),
           package = p, form = f, todo = T, NEW option, option = f.options[s[1]],
           NEW n, n = IF s[2] = 0 THEN option.from ELSE option.names[s[2]],
           ApplyArgument(s, option, n), stage' = "applying"
    PROVE  /\ UNCHANGED <<package, form>>
           /\ \/ todo' = T /\ Held(p, f, T)'
              \/ todo' = T \ {s} /\ Held(p, f, T \ {s})'
<1> DEFINE goal == /\ UNCHANGED <<package, form>>
                   /\ \/ todo' = T /\ Held(p, f, T)'
                      \/ todo' = T \ {s} /\ Held(p, f, T \ {s})'
<1>f. f \in Forms /\ WellFormed(f) /\ s \in Steps(f)
  BY DEF Turn
<1>n. /\ option.kind \in NamesPackages => s[2] # 0 /\ n \in PackageNames
      /\ option.kind \in {"shadow", "intern", "export"} => s[2] # 0 /\ n \in SymbolNames
      /\ option.kind \in Importing => option.from \in PackageNames
      /\ option.kind \in Importing /\ s[2] # 0 => n \in SymbolNames
      /\ s[2] # 0 => n = option.names[s[2]]
  BY <1>f, StepFacts
<1>g. ~ Failed
  BY DEF Failed, Leave
<1>a. After(s) => error' = 0 /\ Applied(s)
  BY <1>g DEF After
<1>b. Applied(s) => UNCHANGED <<package, form>> /\ todo' = T \ {s}
  BY DEF Applied
<1>v. \A m \in SymbolNames : VisibleIn[p][m] = Visible(p, m)
  BY LookupSymbol
<1>1. CASE ApplyFrom(s, n) /\ s[2] = 0
  <2>1. UNCHANGED vars /\ Applied(s)
    BY Zenon, <1>1, <1>g DEF ApplyFrom, Nothing
  <2>2. Held(p, f, T \ {s})'
    BY <1>1, <2>1, HeldNothing
  <2> QED BY <1>b, <2>1, <2>2
<1>2. CASE /\ s[2] > 0 /\ option.kind \in Importing
           /\ ApplyImport(s, n, option.from, option.kind)
  <2>1. s[2] # 0
    BY <1>2
  <2>2. n \in SymbolNames /\ option.from \in PackageNames /\ n = option.names[s[2]]
    BY <1>2, <1>n, <2>1
  <2>3. PICK q : q = PackageOf[option.from]
    OBVIOUS
  <2>4. q = FindPackage(option.from)
    BY <2>2, <2>3, LookupPackage
  <2>5. q # 0 /\ \E t \in SymbolIds :
           /\ Visible(q, n) = {t} /\ After(s)
           /\ \/ option.kind = "import-from" /\ ImportSymbol(package, t)
              \/ option.kind # "import-from" /\ ShadowingImport(package, t)
    BY Zenon, <1>2, <1>g, <2>4 DEF ApplyImport
  <2>6. PICK t \in SymbolIds :
           /\ Visible(q, n) = {t} /\ After(s)
           /\ \/ option.kind = "import-from" /\ ImportSymbol(p, t)
              \/ option.kind # "import-from" /\ ShadowingImport(p, t)
    BY Zenon, <2>5
  <2>7. q \in PackageIds
    BY <2>4, <2>5, FoundPackage
  <2>8. VisibleIn[q][n] = {t} /\ symbols[t].name = n
    BY <2>2, <2>6, <2>7, LookupSymbol, MeaningNamed
  <2>9. error' = 0 /\ Applied(s)
    BY <1>a, <2>6
  <2>10. CASE option.kind = "import-from" /\ ImportSymbol(p, t)
    <3>1. Held(p, f, T \ {s})'
      BY ZenonT(40), <2>1, <2>2, <2>3, <2>5, <2>8, <2>9, <2>10, HeldImport
    <3> QED BY <1>b, <2>9, <3>1
  <2>11. CASE option.kind # "import-from" /\ ShadowingImport(p, t)
    <3>1. option.kind = "shadowing-import-from"
      BY <1>2, <2>11 DEF Importing
    <3>2. Held(p, f, T \ {s})'
      BY ZenonT(40), <2>1, <2>2, <2>3, <2>5, <2>8, <2>9, <2>11, <3>1, HeldShadowingImport
    <3> QED BY <1>b, <2>9, <3>2
  <2> QED BY <2>6, <2>10, <2>11
<1>3. CASE option.kind = "nicknames" /\ ApplyNickname(s, n)
  <2>1. s[2] # 0 /\ n \in PackageNames /\ n = option.names[s[2]]
    BY <1>3, <1>n DEF NamesPackages
  <2>2. PackageOf[n] = FindPackage(n)
    BY <2>1, LookupPackage
  <2>3. CASE AddAlias(p, n) /\ After(s)
    <3>1. Held(p, f, T \ {s})'
      BY <1>3, <1>a, <2>1, <2>3, HeldNickname
    <3> QED BY <1>a, <1>b, <2>3, <3>1
  <2>4. CASE FindPackage(n) = p /\ Nothing(s)
    <3>1. UNCHANGED vars /\ Applied(s)
      BY <2>4 DEF Nothing
    <3>2. Held(p, f, T \ {s})'
      BY <1>3, <2>1, <2>2, <2>4, <3>1, HeldNothing
    <3> QED BY <1>b, <3>1, <3>2
  <2> QED BY Zenon, <1>3, <2>3, <2>4 DEF ApplyNickname
<1>4. CASE option.kind = "shadow" /\ ApplyShadow(s, n)
  <2>1. s[2] # 0 /\ n = option.names[s[2]]
    BY <1>4, <1>n
  <2>2. ShadowName(p, n) /\ After(s)
    BY <1>4 DEF ApplyShadow
  <2>3. Held(p, f, T \ {s})'
    BY <1>4, <1>a, <2>1, <2>2, HeldShadow
  <2> QED BY <1>a, <1>b, <2>2, <2>3
<1>5. CASE option.kind = "use" /\ ApplyUse(s, n)
  <2>1. s[2] # 0 /\ n \in PackageNames /\ n = option.names[s[2]]
    BY <1>5, <1>n DEF NamesPackages
  <2>2. PICK q : q = PackageOf[n]
    OBVIOUS
  <2>3. q = FindPackage(n)
    BY <2>1, <2>2, LookupPackage
  <2>4. CASE q # 0 /\ UsePackage(p, q) /\ After(s)
    <3>1. Held(p, f, T \ {s})'
      BY ZenonT(40), <1>5, <1>a, <2>1, <2>2, <2>4, HeldUse
    <3> QED BY <1>a, <1>b, <2>4, <3>1
  <2>5. CASE q \in uses[p] /\ Nothing(s)
    <3>1. UNCHANGED vars /\ Applied(s)
      BY <2>5 DEF Nothing
    <3>2. Held(p, f, T \ {s})'
      BY <1>5, <2>1, <2>2, <2>5, <3>1, HeldNothing
    <3> QED BY <1>b, <3>1, <3>2
  <2> QED BY Zenon, <1>5, <1>g, <2>3, <2>4, <2>5 DEF ApplyUse
<1>6. CASE option.kind = "intern" /\ ApplyIntern(s, n)
  <2>1. s[2] # 0 /\ n = option.names[s[2]] /\ n \in SymbolNames
    BY <1>6, <1>n
  <2>2. CASE Intern(p, n) /\ After(s)
    <3>1. PICK U : U = T \ {s}
      OBVIOUS
    <3>2. Held(p, f, U)'
      BY <1>6, <1>a, <2>1, <2>2, <3>1, HeldIntern
    <3> QED BY <1>a, <1>b, <2>2, <3>1, <3>2
  <2>3. CASE (\E t \in SymbolIds : Visible(p, n) = {t}) /\ Nothing(s)
    <3>1. UNCHANGED vars /\ Applied(s)
      BY <2>3 DEF Nothing
    <3>2. VisibleIn[p][n] # {}
      BY <1>v, <2>1, <2>3
    <3>3. Held(p, f, T \ {s})'
      BY <1>6, <2>1, <3>1, <3>2, HeldNothing
    <3> QED BY <1>b, <3>1, <3>3
  <2> QED BY Zenon, <1>6, <2>2, <2>3 DEF ApplyIntern
<1>7. CASE option.kind = "export" /\ ApplyExport(s, n)
  <2>1. s[2] # 0 /\ n = option.names[s[2]] /\ n \in SymbolNames
    BY <1>7, <1>n
  <2>2. CASE Intern(p, n) /\ error' = 0 /\ UNCHANGED <<stage, form, package, todo>>
    <3>1. Held(p, f, T)'
      BY <1>7, <2>1, <2>2, HeldIntern
    <3> QED BY <2>2, <3>1
  <2>3. ASSUME NEW t \in SymbolIds, Visible(p, n) = {t}, ExportSymbol(p, t), After(s)
        PROVE  goal
    <3>1. symbols[t].name = n
      BY <2>1, <2>3, MeaningNamed
    <3>2. Held(p, f, T \ {s})'
      BY <1>7, <1>a, <2>1, <2>3, <3>1, HeldExport
    <3> QED BY <1>a, <1>b, <2>3, <3>2
  <2> HIDE DEF goal
  <2>4. CASE goal
    BY <2>4 DEF goal
  <2> QED BY Zenon, <1>7, <1>g, <2>2, <2>3, <2>4 DEF ApplyExport
<1> QED BY Zenon, <1>g, <1>1, <1>2, <1>3, <1>4, <1>5, <1>6, <1>7 DEF ApplyArgument

\* A form that is not refused is well formed.
LEMMA ValidIsWellFormed ==
    ASSUME NEW f \in Forms, DefinitionValid(f)
    PROVE  WellFormed(f)
<1>1. \A o \in DOMAIN f.options : f.options[o].kind # "other"
  BY DEF DefinitionValid, OptionsValid
<1>2. ASSUME NEW o \in DOMAIN f.options, NEW l \in DOMAIN f.options, o < l,
             DisjointKinds(f.options[o].kind, f.options[l].kind),
             NEW n \in Arguments(f.options[o]), NEW m \in Arguments(f.options[l])
      PROVE  n # m
  BY <1>2 DEF DefinitionValid, DisjointValid
<1>3. ASSUME NEW o \in DOMAIN f.options, NEW l \in DOMAIN f.options,
             DisjointKinds(f.options[o].kind, f.options[l].kind),
             NEW n \in Arguments(f.options[o]), NEW m \in Arguments(f.options[l])
      PROVE  n # m
  <2>1. o \in Nat /\ l \in Nat
    BY FormsAssumption DEF Form
  <2>2. o # l
    BY <1>3 DEF DisjointKinds
  <2>3. DisjointKinds(f.options[l].kind, f.options[o].kind)
    BY <1>3 DEF DisjointKinds
  <2>4. CASE o < l
    BY <1>2, <1>3, <2>4
  <2>5. CASE l < o
    BY <1>2, <1>3, <2>3, <2>5
  <2> QED BY <2>1, <2>2, <2>4, <2>5
<1> QED BY <1>1, <1>3 DEF WellFormed

\* The invariant of a form, for its package p and the arguments T that are left.
LEMMA FormInvIntro ==
    ASSUME NEW p, NEW f, NEW T
    PROVE  /\ package' = p /\ form' = f /\ todo' = T
           /\ Len(pname') >= Len(SeedPackages) /\ p # Keyword /\ WellFormed(f)
           /\ \A d \in Steps(f) \ T, t \in T : Before(f, d, t)
           /\ Held(p, f, T)'
           => FormInv'
<1> DEFINE Q == /\ package = p /\ form = f /\ todo = T
                /\ Len(pname) >= Len(SeedPackages) /\ p # Keyword /\ WellFormed(f)
                /\ \A d \in Steps(f) \ T, t \in T : Before(f, d, t)
                /\ Held(p, f, T)
                => FormInv
<1>1. Q
  BY DEF FormInv
<1> HIDE DEF Q
<1>2. Q'
  BY <1>1, PTL
<1> QED BY <1>2 DEF Q

\* The form invariant is kept by every step of a unit.
LEMMA FormInvStep ==
    ASSUME Inv, Inv', Applying, Unused, FormInv, [FormNext]_allVars
    PROVE  FormInv'
<1>1. Len(pname') >= Len(SeedPackages) /\ Len(pname) \in Nat /\ pname \in Seq(PackageNames)
  <2>1. pname \in Seq(PackageNames) /\ Len(pname) \in Nat /\ Len(pname) >= Len(SeedPackages)
    BY DEF Inv, TypeOK, FormInv
  <2>2. Len(SeedPackages) \in Nat
    BY EnvironmentAssumption
  <2>3. pname' = pname \/ \E m : pname' = Append(pname, m)
    BY FormIsOperation, NamesGrow
  <2> QED BY <2>1, <2>2, <2>3
<1>2. CASE stage' # "applying"
  BY <1>1, <1>2 DEF FormInv
<1>3. CASE stage = "applying" /\ stage' = "applying"
  <2>1. Settled(package)
    BY <1>3, FormStepSettles
  <2>2. PICK p, f, T : package = p /\ form = f /\ todo = T
    OBVIOUS
  <2>3. /\ p \in PackageIds /\ f \in Forms /\ T \subseteq Steps(f)
        /\ p # Keyword /\ WellFormed(f)
        /\ \A d \in Steps(f) \ T, t \in T : Before(f, d, t)
        /\ Held(p, f, T) /\ Settled(p)
    BY <1>3, <2>1, <2>2 DEF Applying, FormInv
  <2>4. CASE Apply
    <3>1. PICK s \in T :
             /\ \A t \in T \ {s} : Earlier(s, t)
             /\ ApplyArgument(s, f.options[s[1]],
                   IF s[2] = 0 THEN f.options[s[1]].from ELSE f.options[s[1]].names[s[2]])
      BY Zenon, <2>2, <2>4 DEF Apply
    <3>2. \A t \in T \ {s} : Before(f, s, t)
      BY <2>2, <3>1 DEF Earlier, Before, PhaseAt
    <3>3. Turn(f, T, s)
      BY <2>3, <3>2 DEF Turn
    <3>4. \A d \in Steps(f) \ T : Before(f, d, s)
      BY <2>3
    <3>a. PICK option, n :
             /\ option = f.options[s[1]]
             /\ n = IF s[2] = 0 THEN option.from ELSE option.names[s[2]]
             /\ ApplyArgument(s, option, n)
      BY Zenon, <3>1
    <3>5. /\ UNCHANGED <<package, form>>
          /\ \/ todo' = T /\ Held(p, f, T)'
             \/ todo' = T \ {s} /\ Held(p, f, T \ {s})'
      BY Zenon, <1>3, <2>2, <2>3, <3>a, <3>3, <3>4, ArgumentHolds
    <3>6. CASE todo' = T /\ Held(p, f, T)'
      BY <1>1, <2>2, <2>3, <3>5, <3>6, FormInvIntro
    <3>7. CASE todo' = T \ {s} /\ Held(p, f, T \ {s})'
      <4>1. PICK U : U = T \ {s}
        OBVIOUS
      <4>2. \A d \in Steps(f) \ U, t \in U : Before(f, d, t)
        BY <2>3, <3>2, <4>1
      <4>3. todo' = U /\ Held(p, f, U)'
        BY <3>7, <4>1
      <4> QED BY <1>1, <2>2, <2>3, <3>5, <4>2, <4>3, FormInvIntro
    <3> QED BY <3>5, <3>6, <3>7
  <2>5. CASE UNCHANGED allVars
    <3>1. UNCHANGED <<present, entries, symbols, package, form, todo>> /\ uses' = uses
      BY <2>5 DEF allVars, vars, formVars
    <3>2. Enlarges(p)
      BY <3>1, KeepingEnlarges
    <3>3. ASSUME NEW d \in Steps(f) \ T, d[2] # 0 PROVE Kept(p, f, d[1], d[2])'
      <4>1. Kept(p, f, d[1], d[2])
        BY <2>3, <3>3 DEF Held
      <4> QED BY <2>3, <3>2, <3>3, <4>1, KeptGrows
    <3>4. ASSUME NEW e \in present'[p] PROVE Provenance(p, f, T, e)'
      <4>1. Provenance(p, f, T, e) /\ NameOf(e)' = NameOf(e)
        BY <2>3, <3>1 DEF Held, NameOf
      <4> QED BY <3>1, <4>1, ProvenanceStays
    <3>5. \A q \in uses'[p] : \E m \in UseNames(f) : PackageOf'[m] = q
      BY <2>3, <3>1, UsesNamed
    <3>6. Held(p, f, T)'
      BY <3>3, <3>4, <3>5 DEF Held
    <3> QED BY <1>1, <2>2, <2>3, <3>1, <3>6, FormInvIntro
  <2>6. CASE Finish \/ Read \/ (\E n \in PackageNames, string, extra \in BOOLEAN : Select(n, string, extra)) \/ \E f2 \in Forms : Define(f2)
    BY <1>3, <2>6 DEF Finish, Leave, Read, Select, Define
  <2> QED BY Zenon, <2>4, <2>5, <2>6 DEF FormNext
<1>4. CASE stage # "applying" /\ stage' = "applying"
  <2>1. PICK f \in Forms : Define(f)
    BY Zenon, <1>4
       DEF FormNext, Read, Select, Failed, Leave, Apply, Finish, allVars, formVars
  <2>2. /\ MakePackage(f.name) /\ error' = 0 /\ DefinitionValid(f)
        /\ form' = f /\ package' = Len(pname') /\ todo' = Steps(f)
    BY Zenon, <1>4, <2>1 DEF Define, Failed, Leave
  <2>3. /\ pname' = Append(pname, f.name)
        /\ uses' = [uses EXCEPT ![Len(pname) + 1] = {}]
        /\ present' = [present EXCEPT ![Len(pname) + 1] = {}]
    BY <2>2 DEF MakePackage, Fail
  <2>4. PICK p : p = Len(pname) + 1
    OBVIOUS
  <2>5. package' = p /\ p # Keyword
    <3>1. Len(pname) >= Len(SeedPackages) /\ Len(SeedPackages) \in Nat
      BY EnvironmentAssumption DEF FormInv
    <3>2. Keyword \in {0} \cup 2..(Len(SeedPackages) - 1)
      BY EnvironmentAssumption
    <3> QED BY <1>1, <2>2, <2>3, <2>4, <3>1, <3>2
  <2>6. p \in PackageIds
    <3>1. Len(pname') \in Nat /\ Len(pname') <= PackageCapacity
      BY DEF Inv, TypeOK
    <3> QED BY <1>1, <2>2, <2>4, <2>5, <3>1, Capacities
  <2>7. present'[p] = {} /\ uses'[p] = {}
    BY <2>3, <2>4, <2>6 DEF Inv, TypeOK
  <2>8. PICK T : T = Steps(f)
    OBVIOUS
  <2>9. Held(p, f, T)'
    <3>1. Steps(f) \ T = {}
      BY <2>8
    <3> QED BY <2>7, <3>1 DEF Held
  <2>10. WellFormed(f)
    BY <2>2, ValidIsWellFormed
  <2>11. \A d \in Steps(f) \ T, t \in T : Before(f, d, t)
    BY <2>8
  <2> QED BY <1>1, <2>2, <2>5, <2>8, <2>9, <2>10, <2>11, FormInvIntro
<1> QED BY <1>2, <1>3, <1>4

\* What the arguments asked for holds in the terms of the lookups.
LEMMA KeptIsHonoured ==
    ASSUME Inv, Applying, FormInv, stage = "applying", todo = {}
    PROVE  \A o \in DOMAIN form.options : \A a \in DOMAIN form.options[o].names : Honoured(o, a)
<1> SUFFICES ASSUME NEW o \in DOMAIN form.options, NEW a \in DOMAIN form.options[o].names
    PROVE  Honoured(o, a)
  OBVIOUS
<1> DEFINE option == form.options[o]
           n == option.names[a]
           kind == option.kind
           record == FindPresent(package, n, FALSE)
           s == <<o, a>>
<1>1. package \in PackageIds /\ form \in Forms /\ WellFormed(form) /\ TypeOK /\ IndexAgrees
  BY DEF Applying, FormInv, Inv
<1>2. s \in Steps(form) /\ s[1] = o /\ s[2] = a
  BY DEF Steps
<1>3. /\ kind \in NamesPackages => n \in PackageNames
      /\ kind \in {"shadow", "intern", "export"} \cup Importing /\ a # 0 => n \in SymbolNames
      /\ kind \in Importing => option.from \in PackageNames
  BY <1>1, <1>2, StepFacts
<1>4. a # 0
  <2>1. form.options \in Seq(Option)
    BY <1>1, FormsAssumption DEF Form
  <2>2. option \in Option /\ kind # "other"
    BY <1>1, <2>1 DEF WellFormed
  <2>3. option.names \in Seq(PackageNames) \/ option.names \in Seq(SymbolNames)
    BY <2>2 DEF Option, NamesPackages, Importing
  <2> QED BY <2>3
<1>5. Kept(package, form, o, a)
  BY <1>2, <1>4 DEF FormInv, Held
<1> HIDE DEF s
<1>6. kind = "nicknames" => FindPackage(n) = package
  <2>1. kind = "nicknames" => n \in PackageNames /\ PackageOf[n] = package
    BY <1>3, <1>5 DEF Kept, NamesPackages
  <2> QED BY <2>1, LookupPackage
<1>7. kind = "use" => FindPackage(n) \in uses[package]
  <2>1. kind = "use" => n \in PackageNames /\ PackageOf[n] \in uses[package]
    BY <1>3, <1>5 DEF Kept, NamesPackages
  <2> QED BY <2>1, LookupPackage
<1>8. kind \in {"shadow", "intern", "export"} \cup Importing =>
         /\ n \in SymbolNames
         /\ \A e \in present[package] : NameOf(e) = n =>
               /\ record = e /\ e # 0
               /\ Visible(package, n) = {entries[e].symbol}
               /\ entries[e].external => FindPresent(package, n, TRUE) = e
  <2> SUFFICES ASSUME kind \in {"shadow", "intern", "export"} \cup Importing,
                      NEW e \in present[package], NameOf(e) = n, n \in SymbolNames
      PROVE  /\ record = e /\ e # 0
             /\ Visible(package, n) = {entries[e].symbol}
             /\ entries[e].external => FindPresent(package, n, TRUE) = e
    BY <1>3, <1>4
  <2>1. record = e /\ (entries[e].external => FindPresent(package, n, TRUE) = e)
    <3>1. PICK x \in BOOLEAN, y \in BOOLEAN : x = FALSE /\ y = TRUE
      OBVIOUS
    <3>2. FindPresent(package, n, x) = e
      BY <1>1, <3>1, Found
    <3>3. ASSUME entries[e].external PROVE FindPresent(package, n, y) = e
      <4>1. \A r \in present[package] : NameOf(r) = n /\ (y => entries[r].external)
               => FindPresent(package, n, y) = r
        BY <1>1, Found
      <4> QED BY <3>3, <4>1
    <3> QED BY Zenon, <3>1, <3>2, <3>3
  <2>2. e # 0
    BY <1>1, EntryFacts
  <2>3. Visible(package, n) = {entries[e].symbol}
    BY <1>1, PresentMeans, LookupSymbol
  <2> QED BY <2>1, <2>2, <2>3
<1>9. kind = "shadow" => /\ record # 0 /\ entries[record].shadowing
                         /\ symbols[entries[record].symbol].home = package
  BY <1>5, <1>8 DEF Kept
<1>10. kind \in Importing => /\ PackageOf[option.from] = FindPackage(option.from)
                             /\ PackageOf[option.from] # 0 =>
                                  VisibleIn[PackageOf[option.from]][n] = Visible(FindPackage(option.from), n)
  <2> SUFFICES ASSUME kind \in Importing
      PROVE  /\ PackageOf[option.from] = FindPackage(option.from)
             /\ PackageOf[option.from] # 0 =>
                  VisibleIn[PackageOf[option.from]][n] = Visible(FindPackage(option.from), n)
    OBVIOUS
  <2>1. PICK q : q = PackageOf[option.from]
    OBVIOUS
  <2>2. q = FindPackage(option.from) /\ n \in SymbolNames
    BY <1>3, <1>8, <2>1, LookupPackage
  <2>3. q # 0 => q \in PackageIds
    BY <2>2, FoundPackage
  <2> QED BY <2>1, <2>2, <2>3, LookupSymbol
<1>11. kind = "import-from" =>
         record # 0 /\ Visible(package, n) = Visible(FindPackage(option.from), n)
  BY <1>5, <1>8, <1>10 DEF Kept, Importing
<1>12. kind = "shadowing-import-from" =>
         /\ record # 0 /\ entries[record].shadowing
         /\ \/ Visible(package, n) = Visible(FindPackage(option.from), n)
            \/ \E l \in DOMAIN form.options :
                  o < l /\ form.options[l].kind = kind /\ n \in Arguments(form.options[l])
  <2> SUFFICES ASSUME kind = "shadowing-import-from"
      PROVE  /\ record # 0 /\ entries[record].shadowing
             /\ \/ Visible(package, n) = Visible(FindPackage(option.from), n)
                \/ Overridden(form, o, n)
    BY DEF Overridden
  <2>1. kind \in Importing
    BY DEF Importing
  <2>2. PICK e \in present[package] :
           /\ PackageOf[option.from] # 0 /\ NameOf(e) = n /\ entries[e].shadowing
           /\ \/ VisibleIn[PackageOf[option.from]][n] = {entries[e].symbol}
              \/ Overridden(form, o, n)
    BY <1>5 DEF Kept
  <2> QED BY <1>8, <1>10, <2>1, <2>2
<1>13. kind = "intern" => Visible(package, n) # {}
  <2>1. kind = "intern" => n \in SymbolNames /\ VisibleIn[package][n] # {}
    BY <1>5, <1>8 DEF Kept
  <2> QED BY <1>1, <2>1, LookupSymbol
<1>14. kind = "export" => FindPresent(package, n, TRUE) # 0
  BY <1>5, <1>8 DEF Kept
<1> QED BY <1>6, <1>7, <1>9, <1>11, <1>12, <1>13, <1>14 DEF Honoured

\* The form invariant holds before the first token.
LEMMA FormInvInit ==
    ASSUME FormInit
    PROVE  FormInv
<1>1. Len(SeedPackages) \in Nat
  BY EnvironmentAssumption
<1> QED BY <1>1 DEF FormInit, Init, FormInv

\* While a form is applied, what its arguments so far asked for holds, no argument
\* is applied out of turn, and every record of its package has an option it
\* comes from.
THEOREM FormInvariant == FormSpec => [](Inv /\ Applying /\ Unused /\ FormInv)
<1>1. FormInit => Inv /\ Applying /\ Unused /\ FormInv
  BY InitOK, FormInvInit DEF FormInit, Applying, Unused
<1>2. Inv /\ Applying /\ [FormNext]_allVars => Inv'
  BY FormIsOperation, NextOK
<1>3. Inv /\ Applying /\ Inv' /\ [FormNext]_allVars => Applying'
  BY ApplyingStep
<1>4. Inv /\ Applying /\ Unused /\ [FormNext]_allVars => Unused'
  BY UnusedStep
<1>5. Inv /\ Inv' /\ Applying /\ Unused /\ FormInv /\ [FormNext]_allVars => FormInv'
  BY FormInvStep
<1> QED BY <1>1, <1>2, <1>3, <1>4, <1>5, PTL DEF FormSpec

\* A defpackage form that goes through gives every option what it asked for.
THEOREM FormsAreHonoured == FormSpec => []FormHonoured
<1>1. Inv /\ Applying /\ Unused /\ FormInv => FormHonoured
  BY KeptIsHonoured DEF FormHonoured
<1> QED BY <1>1, FormInvariant, PTL

\* A form changes nothing for another package, whatever it asks for and wherever it
\* fails: only the package it defines has other names and uses after it.
THEOREM FormsLeaveOthersAlone == FormSpec => OthersUntouched
<1> DEFINE A == /\ stage = "applying" =>
                     \A q \in 1..Len(pname) \ {package} :
                        /\ uses'[q] = uses[q]
                        /\ \A n \in SymbolNames : Visible(q, n)' = Visible(q, n)
                /\ \A n \in PackageNames :
                     FindPackage(n) # 0 => FindPackage(n)' = FindPackage(n)
<1>1. Inv /\ Applying /\ Unused /\ Inv' /\ [FormNext]_allVars => [A]_allVars
  <2> SUFFICES ASSUME Inv, Applying, Unused, Inv', [FormNext]_allVars
               PROVE  A
    OBVIOUS
  <2>1. ASSUME stage = "applying", NEW q \in 1..Len(pname) \ {package}
        PROVE  /\ uses'[q] = uses[q]
               /\ \A n \in SymbolNames : Visible(q, n)' = Visible(q, n)
    <3>1. q \in PackageIds /\ package \in PackageIds /\ Local(package) /\ package \notin uses[q]
      BY <2>1, Valid, ApplyingIsLocal DEF Inv, Applying, ValidPackage, Unused
    <3> QED BY <2>1, <3>1, LocalMeaning DEF Local
  <2>2. ASSUME NEW n \in PackageNames, FindPackage(n) # 0
        PROVE  FindPackage(n)' = FindPackage(n)
    BY <2>2, FormIsOperation, StillFound
  <2> QED BY <2>1, <2>2
<1> HIDE DEF A
<1>2. FormSpec => [][A]_allVars
  BY <1>1, FormInvariant, PTL DEF FormSpec
<1> QED BY <1>2 DEF A, OthersUntouched

-----------------------------------------------------------------------------
(* The name conflicts that a form meets.                                   *)

\* A form asks for what the packages it uses export and for what it imports.
LEMMA UseIsAsked ==
    ASSUME NEW n, NEW m \in UseNames(form), NEW e \in External(FindPackage(m)), NameOf(e) = n
    PROVE  entries[e].symbol \in AskedFor(n)
<1>1. PICK o \in DOMAIN form.options :
         form.options[o].kind = "use" /\ m \in Arguments(form.options[o])
  BY DEF UseNames
<1> DEFINE S == {r \in (UNION {present[FindPackage(l)] : l \in Arguments(form.options[o])}) :
                    entries[r].external /\ NameOf(r) = n}
<1>2. e \in S
  <2>1. e \in present[FindPackage(m)] /\ entries[e].external
    BY DEF External
  <2> QED BY <1>1, <2>1
<1>3. Asked(form.options[o], n) = {entries[r].symbol : r \in S}
  BY <1>1 DEF Asked
<1> HIDE DEF S
<1>4. entries[e].symbol \in Asked(form.options[o], n)
  BY <1>2, <1>3
<1> QED BY <1>4 DEF AskedFor

\* The symbol an import brings is asked for by the form.
LEMMA ImportIsAsked ==
    ASSUME NEW n, NEW o \in DOMAIN form.options, form.options[o].kind = "import-from",
           n \in Arguments(form.options[o]), NEW t \in Visible(FindPackage(form.options[o].from), n)
    PROVE  t \in AskedFor(n)
<1>1. Asked(form.options[o], n) = Visible(FindPackage(form.options[o].from), n)
  BY DEF Asked
<1> QED BY <1>1 DEF AskedFor

\* What the package of a form inherits, the form asked for.
LEMMA InheritedIsAsked ==
    ASSUME Inv, FormInv, stage = "applying", form \in Forms, NEW q \in uses[package], NEW n,
           NEW e \in External(q), NameOf(e) = n
    PROVE  entries[e].symbol \in AskedFor(n)
<1>1. PICK m \in UseNames(form) : PackageOf[m] = q
  BY DEF FormInv, Held
<1>2. m \in PackageNames
  BY UseNamesArePackages
<1>3. FindPackage(m) = q
  BY <1>1, <1>2, LookupPackage
<1> QED BY <1>3, UseIsAsked

\* Once the shadowing phases are over, the names that the form shadows are present.
LEMMA ShadowedIsPresent ==
    ASSUME FormInv, stage = "applying", NEW s, Turn(form, todo, s),
           form.options[s[1]].kind \in {"use", "import-from", "intern", "export"},
           NEW n, Shadows(n)
    PROVE  \E e \in present[package] : NameOf(e) = n
<1>1. PICK o \in DOMAIN form.options :
         /\ form.options[o].kind \in {"shadow", "shadowing-import-from"}
         /\ n \in Arguments(form.options[o])
  BY DEF Shadows
<1>2. PICK a \in DOMAIN form.options[o].names : form.options[o].names[a] = n
  BY <1>1 DEF Arguments
<1>3. PICK d : d = <<o, a>>
  OBVIOUS
<1>4. d \in Steps(form) /\ d[1] = o /\ d[2] = a
  BY <1>1, <1>2, <1>3 DEF Steps
<1>5. a # 0
  <2>1. form.options \in Seq(Option)
    BY FormsAssumption DEF Form, Turn
  <2>2. form.options[o] \in Option
    BY <2>1
  <2>3. form.options[o].names \in Seq(SymbolNames)
    BY <1>1, <2>2 DEF Option, NamesPackages, Importing
  <2> QED BY <1>2, <2>3
<1>6. d \notin todo
  <2>1. PhaseAt(form, d) = 2 \/ PhaseAt(form, d) = 3
    BY <1>1, <1>4, PhaseNumbers DEF PhaseAt
  <2>2. \/ PhaseAt(form, s) = 4 \/ PhaseAt(form, s) = 5
        \/ PhaseAt(form, s) = 6 \/ PhaseAt(form, s) = 7
    BY PhaseNumbers DEF PhaseAt
  <2>3. d \in todo => PhaseAt(form, s) <= PhaseAt(form, d)
    BY PhasesOver
  <2> QED BY <2>1, <2>2, <2>3
<1>7. Kept(package, form, o, a)
  BY <1>4, <1>5, <1>6 DEF FormInv, Held
<1> QED BY <1>1, <1>2, <1>7 DEF Kept

\* An operation that ends with a name conflict.
LEMMA OnlyConflict ==
    ASSUME error = 0, error' = 3
    PROVE  ~ Fail(1) /\ ~ Fail(2) /\ ~ Fail(4) /\ ~ Fail(10) /\ ~ Done
BY DEF Fail, Done

\* A conflict met by :intern is one of what the form asks for.
LEMMA InternConflict ==
    ASSUME Inv, Applying, FormInv, stage = "applying", NEW s, Turn(form, todo, s),
           form.options[s[1]].kind \in {"intern", "export"}, NEW n \in SymbolNames,
           Intern(package, n), error' = 3
    PROVE  ~ Shadows(n) /\ Conflict(AskedFor(n))
<1>1. error = 0 /\ package \in PackageIds /\ form \in Forms
  BY DEF Applying
<1>2. Conflict(Visible(package, n))
  BY Zenon, <1>1, OnlyConflict DEF Intern
<1>3. PICK u, v : u # v /\ u \in Visible(package, n) /\ v \in Visible(package, n)
  BY <1>2 DEF Conflict
<1>4. \A t : t \in Visible(package, n) <=> Means(package, n, t)
  BY <1>1, VisibleMeans DEF Inv
<1>5. \A e \in present[package] : NameOf(e) # n
  <2> SUFFICES ASSUME NEW e \in present[package], NameOf(e) = n PROVE FALSE
    OBVIOUS
  <2>1. VisibleIn[package][n] = {entries[e].symbol}
    BY <1>1, PresentMeans
  <2>2. Visible(package, n) = {entries[e].symbol}
    BY <1>1, <2>1, LookupSymbol
  <2> QED BY <1>3, <2>2
<1>6. ASSUME NEW t, Means(package, n, t) PROVE t \in AskedFor(n)
  <2>1. PICK q \in uses[package] : \E e \in External(q) : NameOf(e) = n /\ entries[e].symbol = t
    BY <1>5, <1>6 DEF Means
  <2>2. PICK e \in External(q) : NameOf(e) = n /\ entries[e].symbol = t
    BY <2>1
  <2> QED BY <1>1, <2>2, InheritedIsAsked
<1>7. ~ Shadows(n)
  BY <1>5, ShadowedIsPresent
<1> QED BY <1>3, <1>4, <1>6, <1>7 DEF Conflict

\* A conflict met by :use is one of what the form asks for.
LEMMA UseConflict ==
    ASSUME Inv, Applying, FormInv, stage = "applying", NEW s, Turn(form, todo, s), s[2] # 0,
           form.options[s[1]].kind = "use", NEW m, m = form.options[s[1]].names[s[2]],
           NEW q, q = FindPackage(m), q # 0, UsePackage(package, q), error' = 3
    PROVE  \E n \in SymbolNames : ~ Shadows(n) /\ Conflict(AskedFor(n))
<1>1. error = 0 /\ package \in PackageIds /\ form \in Forms /\ q \in PackageIds
  BY FoundPackage DEF Applying
<1>2. ~ UseExportsValid(package, q)
  BY Zenon, <1>1, OnlyConflict DEF UsePackage
<1>3. PICK e \in present[q] : entries[e].external /\ ~ CandidateVisible(package, entries[e].symbol)
  BY <1>2 DEF UseExportsValid
<1>4. PICK t : t = entries[e].symbol
  OBVIOUS
<1>5. PICK n : n = symbols[t].name
  OBVIOUS
<1>6. NameOf(e) = n /\ n \in SymbolNames
  <2>1. NameOf(e) \in SymbolNames
    BY <1>1, PresentMeans
  <2> QED BY <1>4, <1>5, <2>1 DEF NameOf
<1>7. m \in UseNames(form)
  <2>1. s[1] \in DOMAIN form.options /\ m \in Arguments(form.options[s[1]])
    BY StepFacts DEF Turn
  <2> QED BY <2>1 DEF UseNames
<1>8. t \in AskedFor(n)
  <2>1. e \in External(FindPackage(m))
    BY <1>3 DEF External
  <2> QED BY <1>4, <1>6, <1>7, <2>1, UseIsAsked
<1>9. \A r \in present[package] : NameOf(r) = n => entries[r].shadowing
  <2>1. Pending(form, todo, 4)
    <3>1. PhaseAt(form, s) = 4
      BY PhaseNumbers DEF PhaseAt
    <3> QED BY <3>1 DEF Pending, Turn
  <2> QED BY <2>1 DEF FormInv, Held, Provenance
<1>10. PICK x \in BOOLEAN : x = FALSE
  OBVIOUS
<1>11. PICK k : k = FindPresent(package, n, x)
  OBVIOUS
<1>12. k # 0 => k \in present[package] /\ NameOf(k) = n
  BY <1>1, <1>6, <1>11, Found DEF Inv
<1>13. k = 0 => \A r \in present[package] : NameOf(r) # n
  <2>1. \A r \in present[package] : NameOf(r) = n => k = r
    BY <1>1, <1>6, <1>10, <1>11, Found DEF Inv
  <2>2. \A r \in present[package] : r # 0
    BY <1>1, EntryFacts DEF Inv
  <2> QED BY <2>1, <2>2
<1>14. k = FindPresent(package, n, FALSE)
  BY Zenon, <1>10, <1>11
<1>15. k = 0 /\ ~ Inherited(package, n) \subseteq {t}
  BY <1>3, <1>4, <1>5, <1>9, <1>12, <1>14 DEF CandidateVisible
<1>16. PICK u \in Inherited(package, n) : u # t
  BY <1>15
<1>17. u \in AskedFor(n)
  <2>1. u \in Visible(package, n)
    BY <1>14, <1>15, <1>16 DEF Visible
  <2>2. Means(package, n, u)
    BY <1>1, <1>6, <2>1, VisibleMeans DEF Inv
  <2>3. PICK r \in uses[package] : \E g \in External(r) : NameOf(g) = n /\ entries[g].symbol = u
    BY <1>13, <1>15, <2>2 DEF Means
  <2>4. PICK g \in External(r) : NameOf(g) = n /\ entries[g].symbol = u
    BY <2>3
  <2> QED BY <1>1, <2>4, InheritedIsAsked
<1>18. ~ Shadows(n)
  BY <1>13, <1>15, ShadowedIsPresent
<1> QED BY <1>6, <1>8, <1>16, <1>17, <1>18 DEF Conflict

\* A conflict met when a symbol is imported is one of what the form asks for.
LEMMA ImportConflict ==
    ASSUME Inv, Applying, FormInv, stage = "applying", NEW s, Turn(form, todo, s), s[2] # 0,
           form.options[s[1]].kind = "import-from", NEW n, n = form.options[s[1]].names[s[2]],
           NEW t, Visible(FindPackage(form.options[s[1]].from), n) = {t},
           symbols[t].name = n, ImportSymbol(package, t), error' = 3
    PROVE  ~ Shadows(n) /\ Conflict(AskedFor(n))
<1>1. error = 0 /\ package \in PackageIds /\ form \in Forms /\ WellFormed(form)
  BY DEF Applying, FormInv
<1>2. /\ s[1] \in DOMAIN form.options /\ n \in Arguments(form.options[s[1]])
      /\ n \in SymbolNames
  BY <1>1, StepFacts DEF Turn, Importing
<1>3. ~ Visible(package, n) \subseteq {t}
  BY Zenon, <1>1, OnlyConflict DEF ImportSymbol, ImportCommit
<1>4. PICK u \in Visible(package, n) : u # t
  BY <1>3
<1>5. t \in AskedFor(n)
  BY <1>2, ImportIsAsked
<1>6. ~ Shadows(n)
  <2> SUFFICES ASSUME NEW o \in DOMAIN form.options,
                      form.options[o].kind \in {"shadow", "shadowing-import-from"},
                      n \in Arguments(form.options[o])
      PROVE  FALSE
    BY DEF Shadows
  <2>1. DisjointKinds(form.options[o].kind, form.options[s[1]].kind)
    BY DEF DisjointKinds, Importing
  <2> QED BY <1>1, <1>2, <2>1 DEF WellFormed
<1>7. Means(package, n, u)
  BY <1>1, <1>2, <1>4, VisibleMeans DEF Inv
<1>8. CASE \E e \in present[package] : NameOf(e) = n /\ entries[e].symbol = u
  <2>1. PICK e \in present[package] : NameOf(e) = n /\ entries[e].symbol = u
    BY <1>8
  <2>2. Pending(form, todo, 5)
    <3>1. PhaseAt(form, s) = 5
      BY PhaseNumbers DEF PhaseAt
    <3> QED BY <3>1 DEF Pending, Turn
  <2>3. Provenance(package, form, todo, e)
    BY DEF FormInv, Held
  <2>4. ~ entries[e].shadowing
    <3>1. ShadowsIn(form, n) => Shadows(n)
      BY DEF ShadowsIn, Shadows
    <3> QED BY <1>6, <2>1, <2>3, <3>1 DEF Provenance
  <2>5. PICK d \in Steps(form) \ todo :
           /\ d[2] # 0 /\ form.options[d[1]].kind = "import-from"
           /\ form.options[d[1]].names[d[2]] = n
    BY <2>1, <2>2, <2>3, <2>4 DEF Provenance, ImportedBy
  <2>6. Kept(package, form, d[1], d[2])
    BY <2>5 DEF FormInv, Held
  <2>7. PICK q : q = PackageOf[form.options[d[1]].from]
    OBVIOUS
  <2>8. q # 0 /\ \E r \in present[package] : NameOf(r) = n /\ VisibleIn[q][n] = {entries[r].symbol}
    BY ZenonT(40), <2>5, <2>6, <2>7 DEF Kept
  <2>9. VisibleIn[q][n] = {u}
    BY <1>1, <2>1, <2>8 DEF Inv, IndexAgrees
  <2>10. /\ d[1] \in DOMAIN form.options /\ n \in Arguments(form.options[d[1]])
         /\ form.options[d[1]].from \in PackageNames
    BY <1>1, <2>5, StepFacts DEF Importing
  <2>11. q = FindPackage(form.options[d[1]].from) /\ q \in PackageIds
    <3>1. q = FindPackage(form.options[d[1]].from)
      BY <2>7, <2>10, LookupPackage
    <3> QED BY ZenonT(40), <2>8, <3>1, FoundPackage
  <2>12. u \in Visible(FindPackage(form.options[d[1]].from), n)
    BY ZenonT(40), <1>2, <2>9, <2>11, LookupSymbol
  <2>13. u \in AskedFor(n)
    BY <2>5, <2>10, <2>12, ImportIsAsked
  <2> QED BY <1>4, <1>5, <1>6, <2>13 DEF Conflict
<1>9. CASE \E r \in uses[package] : \E g \in External(r) : NameOf(g) = n /\ entries[g].symbol = u
  <2>1. PICK r \in uses[package] : \E g \in External(r) : NameOf(g) = n /\ entries[g].symbol = u
    BY <1>9
  <2>2. PICK g \in External(r) : NameOf(g) = n /\ entries[g].symbol = u
    BY <2>1
  <2>3. u \in AskedFor(n)
    BY <1>1, <2>2, InheritedIsAsked
  <2> QED BY <1>4, <1>5, <1>6, <2>3 DEF Conflict
<1> QED BY <1>7, <1>8, <1>9 DEF Means

\* No package but its own uses that of the form, and its own sees the symbol.
LEMMA ExportConflict ==
    ASSUME Inv, Applying, Unused, stage = "applying", NEW n, NEW t, Visible(package, n) = {t},
           symbols[t].name = n, ExportSymbol(package, t), error' = 3
    PROVE  FALSE
<1>1. error = 0 /\ package \in PackageIds
  BY DEF Applying
<1>2. ~ ExportUsersValid(package, t)
  BY Zenon, <1>1, OnlyConflict DEF ExportSymbol, MarkExternal
<1>3. PICK u \in 1..Len(pname) : package \in uses[u] /\ ~ CandidateVisible(u, t)
  BY <1>2 DEF ExportUsersValid
<1>4. u \in PackageIds
  BY Valid DEF Inv, ValidPackage
<1>5. u = package
  BY <1>3, <1>4 DEF Unused
<1>6. ~ CandidateVisible(package, t)
  BY <1>3, <1>5
<1> QED BY <1>6 DEF CandidateVisible, Visible

\* What a step of a form that ends with a name conflict shows.
LEMMA ConflictShown ==
    ASSUME Inv, Applying, Unused, FormInv, stage = "applying", [FormNext]_allVars, error' = 3
    PROVE  \E n \in SymbolNames : Ambiguous(n) \/ (~ Shadows(n) /\ Conflict(AskedFor(n)))
<1> DEFINE goal == \E n \in SymbolNames :
                      Ambiguous(n) \/ (~ Shadows(n) /\ Conflict(AskedFor(n)))
<1>1. error = 0 /\ package \in PackageIds /\ form \in Forms /\ todo \subseteq Steps(form)
  BY DEF Applying
<1>2. ~ UNCHANGED vars
  BY <1>1 DEF vars
<1>3. PICK s \in todo : \E option, n :
         /\ option = form.options[s[1]]
         /\ n = IF s[2] = 0 THEN option.from ELSE option.names[s[2]]
         /\ \A t \in todo \ {s} : Earlier(s, t)
         /\ ApplyArgument(s, option, n)
  <2>1. ~ Finish /\ ~ UNCHANGED allVars
    BY <1>2 DEF Finish, allVars
  <2>2. ~ Read /\ ~ (\E n \in PackageNames, string, extra \in BOOLEAN : Select(n, string, extra)) /\ ~ \E f \in Forms : Define(f)
    BY DEF Read, Select, Define
  <2> QED BY Zenon, <2>1, <2>2 DEF FormNext, Apply
<1>4. PICK option, n :
         /\ option = form.options[s[1]]
         /\ n = IF s[2] = 0 THEN option.from ELSE option.names[s[2]]
         /\ \A t \in todo \ {s} : Earlier(s, t)
         /\ ApplyArgument(s, option, n)
  BY <1>3
<1>5. Turn(form, todo, s)
  BY <1>1, <1>4 DEF Turn, FormInv, Earlier, Before, PhaseAt
<1>6. /\ option.kind \in NamesPackages => s[2] # 0 /\ n \in PackageNames
      /\ option.kind \in {"shadow", "intern", "export"} => s[2] # 0 /\ n \in SymbolNames
      /\ option.kind \in Importing /\ s[2] # 0 => n \in SymbolNames
      /\ s[2] # 0 => n = option.names[s[2]] /\ n \in Arguments(option)
      /\ s[1] \in DOMAIN form.options
  BY <1>1, <1>4, StepFacts DEF FormInv
<1>7. ~ Fail(1) /\ ~ Fail(2) /\ ~ Fail(4) /\ ~ Fail(10) /\ ~ Done
  BY <1>1, OnlyConflict
<1>8. CASE s[2] > 0 /\ option.kind \in Importing /\ ApplyImport(s, n, option.from, option.kind)
  <2>1. s[2] # 0
    BY <1>8
  <2>2. n \in SymbolNames /\ n = option.names[s[2]] /\ n \in Arguments(option)
    BY <1>6, <1>8, <2>1
  <2>3. PICK q : q = FindPackage(option.from)
    OBVIOUS
  <2>4. CASE Conflict(Visible(q, n))
    BY ZenonT(60), <1>4, <1>6, <1>8, <2>2, <2>3, <2>4 DEF Ambiguous
  <2>5. ASSUME q # 0, NEW t \in SymbolIds, Visible(q, n) = {t}, option.kind = "import-from",
               ImportSymbol(package, t)
        PROVE  goal
    <3>1. q \in PackageIds
      BY <2>3, <2>5, FoundPackage
    <3>2. symbols[t].name = n
      BY <2>2, <2>5, <3>1, MeaningNamed
    <3>3. ~ Shadows(n) /\ Conflict(AskedFor(n))
      BY <1>4, <1>5, <2>1, <2>2, <2>3, <2>5, <3>2, ImportConflict
    <3> QED BY <2>2, <3>3
  <2>6. ASSUME NEW t, ShadowingImport(package, t) PROVE FALSE
    BY Zenon, <1>7, <2>6 DEF ShadowingImport
  <2> HIDE DEF goal
  <2>7. goal
    BY Zenon, <1>2, <1>8, <2>3, <2>4, <2>5, <2>6 DEF ApplyImport, goal
  <2> QED BY <2>7 DEF goal
<1>9. CASE option.kind = "use" /\ ApplyUse(s, n)
  <2>1. s[2] # 0 /\ n = option.names[s[2]]
    BY <1>6, <1>9 DEF NamesPackages
  <2>2. PICK q : q = FindPackage(n)
    OBVIOUS
  <2>3. q # 0 /\ UsePackage(package, q)
    BY Zenon, <1>2, <1>9, <2>2 DEF ApplyUse, Nothing
  <2>4. \E m \in SymbolNames : ~ Shadows(m) /\ Conflict(AskedFor(m))
    BY <1>4, <1>5, <1>9, <2>1, <2>2, <2>3, UseConflict
  <2> QED BY <2>4
<1>10. CASE option.kind \in {"intern", "export"} /\ Intern(package, n)
  <2>1. n \in SymbolNames
    BY <1>6, <1>10
  <2>2. ~ Shadows(n) /\ Conflict(AskedFor(n))
    BY <1>4, <1>5, <1>10, <2>1, InternConflict
  <2> QED BY <2>1, <2>2
<1>11. CASE option.kind = "intern" /\ ApplyIntern(s, n)
  BY Zenon, <1>2, <1>10, <1>11 DEF ApplyIntern, Nothing
<1>12. CASE option.kind = "export" /\ ApplyExport(s, n)
  <2>1. ASSUME NEW t \in SymbolIds, Visible(package, n) = {t}, ExportSymbol(package, t)
        PROVE  FALSE
    <3>1. n \in SymbolNames
      BY <1>6, <1>12
    <3>2. symbols[t].name = n
      BY <1>1, <2>1, <3>1, MeaningNamed
    <3> QED BY <2>1, <3>2, ExportConflict
  <2>2. Intern(package, n)
    BY Zenon, <1>12, <2>1 DEF ApplyExport
  <2> QED BY <1>10, <1>12, <2>2
<1>13. ASSUME option.kind = "nicknames", ApplyNickname(s, n) PROVE FALSE
  BY Zenon, <1>2, <1>7, <1>13 DEF ApplyNickname, AddAlias, Nothing
<1>14. ASSUME option.kind = "shadow", ApplyShadow(s, n) PROVE FALSE
  BY Zenon, <1>7, <1>14 DEF ApplyShadow, ShadowName
<1>15. ASSUME ApplyFrom(s, n) PROVE FALSE
  BY Zenon, <1>2, <1>15 DEF ApplyFrom, Nothing
<1> QED BY Zenon, <1>2, <1>4, <1>8, <1>9, <1>11, <1>12, <1>13, <1>14, <1>15
           DEF ApplyArgument

\* No form meets a name conflict because of the order in which its options are
\* written, or because of a name that it shadows.
THEOREM ConflictsAreReal == FormSpec => ConflictIsReal
<1> DEFINE A == stage = "applying" /\ error' = 3 =>
                   \E n \in SymbolNames :
                      Ambiguous(n) \/ (~ Shadows(n) /\ Conflict(AskedFor(n)))
<1>1. Inv /\ Applying /\ Unused /\ FormInv /\ [FormNext]_allVars => [A]_allVars
  BY ConflictShown
<1> HIDE DEF A
<1>2. FormSpec => [][A]_allVars
  BY <1>1, FormInvariant, PTL DEF FormSpec
<1> QED BY <1>2 DEF A, ConflictIsReal
=============================================================================
