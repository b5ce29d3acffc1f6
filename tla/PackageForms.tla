---------------------------- MODULE PackageForms ----------------------------
(***************************************************************************)
(* bootstrap/frontend/package_form*.lisp: the defpackage and in-package    *)
(* forms of a unit, applied to the environment between the tokens of the   *)
(* forms around them.  A defpackage form is validated as a whole and then  *)
(* applied in seven phases, one for each kind of option, by the operations *)
(* of Environment.  Nothing is rolled back: the first failure ends the     *)
(* collection of the unit with the phases before it applied.               *)
(*                                                                         *)
(* The names of a form are its designators: strings, decoded behind the    *)
(* names in use whenever they are looked at, or symbols the reader made.   *)
(***************************************************************************)
EXTENDS Environment

CONSTANT
    Forms  \* bound: the defpackage forms of the unit

\* native_package_option_kind in the order of the phases; "other" is kind 0.
Phases == <<"nicknames", "shadow", "shadowing-import-from", "use",
            "import-from", "intern", "export">>
Phase(kind) == CHOOSE i \in 1..7 : Phases[i] = kind
Importing == {"shadowing-import-from", "import-from"}
NamesPackages == {"nicknames", "use"}

\* An option has its kind, the designators behind it and, when it imports, the
\* package in front of them; strings: the designators are strings.
Option == [kind : {"other"}]
          \cup [kind : NamesPackages, names : Seq(PackageNames)]
          \cup [kind : {"shadow", "intern", "export"}, names : Seq(SymbolNames)]
          \cup [kind : Importing, from : PackageNames, names : Seq(SymbolNames)]
Form == [name : PackageNames, strings : BOOLEAN, options : Seq(Option)]

NoForm == [name |-> SeedPackages[CL], strings |-> FALSE, options |-> <<>>]

ASSUME FormsAssumption == Forms \subseteq Form

VARIABLES
    stage,    \* "reading", "applying", "failed"
    form,     \* the form that is applied, NoForm between forms
    package,  \* native_package_context.package
    todo,     \* the arguments of its options that are still to be applied
    decoded   \* native_package_apply_name has decoded the next of them, a name to
              \* export, and interned it

formVars == <<stage, form, package, todo, decoded>>
allVars == <<vars, formVars>>

-----------------------------------------------------------------------------
(* package_form_names.lisp, package_form_validation.lisp                   *)

\* native_package_name finds room for a string behind `held` bytes.
Readable(f, n, held) == f.strings => NamesRoom(held + Length[n] + 1)

\* The designators of an option, and those that native_package_option_arguments
\* gives.
Arguments(option) == {option.names[a] : a \in DOMAIN option.names}
Designators(option) ==
    Arguments(option) \cup IF option.kind \in Importing THEN {option.from} ELSE {}

\* Mutant: only interned and exported names are kept apart.
MutantDisjointKinds(left, right) == {left, right} = {"intern", "export"}
\* native_package_disjoint_kinds_p.
DisjointKinds(left, right) ==
    \/ {left, right} = {"intern", "export"}
    \/ /\ left # right
       /\ {left, right} \subseteq Importing \cup {"shadow", "intern"}

\* native_package_validate_options; "other" is also an option that imports and
\* names no package.
OptionsValid(f) ==
    \A o \in DOMAIN f.options :
       /\ f.options[o].kind # "other"
       /\ \A n \in Designators(f.options[o]) : Readable(f, n, 0)

\* native_package_validate_disjoint, with native_package_names_equal_p.
DisjointValid(f) ==
    \A o, l \in DOMAIN f.options :
       o < l /\ DisjointKinds(f.options[o].kind, f.options[l].kind) =>
          \A n \in Arguments(f.options[o]), m \in Arguments(f.options[l]) :
             n # m /\ Readable(f, m, Length[n])

\* native_package_validate_definition.
DefinitionValid(f) == Readable(f, f.name, 0) /\ OptionsValid(f) /\ DisjointValid(f)

-----------------------------------------------------------------------------
(* package_forms.lisp                                                      *)

\* The arguments of the options; argument 0 is the package an option imports
\* from.
Steps(f) ==
    UNION {{o} \X (DOMAIN f.options[o].names
                     \cup IF f.options[o].kind \in Importing THEN {0} ELSE {}) :
              o \in DOMAIN f.options}

\* Mutant: the options are applied as they are written.
MutantEarlier(s, t) == s[1] < t[1] \/ (s[1] = t[1] /\ s[2] < t[2])
\* native_package_apply_phases: phase by phase, then as written.
Earlier(s, t) ==
    LET p == Phase(form.options[s[1]].kind)
        q == Phase(form.options[t[1]].kind)
    IN p < q \/ (p = q /\ (s[1] < t[1] \/ (s[1] = t[1] /\ s[2] < t[2])))

\* A form returns, and its native_package_context is used no more.
Leave(next) ==
    /\ stage' = next /\ form' = NoForm /\ package' = 0 /\ todo' = {}
    /\ decoded' = FALSE
Failed == Leave("failed")
Applied(s) ==
    /\ stage' = stage /\ todo' = todo \ {s} /\ decoded' = FALSE
    /\ UNCHANGED <<form, package>>

\* What follows an operation of the environment: its error ends the form.
After(s) == (error' # 0 /\ Failed) \/ (error' = 0 /\ Applied(s))

\* An operation that finds its work done.
Nothing(s) == UNCHANGED vars /\ Applied(s)

\* native_package_apply_name: the seven kinds but the imports.
ApplyNickname(s, n) ==
    \/ AddAlias(package, n) /\ After(s)
    \/ FindPackage(n) = package /\ Nothing(s)
ApplyShadow(s, n) == ShadowName(package, n) /\ After(s)
\* Mutant: the packages are swapped.
MutantApplyUse(s, n) ==
    LET q == FindPackage(n) IN
    \/ q = 0 /\ Failed /\ UNCHANGED vars
    \/ q # 0 /\ UsePackage(q, package) /\ After(s)
    \/ q # 0 /\ package \in uses[q] /\ Nothing(s)
ApplyUse(s, n) ==
    LET q == FindPackage(n) IN
    \/ q = 0 /\ Failed /\ UNCHANGED vars
    \/ q # 0 /\ UsePackage(package, q) /\ After(s)
    \/ q \in uses[package] /\ Nothing(s)
ApplyIntern(s, n) ==
    \/ Intern(package, n) /\ After(s)
    \/ \E symbol \in SymbolIds : Visible(package, n) = {symbol} /\ Nothing(s)
\* A symbol that the intern had to make is exported by the next step, which does
\* not decode its name again.
ApplyExport(s, n) ==
    \/ /\ Intern(package, n)
       /\ \/ error' # 0 /\ Failed
          \/ error' = 0 /\ decoded' = TRUE /\ UNCHANGED <<stage, form, package, todo>>
    \/ \E symbol \in SymbolIds : /\ Visible(package, n) = {symbol}
                                 /\ ExportSymbol(package, symbol) /\ After(s)

\* native_package_apply_option: the package that the names come from.
ApplyFrom(s, from) ==
    \/ FindPackage(from) = 0 /\ Failed /\ UNCHANGED vars
    \/ FindPackage(from) # 0 /\ Nothing(s)

\* native_package_apply_import, with the package that ApplyFrom found.
ApplyImport(s, n, from, kind) ==
    LET q == FindPackage(from)
        found == Visible(q, n)
    IN /\ q # 0
       /\ \/ found = {} /\ Failed /\ UNCHANGED vars
          \/ Conflict(found) /\ Fail(3) /\ Failed
          \/ \E symbol \in SymbolIds :
                /\ found = {symbol}
                /\ \/ kind = "import-from" /\ ImportSymbol(package, symbol)
                   \/ kind # "import-from" /\ ShadowingImport(package, symbol)
                /\ After(s)

\* One turn of native_package_apply_arguments.
ApplyArgument(s, option, n) ==
    \/ ~ decoded /\ ~ Readable(form, n, 0) /\ Failed /\ UNCHANGED vars
    \/ /\ decoded \/ Readable(form, n, 0)
       /\ \/ s[2] = 0 /\ ApplyFrom(s, n)
          \/ /\ s[2] > 0 /\ option.kind \in Importing
             /\ ApplyImport(s, n, option.from, option.kind)
          \/ option.kind = "nicknames" /\ ApplyNickname(s, n)
          \/ option.kind = "shadow" /\ ApplyShadow(s, n)
          \/ option.kind = "use" /\ ApplyUse(s, n)
          \/ option.kind = "intern" /\ ApplyIntern(s, n)
          \/ option.kind = "export" /\ ApplyExport(s, n)

Apply ==
    /\ stage = "applying"
    /\ \E s \in todo :
          LET option == form.options[s[1]] IN
          /\ \A t \in todo \ {s} : Earlier(s, t)
          /\ ApplyArgument(s, option,
                           IF s[2] = 0 THEN option.from ELSE option.names[s[2]])

\* native_package_define: a form that is refused makes no package.
Define(f) ==
    /\ stage = "reading" /\ error = 0
    /\ \/ ~ DefinitionValid(f) /\ Failed /\ UNCHANGED vars
       \/ /\ DefinitionValid(f) /\ MakePackage(f.name)
          /\ \/ error' # 0 /\ Failed
             \/ /\ error' = 0
                /\ stage' = "applying" /\ form' = f
                /\ package' = Len(pname') /\ todo' = Steps(f) /\ decoded' = FALSE

\* The form returns 1, and collection goes on.
Finish ==
    /\ stage = "applying" /\ todo = {}
    /\ Leave("reading")
    /\ UNCHANGED vars

\* native_package_select; string: the designator is a string, extra: another
\* argument follows it.
Select(n, string, extra) ==
    LET readable == string => NamesRoom(Length[n] + 1) IN
    /\ stage = "reading" /\ error = 0
    /\ \/ /\ extra \/ ~ readable \/ FindPackage(n) = 0
          /\ Failed /\ UNCHANGED vars
       \/ ~ extra /\ readable /\ SelectPackage(n) /\ UNCHANGED formVars

\* The reader takes a token of the next form; native_unit_fail ends the unit.
Read ==
    /\ stage = "reading"
    /\ ReadMalformed \/ \E t \in Tokens : ReadSymbol(t)
    /\ (error' # 0 /\ Failed) \/ (error' = 0 /\ UNCHANGED formVars)

FormInit ==
    /\ Init
    /\ stage = "reading" /\ form = NoForm /\ package = 0 /\ todo = {}
    /\ decoded = FALSE

FormNext ==
    \/ Read
    \/ \E n \in PackageNames, string, extra \in BOOLEAN : Select(n, string, extra)
    \/ \E f \in Forms : Define(f)
    \/ Apply
    \/ Finish

FormSpec == FormInit /\ [][FormNext]_allVars

-----------------------------------------------------------------------------
(* Properties                                                              *)

\* What option o asks for with its argument a holds in the package.
Honoured(o, a) ==
    LET option == form.options[o]
        n == option.names[a]
        kind == option.kind
        record == FindPresent(package, n, FALSE)
    IN /\ kind = "nicknames" => FindPackage(n) = package
       /\ kind = "use" => FindPackage(n) \in uses[package]
       /\ kind = "shadow" => /\ record # 0 /\ entries[record].shadowing
                             /\ symbols[entries[record].symbol].home = package
       /\ kind = "import-from" =>
             record # 0 /\ Visible(package, n) = Visible(FindPackage(option.from), n)
       /\ kind = "shadowing-import-from" =>
             /\ record # 0 /\ entries[record].shadowing
             /\ \/ Visible(package, n) = Visible(FindPackage(option.from), n)
                \/ \E l \in DOMAIN form.options :
                      o < l /\ form.options[l].kind = kind /\ n \in Arguments(form.options[l])
       /\ kind = "intern" => Visible(package, n) # {}
       /\ kind = "export" => FindPresent(package, n, TRUE) # 0

\* The phases do not undo each other: when native_package_define returns 1,
\* everything every option asked for holds at once, whatever the order in which
\* the options were written.  Only a shadowing import gives way to a later one
\* of the same name.
FormHonoured ==
    stage = "applying" /\ todo = {} =>
       \A o \in DOMAIN form.options : \A a \in DOMAIN form.options[o].names : Honoured(o, a)

\* The symbols a form asks for under the name n without shadowing it.
Shadows(n) ==
    \E o \in DOMAIN form.options :
       /\ form.options[o].kind \in {"shadow", "shadowing-import-from"}
       /\ n \in Arguments(form.options[o])
Asked(option, n) ==
    IF option.kind = "import-from" /\ n \in Arguments(option)
    THEN Visible(FindPackage(option.from), n)
    ELSE IF option.kind = "use"
    THEN {entries[e].symbol : e \in {e \in UNION {present[FindPackage(m)] :
             m \in Arguments(option)} : entries[e].external /\ NameOf(e) = n}}
    ELSE {}
AskedFor(n) == UNION {Asked(form.options[o], n) : o \in DOMAIN form.options}

\* An import asks for a name that is ambiguous in the package it names, as KEYWORD
\* can make one in a package that uses it.
Ambiguous(n) ==
    \E o \in DOMAIN form.options :
       /\ form.options[o].kind \in Importing /\ n \in Arguments(form.options[o])
       /\ Conflict(Visible(FindPackage(form.options[o].from), n))

\* "Shadows precede use relationships, imports/interning precede exports"
\* (docs/core.md:782): no form is refused because of the order in which its
\* options are written.  When one meets a name conflict, it really asks for two
\* symbols of one name and shadows neither, or it was met where it imports from.
ConflictIsReal ==
    [][stage = "applying" /\ error' = 3 =>
          \E n \in SymbolNames :
             Ambiguous(n) \/ (~ Shadows(n) /\ Conflict(AskedFor(n)))]_allVars

\* A defpackage form that goes through, or that fails half way, leaves every
\* other package as it was: no name means anything else in one, none uses other
\* packages, and every package is found under the names it had.
OthersUntouched ==
    [][/\ stage = "applying" =>
             \A q \in 1..Len(pname) \ {package} :
                /\ uses'[q] = uses[q]
                /\ \A n \in SymbolNames : Visible(q, n)' = Visible(q, n)
       /\ \A n \in PackageNames :
             FindPackage(n) # 0 => FindPackage(n)' = FindPackage(n)]_allVars
=============================================================================
