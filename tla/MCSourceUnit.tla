---------------------------- MODULE MCSourceUnit ----------------------------
(* Small file systems for the source loader.                               *)
EXTENDS SourceUnit, SequencesExt

F(d, b) == [dir |-> d, base |-> b]
\* Three sources and two C files in two directories; lib/alias.lisp is a link
\* to lib/b.lisp, and each directory has a c.lisp.
MCFiles == {F("src", "a"), F("lib", "b"), F("lib", "c"), F("src", "x"), F("lib", "x")}
MCPaths == {F(d, b) : d \in {"src", "lib"}, b \in {"a", "b", "c", "x", "alias", "gone"}}
MCRealpath ==
    [p \in MCPaths |-> IF p = F("lib", "alias") THEN F("lib", "b")
                       ELSE IF p \in MCFiles THEN p ELSE NoFile]
MCRoot == F("src", "a")

\* The forms of the given kinds with the given names.
Forms(kinds, names) ==
    UNION {{[kind |-> k, name |-> n] : n \in
               IF k = "include" THEN {m \in names : m.base # "x"}
               ELSE IF k = "ffi" THEN {m \in names : m.base = "x"}
               ELSE {F(Here, "none")}} : k \in kinds}

\* Every way to write at most MaxForms of these forms into each source.
Written(sources, forms) ==
    {[f \in MCFiles |-> IF f \in sources THEN t[f] ELSE <<>>] :
        t \in [sources -> BoundedSeq(forms, MaxForms)]}

\* Three files that include each other, and two files with every kind of form.
Includes ==
    Written({F("src", "a"), F("lib", "b"), F("lib", "c")},
            Forms({"form", "include"}, {F("lib", "b"), F("lib", "alias"), F(Here, "c")}))
Mixed ==
    Written({F("src", "a"), F("lib", "b")},
            Forms({"form", "include", "ffi", "bad", "syntax"},
                  {F("lib", "b"), F(Here, "x"), F("lib", "x")}))
MCTexts == Includes \cup Mixed

\* Three files with forms are loaded without faults, fewer with faults.
ThreeSources(t) == t[F("lib", "c")] # <<>>
=============================================================================
