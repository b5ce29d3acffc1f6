----------------------------- MODULE SourceUnit -----------------------------
(***************************************************************************)
(* bootstrap/host/source_unit.lisp with source_frames, source_buffers,     *)
(* source_c_files, source_environment and source_paths: the loader that    *)
(* splices a root file and what it includes into one unit.  The recursion  *)
(* source_load_file -> source_load_forms -> source_load_include is an      *)
(* explicit stack of frames; a step runs from one call or return to the    *)
(* next.  Every allocation may fail; `live` holds the blocks not yet freed.*)
(***************************************************************************)
EXTENDS Naturals, Sequences, FiniteSets

CONSTANTS
    Files,     \* the canonical paths, each [dir, base]
    Paths,     \* every path that can be put together, Files included
    Realpath,  \* realpath(): [Paths -> Files \cup {NoFile}]
    NoFile,
    RootPath,  \* the path native_read_source_unit is called with
    Texts,     \* the file systems examined: [Files -> sequences of forms]
    MaxForms,  \* bound: forms per file
    Reliable(_) \* those examined without failing allocations and reads

\* A directory part of a name that is not absolute.
Here == "here"

\* source_include_path joins a relative name to the directory of the file that
\* holds the form.
IncludePath(f, name) ==
    IF name.dir = Here THEN [dir |-> f.dir, base |-> name.base] ELSE name

ASSUME SourceUnitAssumption ==
    /\ Files \subseteq Paths /\ NoFile \notin Files /\ RootPath \in Paths
    /\ Realpath \in [Paths -> Files \cup {NoFile}]
    /\ MaxForms \in Nat
    /\ \A t \in Texts : Reliable(t) \in BOOLEAN
    /\ \A t \in Texts : \A f \in Files :
          /\ Len(t[f]) \in 0..MaxForms
          /\ \A i \in 1..Len(t[f]) :
                t[f][i].kind \in {"include", "ffi"} => IncludePath(f, t[f][i].name) \in Paths

VARIABLES
    text,     \* what the files contain while the loader runs
    phase,    \* where the loader is
    target,   \* the argument of source_load_file in phase "load"
    status,   \* the value the last call returned
    files,    \* unit.files: [path, active], newest first
    stack,    \* the native_source_frames: [file, next form], innermost last
    output,   \* unit.bytes: the forms copied so far, as <<file, index>>
    csources, \* unit.c_sources: canonical C paths in declaration order
    live,     \* allocated blocks
    faulty,   \* a block was freed twice, or lost to a second allocation
    returned  \* what the caller received: "nothing" yet, "null" or "bytes"

vars == <<text, phase, target, status, files, stack, output, csources,
          live, faulty, returned>>

\* Whether allocations and reads may fail.
MayFail == ~ Reliable(text)

-----------------------------------------------------------------------------
(* Blocks.                                                                 *)

Tables == {<<"table", "packages">>, <<"table", "names">>}
FrameBlocks(f) == {<<"frame", f>>, <<"bytes", f>>, <<"nodes", f>>,
                   <<"identities", f>>}
\* What a frame holds when a step of source_prepare_frame fails.
PartialFrames(f) == {{}, {<<"frame", f>>}, {<<"frame", f>>, <<"bytes", f>>},
                     {<<"frame", f>>, <<"bytes", f>>, <<"nodes", f>>}}
\* source_release_frame: the three arrays, NULL or not, and the frame.
MutantReleasedFrame(f) == FrameBlocks(f) \ {<<"identities", f>>}
ReleasedFrame(f) == FrameBlocks(f)
FileBlocks(f) == {<<"path", f>>, <<"file", f>>}
NameBlocks(f) == {<<"name", f>>, <<"joined", f>>}
CBlocks(S) == UNION {{<<"cpath", p>>, <<"centry", p>>} : p \in S}
Output == <<"output", "bytes">>
Unit == <<"unit", "unit">>

\* The list of entries has these elements.
Elements(list) == {list[i] : i \in 1..Len(list)}
MutantListed == {e.path : e \in {x \in Elements(files) : x.active}}
Listed == {e.path : e \in Elements(files)}

Allocate(S) ==
    /\ live' = live \cup S
    /\ faulty' = (faulty \/ S \cap live # {})
Free(S) ==
    /\ live' = live \ S
    /\ faulty' = (faulty \/ ~ S \subseteq live)
KeepBlocks == UNCHANGED <<live, faulty>>

-----------------------------------------------------------------------------
Init ==
    /\ text \in Texts
    /\ phase = "start" /\ target = RootPath /\ status = 0
    /\ files = <<>> /\ stack = <<>> /\ output = <<>> /\ csources = <<>>
    /\ live = {} /\ faulty = FALSE
    /\ returned = "nothing"

-----------------------------------------------------------------------------
(* native_read_source_unit up to its call of source_load_file, with        *)
(* source_allocate_environment: the tables are allocated, then the growable*)
(* arrays, then the standard packages are seeded.                          *)

Begin ==
    /\ phase = "start"
    /\ \/ /\ phase' = "load"
          /\ Allocate({Unit} \cup Tables)
          /\ UNCHANGED returned
       \/ /\ MayFail
          /\ \E got \in SUBSET Tables :
                /\ <<"table", "names">> \in got =>
                        <<"table", "packages">> \in got
                /\ Allocate({Unit} \cup got)
          /\ phase' = "release"
          /\ UNCHANGED returned
       \/ /\ MayFail
          /\ phase' = "done" /\ returned' = "null"
          /\ KeepBlocks
    /\ UNCHANGED <<text, target, status, files, stack, output, csources>>

-----------------------------------------------------------------------------
(* source_load_file.                                                       *)

Answer(value) == phase' = "return" /\ status' = value

\* source_find_file and source_check_existing_file: a file met before is
\* already spliced, or is being read now and includes itself.
MutantExisting(f) ==
    /\ \E e \in Elements(files) : e.path = f /\ Answer(1)
    /\ KeepBlocks
    /\ UNCHANGED <<files, stack>>
Existing(f) ==
    /\ \E e \in Elements(files) :
          e.path = f /\ Answer(IF e.active THEN 0 ELSE 1)
    /\ KeepBlocks
    /\ UNCHANGED <<files, stack>>

\* source_add_file, then source_prepare_frame: the file is read, the shared
\* environment is grown, the syntax arrays are allocated.
OpenFrame(f) ==
    /\ files' = <<[path |-> f, active |-> TRUE]>> \o files
    /\ stack' = Append(stack, [file |-> f, next |-> 1])
    /\ Allocate(FileBlocks(f) \cup FrameBlocks(f))
    /\ phase' = "scan" /\ status' = 1

\* The same when a step of source_prepare_frame fails after it allocated `got`:
\* source_release_frame frees what the frame holds, the file stays listed and
\* active.
PrepareFails(f, got) ==
    /\ files' = <<[path |-> f, active |-> TRUE]>> \o files
    /\ live' = (live \cup FileBlocks(f) \cup got) \ ReleasedFrame(f)
    /\ faulty' = (faulty \/ (FileBlocks(f) \cup got) \cap live # {})
    /\ Answer(0)
    /\ UNCHANGED stack

\* The canonical path cannot be had, or the list entry cannot be allocated.
LoadFails ==
    /\ Answer(0)
    /\ KeepBlocks
    /\ UNCHANGED <<files, stack>>

NewFile(f) ==
    \/ OpenFrame(f)
    \/ MayFail /\ \E got \in PartialFrames(f) : PrepareFails(f, got)

LoadFile ==
    /\ phase = "load"
    /\ LET f == Realpath[target] IN
       \/ f = NoFile /\ LoadFails
       \/ MayFail /\ LoadFails
       \/ f \in Listed /\ Existing(f)
       \/ f \in Files \ Listed /\ NewFile(f)
    /\ UNCHANGED <<text, target, output, csources, returned>>

-----------------------------------------------------------------------------
(* source_load_forms.                                                      *)

Top == stack[Len(stack)]
Current == Top.file
HasForm == Top.next <= Len(text[Current])
Form == text[Current][Top.next]

Advance == stack' = [stack EXCEPT ![Len(stack)].next = @ + 1]

\* The end of source_load_new_file, reached with the status `value`:
\* source_release_frame, then the file is no longer active.  `also` are the
\* blocks the failing step itself had taken and frees.
LeaveFrame(value, also) ==
    /\ stack' = SubSeq(stack, 1, Len(stack) - 1)
    /\ files' = [i \in 1..Len(files) |->
                    IF files[i].path = Current
                      THEN [files[i] EXCEPT !.active = FALSE] ELSE files[i]]
    /\ Free(ReleasedFrame(Current) \cup also)
    /\ Answer(value)

\* parser_next finds the end of the file.
EndOfFile ==
    /\ ~ HasForm
    /\ LeaveFrame(1, {})
    /\ UNCHANGED <<target, output, csources>>

\* Mutant: the form is put in front.
MutantAppendForm ==
    /\ HasForm /\ Form.kind = "form"
    /\ output' = <<<<Current, Top.next>>>> \o output
    /\ IF output = <<>> THEN Allocate({Output}) ELSE KeepBlocks
    /\ Advance
    /\ UNCHANGED <<phase, target, status, files, csources>>
\* Kind 1: source_append_form grows the one output buffer and copies the form.
AppendForm ==
    /\ HasForm /\ Form.kind = "form"
    /\ output' = Append(output, <<Current, Top.next>>)
    /\ IF output = <<>> THEN Allocate({Output}) ELSE KeepBlocks
    /\ Advance
    /\ UNCHANGED <<phase, target, status, files, csources>>

\* Kind 2: source_load_include decodes the name, joins the path and calls
\* source_load_file, holding both until it returns.
EnterInclude ==
    /\ HasForm /\ Form.kind = "include"
    /\ Allocate(NameBlocks(Current))
    /\ target' = IncludePath(Current, Form.name)
    /\ phase' = "load"
    /\ UNCHANGED <<status, files, stack, output, csources>>

\* Kind 3: source_record_c_path.  The list is walked for the canonical path
\* before it is appended at c_source_tail.
MutantRecordCPath ==
    /\ HasForm /\ Form.kind = "ffi"
    /\ LET path == Realpath[IncludePath(Current, Form.name)] IN
       /\ path # NoFile
       /\ path \notin Elements(csources)
       /\ csources' = <<path>> \o csources
       /\ Allocate(CBlocks({path}))
    /\ Advance
    /\ UNCHANGED <<phase, target, status, files, output>>
RecordCPath ==
    /\ HasForm /\ Form.kind = "ffi"
    /\ LET path == Realpath[IncludePath(Current, Form.name)] IN
       /\ path # NoFile
       /\ path \notin Elements(csources)
       /\ csources' = Append(csources, path)
       /\ Allocate(CBlocks({path}))
    /\ Advance
    /\ UNCHANGED <<phase, target, status, files, output>>

RejectedC ==
    LET path == Realpath[IncludePath(Current, Form.name)] IN
    path = NoFile \/ path \in Elements(csources)

\* source_process_form answers 0: the reader rejects the form, a C path cannot
\* be resolved or is a duplicate, an allocation fails; or parser_next stops at
\* a syntax error.
RejectForm ==
    /\ HasForm
    /\ \/ Form.kind \in {"bad", "syntax"}
       \/ Form.kind = "ffi" /\ RejectedC
       \/ MayFail
    /\ LeaveFrame(0, {})
    /\ UNCHANGED <<target, output, csources>>

Scan ==
    /\ phase = "scan"
    /\ EndOfFile \/ AppendForm \/ EnterInclude \/ RecordCPath \/ RejectForm
    /\ UNCHANGED <<text, returned>>

\* source_load_file returns into source_load_include, which frees its two
\* blocks; the status becomes that of the including frame.
MutantReturn ==
    /\ phase = "return" /\ stack # <<>>
    /\ IF status = 1
         THEN /\ Free(NameBlocks(Current))
              /\ phase' = "scan"
              /\ UNCHANGED <<status, files, stack>>
         ELSE LeaveFrame(0, NameBlocks(Current))
    /\ UNCHANGED <<text, target, output, csources, returned>>
Return ==
    /\ phase = "return" /\ stack # <<>>
    /\ IF status = 1
         THEN /\ Free(NameBlocks(Current))
              /\ Advance
              /\ phase' = "scan"
              /\ UNCHANGED <<status, files>>
         ELSE LeaveFrame(0, NameBlocks(Current))
    /\ UNCHANGED <<text, target, output, csources, returned>>

\* source_load_file returns into native_read_source_unit.
ReturnRoot ==
    /\ phase = "return" /\ stack = <<>>
    /\ phase' = "release"
    /\ UNCHANGED <<text, target, status, files, stack, output, csources, live,
                   faulty, returned>>

-----------------------------------------------------------------------------
(* The end of native_read_source_unit: files and environment go in any     *)
(* case, bytes and C paths are the caller's or go too.  source_take_bytes  *)
(* allocates a buffer for a unit without forms, and that may fail.         *)

OutputBlocks == IF output = <<>> THEN {} ELSE {Output}

Release ==
    /\ phase = "release"
    /\ LET loaded == {Unit} \cup (Tables \cap live)
                     \cup (UNION {FileBlocks(f) : f \in Listed})
       IN \/ /\ status = 1
             /\ live' = (live \ loaded) \cup {Output}
             /\ faulty' = (faulty \/ ~ loaded \subseteq live)
             /\ returned' = "bytes"
             /\ UNCHANGED csources
          \/ /\ status = 1 /\ output = <<>> /\ MayFail
             /\ Free(loaded)
             /\ returned' = "null"
             /\ UNCHANGED csources
          \/ /\ status = 0
             /\ Free(loaded \cup OutputBlocks \cup CBlocks(Elements(csources)))
             /\ returned' = "null"
             /\ csources' = <<>>
    /\ files' = <<>>
    /\ phase' = "done"
    /\ UNCHANGED <<text, target, status, stack, output>>

Next == Begin \/ LoadFile \/ Scan \/ Return \/ ReturnRoot \/ Release

Spec == Init /\ [][Next]_vars

\* The loader is sequential and calls only library functions that return.
FairSpec == Spec /\ WF_vars(Next)

-----------------------------------------------------------------------------
(* Properties.                                                             *)

Names(kind) == {e \in Files \X (1..MaxForms) :
                    e[2] <= Len(text[e[1]]) /\ text[e[1]][e[2]].kind = kind}
Resolved(e) == Realpath[IncludePath(e[1], text[e[1]][e[2]].name)]

\* The files that the files in S include, directly or not, and S.
Targets(f) == {Resolved(e) : e \in {x \in Names("include") : x[1] = f}}
Reached(S) == {f \in Files : \A T \in SUBSET Files :
    (S \cap Files \subseteq T /\ \A g \in T : Targets(g) \cap Files \subseteq T)
        => f \in T}
UnitFiles == Reached({Realpath[RootPath]})
In(kind) == {e \in Names(kind) : e[1] \in UnitFiles}

\* What the source language asks of a unit: every name resolves, no file
\* includes itself, no form is rejected, no C file is named twice.
ValidUnit ==
    /\ Realpath[RootPath] # NoFile
    /\ In("bad") \cup In("syntax") = {}
    /\ \A e \in In("include") \cup In("ffi") : Resolved(e) # NoFile
    /\ \A f \in UnitFiles : f \notin Reached(Targets(f))
    /\ \A d, e \in In("ffi") : Resolved(d) = Resolved(e) => d = e

\* Loading succeeds for valid units only, and for all of them unless memory or
\* a read fails: a cycle through any chain of spellings is caught by the active
\* flag of source_check_existing_file, and a diamond is not taken for one.
AcceptsValidUnits ==
    phase = "done" =>
        /\ returned = "bytes" => ValidUnit
        /\ ~ MayFail /\ ValidUnit => returned = "bytes"

\* Every form of every reached file is in the unit exactly once, however many
\* include forms and spellings lead to its file; the C paths likewise.
SplicedOnce ==
    returned = "bytes" =>
        /\ Elements(output) = In("form") /\ Len(output) = Cardinality(In("form"))
        /\ Elements(csources) = {Resolved(e) : e \in In("ffi")}
        /\ Len(csources) = Cardinality(In("ffi"))

Before(list, x, y) ==
    \E i, j \in 1..Len(list) : list[i] = x /\ list[j] = y /\ i < j

\* The forms of a kind that stand in the place of form i of a file: the form, or
\* what its include brings in.
Brought(f, i) ==
    IF text[f][i].kind = "include" THEN Reached({Resolved(<<f, i>>)}) ELSE {}
Firsts(kind, f, i) == {e \in In(kind) : e = <<f, i>> \/ e[1] \in Brought(f, i)}
InOrder(f, i, j) ==
    /\ text[f][j].kind = "form" =>
          \A e \in Firsts("form", f, i) : Before(output, e, <<f, j>>)
    /\ text[f][j].kind = "ffi" =>
          \A e \in Firsts("ffi", f, i) : Before(csources, Resolved(e), Resolved(<<f, j>>))

\* The unit and its C list are in source order: what stands earlier in a file,
\* and everything that an earlier include brings in, comes first.
SourceOrder ==
    returned = "bytes" =>
        \A f \in UnitFiles : \A i, j \in 1..Len(text[f]) : i < j => InOrder(f, i, j)

\* The blocks the unit, its frames and its pending includes refer to.
FrameFiles == {stack[i].file : i \in 1..Len(stack)}
Including == {stack[i].file : i \in {j \in 1..Len(stack) :
                                  j < Len(stack) \/ phase \in {"load", "return"}}}
Owned ==
    CASE phase = "start" -> {}
      [] phase = "done" -> (IF returned = "bytes" THEN {Output} ELSE {})
                           \cup CBlocks(Elements(csources))
      [] OTHER -> {Unit} \cup (Tables \cap live)
                  \cup (UNION {FileBlocks(f) : f \in Listed})
                  \cup (UNION {FrameBlocks(f) : f \in FrameFiles})
                  \cup (UNION {NameBlocks(f) : f \in Including})
                  \cup OutputBlocks \cup CBlocks(Elements(csources))

\* Whatever fails, and however deep in the includes, nothing is leaked, freed
\* twice or freed while in use: what is allocated is exactly what the unit
\* refers to, and at the end what the caller received.
NothingLost == ~ faulty /\ live = Owned

\* "Errors return null and release partial frames, paths, syntax arrays, and
\* assembled bytes" (docs/core.md, Native compiler): a null result leaves the
\* caller nothing to release.
NullReleasesAll == returned = "null" => live = {}

\* The loader ends on every file system, cyclic ones included.
Terminates == <>(phase = "done")

-----------------------------------------------------------------------------
(* The inductive invariant of the proofs.                                  *)

Entry == [path : Files, active : BOOLEAN]
Frame == [file : Files, next : Nat \ {0}]
Phases == {"start", "load", "scan", "return", "release", "done"}
TypeOK ==
    /\ text \in Texts /\ phase \in Phases /\ status \in {0, 1}
    /\ files \in Seq(Entry) /\ stack \in Seq(Frame)
    /\ output \in Seq(Files \X Nat) /\ csources \in Seq(Files)
    /\ returned \in {"nothing", "null", "bytes"}

Injective(list) == \A i, j \in 1..Len(list) : list[i] = list[j] => i = j
Active == {e.path : e \in {x \in Elements(files) : x.active}}
Finished == {e.path : e \in {x \in Elements(files) : ~ x.active}}

\* A frame stands at an include form.
AtInclude(frame) ==
    /\ frame.next <= Len(text[frame.file])
    /\ text[frame.file][frame.next].kind = "include"

\* The frames are the chain of includes from the root file to the current one,
\* each a different file that is marked active.
StackOK ==
    /\ \A i, j \in 1..Len(files) : files[i].path = files[j].path => i = j
    /\ \A i, j \in 1..Len(stack) : stack[i].file = stack[j].file => i = j
    /\ FrameFiles \subseteq Active
    /\ \A k \in 1..Len(stack) :
          /\ stack[k].next <= Len(text[stack[k].file]) + 1
          /\ k < Len(stack) =>
                /\ AtInclude(stack[k])
                /\ stack[k + 1].file = Resolved(<<stack[k].file, stack[k].next>>)
    /\ stack # <<>> => stack[1].file = Realpath[RootPath]

PhaseOK ==
    /\ phase \in {"start", "release", "done"} => stack = <<>>
    /\ phase = "start" \/ (phase = "load" /\ stack = <<>>) =>
          /\ files = <<>> /\ output = <<>> /\ csources = <<>> /\ status = 0
          /\ target = RootPath
    /\ phase = "scan" => stack # <<>> /\ status = 1
    /\ phase = "load" /\ stack # <<>> =>
          status = 1 /\ target = IncludePath(Current, Form.name)
    /\ phase \in {"load", "return"} /\ stack # <<>> => AtInclude(Top)
    /\ phase # "done" => returned = "nothing"

\* The forms that have been processed.
Passed ==
    {e \in Files \X (1..MaxForms) :
        \/ e[1] \in Finished /\ e[2] <= Len(text[e[1]])
        \/ \E k \in 1..Len(stack) : e[1] = stack[k].file /\ e[2] < stack[k].next}
PassedOf(kind) == {e \in Passed : text[e[1]][e[2]].kind = kind}

\* As long as nothing has failed, what has been loaded is a valid unit, spliced
\* in source order: the files that are finished are closed under includes.
Succeeding == phase \in {"load", "scan"} \/ (phase \in {"return", "release"} /\ status = 1)
LoadedOK ==
    /\ Active = FrameFiles
    /\ Listed \subseteq UnitFiles
    /\ \A e \in Passed : text[e[1]][e[2]].kind \in {"form", "include", "ffi"}
    /\ \A e \in PassedOf("include") : Resolved(e) \in Finished
    /\ \A f \in Finished : f \notin Reached(Targets(f))
    /\ phase \in {"return", "release"} =>
          IF stack = <<>> THEN Realpath[RootPath] \in Finished
          ELSE Resolved(<<Current, Top.next>>) \in Finished
SplicedOK ==
    /\ Elements(output) = PassedOf("form") /\ Injective(output)
    /\ Elements(csources) = {Resolved(e) : e \in PassedOf("ffi")} /\ Injective(csources)
    /\ \A d, e \in PassedOf("ffi") : Resolved(d) = Resolved(e) => d = e
    /\ \A e \in Passed : \A i \in 1..(e[2] - 1) : InOrder(e[1], i, e[2])

\* A failure has a reason in the unit.
RejectedOK ==
    ~ MayFail /\ phase \in {"return", "release"} /\ status = 0 => ~ ValidUnit

Inductive ==
    /\ TypeOK /\ StackOK /\ PhaseOK
    /\ Succeeding => LoadedOK /\ SplicedOK
    /\ RejectedOK
    /\ AcceptsValidUnits /\ SplicedOnce /\ SourceOrder /\ NothingLost
=============================================================================
