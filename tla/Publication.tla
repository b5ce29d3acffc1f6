---------------------------- MODULE Publication ----------------------------
(***************************************************************************)
(* bootstrap/host/platform_toolchain.c and output.lisp: compiler processes *)
(* that publish their artifacts at one output path.  Everything but a lone *)
(* object is put together in private directories and renamed into place.   *)
(* Every allocation, library call and tool may fail, and a process may be  *)
(* killed at any step.  What a function does is a sequence of steps, its   *)
(* `goto cleanup` a jump to the next "remove" step.                        *)
(***************************************************************************)
EXTENDS Naturals, Sequences, FiniteSets

CONSTANTS
    Process,    \* compiler processes with the same output path
    Modes,      \* the kinds of publication examined
    MaxSources, \* bound: C sources of a unit
    MaxModules  \* bound: runtime modules a unit selects

ASSUME PublicationAssumption ==
    /\ Modes \subseteq {"direct", "merge", "link", "freestanding", "mapped"}
    /\ MaxSources \in Nat /\ MaxModules \in Nat
    /\ "old" \notin Process /\ "none" \notin Process

VARIABLES
    job,     \* what a process publishes: [mode, sources, modules]
    pc,      \* number of its next step
    failed,  \* ok = 0
    status,  \* "running", "ok", "failed" or "killed"
    dirs,    \* its private directories that exist
    files,   \* the files in them, with their contents
    known,   \* the paths it has formatted, which cleanup unlinks
    stream,  \* the inode it has open for writing in place
    inode,   \* contents: the two halves of a file, each [by, parts]
    output,  \* the inode at the output path, or "none"
    map,     \* who wrote the link map at the map path
    held     \* history: the processes whose whole artifact was at the output path

vars == <<job, pc, failed, status, dirs, files, known, stream, inode, output,
          map, held>>

-----------------------------------------------------------------------------
(* Steps.  A file is <<directory, name>>, its contents the set of the      *)
(* parts put into it; a file that a tool left unfinished has none.         *)

File(d, n) == <<d, n>>
MakeDirectory(D) == [op |-> "mkdtemp", dirs |-> D]
\* write_object or a tool: `from` are the files it reads.
Produce(f, from) == [op |-> "produce", new |-> {f}, from |-> from, part |-> {f[2]}]
Link(new, from) == [op |-> "produce", new |-> new, from |-> from, part |-> {}]
Remove(D) == [op |-> "remove", dirs |-> D]
Rename(f) == [op |-> "rename", file |-> f]
RenameMap(f) == [op |-> "map", file |-> f]

Psl == <<"psl", 0>>
Artifact == <<"artifact", 0>>
LinkMap == <<"map", 0>>
C(i) == <<"c", i>>
Runtime(i) == <<"runtime", i>>
Each(n, Step(_)) == [i \in 1..n |-> Step(i)]

\* compile_sources into directory d.
CompileSources(d, n) == Each(n, LAMBDA i : Produce(File(d, C(i)), {}))

\* native_host_write_object.
Direct == <<[op |-> "open"], [op |-> "write", half |-> 1],
            [op |-> "write", half |-> 2]>>

\* native_host_merge_c_sources.
Merge(n) ==
    <<MakeDirectory({"objects"}), Produce(File("objects", Psl), {})>>
    \o CompileSources("objects", n)
    \o <<Link({File("objects", Artifact)},
              {File("objects", Psl)} \cup {File("objects", C(i)) : i \in 1..n}),
         Rename(File("objects", Artifact)),
         Remove({"objects"})>>

\* source_runtime_roots: the C sources are compiled once more, in /tmp, and
\* read with nm.
RuntimeRoots(n) ==
    IF n = 0 THEN <<>>
    ELSE <<MakeDirectory({"roots"})>> \o CompileSources("roots", n)
         \o <<[op |-> "nm"], Remove({"roots"})>>

\* Mutant: the runtime modules are left out of the link.
MutantLinkArtifact(n, m) ==
    RuntimeRoots(n)
    \o <<MakeDirectory({"objects", "stage"}), Produce(File("objects", Psl), {})>>
    \o CompileSources("objects", n)
    \o Each(m, LAMBDA i : Produce(File("objects", Runtime(i)), {}))
    \o <<Link({File("stage", Artifact)},
              {File("objects", Psl)} \cup {File("objects", C(i)) : i \in 1..n}),
         Rename(File("stage", Artifact)),
         Remove({"objects", "stage"})>>
\* native_host_runtime_roots, then native_host_link_artifact for a target with
\* a C compiler.
LinkArtifact(n, m) ==
    RuntimeRoots(n)
    \o <<MakeDirectory({"objects", "stage"}), Produce(File("objects", Psl), {})>>
    \o CompileSources("objects", n)
    \o Each(m, LAMBDA i : Produce(File("objects", Runtime(i)), {}))
    \o <<Link({File("stage", Artifact)},
              {File("objects", Psl)} \cup {File("objects", C(i)) : i \in 1..n}
                  \cup {File("objects", Runtime(i)) : i \in 1..m}),
         Rename(File("stage", Artifact)),
         Remove({"objects", "stage"})>>

\* Mutant: the map is renamed after the artifact.
MutantLinkFreestanding(mapped) ==
    <<MakeDirectory({"objects"} \cup IF mapped THEN {"map"} ELSE {}),
      Produce(File("objects", Psl), {}),
      Link({File("objects", Artifact)} \cup IF mapped THEN {File("map", LinkMap)} ELSE {},
           {File("objects", Psl)}),
      Rename(File("objects", Artifact))>>
    \o (IF mapped THEN <<RenameMap(File("map", LinkMap))>> ELSE <<>>)
    \o <<Remove({"objects"} \cup IF mapped THEN {"map"} ELSE {})>>
\* link_freestanding, with or without a map file.
LinkFreestanding(mapped) ==
    <<MakeDirectory({"objects"} \cup IF mapped THEN {"map"} ELSE {}),
      Produce(File("objects", Psl), {}),
      Link({File("objects", Artifact)} \cup IF mapped THEN {File("map", LinkMap)} ELSE {},
           {File("objects", Psl)})>>
    \o (IF mapped THEN <<RenameMap(File("map", LinkMap))>> ELSE <<>>)
    \o <<Rename(File("objects", Artifact)),
         Remove({"objects"} \cup IF mapped THEN {"map"} ELSE {})>>

\* compiler_publish_compiled_output and compiler_link_output.
Steps(j) ==
    CASE j.mode = "direct" -> Direct
      [] j.mode = "merge" -> Merge(j.sources)
      [] j.mode = "link" -> LinkArtifact(j.sources, j.modules)
      [] OTHER -> LinkFreestanding(j.mode = "mapped")

\* What a complete artifact of a job is made of.
Parts(j) == {Psl} \cup {C(i) : i \in 1..j.sources}
                    \cup {Runtime(i) : i \in 1..j.modules}

Jobs ==
    {j \in [mode : Modes, sources : 0..MaxSources, modules : 0..MaxModules] :
        /\ j.mode = "merge" => j.sources > 0
        /\ j.sources > 0 => j.mode \in {"merge", "link"}
        /\ j.modules > 0 => j.mode = "link"}

Hole == [by |-> "none", parts |-> {}]
Old == [by |-> "old", parts |-> {}]
Inodes == {"old"} \cup Process

Init ==
    /\ job \in [Process -> Jobs]
    /\ pc = [p \in Process |-> 1]
    /\ failed = [p \in Process |-> FALSE]
    /\ status = [p \in Process |-> "running"]
    /\ dirs = [p \in Process |-> {}]
    /\ files = [p \in Process |-> [f \in {} |-> {}]]
    /\ known = [p \in Process |-> {}]
    /\ stream = [p \in Process |-> "none"]
    /\ inode = [i \in Inodes |-> IF i = "old" THEN <<Old, Old>> ELSE <<Hole, Hole>>]
    /\ output \in {"old", "none"}
    /\ map = "old" /\ held = {}

-----------------------------------------------------------------------------

Step(p) == Steps(job[p])[pc[p]]
At(p, op) == status[p] = "running" /\ pc[p] <= Len(Steps(job[p])) /\ Step(p).op = op

Set(f, p, v) == [f EXCEPT ![p] = v]
Continue(p) == pc' = Set(pc, p, pc[p] + 1) /\ UNCHANGED failed

\* goto cleanup, or the end of a function that has nothing to clean up.
Later(p) == {i \in (pc[p] + 1)..Len(Steps(job[p])) : Steps(job[p])[i].op = "remove"}
Cleanup(p) ==
    /\ failed' = Set(failed, p, TRUE)
    /\ pc' = Set(pc, p, IF Later(p) = {} THEN Len(Steps(job[p])) + 1
                        ELSE CHOOSE i \in Later(p) : \A k \in Later(p) : i <= k)

\* The first steps check the arguments; a directory that cannot be made, like
\* a check that fails, leaves what the call has made to the cleanup.
MakeTemporary(p) ==
    /\ At(p, "mkdtemp")
    /\ \/ dirs' = Set(dirs, p, dirs[p] \cup Step(p).dirs) /\ Continue(p)
       \/ /\ \E made \in SUBSET Step(p).dirs : dirs' = Set(dirs, p, dirs[p] \cup made)
          /\ Cleanup(p)
    /\ UNCHANGED <<job, status, files, known, stream, inode, output, map, held>>

With(g, S, v) == [f \in DOMAIN g \cup S |-> IF f \in S THEN v ELSE g[f]]
Contents(p) == Step(p).part \cup UNION {files[p][f] : f \in Step(p).from}

\* Mutant: the path is recorded when the tool has succeeded.
MutantRunTool(p) ==
    /\ At(p, "produce")
    /\ \/ /\ files' = Set(files, p, With(files[p], Step(p).new, Contents(p)))
          /\ known' = Set(known, p, known[p] \cup Step(p).new)
          /\ Continue(p)
       \/ /\ \E left \in SUBSET Step(p).new :
                files' = Set(files, p, With(files[p], left, {}))
          /\ UNCHANGED known
          /\ Cleanup(p)
    /\ UNCHANGED <<job, status, dirs, stream, inode, output, map, held>>
\* write_object, or run_tool in compile_sources, compile_link_object,
\* merge_objects and the link: the path is known before the file exists, and a
\* failure may leave some of it.  The allocation of a path may fail too.
RunTool(p) ==
    /\ At(p, "produce")
    /\ \/ /\ files' = Set(files, p, With(files[p], Step(p).new, Contents(p)))
          /\ known' = Set(known, p, known[p] \cup Step(p).new)
          /\ Continue(p)
       \/ /\ \E left \in SUBSET Step(p).new :
                files' = Set(files, p, With(files[p], left, {}))
          /\ known' = Set(known, p, known[p] \cup Step(p).new)
          /\ Cleanup(p)
       \/ UNCHANGED <<files, known>> /\ Cleanup(p)
    /\ UNCHANGED <<job, status, dirs, stream, inode, output, map, held>>

\* input_runtime_roots only reads.
ReadSymbols(p) ==
    /\ At(p, "nm")
    /\ Continue(p) \/ Cleanup(p)
    /\ UNCHANGED <<job, status, dirs, files, known, stream, inode, output, map, held>>

Without(g, S) == [f \in DOMAIN g \ S |-> g[f]]

\* Mutant: the result of rename() is not looked at.
MutantRename(p) ==
    /\ At(p, "rename")
    /\ \/ /\ LET half == [by |-> p, parts |-> files[p][Step(p).file]]
             IN inode' = Set(inode, p, <<half, half>>)
          /\ output' = p
          /\ held' = held \cup {p}
          /\ files' = Set(files, p, Without(files[p], {Step(p).file}))
       \/ UNCHANGED <<inode, output, held, files>>
    /\ Continue(p)
    /\ UNCHANGED <<job, status, dirs, known, stream, map>>
\* Mutant: the staged artifact is copied over the file at the output path.
MutantCopy(p) ==
    /\ At(p, "rename")
    /\ output' = IF output = "none" THEN p ELSE output
    /\ LET half == [by |-> p, parts |-> files[p][Step(p).file]]
       IN inode' = Set(inode, output', <<half, half>>)
    /\ held' = held \cup {p}
    /\ Continue(p)
    /\ UNCHANGED <<job, status, dirs, files, known, stream, map>>
\* rename() of the staged artifact.
RenameOutput(p) ==
    /\ At(p, "rename")
    /\ \/ /\ LET half == [by |-> p, parts |-> files[p][Step(p).file]]
             IN inode' = Set(inode, p, <<half, half>>)
          /\ output' = p
          /\ held' = held \cup {p}
          /\ files' = Set(files, p, Without(files[p], {Step(p).file}))
          /\ Continue(p)
       \/ UNCHANGED <<inode, output, held, files>> /\ Cleanup(p)
    /\ UNCHANGED <<job, status, dirs, known, stream, map>>

RenameLinkMap(p) ==
    /\ At(p, "map")
    /\ \/ /\ map' = p
          /\ files' = Set(files, p, Without(files[p], {Step(p).file}))
          /\ Continue(p)
       \/ UNCHANGED <<map, files>> /\ Cleanup(p)
    /\ UNCHANGED <<job, status, dirs, known, stream, inode, output, held>>

\* The unlinks and rmdirs at `cleanup`; a directory that is not empty stays.
RemoveTemporary(p) ==
    /\ At(p, "remove")
    /\ LET left == {f \in DOMAIN files[p] : f[1] \notin Step(p).dirs \/ f \notin known[p]}
       IN /\ files' = Set(files, p, [f \in left |-> files[p][f]])
          /\ dirs' = Set(dirs, p, {d \in dirs[p] : \/ d \notin Step(p).dirs
                                                  \/ \E f \in left : f[1] = d})
    /\ IF failed[p]
         THEN pc' = Set(pc, p, Len(Steps(job[p])) + 1) /\ UNCHANGED failed
         ELSE Continue(p)
    /\ UNCHANGED <<job, status, known, stream, inode, output, map, held>>

\* fopen(path, "wb") truncates the file at the path, or makes one.
Open(p) ==
    /\ At(p, "open")
    /\ \/ /\ stream' = Set(stream, p, IF output = "none" THEN p ELSE output)
          /\ output' = stream'[p]
          /\ inode' = Set(inode, stream'[p], <<Hole, Hole>>)
          /\ Continue(p)
       \/ UNCHANGED <<stream, output, inode>> /\ Cleanup(p)
    /\ UNCHANGED <<job, status, dirs, files, known, map, held>>

\* fwrite and fclose write the buffer to the inode, wherever it is linked now
\* and whatever has been made of the first half since it was written: neither
\* is looked at.  The object is whole, with its second half, if that is p's too.
Write(p) ==
    /\ At(p, "write")
    /\ \/ /\ inode' = [inode EXCEPT ![stream[p]][Step(p).half] =
                          [by |-> p, parts |-> {Psl}]]
          /\ held' = IF /\ Step(p).half = 2 /\ output = stream[p]
                        /\ inode[stream[p]][1].by = p
                       THEN held \cup {p} ELSE held
          /\ Continue(p)
       \/ UNCHANGED <<inode, held>> /\ Cleanup(p)
    /\ UNCHANGED <<job, status, dirs, files, known, stream, output, map>>

\* The function returns its status.
Return(p) ==
    /\ status[p] = "running" /\ pc[p] = Len(Steps(job[p])) + 1
    /\ status' = Set(status, p, IF failed[p] THEN "failed" ELSE "ok")
    /\ UNCHANGED <<job, pc, failed, dirs, files, known, stream, inode, output,
                   map, held>>

\* The process is killed; a tool it runs may leave part of its files.
Kill(p) ==
    /\ status[p] = "running"
    /\ status' = Set(status, p, "killed")
    /\ \/ UNCHANGED files
       \/ /\ At(p, "produce")
          /\ files' = Set(files, p, With(files[p], Step(p).new, {}))
    /\ UNCHANGED <<job, pc, failed, dirs, known, stream, inode, output, map, held>>

Next ==
    \E p \in Process :
        \/ MakeTemporary(p) \/ RunTool(p) \/ ReadSymbols(p) \/ RenameOutput(p)
        \/ RenameLinkMap(p) \/ RemoveTemporary(p) \/ Open(p) \/ Write(p)
        \/ Return(p) \/ Kill(p)

Spec == Init /\ [][Next]_vars

-----------------------------------------------------------------------------
(* Properties.                                                             *)

Complete(i) ==
    \/ inode[i] = <<Old, Old>>
    \/ \E p \in Process : inode[i] = [h \in 1..2 |-> [by |-> p, parts |-> Parts(job[p])]]

\* Whoever looks at the output path, at any moment and after any crash, finds
\* the old file, nothing, or the complete artifact of one process; only a
\* process that writes in place can leave anything else.
OutputComplete ==
    output = "none" \/ Complete(output)
        \/ \E p \in Process : job[p].mode = "direct" /\ stream[p] = output

\* Another process has opened the file that p writes in place, and so truncated
\* it, or renamed an artifact over it.
Disturbed(p) ==
    \E q \in Process \ {p} :
        stream[q] = stream[p] \/ (q \in held /\ job[q].mode # "direct")

\* A process that answers success has had its complete artifact at the output
\* path; one that answers failure has not, and has left the path alone unless
\* it writes in place ("Failed C compilation preserves an existing object",
\* docs/core.md).  The one exception is a lone object, written in place: fwrite
\* and fclose succeed on a file that is torn or no longer there, but only if
\* another process opened that file too, or renamed its artifact over it.
StatusTruthful ==
    \A p \in Process :
        /\ status[p] = "ok" =>
              p \in held \/ (job[p].mode = "direct" /\ Disturbed(p))
        /\ status[p] = "failed" =>
              p \notin held /\ (output = p => job[p].mode = "direct")

\* "reclaims intermediates" (docs/core.md): a process that returns, whatever
\* failed, has left no file and no directory of its own behind.
NoResidue ==
    \A p \in Process : status[p] \in {"ok", "failed"} =>
        dirs[p] = {} /\ DOMAIN files[p] = {}

\* An executable that was linked with a map is at the output path only when a
\* link map has replaced the old one, whatever fails or is killed in between.
MapPrecedesArtifact ==
    \A p \in Process : job[p].mode = "mapped" /\ p \in held => map # "old"

\* An artifact at the output path is replaced, never changed, by renaming: a
\* reader that has it open keeps a complete file.
OpenFilesStable ==
    [][\A i \in Inodes :
          inode[i] # <<Hole, Hole>> /\ inode'[i] # inode[i] =>
              \E p \in Process : job[p].mode = "direct" /\ stream'[p] = i]_vars

-----------------------------------------------------------------------------
(* The inductive invariant of the proofs.                                  *)

\* The directories that the next cleanup at or after step i removes.
Removals(j, i) == {k \in i..Len(Steps(j)) : Steps(j)[k].op = "remove"}
NextRemoval(j, i) == CHOOSE k \in Removals(j, i) : \A l \in Removals(j, i) : k <= l
Reclaimed(j, i) ==
    IF Removals(j, i) = {} THEN {} ELSE Steps(j)[NextRemoval(j, i)].dirs

IsDirect(p) == job[p].mode = "direct"
TypeOK ==
    /\ job \in [Process -> Jobs]
    /\ pc \in [Process -> Nat] /\ \A p \in Process : pc[p] \in 1..(Len(Steps(job[p])) + 1)
    /\ failed \in [Process -> BOOLEAN]
    /\ status \in [Process -> {"running", "ok", "failed", "killed"}]
    /\ DOMAIN dirs = Process /\ DOMAIN files = Process /\ DOMAIN known = Process
    /\ stream \in [Process -> Inodes \cup {"none"}]
    /\ DOMAIN inode = Inodes /\ \A i \in Inodes : DOMAIN inode[i] = 1..2
    /\ output \in Inodes \cup {"none"}
    /\ held \subseteq Process

\* A process that has failed only cleans up; an answer says which.
FailureOK ==
    \A p \in Process :
        /\ failed[p] => pc[p] = Len(Steps(job[p])) + 1 \/ Step(p).op = "remove"
        /\ status[p] = "ok" => ~ failed[p] /\ pc[p] = Len(Steps(job[p])) + 1
        /\ status[p] = "failed" => failed[p]

\* All that is left of a process is what its next cleanup removes.
ResidueOK ==
    \A p \in Process : status[p] = "running" =>
        /\ dirs[p] \subseteq Reclaimed(job[p], pc[p])
        /\ \A f \in DOMAIN files[p] : f \in known[p] /\ f[1] \in Reclaimed(job[p], pc[p])

\* What step k puts into its files, and whether they are still there at step i.
Meant(j, k) == IF Steps(j)[k].part = {} THEN Parts(j) ELSE Steps(j)[k].part
Stands(j, k, i) ==
    /\ k < i /\ Steps(j)[k].op = "produce"
    /\ \A l \in k..(i - 1) : Steps(j)[l].op \notin {"remove", "rename"}
FilesOK ==
    \A p \in Process : status[p] = "running" /\ ~ failed[p] =>
        \A k \in 1..Len(Steps(job[p])) : Stands(job[p], k, pc[p]) =>
            \A f \in Steps(job[p])[k].new : f[2] # LinkMap =>
                f \in DOMAIN files[p] /\ files[p][f] = Meant(job[p], k)

\* The artifact of a process that renames is at the output path, or has been,
\* exactly when it has passed that step; before, nobody has its file open.
HeldOK ==
    \A p \in Process :
        /\ p \in held => ~ failed[p]
        /\ ~ IsDirect(p) => (p \in held <=> ~ failed[p] /\ pc[p] >= Len(Steps(job[p])))
        /\ ~ IsDirect(p) /\ p \notin held =>
              /\ inode[p] = <<Hole, Hole>>
              /\ output # p
              /\ \A q \in Process : stream[q] # p

\* A process that writes in place writes to the file at the output path, until
\* another one renames its artifact over it; its first half stays its own, until
\* another one opens the file.
Replaced == \E q \in held : ~ IsDirect(q)
StreamOK ==
    \A p \in Process :
        /\ stream[p] # "none" => IsDirect(p) /\ pc[p] > 1
        /\ IsDirect(p) /\ pc[p] > 1 /\ ~ failed[p] =>
              stream[p] # "none" /\ (stream[p] = output \/ Replaced)
        /\ IsDirect(p) /\ pc[p] = 3 /\ ~ failed[p] =>
              inode[stream[p]][1].by = p \/ Disturbed(p)
        /\ IsDirect(p) /\ pc[p] = 4 /\ ~ failed[p] => p \in held \/ Disturbed(p)
        /\ IsDirect(p) /\ p \in held => pc[p] = 4

MapOK ==
    \A p \in Process : ~ failed[p] =>
        \A i \in 1..(pc[p] - 1) : Steps(job[p])[i].op = "map" => map # "old"

Inductive ==
    /\ TypeOK /\ FailureOK /\ ResidueOK /\ FilesOK /\ HeldOK /\ StreamOK /\ MapOK
    /\ OutputComplete /\ NoResidue
=============================================================================
