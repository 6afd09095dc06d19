------------------------------- MODULE Workspace -------------------------------
(* A package under development: its manifest, the sources of it and of the   *)
(* libraries it may depend on, what ebc leaves in the target directories,    *)
(* and the ebpm command that is working on them, one ebc step at a time,     *)
(* while the user keeps editing and may kill it.                             *)
(*                                                                           *)
(* How dependencies resolve is Ebpm's subject and how sources are checked    *)
(* FrontEnd's; here a package is a library that is there or the root, and a  *)
(* source is accepted, rejected by ebc, or accepted and broken in C++.       *)
EXTENDS ManifestFile

CONSTANTS
    Projects,       \* what is going on, one of these
    Libs,           \* the libraries, each after the ones it needs
    Needs,          \* [library -> the libraries it needs, closure]
    Manifest0,      \* [project -> the manifest at first, <<>> when none]
    HandEdits,      \* [project -> manifests the user may write by hand]
    Editable,       \* [project -> the units whose source the user edits]
    Edits,          \* [project -> how often at most]
    Commands,       \* [project -> the commands given]
    Names,          \* package names, in manifests and given to `add`
    MaxTime         \* the clock stops there

Root == "root"
Test == "test"
Units == ToSet(Libs) \cup {Root, Test}
Verdicts == {"ok", "rejected", "breaks", "gone"}

Keys == Names \cup {"", "package", "name", "bin", "dependencies", "target"}
Manifests == Seq([k : {"section", "entry", "rest", "blank"}, key : Keys,
                  plain : BOOLEAN])

\* Libs lists every library once, after what it needs, needed in turn or not.
ASSUME WorkspaceAssumption ==
    /\ Libs \in Seq(ToSet(Libs)) /\ ToSet(Libs) \cap {Root, Test} = {}
    /\ Needs \in [ToSet(Libs) -> SUBSET ToSet(Libs)]
    /\ \A p \in ToSet(Libs) : \A d \in Needs[p] : Needs[d] \subseteq Needs[p]
    /\ \A i, j \in DOMAIN Libs :
          /\ Libs[i] = Libs[j] => i = j
          /\ Libs[j] \in Needs[Libs[i]] => j < i
    /\ Manifest0 \in [Projects -> Manifests]
    /\ HandEdits \in [Projects -> SUBSET Manifests]

VARIABLES project, manifest, src, lib, left, bin, now, job, killed

vars == <<project, manifest, src, lib, left, bin, now, job, killed>>
files == <<manifest, src, lib, left, bin>>

NoBin == [of |-> <<>>, against |-> {}, time |-> 0]
NoRead == [v |-> 0, at |-> 0, verdict |-> "gone", against |-> {}]
NoLib == [archive |-> NoRead, iface |-> 0, libs |-> 0]

Idle == [cmd |-> "none", step |-> "idle", todo |-> {}, order |-> {},
         read |-> NoRead, failed |-> FALSE, name |-> "", seen |-> <<>>,
         text |-> <<>>, asked |-> <<>>]

Init ==
    /\ project \in Projects
    /\ manifest = Manifest0[project]
    /\ src = [u \in Units |->
                [v |-> IF Manifest0[project] = <<>> /\ u = Root THEN 0 ELSE 1,
                 time |-> 0,
                 verdict |-> IF Manifest0[project] = <<>> /\ u = Root
                             THEN "gone" ELSE "ok"]]
    /\ lib = [p \in ToSet(Libs) |-> NoLib]
    /\ left = {}
    /\ bin = NoBin
    /\ now = 0
    /\ job = Idle
    /\ killed = FALSE
-----------------------------------------------------------------------------
(* The commands of pkg/src/main.cpp                                          *)

\* resolveDependencyGraph: the libraries (Ebpm has the traversal, DepGraph what
\* it promises); their order is that of Libs.
Order(m) ==
    LET named == effectiveDependencies(m) \cap ToSet(Libs)
    IN  named \cup UNION {Needs[n] : n \in named}

Begin(c, step) ==
    /\ job.step = "idle" /\ c \in Commands[project]
    /\ job' = [Idle EXCEPT !.cmd = c, !.step = step]
    /\ UNCHANGED <<project, files, now, killed>>

\* A command the manifest cannot be loaded for says so and changes nothing.
cmdBuild == Loads(manifest) /\ Begin("build", "resolve")

cmdTest == Loads(manifest) /\ Begin("test", "resolve")

cmdRun ==
    /\ job.step = "idle" /\ "run" \in Commands[project]
    /\ Loads(manifest)
    /\ job' = [Idle EXCEPT !.cmd = "run", !.step = "check",
                           !.asked = src, !.order = Order(manifest)]
    /\ UNCHANGED <<project, files, now, killed>>

\* Mutant: only the root's own source.
StaleRoot(units) == bin = NoBin \/ src[Root].verdict = "gone"
                        \/ src[Root].time > bin.time

isStale(units) ==
    \/ bin = NoBin
    \/ \E u \in units : src[u].verdict = "gone" \/ src[u].time > bin.time

CheckStale ==
    /\ job.step = "check"
    /\ job' = [job EXCEPT !.step =
                 IF isStale(job.order \cup {Root})
                 THEN "resolve" ELSE "launch"]
    /\ UNCHANGED <<project, files, now, killed>>

Finish == job' = Idle

\* The program runs with the arguments after `--`.
Launch ==
    /\ job.step = "launch"
    /\ Finish
    /\ UNCHANGED <<project, files, now, killed>>

\* `ebpm add`: the index lookup comes between reading the manifest and
\* editing it, and takes its time.
cmdAdd(n) ==
    /\ job.step = "idle" /\ "add" \in Commands[project]
    /\ Loads(manifest) /\ ~dependencyNameExists(manifest, n)
    /\ job' = [Idle EXCEPT !.cmd = "add", !.step = "lookup", !.name = n,
                           !.seen = manifest]
    /\ UNCHANGED <<project, files, now, killed>>

\* No such package, no version of it that will do, no network.
LookupFails ==
    /\ job.step = "lookup"
    /\ Finish
    /\ UNCHANGED <<project, files, now, killed>>

LookedUp ==
    /\ job.step = "lookup"
    /\ job' = [job EXCEPT !.step = "write",
                          !.seen = IF @ = manifest THEN @ ELSE <<>>,
                          !.text = insertDependencyLine(manifest, job.name)]
    /\ UNCHANGED <<project, files, now, killed>>

\* `ebpm remove` does not load the manifest.
cmdRemove(n) ==
    /\ job.step = "idle" /\ "remove" \in Commands[project]
    /\ Removable(manifest, n)
    /\ job' = [Idle EXCEPT !.cmd = "remove", !.step = "write", !.name = n,
                           !.seen = manifest,
                           !.text = removeDependencyLine(manifest, n)]
    /\ UNCHANGED <<project, files, now, killed>>

writeLines ==
    /\ job.step = "write"
    /\ manifest' = job.text
    /\ Finish
    /\ UNCHANGED <<project, src, lib, left, bin, now, killed>>

\* `ebpm init` (or `new`, in a directory of its own): the manifest, then the
\* main source unless there is one.
cmdInit ==
    /\ manifest = <<>>
    /\ job.step = "idle" /\ "init" \in Commands[project]
    /\ manifest' = manifestText
    /\ job' = [Idle EXCEPT !.cmd = "init", !.step = "stub"]
    /\ UNCHANGED <<project, src, lib, left, bin, now, killed>>

Stub ==
    /\ job.step = "stub"
    /\ src' = IF src[Root].verdict # "gone" THEN src
              ELSE [src EXCEPT ![Root] =
                      [v |-> @.v + 1, time |-> now, verdict |-> "ok"]]
    /\ Finish
    /\ UNCHANGED <<project, manifest, lib, left, bin, now, killed>>
-----------------------------------------------------------------------------
(* buildPackageWithDeps and, for each unit, ebc                              *)

\* The packages are built in the order of their dependencies, then the root,
\* and its test.
First(units) ==
    LET all == Libs \o <<Root, Test>>
    IN  all[Min({i \in DOMAIN all : all[i] \in units})]

Unit == First(job.todo)

Go(step) == job' = [job EXCEPT !.step = step]

Resolve ==
    /\ job.step = "resolve"
    /\ IF Loads(manifest)
       THEN job' = [job EXCEPT
                      !.step = "front", !.order = Order(manifest),
                      !.todo = Order(manifest) \cup {Root} \cup
                                 (IF job.cmd = "test" THEN {Test} ELSE {})]
       ELSE Finish
    /\ UNCHANGED <<project, files, now, killed>>

\* The packages whose interfaces a unit is compiled against, and their
\* archives linked: its dependencies, all of them.
Closure(u) == IF u \in ToSet(Libs) THEN Needs[u] ELSE job.order

Rest == job.todo \ {Unit}

\* Mutant: the units after a failed one are built all the same.
KeepGoing ==
    IF Rest # {}
    THEN job' = [job EXCEPT !.step = "front", !.todo = Rest,
                            !.read = NoRead, !.failed = FALSE]
    ELSE IF job.cmd = "run"
    THEN job' = [job EXCEPT !.step = "launch", !.todo = {}, !.read = NoRead,
                            !.failed = FALSE]
    ELSE Finish

\* What follows a unit: after a failure nothing; a test is compiled with what
\* the manifest says by then (computeConsumerDirs resolves once more).
NextUnit ==
    LET tests == Rest = {Test}
    IN  IF job.failed \/ (tests /\ ~Loads(manifest)) THEN Finish
        ELSE IF Rest # {}
        THEN job' = [job EXCEPT !.step = "front", !.todo = Rest, !.read = NoRead,
                                !.order = IF tests THEN Order(manifest) ELSE @]
        ELSE IF job.cmd = "run"
        THEN job' = [job EXCEPT !.step = "launch", !.todo = {}, !.read = NoRead]
        ELSE Finish

\* ebc reads the source and the interfaces it includes and checks them; an
\* error ends it before anything is written.
FrontEnds ==
    /\ job.step = "front"
    /\ LET s == src[Unit]
           opened == \A d \in Closure(Unit) : lib[d].iface # 0
       IN  IF s.verdict \in {"gone", "rejected"} \/ ~opened
           THEN Finish
           ELSE job' = [job EXCEPT
                          !.step = "gen",
                          !.read = [v |-> s.v, at |-> now,
                                    verdict |-> s.verdict,
                                    against |-> {<<d, lib[d].iface>> :
                                                   d \in Closure(Unit)}]]
    /\ UNCHANGED <<project, files, now, killed>>

WriteGen ==
    /\ job.step = "gen"
    /\ left' = left \cup {<<Unit, "gen.cpp">>}
    /\ Go(IF Unit \in ToSet(Libs) THEN "compile" ELSE "link")
    /\ UNCHANGED <<project, manifest, src, lib, bin, now, killed>>

\* Mutant: ebc returns as soon as the backend has failed.
FailAtOnce == job' = Idle

FailStep == job' = [job EXCEPT !.step = "tidy", !.failed = TRUE]

\* --lib: an object, an archive of it, and the two sidecar files.
compileToObject ==
    /\ job.step = "compile"
    /\ IF job.read.verdict = "breaks"
       THEN FailStep /\ left' = left
       ELSE Go("archive") /\ left' = left \cup {<<Unit, "o">>}
    /\ UNCHANGED <<project, manifest, src, lib, bin, now, killed>>

Archive ==
    /\ job.step = "archive"
    /\ \/ Go("iface") /\ lib' = [lib EXCEPT ![Unit].archive = job.read]
       \/ FailStep /\ lib' = lib
    /\ UNCHANGED <<project, manifest, src, left, bin, now, killed>>

WriteInterface ==
    /\ job.step = "iface"
    /\ lib' = [lib EXCEPT ![Unit].iface = job.read.v]
    /\ Go("libs")
    /\ UNCHANGED <<project, manifest, src, left, bin, now, killed>>

WriteLibs ==
    /\ job.step = "libs"
    /\ lib' = [lib EXCEPT ![Unit].libs = job.read.v]
    /\ Go("tidy")
    /\ UNCHANGED <<project, manifest, src, left, bin, now, killed>>

\* A program is compiled and linked in one step.
Linked ==
    [of |-> [p \in job.order \cup {Root} |->
               IF p = Root THEN [v |-> job.read.v, at |-> job.read.at]
               ELSE [v |-> lib[p].archive.v, at |-> lib[p].archive.at]],
     against |-> job.read.against
                   \cup UNION {lib[p].archive.against : p \in job.order},
     time |-> now]

CompileAndLink ==
    /\ job.step = "link"
    /\ IF job.read.verdict = "breaks"
       THEN FailStep /\ bin' \in {bin, NoBin}
       ELSE Go("tidy") /\ bin' = IF Unit = Root THEN Linked ELSE bin
    /\ UNCHANGED <<project, manifest, src, lib, left, now, killed>>

\* The generated files go, whatever came of it.
Tidy ==
    /\ job.step = "tidy"
    /\ left' = left \ {<<Unit, "gen.cpp">>, <<Unit, "o">>}
    /\ NextUnit
    /\ UNCHANGED <<project, manifest, src, lib, bin, now, killed>>
-----------------------------------------------------------------------------
(* The user                                                                  *)

Tick ==
    /\ now < MaxTime
    /\ now' = now + 1
    /\ UNCHANGED <<project, files, job, killed>>

EditSource(u, verdict) ==
    /\ u \in Editable[project]
    /\ MapThenSumSet(LAMBDA x : src[x].v, Editable[project])
         < Cardinality(Editable[project]) + Edits[project]
    /\ src' = [src EXCEPT ![u] = [v |-> @.v + 1, time |-> now,
                                  verdict |-> verdict]]
    /\ UNCHANGED <<project, manifest, lib, left, bin, now, job, killed>>

EditManifest(m) ==
    /\ m # manifest
    /\ manifest' = m
    /\ UNCHANGED <<project, src, lib, left, bin, now, job, killed>>

\* The file being written is cut off: it is truncated first.  Once is enough.
Kill ==
    /\ job.step # "idle" /\ "kill" \in Commands[project] /\ ~killed
    /\ manifest' \in (IF job.step = "write"
                      THEN {SubSeq(job.text, 1, k) : k \in 0..Len(job.text)}
                      ELSE {manifest})
    /\ killed' = TRUE
    /\ Finish
    /\ UNCHANGED <<project, src, lib, left, bin, now>>

Next ==
    \/ cmdBuild \/ cmdTest \/ cmdRun \/ CheckStale \/ Launch
    \/ \E n \in Names : cmdAdd(n) \/ cmdRemove(n)
    \/ LookupFails \/ LookedUp \/ writeLines \/ cmdInit \/ Stub
    \/ Resolve \/ FrontEnds \/ WriteGen \/ compileToObject \/ Archive
    \/ WriteInterface \/ WriteLibs \/ CompileAndLink \/ Tidy
    \/ Tick \/ Kill
    \/ \E u \in Units, verdict \in Verdicts : EditSource(u, verdict)
    \/ \E m \in HandEdits[project] : EditManifest(m)

Spec == Init /\ [][Next]_vars
-----------------------------------------------------------------------------
\* A command that was not killed leaves the target directories whole: no
\* generated file stays, and each library's interface and link flags are
\* those of the source its archive was made from - also when the command
\* fails half way (ebc's main).
TargetIsWhole ==
    job.step = "idle" /\ ~killed =>
        /\ left = {}
        /\ \A p \in ToSet(Libs) :
              /\ lib[p].iface = lib[p].archive.v
              /\ lib[p].libs = lib[p].archive.v

\* Every object in the program was compiled against the interfaces of the
\* very archives it is linked with, whatever has failed, been edited or been
\* killed before.
LinksWhatItDeclares ==
    \A dep \in bin.against : bin.of[dep[1]].v = dep[2]

\* What `ebpm run` starts is built from sources no older than those there
\* when the command was given, for the packages it was linked from: "a
\* dependency's source changing must also trigger a rebuild" (main.cpp).  The
\* exception is a source edited while it was being built.
RunIsCurrent ==
    job.step = "launch" =>
        \A p \in DOMAIN bin.of \cap (job.order \cup {Root}) :
            \/ bin.of[p].v >= job.asked[p].v
            \/ job.asked[p].time \in bin.of[p].at..bin.time

\* `add` and `remove` change [dependencies] by the name they are given and
\* nothing else that is in the manifest, and leave it readable, unless it is
\* edited while `add` looks the name up; the header stands alone on its line.
ExactEdits ==
    /\ job.step = "write" /\ Loads(job.seen)
    /\ Headers(job.seen, "dependencies") = DependenciesLine(job.seen)
    => /\ Loads(job.text)
       /\ KeysOf(job.text, "target") = KeysOf(job.seen, "target")
       /\ KeysOf(job.text, "dependencies") =
             IF job.cmd = "add"
             THEN KeysOf(job.seen, "dependencies") \cup {job.name}
             ELSE KeysOf(job.seen, "dependencies") \ {job.name}
=============================================================================
