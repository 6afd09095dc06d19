# A TLA+ model of ebasic

ebasic is a BASIC-like language that compiles to C++: a compiler (`ebc`), a
package manager and build tool (`ebpm`), a language server (`ebasic-lsp`), a
documentation generator and a header-only runtime. This directory holds a
specification of the parts of it whose correctness depends on order: what
happens across several commands, several processes, several messages, several
edges of a graph, several passes over a program or several coroutines. It is
checked with TLC on small instances; what keeps each part of it right is proved
with TLAPS for all instances, but for liveness and the little that section 5
names.

Paths below are relative to `src/`.

- [1. The system](#1-the-system)
- [2. The modules](#2-the-modules)
- [3. The runs](#3-the-runs)
- [4. Where code and documentation disagree](#4-where-code-and-documentation-disagree)
- [5. The proofs](#5-the-proofs)
- [6. What is not modelled](#6-what-is-not-modelled)
- [7. Plan](#7-plan)

## 1. The system

| component | code | state it keeps | operations |
|---|---|---|---|
| version requirements | `pkg/src/semver.cpp`, `index.cpp` (parsing) | none | parse, match, pick the highest |
| dependency resolution | `pkg/src/resolve.cpp` | per command: `order`, `resolvedByDir`, `visiting`, `resolvedRegistryVersions` | resolve the graph of a root |
| git dependencies | `pkg/src/gitdep.cpp` | the cache of clones in `~/.ebpm`, shared by all projects and processes of a user | clone or fetch, reset, check out, rev-parse |
| lockfile | `pkg/src/lockfile.cpp` | `ebasic.lock` of each project | read pins, write, remove pins |
| package index | `pkg/src/index.cpp` | a clone of the index repository | look up a package |
| manifest | `pkg/src/manifest.cpp` | `ebasic.toml` | load |
| building | `pkg/src/build.cpp` | the files below `target` | compile a package with its dependencies, link |
| commands | `pkg/src/main.cpp` | the project directory | `new`, `init`, `build`, `run`, `test`, `list`, `add`, `remove`, `update` |
| language server | `lsp/src/server.cpp`, `diagnostics.cpp`, `documents.cpp`, `pkgaware.cpp`, `rpc.cpp` | open documents, last good index, last diagnostic uris, package cache | one handler per message |
| symbols, uris | `lsp/src/symbols.cpp`, `uri.cpp` | none | index an AST; convert uris |
| compiler driver | `compiler/src/driver` | the output files | run the stages, call the C++ compiler |
| preprocessor | `compiler/src/preprocessor` | macro table, include stack, `#if` stack | expand one source |
| lexer, parser | `compiler/src/lexer`, `parser`, `ast` | a position | text to AST |
| semantic analysis | `compiler/src/sema` | symbol tables, the type table, the scope of the statement at hand, instances of generics | collect, check |
| code generation | `compiler/src/codegen` | output buffers, the open GOSUB span, arrays, types written | C++ text, interface of a library |
| coroutines | `runtime/include/ebasic/runtime/coroutine.hpp` | frames, and the one handle to each | call, await, advance, assign, destroy |
| rest of the runtime | `runtime/include` | file and process handles | used by generated programs |
| docgen | `docgen/src` | none | render documentation |

**How they interact.** A command of ebpm reads the manifest and the lockfile,
resolves the dependency graph (which runs git in the cache once per entry and
asks the index for a registry entry without a usable pin), runs `ebc` on each
package in the order the resolution delivers, and writes the lockfile when all
of them compiled. The language server runs the same front end of the compiler
in its own process and the same resolution, for the include directories of a
document's package. The git cache is the one thing that separate processes
share; nothing locks it. `ebasic.lock` and the clones are what one command
leaves to the next.

**What is hard.** In order of how much a test suite of single commands misses:

1. *Sequences of commands.* A build starts from whatever state earlier builds
   left in a clone (a detached HEAD, a local branch), from pins that the
   manifest may have outgrown, and from an index that has moved on.
2. *Processes.* Two builds in one clone, between any two git commands.
3. *Failures half way.* A git command, a compilation or the process fails; the
   cache and the lockfile must serve the next command.
4. *Graphs.* Diamonds, cycles, two edges to one repository, requirements that
   meet in a package's version.
5. *The editor.* It types on while messages are under way; diagnostics of an
   included file belong to whoever put them there; a text that does not parse
   has no index; an exception may come between two notifications.
6. *Language rules* (macro expansion, `#if` nesting, generic instantiation,
   name visibility): sequential, large, and well covered by the e2e tests of
   the repository, but with recursion and order of their own: checking a call
   suspends the statement it is in to check another body, and two passes that
   know nothing of each other must find the same spans and loops.
7. *What a build leaves on disk.* Archives, interfaces and objects of different
   generations, after failures, kills and edits made while a compiler runs.
8. *Coroutines* that call, resume, overwrite and abandon one another, and throw.

**What makes it correct.**

- *Resolution*: it ends; dependencies precede dependents; each package is there
  once; one version per name, which satisfies every requirement in the graph.
- *Cache*: a pinned dependency is compiled at its pin, an unpinned one at a
  commit its ref had while the build ran; a failed command leaves no half clone.
- *Lockfile*: it records what was compiled; a rebuild of an unchanged manifest
  resolves and records the same; only `update` and the manifest change versions.
- *Build*: each package is compiled against its transitive dependencies, and
  linked with the archives whose interfaces it was compiled against; `run`
  starts what the sources say; the manifest is edited where it was asked to be.
- *Front end*: the scope is what the text says, wherever a body is checked from;
  control is judged as the text judges it; what is accepted becomes C++ whose
  jumps, functions and types are in order.
- *Coroutines*: each frame has one owner and is destroyed once; no frame is
  touched while it runs; every value yielded is seen.
- *Language server*: every request is answered once, in order; what the editor
  shows of a file is what the compiler last said of it, and nothing is shown
  that the server no longer knows of (a publication that breaks off does both,
  see 4).

PROJECT.json lists each hazard at its line with the properties that watch it.

## 2. The modules

```
SemVer <---- VersionPick <---- Resolution_proofs       the pick of a version
   ^              ^----------- MCResolution
   |
   |   GitClone <---- GitCache <---- GitCache_proofs   processes in one clone
   |      ^              ^  | implements
   |      |              |  PinnedResolution
   |      |              MCGitCache
   |      |
   +-- Ebpm <---- Ebpm_proofs                          one project, its commands
        ^  | implements
        |  DepGraph <---- Resolution_proofs            the traversal
      MCEbpm  ^---------- MCResolution

ManifestFile <---- Workspace <---- Workspace_proofs    targets, edits, kills
                       ^---------- MCWorkspace

Preprocessor <---- Preprocessor_proofs                 the preprocessor of ebc
      ^----------- MCPreprocessor

Types <---- Scopes <---- Sema <---- FrontEnd <---- FrontEnd_proofs
  ^           ^                        ^               semantic analysis, codegen
  |           |                        |
TypeRelations <-- TypeTable <-- Expressions <---- MCFrontEnd
                                                       what their parameters are
LspServer <---- LspServer_proofs                       the language server
    ^---------- MCLspServer

Coroutine <---- Coroutine_proofs                       tasks and generators
    ^---------- MCCoroutine
```

**SemVer** is `semver.cpp`: requirements (`^`, `~`, exact, with one to three
components given), the half-open ranges they become, and the comparison.
Parsing is its result. Components are C++ ints: what `IntMax` + 1 is C++ leaves
open, and `Wraps` says which of the two things compilers make of it a build has:
the runs have it TRUE, the theorems are about both.

**VersionPick** is the loop of `pickBestSatisfying`, one round per step, over a
list in file order. `MeansCompatible` is the reference definition: what the
comments of `semver.cpp`, the guide's table and the tests say the operators
mean, without ranges. A comment of `semver.hpp` says something else of tilde,
see 4.

**DepGraph** is the abstract specification of `resolveDependencyGraph`: `visit`
as an explicit stack of frames (`stack` is `visiting` together with the C++ call
stack; `order` is also `resolvedByDir`). Where a dependency entry leads and what
a manifest says are nondeterministic, so it covers every dependency graph.
`Descend`, `Reach`, `Cycle`, `Finish`, `FinishRoot`, `Nowhere` are the branches
of `visit`.

**GitClone** is git (external): a clone as HEAD, local branches,
remote-tracking branches and tags, and one operator for each git command line
of `gitdep.cpp`. Histories only grow; nothing is force-pushed.

**GitCache** is `cloneOrFetch` and `resolveGitDependency` with one action per
git command, by any number of processes in one cache directory, followed by the
compilation (which reads the working tree) and the lock entry. Crashes, failing
git commands and failing compilations are actions.

**PinnedResolution** is the promise in `gitdep.hpp`: resolving looks the ref up
at one moment and delivers the pin, or that commit. `GitCache` with one process
implements it (`ResolvesAtomically`); with two it does not (see 4).

**Ebpm** is one project: `build`, `list` and `update`, with the three ways a
dependency entry is resolved (`PathEntry`, `GitEntry`, `RegistryAgain`,
`RegistryPinned`, `RegistryFresh`), the compilation, the lockfile, and, around
it, remotes that are pushed to, an index that grows and a manifest that is
edited. The git commands of one entry are one step here; `GitCache` looks into
that step. `lockfile` is a sequence because `writeLockfile` may write two
entries of one name, which `readLockfilePins` reads as the last. `Ebpm`
implements `DepGraph` (`ResolvesDepthFirst`): `GraphStack` and `GraphOrder` keep
of a manifest whether there is a `[lib]` and how many entries are left, and drop
the rest. `LinkedWith` is `collectTransitiveDeps`, which goes by keys and names,
compared with the graph that was resolved. `EbpmAssumption` says what a project
can look like: manifests that parse, path packages, the root and clones in
different directories, a repository that has the commits its refs name.

**ManifestFile** is the text of `ebasic.toml` as its editors see it: a line is a
section header, an entry, the rest of an entry that spans lines, or something
else, and whether its name stands alone on it. `Loads` is what the TOML parser
refuses (a key or a table twice); `insertDependencyLine` and
`removeDependencyLine` are the two functions of that name in `main.cpp`.

**Workspace** is one package under development with two libraries: a command at
a time (`build`, `run`, `test`, `init`, `add`, `remove`), each unit's
compilation in the steps of `ebc`'s driver (front end, `.gen.cpp`, object,
archive, interface, libs, or compile and link, then tidying up), around it the
user, who edits sources and the manifest at any time, the clock, and a kill.
`src` has a version and a time per source and whether ebc accepts it and g++
compiles it; `lib` has for each library which version its archive, interface and
libs file are of; `bin` what the program was made of; `job` is the command at
work, with the libraries it is for (`order`) and the units still to come
(`todo`), which are taken in the order of `Libs`. How a graph resolves is
`Ebpm`'s business and how a source is judged `FrontEnd`'s.

**Types** has the types of the language and their promotion, **TypeRelations**
the chains of base types and interfaces (`ChainFrom`), `isAssignCompatible` and
the type of a binary operation. **Scopes** is `lookupSymbol` and its kin: the
keys of names, what one means where it stands, what a declaration must not
repeat. **TypeTable** is `collectTypes` with its eight passes, the operators,
the checks of `Extern` signatures, and the order in which `genTypeDecl` writes
types. **Expressions** is `checkExpr`: names, calls and their arguments,
generics and how their type parameter is inferred, members, constants. **Sema**
is `check`: the collecting passes and the walk, with the recursion of
`checkBlock` as the stack `work`, one action per kind of statement. A generic
call suspends the statement it is in: `instantiateGeneric` pushes the body of
the instance with the scope that the C++ code sets up, including the one field
it does not reset (`loopStack_`). **FrontEnd** adds the code generator: of what
it writes, the pieces of control and the C++ function each ends up in, the types
in their order, and where it throws. A statement is a throw if it looks up an
array that the generator's table does not have: by REDIM, by a(i) = e, or by
UBOUND and LBOUND in one of its expressions (`Spoken` and `SpokenAt` say which
are generated where, `BoundsIn` which names one asks for). Statements and
expressions are records; an error is what is wrong, without its place; names are
atoms, already in the canonical case. `Sema` and `FrontEnd` know expressions and
TYPEs by what is asked of them only, as constant operators (`ExprResult`,
`RequestsOf`, `BoundsIn`, `TypesOf`, `TypesAfter` and so on): the walk is the
same whatever they say, and what is proved of it holds whatever they say.
`FrontEnd.cfg` gives them the operators of `Expressions` and `TypeTable`. What
the recursive functions of statements compute (`ArraysOf`, `genStmt`, `Legal`,
`DeclaredIn`) is written as a step that looks one level into a statement, and
`RecursionAssumption`, which TLC evaluates, says that each satisfies its own
equation.

**Coroutine** is `coroutine.hpp` as generated programs use it: variables that
hold the only handle of a frame, calls that start (a task at once, a generator
suspended), `MoveNext`, `AWAIT`, `Result` and `Current`, assignment, the end of
a scope, and bodies that yield, return and throw. `Calls`, `Holds` and `Touches`
say which procedures a body calls, which results a variable is given, and what
a body can get at. Values are left out; whether a promise has one is not.

**LspServer** is the loop of the server. Messages are in `inbox` (stdin), the
editor has `shown` (the diagnostics it was sent) and `answers`. One action per
message handler; `didOpen` and `didChange` include the package resolution, the
compilation and the publishing. A text is what the compiler says of it: the
kind of its first error and the files it includes; `Report` has the stages in
their order, where a later stage runs only if the earlier ones found nothing.
The lexer has two kinds of error, as one of them makes a message that cannot be
written: `GoThrough` is a publication that reaches its end, `BreakOff` one that
an exception ends after some of its messages; `stranded`, a history variable,
has the files that were given a marker by the second kind and no message by the
first kind since.
Uris and files are identified; there is one package root; included files
include nothing. A watched-file message always concerns that package.

**Preprocessor** is `preprocessor.cpp`: `expandSource` with the recursion into
included files and `#macro` bodies as an explicit stack, the `#if` chains of
each source, `everIncluded`, the macro table and the line map. A line is its
directive, or how it uses a macro; the flattened source is, line by line, where
each line comes from, so that the line map can be compared with it. What a
macro expands to is its number of lines (`InlineHeight`, a recursive function on
the depth that is left). A `#macro` definition is one line, which holds the
lines of its body.
`RightBranch` compares the lines that were kept with a reading of the chains
that knows no stack: by counting `#if` and `#endif`. The builtin prelude, which
is spliced first and defines no macro, is left out.

Mutants (definitions whose comment begins with "Mutant") are plausible mistakes
in the code; each breaks the property that PROJECT.json names.

## 3. The runs

| run | question | bounds | distinct states |
|---|---|---|---|
| `resolution` | Is the pick the highest match whatever the order, and do ranges mean what the operators do? Is the order right for every graph, and does resolving end? | `IntMax` 2: every requirement, every list of up to 2 versions; 4 directories, up to 2 entries each | 241,124 |
| `git_cache` | What holds in one cache directory, alone and shared? | 3 refs, 4 commits; 4 situations (below) | 214,521 |
| `ebpm` | What holds over sequences of commands? | 2 repositories of 3 commits, 2 releases of 2 packages, 5 projects | 34,107 |
| `workspace` | What is in the target directory and in the manifest after commands, edits, failures and a kill? | 2 libraries, 2 edits, 2 times, 5 projects | 263,080 |
| `preprocessor` | Which lines are kept, where do they come from, does it end? | 3 files, 2 macros, 11,216 programs (below), 7 nested expansions | 101,547 |
| `front_end` | Does the analysis judge programs as their text does, and is what it accepts generated in order? | all sequences of up to 3 statements of seven menus, one of them for arrays | 129,635 |
| `lsp_server` | What does the editor see? | 4 files, 2 messages under way, 2 requests, 7 situations | 227,669 |
| `coroutine` | Who owns a frame, and what can be done to it? | 4 procedures, 3 variables, 5 frames, 2 yields | 11,138 (up to symmetry) |
| `git_cache_bare_ref`, `git_cache_two_processes`, `front_end_exit`, `lsp_server_garbled` | one disagreement each, see 4 | | |

`Worlds` and `Projects` are sets of situations: the initial state picks one, so
that one run covers several, each no larger than its question needs. The
situations of `git_cache` are a process alone in the directory of a branch, of
no ref, and of a tag (named as tag, as rev or as branch), each with crashes and
failing commands, and two processes that cannot crash in the directory of a
branch. Those of `ebpm` are a registry project with three manifests, the same
for one package with everything that can fail, and a git project with a moving
branch, a path package between, a cycle and a package without `[lib]`, a clone
that two entries lead to, and a dependency under another name than its own.
Those of `workspace` are a package whose sources change, the same when ebpm is
killed, one whose manifest is edited by hand and by ebpm, one whose test
changes, and an empty directory. Those of `lsp_server` are a document with an
included file, two documents that include one, an open document that another
includes, a package with an interface, the end of a session, and a document
whose report cannot be sent, with an included file that has a lexer error of its
own, alone and with a second document that includes that file.

**Why these bounds.** With `IntMax` 2 a component can be below, at and above
another, and at its limit. Two versions in a list are all the scan's invariant
compares; the theorem covers longer lists. Four directories with two entries
are diamonds, chains, cycles of every length up to four and packages seen on
two paths at different depths; the theorems cover the rest. Four commits let a
branch move twice while the default branch moves too, and a build compare the
commit of its start, of its fetch and of its end. Two releases per package and
a second package that requires the first give pins that are outgrown by the
manifest, pins outgrown by another package, and pins that are not. Two
messages under way suffice because the server handles one at a time and only
order matters; two documents, because publishing interacts through a file that
two have in common.

The programs of `preprocessor` are all sequences of five lines of conditions
and definitions, 64 programs with a chain nested in a chain, 216 with something
unusable in a branch, 2560 in which three files include each other with and
without `once` and guards, and 600 with two macros that invoke each other. Five
lines hold a chain with two more branches, a nested one, and every way of
closing too much or too little; seven nested expansions are more than all files
and macros once, so only a macro within itself gets there.

In `workspace` two libraries, one of which needs the other, are the least in
which an interface can change under a library that is not rebuilt; two edits
and two times let a source change before, while and after it is read, in the
same tick and in another. One kill is enough, as a command after it starts from
what is on disk and remembers nothing. What ebc was writing when it was killed
counts as not written (the manifest, in contrast, may be left cut off anywhere).

The programs of `front_end` are: labels, GOTO, GOSUB and RETURN in all orders,
with and without a span already open; loops and EXITs of each kind in one
another; generics with six bodies, called from main, loops, spans, procedures
and as one another's arguments; declarations that repeat or hide one another in
and out of a namespace; three types that hold, extend and implement one another,
in every order, with none, one or two of the methods they declare defined; UBOUND
wherever an expression may stand, of a name that is an array, something else or
nothing, in and out of blocks, procedures, instances and a namespace; and
coroutines. Three statements are a use, what it needs and what may come between.

In `coroutine` a generator uses another one, a task uses a generator, and a task
calls a task and itself; five frames let calls and resumptions nest while
others wait or are being replaced. Frames are interchangeable, so
the run is up to their permutation. With `MaxYields` 2 there is a
first value and one after it.

**Fairness.** `preprocessor` assumes weak fairness of its steps: one thread that
reads files which exist. `resolution` assumes weak fairness of `Visit`: a
resolution is a loop in one thread that waits for nobody, and a failing or
hanging git command is `Nowhere`. `git_cache` assumes it of each process's own
steps, for the same reason; failures, crashes, pushes and new builds are not
fair. Weak fairness is of `Step(p)` as a whole and only for processes that take
part. The other runs check safety, refinement and action properties only and
assume no fairness. `RebuildResolves` is an action property for that reason: it
says a rebuild may not fail, not that it ends. That the front end ends is not
claimed of all programs, because it does not: a generic that calls itself with a
larger type asks for instances without end (`instantiateGeneric` has no limit).

**Deadlock** is checked but in three runs: the language server stops after
`exit`, and with `MaxAsked` and `MaxInbox` used up; a program of `coroutine`
stops when it breaks or ends; a workspace whose manifest does not parse, with
its edits used up, takes no command. In `front_end` it matters most: a statement
of a program for which the analysis or the generator has no action, or a stack
that is not given back, is a deadlock.

**What they show.** All of the following hold in the instances. *Versions and
graphs*: the pick, the ranges, the order, each-once and termination. *Cache*: a
solitary process compiles what it locks and implements `PinnedResolution` even
if it crashes or git fails at any point; a directory without a complete clone is
one somebody is cloning into, unless somebody was killed; `BuildsEnd`.
*Sequences of commands*: `OneVersionForAll` (including after a manifest edit),
`CompilesWhatItLocks`, `RebuildLocksTheSame`, `RebuildResolves` (unless the
fetch of a repository fails or ebpm is killed), `NoSilentUpgrade`,
`UpdateTakesTheNewest`, `LinksWholeClosure`, `ResolvesDepthFirst`. *Workspace*:
after any failure the target directory holds whole libraries and nothing
temporary (`TargetIsWhole`; a kill may leave more); no program contains an
object compiled against another interface than its archive's, kills included
(`LinksWhatItDeclares`); what `run` starts is no older than the sources, unless
one was edited while it was compiled (`RunIsCurrent`); `add` and `remove` change
one name in `[dependencies]` and nothing else (`ExactEdits`, with the header
alone on its line). *Preprocessor*: `RightBranch`, `LineMapTrue` (unless a
`#macro` of several lines is used in the middle of a line, which the reference
forbids), `SplicedOnce`, `OnlyMacrosOverflow` and `Terminates` (an overflow of
the stack is an end, too). *Front end*: the scope is given back whatever
suspended whatever (`ScopesEnd`, `GlobalsAreGlobal`); EXIT, RETURN, YIELD, jumps
and nesting are judged as a reading of the text without any state judges them
(`VerdictIsLexical`), but for the loops around a call, see 4; accepted programs
become C++ whose jumps and RETURNs stand where C++ has them (`JumpsLand`) and
whose types are complete when they are held (`TypesInOrder`); UBOUND and LBOUND
are asked of arrays only (`BoundsAreArrays`), the generator has every array it
looks up in its table, and a statement makes it throw only by an EXIT in an
instance and by a generic declared in a block, see 4 (`OnlyInstancesThrow`).
*Language server*: `AnswersInOrder`, `EditorIsCurrent` (for files only one
document concerns), `MarkersCanBeCleared` (both but for what a publication that
breaks off leaves behind, see 4), `CompletionOffers`. *Coroutines*: `OwnedOnce`,
`EveryYieldTold`, `OnlyEmptyBreaks`.

A property makes an exception in its own text where the code is known not to do
what one would expect: the sentence in section 4 says so.

## 4. Where code and documentation disagree

Four have a run that reports the violation with a trace.

| run | what happens |
|---|---|
| `git_cache_bare_ref` | A bare ref that is a branch (a `rev`, or the ref of an index entry) is checked out as a local branch; the next resolution's `reset --hard origin/HEAD` moves that local branch to the default branch, and the checkout finds it there. The comment in `gitdep.cpp` calls the reset always safe. |
| `git_cache_two_processes` | Two processes in one clone: a pinned build compiles the other's commit. The guide promises that the pin is checked out. |
| `front_end_exit` | `EXIT FOR` in the body of a generic that has no loop is accepted when the call that first instantiates it stands in a `FOR`: of the fields that say where a statement is, `instantiateGeneric` leaves `loopStack_` as it is. The generator then throws "sema should have caught this", and nothing catches that. |
| `lsp_server_garbled` | An unexpected character outside ASCII in a document: the lexer quotes a single byte of it (`lexer.cpp:276`), the JSON library refuses to write that, and the exception is dropped. If an included file has another lexer error and its message went out before, `lastDiagnosticUris_` does not have it, and its marker stays when the document no longer includes the file. The comment at `server.cpp:153-156` says that such markers are cleared. |

The following were met on the way; the property named excludes them, or says
what the code does.

- `~1.2` refuses 1.3.0 and `~1` refuses 2.0.0, as the tests expect
  (`semver_test.cpp:97-100`); the comment at `semver.hpp:48-49`, which
  `matches()` claims to follow, says that tilde "only allows the last *given*
  component to vary". `RangesMeanCompatible` is the code's and the tests'
  meaning, and does not hold of the comment's.
- A rebuild with every pin in the lockfile and every commit in the cache runs
  `git fetch` first (`gitdep.cpp:46`) and fails without a network; the guide
  (`ebpm.md:285-286`) calls it "fully offline-capable". It happens in project
  `crash` of the run `ebpm`; `RebuildResolves` allows this failure and no other.
- A branch reached over two entries moves between them: the tree moves, the
  commit in `order` does not, and the build locks what it did not compile
  (`resolve.cpp:103`; `CompilesWhatItLocks`).
- A pin is written under the package's name and read under the dependency's key;
  with different ones a repeat build follows the branch, or picks anew
  (`lockfile.cpp:50`, `resolve.cpp:101`; `RebuildLocksTheSame`). With the same
  cause, `collectTransitiveDeps` finds no package of the key's name and links
  nothing, on a line whose comment says "unreachable" (`build.cpp:253`;
  `LinksWholeClosure`); and of two packages with one name in one graph it links
  the one that comes last in `order`, whichever was meant (`build.cpp:268`).
- Two refs of one package (which `tests/e2e_pkg/run_git_multiref_case.sh`
  builds) share one pin in the repeat build, because pins go by name
  (`RebuildLocksTheSame`).
- With a comment behind its header, `[dependencies] # ...`, the section is not
  found and `add` appends a second one: it reports success and the manifest does
  not parse any more (`main.cpp:463`; `ExactEdits`).
- `ebpm add` checks the name, looks the package up, and reads the file once
  more: a hand edit in between can leave the entry twice (`main.cpp:556-596`;
  `ExactEdits`).
- The reference attributes errors inside a `#macro` to the call site
  (`docs/reference/preprocessor.md:279-281`); only the line map is corrected,
  errors found while the body is expanded are reported at the body's own line
  numbers in the invoking file (`preprocessor.cpp:666`). No property is about
  it.
- A document with a character outside ASCII where no token has one gets no
  diagnostics at all, although `server.hpp:52-56` says always
  (`EditorIsCurrent`); the markers this can leave behind have a run, above.
- A SUB or FUNCTION that follows a GOSUB target, with no other label between, is
  written inside the function of the span (`codegen.cpp:1187-1213`), though the
  comment at `codegen.cpp:1142-1147` says declarations are never part of it; g++
  rejects that. `JumpsLand` is about jumps; `out.inside` has these procedures.
- A generic SUB or FUNCTION declared in a block: `checkBlock` skips it without
  asking where it stands (`sema.cpp:1374-1377`), the parser reads one anywhere
  (`parser.cpp:844-855`), and the generator, which is given the block as it is,
  throws "must be top-level (sema should have caught this)"
  (`codegen.cpp:662-665`). `JumpsLand` and `OnlyInstancesThrow` allow for it.
- The bounds of a `DIM` outside procedures are evaluated when C++ initialises
  globals, before the statements above it (`codegen.cpp:446-464`, `1218-1220`).
- Sema accepts what g++ refuses: GOTO into or out of a span, a variable declared
  in an inner block and used after it, types that hold each other by value.
- `constIntValues_` is keyed by the bare name, so an ENUM member of a namespace
  overwrites another's value (`sema.cpp:1500`, `2801`); CONSTs are not in it,
  though `sema.hpp:277` says so. An unqualified name in a method that is a field
  and a global is the global to Sema (`sema.cpp:2046-2061`) and the field to
  C++. `EXIT FUNCTION` in an Async FUNCTION becomes `return`, which C++ does not
  allow in a coroutine (`codegen.cpp:645-652`).
- The comment at `coroutine.hpp:25-27` says that every member guards against an
  empty handle: `await_resume` and `Result` of a `Task<T>` and `Current` do not
  (`OnlyEmptyBreaks` allows it).

## 5. The proofs

The properties that the passing runs check are theorems, but for the ones at the
end of this section. PROJECT.json lists each theorem with its property.

**Resolution_proofs**, of VersionPick (every `IntMax` above 0, every set of
lists, every set of requirements; `IntMaxAssumption`, `PickAssumption`). `Less`
is a strict total order. The loop invariant `BestSoFar` says that `best` is the
highest match among those looked at; with `TypeOK` it is inductive and at the
end of the list it is `PicksHighest` (`PickCorrect`). `RangesCorrect` splits on
the operator and on which components are given: the upper bound of the range
accepts exactly the versions that keep the components before and at the one it
raises; where that is the largest int and the sum wraps, the bound is below the
lower one and nothing is accepted (`OverflowMatchesNothing`).

**Resolution_proofs**, of DepGraph (every set of directories, every `MaxDeps`;
`DepGraphAssumption`). None of the properties is inductive by itself: that a
package is appended once needs that nothing on the stack is in `order`; that its
dependencies precede it needs that every dependency a frame has visited is in
`order`; that `order` ends with the root needs that the root is at the bottom of
the stack; that everything but the root has a `[lib]` needs that a package below
the top still has an entry to go. `Inv` is the conjunction of `TypeOK`,
`Traversal` (the first two facts), `Pending` (the other two) and the properties.
There is one lemma per action, and four about what the sequence operations do.
`Correct` gives `TypeCorrect`, `DependenciesAreFirst`, `EachOnce`,
`NoPackageTwice` and `RootIsLast`. As every step of `Ebpm` is proved to be one
of `DepGraph` (below), they hold of the traversal with its pins, clones and
index.

**Coroutine_proofs** (any procedures, variables and frames, any number of
yields; `ShapeAssumption`, `TouchesAssumption`, `ApartAssumption`,
`NamesAssumption`, `YieldsAssumption`). `OwnedOnce` is not inductive: that the
object of a frame can be moved into a variable without destroying what still
runs needs to know what runs. `Chain` says that the running frames form a chain
of callers, numbered by `depth`, and that a frame can get at no more than the
one below it; `Aimed`, that the variable a frame's object goes to is one its
caller uses; `Owned`, where each frame's handle is. `Inv` is these with
`TypeOK`, `EveryYieldTold` and `OnlyEmptyBreaks`. The heart is `NotOccupied`: a
variable that the running body uses holds no running frame - such a frame would
be on the chain, its procedure one that the variable `Holds`, and by `Chain` and
`TouchesAssumption` the variable in `Touches` of that same procedure, which
`ApartAssumption` rules out. There is a lemma for each way a step changes the
frames (`ResumeStep`, `PopStep`, `AssignStep`, `QuietStep`) and one per action.
`FramesHaveOneOwner`, `YieldsAreTold` and `NothingRunningIsTouched` follow.
`ApartAssumption` is what the programmer has to see to: no code checks that a
generator's body does not reach the variable that holds it, and without it a
frame is destroyed while it runs.

**GitCache_proofs** (any processes, refs, commits and situations;
`GitAssumption`, `CacheAssumption`). `Inv` holds of any number of processes:
types, one process at most clones, an unfinished clone has an owner as long as
nobody can die, and the tree of a lone process is its result from `rev-parse` to
the lock entry. It gives `PartialIsBeingClonedSafe` and
`CompilesWhatItLocksSafe`. What a lone process resolves needs more, `SoloInv`:
refs neither appear nor vanish (`RefsStay`), HEAD is the default branch or
detached (`OnDefault`), what each step finds in the clone (`Resolving`), that
what is pinned exists (`PinnedExists`), and what the build has seen of its ref
(`Promises`). All of it rests on the hypothesis `NoBareBranch`, that no ref
given without saying which kind is the name of a branch; the run
`git_cache_bare_ref` shows that it is needed. From it follow
`PinnedBuildUsesPinAlone`, `UnpinnedBuildIsFreshAlone` and
`ResolvesAtomicallyAlone`: the lone process implements `PinnedResolution`, with
the ref taken at the fetch (`AbstractSnap`).

**LspServer_proofs** (any documents, files, texts and numbers of messages;
`LspAssumption`). `Inv` is the type invariant, the three safety properties and
two facts they need: a compilation reports only on files that its document
concerns (`ReportsConcern`), and a document that parsed has an index
(`IndexKept`). The heart is publishing: if it goes through, each file the server
remembers gets either the new report or an empty one, so nothing shown is
forgotten; if it breaks off, what was sent is `stranded`.

**Workspace_proofs** (any libraries that need one another without a cycle, any
manifests and edits; `WorkspaceAssumption`). `Inv` follows a build through its
list: `Planned` (what is on the list in each step), `Replacing` (the unit whose
archive was just replaced is the only one that may disagree with itself),
`Tidied`, `Consistent` (libraries behind the build agree with what they were
compiled against), `Dated` (a source newer than what was made of it was edited
after it was read) and `Current` (how far a `run` has got with the sources it
was asked for). `TargetIsWholeSafe`, `LinksWhatItDeclaresSafe` and
`RunIsCurrentSafe` follow. `ExactEditsSafe` is about text: lemmas for the
section search, the insertion and the removal of `main.cpp` show, for a text of
any length, that the names of `[dependencies]` change by the one given and that
it still loads.

**Ebpm_proofs** (any repositories, index, manifests, faults and sequence of
commands; `EbpmAssumption`). Three invariants. `Inv`: types (with, for each
clone, that it only has commits of its own repository - the proof found that a
pin could otherwise name a commit there is no manifest for, which `CanResolve`
now says fails); what each phase leaves behind (`Phases`, `Unlocked`); every
entry dealt with is served (`EntriesSettled`); and every pick was the pin, if
the requirement allowed it, or else the highest release the index had
(`PicksJustified`). `OneVersionForAllSafe`, `NoSilentUpgradeSafe` and
`UpdateTakesTheNewestSafe` follow. An entry's five ways to be resolved all come
down to one lemma, `EntryStep`: nothing but a failure, or a package that is
reached. `ResolvesDepthFirstSafe` is the step simulation of `DepGraph` from
`Inv`. `CloneInv`: the stack is a path, and each package read from a clone
stands at the commit it was read at unless the clone has been opened twice,
counted by the entries that led to it; it gives `CompilesWhatItLocksSafe`.
`DepsInv`: what a package in `order` is recorded to depend on is what its
entries lead to, all of it in `order`; so, where keys are names and names
differ, the steps of `collectTransitiveDeps` are those of the graph, and
`LinksWholeClosureSafe`. The last two hypotheses were found by the proof: with
the first for git dependencies only, which is all the instances need, the
property is false.

**Preprocessor_proofs** (any files, macros and texts of any length;
`PreprocessorAssumption`). `IInv` is the type invariant, `StackInv` (each file
is read in one call of `expandSource` at a time, and a stack that is used up is
full), `MapInv` and `Mapped` (outside macros the line map is right, inside it is
right up to the invocation, and all that follows comes from there):
`LineMapCorrect`. `OverflowCorrect` assumes that `MaxDepth` exceeds the number
of files and macros, and is a pigeonhole argument: a full stack has something on
it twice, and no file. `OnceInv` follows, for a file that is only included
`once` and for one with a guard, which of its lines are shown while it is read,
behind what is on the stack and after; `SplicedOnceCorrect` follows with
`InSource`, by which a macro's body is a text of the program.
`RightBranchCorrect` relates the stack of `#if`s to the reading without a stack:
`Chained` says of every call that the stack has one entry for each chain that is
open at the line (`Openers`, as many as `#if`s outnumber `#endif`s), that its
entries say of those chains what the text says (`Judged`), and that the lines
kept so far are the right ones (`Told`). The lemmas before it are about
counting: depth changes by one at `#if` and `#endif`, and the opener of a line
and its branches are unique. The theorem holds for texts with no `#elseif` or
second `#else` behind an `#else`, which `RightBranch` excludes.

**FrontEnd_proofs** (any program and statements, whatever is made of expressions
and TYPEs). The assumptions are what a parser and the substitution of a type
parameter give: statements hold statements (`StatementsAssumption`), keys are
sequences of names (`KeyedAssumption`), an instance is a statement that is no
generic, and a type has a suffix (`InstanceAssumption`), no statement is inside
itself (`HeightAssumption`), and `RecursionAssumption` of section 2. Nothing is
assumed of the constant operators, but by `ThrowsCorrect` (below). The blocks on
the stack `work` are numbered from the bottom, and each has a view: the scope as
it is in that block, which is the one the block above has put aside. The actions
of the walk come down to five effects (`Takes`: a leaf, the blocks of a
statement, a loop, a body, a namespace), a request for an instance (`Requests`)
and the end of a block (`Ends`); `WalkSteps` shows it, and the invariants are
proved for these. `TypeInv` is the type invariant with `StackInv`: how the view
of a block differs from the one below it, by the kind of block. It says what
`Restored` has to give back, so `ScopesEnd` follows, with `KeysInv` (no instance
is made twice, and none that is being made) and `SpanInv`.

`VerdictIsLexical` compares a walk with flags and a stack with a reading that
has neither. `SpanEq`: the flag for spans is what the text says. Two invariants,
one for each direction, say what the errors so far mean: if there are none and
*what is left* of every block is legal where it stands, what has been passed was
(`HiInv`); if the whole program is legal, there are none, and what is left is
legal (`LoInv`). A statement is legal in one step and its blocks in later ones;
each step of the walk moves one level of `Legal` from the first half to the
second. `GlobInv` has the same shape for `GlobalsAreGlobal`: a key outside
procedures is declared in the module if and only if it is in the table or still
to be declared, by a block on the stack that is in no procedure.

`JumpsLand` is about what comes after. `TargetInv`: without errors, every jump
of the module has its label, and no label serves both kinds. `CodeInv` follows
the generator: `OpenInv`, the function that is open is the span the text says,
which is what Sema judged RETURN by; `TokenInv`, which pieces can be in main, in
a span and in a procedure, and that each label passed is where its jumps look
for it. That no block has a piece which its statements do not allow is shown for
`genStmt` by the height of a statement (`FromParts`, where the induction of the
library is over a set of heights, so no operator is needed).

`OnlyInstancesThrow` sets the scope of Sema, which has a table for each
procedure and gives it back, against the one table of the generator, which only
grows and is walked in another order: instances come last. What is to be shown
is that the generator knows, where an array is used, every array that Sema knew
there. `ThrowsCorrect` has one hypothesis besides `Spec`: `[]BoundsAreArrays`,
that checkExpr accepts UBOUND and LBOUND of arrays only. What checkExpr says is
a parameter of the walk; that the operators of `Expressions` have this property
the run checks (they are RECURSIVE, so out of the prover's reach). `JudgedInv`
says that the results at hand are those of the statement at hand, so that an
accepted statement asks for arrays of the scope only (`HeardSteps`, one case for
each handler and its early returns). `Known` is what Sema can come to know in a
block of the stack: the arrays of its scope and those that what is left of the
blocks above it declares, up to the next procedure. It never grows but by what a
statement declares itself (`KnownTakes`, `KnownInstance`, `KnownEnds`), so at
the bottom it is within `KnownAt`, the arrays of the module up to the statement
at hand (`KnownInv`). A statement is `Quiet` with a set of arrays if the
generator misses none with these or more; `QuietInv` has the shape of `HiInv`:
without errors, what has been passed is quiet with what was known there, if what
is left of the blocks is. `FoundInv` is the generator's side: its table has
`KnownAt`, and no piece in its output is a missed array.

Where a definition is a recursive function, what it computes is proved without
an induction theorem (those take an operator): from the least argument for which
it would be false (`LeastNumber`).

**Only model-checked**: termination of resolution and preprocessor and
`BuildsEnd`, since liveness under fairness is out of the prover's reach; what
two processes in one clone do beyond `Inv`; `RebuildResolves` and
`RebuildLocksTheSame`, which compare a resolution with the one that wrote the
lockfile (the second is not true of every project: a package that another commit
of it calls by another name loses its pin); `TypesInOrder`, which is about the
order that `TypesAfter` gives, an operator of `TypeTable`: that is RECURSIVE, so
the prover has no arithmetic where it is used, and the proofs take it for any.

## 6. What is not modelled

- *Parsing* of manifests, index files, lockfiles, versions and JSON: pure
  functions; the models begin with their results, and a malformed file is a
  resolution that fails. That the lockfile is written in place, so that a kill
  leaves a part of it, is modelled.
- *Two urls with one cache directory* (`sanitizeForDirName`): `DirOf` is a
  constant; the instances use an injective one, the proofs any.
- *`ebpm search`*, the parsing of arguments, command lines and the layout of
  directories; two ebpm processes in one workspace, which can mix an archive and
  an interface of two generations.
- *The driver's* shared libraries, precompiled headers, options and choice of a
  C++ compiler.
- *Lexer and parser*: functions from text to tokens to a tree, without state but
  a position; their result is the input of `Sema`. Their error recovery is not
  modelled.
- *Sema*: the marks it leaves in the tree for the generator (pointer bridges,
  properties), and the wording, number and places of errors.
- *Code generation*: the text of expressions, and what the generated program
  computes. An `.iface.bas` is its version. Of its throws those for arrays, EXIT
  and nested declarations are modelled. `cppType` of an unknown type
  (`codegen.cpp:95`) is left out: each type that reaches it is one the parser
  read or the type of a constant that Sema has accepted; so is the base of a
  TYPE (`codegen.cpp:171`), in a table that has every base Sema knows, and so
  are the ends of two switches over all their cases (`codegen.cpp:425`, `895`).
- *Extern procedures* are those that are imported: the checks of an exported
  one's signature are the same, the prelude is exempt (`sema.cpp:676`, `729`),
  and no program of the instances has either.
- *The key of an instance* is the sequence of the generic's name and the suffixes
  of its type; the code joins them to one string, `x_of_suffix`, which a name of
  the program could repeat, as the comment there accepts (`sema.cpp:1012-1022`).
- *`pp_expr.cpp`* and the text of a macro's expansion: their results.
- *symbols.cpp*, `uri.cpp`, docgen: pure functions on an AST or a string.
- *The runtime* apart from coroutines: pure functions on values, and wrappers of
  one system call each. Of coroutines, the moved-from value of a result that is
  read twice.
- `third_party/`, editors, examples: not the program's own logic.

## 7. Plan

Done in this order: versions, the traversal and its proofs, the git cache, the
project, the language server, the preprocessor, the type table, expressions,
semantic analysis and the control flow of the generated code, the workspace, the
coroutines; then the proofs, of the coroutines, the git cache, the language
server, the workspace, the project, the preprocessor and the front end. What is
left, in the order of its worth:

1. **Proofs**: `RebuildLocksTheSame`, which compares a resolution with the one
   that wrote the lockfile and so needs that one's order, step by step, as a
   history variable.
2. **Workspace** with two processes, and with writes of ebc that a kill cuts off.
3. **Code generation**: the order of evaluation of a module's statements, on
   which the initialisers of globals bear.
4. **Parser**: error recovery and block structure, with tokens as model values.
