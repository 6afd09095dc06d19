------------------------------- MODULE MCEbpm -------------------------------
(* Small projects for Ebpm: two repositories, ua and ub, of the packages a   *)
(* and b, with a default branch, one more branch and two tags each.          *)
EXTENDS Ebpm

CONSTANTS ua, ub, x1, x2, x3, y1, y2, y3, master, dev, v1, v2,
          root, p, loop, bare, a, b, util, app

MCNames == {master, dev, v1, v2}
MCCommits == {x1, x2, x3, y1, y2, y3}
MCUrls == {ua, ub}
MCPkgNames == {a, b, util, app}

Remote(m, d, t1, t2) ==
    [heads |-> [n \in Names |-> CASE n = master -> m [] n = dev -> d
                                  [] OTHER -> NoCommit],
     tags  |-> [n \in Names |-> CASE n = v1 -> t1 [] n = v2 -> t2
                                  [] OTHER -> NoCommit]]

Pkg(n, ds) == [name |-> n, lib |-> TRUE, deps |-> ds]
App(ds) == [name |-> app, lib |-> FALSE, deps |-> ds]
Path(n, d) == [name |-> n, kind |-> "path", dir |-> d]
Git(n, u, how, r) ==
    [name |-> n, kind |-> "git", url |-> u, by |-> how, ref |-> r]
Reg(n, q) == [name |-> n, kind |-> "registry", req |-> q]

Caret(x, y) == [op |-> "caret", major |-> x, minor |-> y, patch |-> 0,
                precision |-> 2]
Tilde(x, y) == [Caret(x, y) EXCEPT !.op = "tilde"]

MCRemotes ==
    [u \in Urls |-> IF u = ua THEN Remote(x1, x2, x1, x2)
                              ELSE Remote(y1, NoCommit, y1, y2)]

\* A directory of its own for every url and ref.
MCCacheDirs == Urls \X Refs
MCDirOf == [d \in MCCacheDirs |-> d]

XCommits == {x1, x2, x3}
YCommits == {y1, y2, y3}
Contents == {<<ua, x>> : x \in XCommits} \cup {<<ub, y>> : y \in YCommits}

Tagged(m, n, u, r) == [version |-> V(m, n, 0), url |-> u, ref |-> r]
-----------------------------------------------------------------------------
(* The projects.                                                             *)
(*   registry  a and b are published at 1.0 and 1.1; b needs a ^1.0, from    *)
(*             1.1 on a ^1.1; three manifests ask for them                   *)
(*   crash     the same for a alone, with everything that can fail           *)
(*   git       a from a branch and, through the path package p, b from its   *)
(*             default branch; both branches move; or a package that         *)
(*             depends on itself, or one without [lib]                       *)
(*   diamond   a from its branch, and through p once more                    *)
(*   alias     package a of repository ua, called b; or a path to nowhere    *)
RegistryProjects == {"registry", "crash"}

MCRootManifests == [j \in Projects |->
    CASE j = "registry" ->
            {App(<<Reg(a, Caret(1, 0)), Reg(b, Caret(1, 0))>>),
             App(<<Reg(a, Tilde(1, 0)), Reg(b, Caret(1, 0))>>),
             App(<<Reg(b, Caret(1, 1))>>)}
      [] j = "crash"   -> {App(<<Reg(a, Caret(1, 0))>>),
                           App(<<Reg(a, Tilde(1, 0))>>)}
      [] j = "git"     -> {App(<<Git(a, ua, "branch", dev), Path(util, p)>>),
                           App(<<Path(util, p)>>),
                           App(<<Path(util, p), Path(b, loop)>>),
                           App(<<Path(b, bare)>>)}
      [] j = "diamond" -> {App(<<Git(a, ua, "branch", dev), Path(util, p)>>)}
      [] j = "alias"   -> {App(<<Git(b, ua, "branch", dev)>>), App(<<Path(util, p)>>)}]

DepsOfP(j) ==
    CASE j = "git"     -> <<Git(b, ub, "default", NoRef)>>
      [] j = "diamond" -> <<Git(a, ua, "branch", dev)>>

MCPathManifest == [j \in Projects |->
    [d \in CASE j = "git" -> {p, loop, bare}
             [] j = "diamond" -> {p}
             [] OTHER -> {}
        |-> CASE d = p -> Pkg(util, DepsOfP(j))
              [] d = loop -> Pkg(b, <<Path(util, loop)>>)
              [] d = bare -> [Pkg(util, <<>>) EXCEPT !.lib = FALSE]]]

MCGitManifest == [j \in Projects |-> [k \in Contents |->
    CASE k[1] = ua -> Pkg(a, <<>>)
      [] k[1] = ub /\ j \notin RegistryProjects -> Pkg(b, <<>>)
      [] OTHER -> Pkg(b, IF k[2] = y1 THEN <<Reg(a, Caret(1, 0))>>
                                           ELSE <<Reg(a, Caret(1, 1))>>)]]

MCReleases == [j \in Projects |-> [n \in PkgNames |->
    CASE j \notin RegistryProjects -> <<>>
      [] n = a -> <<Tagged(1, 0, ua, v1), Tagged(1, 1, ua, v2)>>
      [] n = b -> <<Tagged(1, 0, ub, v1), Tagged(1, 1, ub, v2)>>
      [] OTHER -> <<>>]]
MCPublished == [j \in Projects |-> [n \in PkgNames |->
    IF j \in RegistryProjects /\ n \in {a, b} THEN 1 ELSE 0]]

MCMoving == [j \in Projects |->
    CASE j \in {"git", "diamond", "alias"} -> {<<ua, dev>>, <<ub, master>>}
      [] j \in {"registry", "crash"}       -> {<<ua, master>>}
      [] OTHER                             -> {}]
MCCommands == [j \in Projects |->
    CASE j = "crash"    -> {"build", "list", "update"}
      [] j = "registry" -> {"build", "update"}
      [] j = "git"      -> {"build", "list"}
      [] OTHER          -> {"build"}]
MCFaults == [j \in Projects |->
    CASE j = "crash"    -> {"index", "offline", "compile", "crash"}
      [] j = "registry" -> {"index", "compile"}
      [] OTHER          -> {}]
=============================================================================
