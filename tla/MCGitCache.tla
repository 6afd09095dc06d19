----------------------------- MODULE MCGitCache -----------------------------
(* A remote with its default branch, one more branch and one tag.            *)
EXTENDS GitCache

CONSTANTS p1, p2, c1, c2, c3, c4, master, feature, v1

MCRemote ==
    [heads |-> [n \in Names |-> CASE n = master  -> c1
                                  [] n = feature -> c2
                                  [] OTHER       -> NoCommit],
     tags |-> [n \in Names |-> IF n = v1 THEN c1 ELSE NoCommit]]

MCNames == {master, feature, v1}
MCCommits == {c1, c2, c3, c4}
MCProcs == {p1, p2}

World(users, selector, kinds, commits, faults) ==
    [users |-> users, selector |-> selector, kinds |-> kinds,
     commits |-> commits, faults |-> faults]

\* One process: in the directory of a branch, of no ref, of a tag that is
\* named as tag, as rev or, mistakenly, as branch.  Two processes, which do
\* not die, in the directory of a branch.
MCWorlds ==
    {World({p1}, feature, {"branch"}, MCCommits, {"git", "crash", "compile"}),
     World({p1}, NoSelector, {"default"}, MCCommits, {"git", "crash"}),
     World({p1}, v1, {"branch", "bare"}, MCCommits, {"git", "crash"}),
     World({p1, p2}, feature, {"branch"}, {c1, c2, c3}, {"git"})}

\* A branch named by a bare ref: a rev, or the branch of an index entry.
RefWorld == {World({p1}, feature, {"bare"}, MCCommits, {})}

\* Two projects that depend on one repository.
RaceWorld == {World({p1, p2}, NoSelector, {"default"}, MCCommits, {})}
=============================================================================
