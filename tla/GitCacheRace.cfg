\* Two projects at once with a dependency on one repository.
SPECIFICATION Spec
CONSTANTS
    Commits <- MCCommits
    Names <- MCNames
    Procs <- MCProcs
    Worlds <- RaceWorld
    Remote0 <- MCRemote
    DefaultBranch = master
    NoCommit = NoCommit
    Detached = Detached
    NoSelector = NoSelector
    p1 = p1 p2 = p2
    c1 = c1 c2 = c2 c3 = c3 c4 = c4
    master = master feature = feature v1 = v1
INVARIANT
    PinnedBuildUsesPin
