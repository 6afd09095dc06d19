\* The scan of the published versions, and the traversal of the graph.
SPECIFICATION ResolutionSpec
CONSTANTS
    IntMax = 2
    Wraps = TRUE
    Lists <- MCLists
    Reqs <- MCReqs
    NoVersion = NoVersion
    Dirs = {root, a, b, c}
    RootDir = root
    MaxDeps = 2
INVARIANTS
    PicksHighest
    RangesMeanCompatible
    DependenciesFirst
    OnceEach
PROPERTY
    Terminates
