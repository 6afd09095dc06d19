\* Builds, listings and updates of five projects.
SPECIFICATION Spec
CONSTANTS
    Projects = {"registry", "crash", "git", "diamond", "alias"}
    Remotes0 <- MCRemotes
    RootManifests <- MCRootManifests
    PathManifest <- MCPathManifest
    GitManifest <- MCGitManifest
    Releases <- MCReleases
    Published0 <- MCPublished
    Moving <- MCMoving
    Commands <- MCCommands
    Faults <- MCFaults
    Commits <- MCCommits
    Names <- MCNames
    Urls <- MCUrls
    PkgNames <- MCPkgNames
    CacheDirs <- MCCacheDirs
    DirOf <- MCDirOf
    DefaultBranch = master
    IntMax = 3
    Wraps = TRUE
    MaxDeps = 2
    RootDir = root
    NoCommit = NoCommit Detached = Detached NoRef = NoRef NoUrl = NoUrl
    NoVersion = NoVersion NoPick = NoPick NoClone = NoClone
    NoManifest = NoManifest
    ua = ua ub = ub
    x1 = x1 x2 = x2 x3 = x3 y1 = y1 y2 = y2 y3 = y3
    master = master dev = dev v1 = v1 v2 = v2
    root = root p = p loop = loop bare = bare
    a = a b = b util = util app = app
INVARIANTS
    OneVersionForAll
    CompilesWhatItLocks
    RebuildLocksTheSame
    NoSilentUpgrade
    UpdateTakesTheNewest
    LinksWholeClosure
PROPERTIES
    ResolvesDepthFirst
    RebuildResolves
