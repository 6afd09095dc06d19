\* Conditions, includes and macros of small programs.
SPECIFICATION FairSpec
CONSTANTS
    Files <- MCFiles
    Main = main
    NoFile = NoFile
    Macros = {m, n}
    Programs <- MCPrograms
    MaxDepth = 7
    main = main a = a b = b m = m n = n
INVARIANTS
    LineMapTrue
    RightBranch
    SplicedOnce
    OnlyMacrosOverflow
PROPERTY
    Terminates
