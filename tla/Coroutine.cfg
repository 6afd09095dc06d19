SPECIFICATION Spec
CONSTANTS
    Procs <- MCProcs
    Shape <- MCShape
    Vars <- MCVars
    Holds <- MCHolds
    Calls <- MCCalls
    Touches <- MCTouches
    Frames = {f1, f2, f3, f4, f5}
    MaxYields = 2
    Main = Main
    Null = Null
    Next = Next
    Drop = Drop
    Await = Await
    count = count
    evens = evens
    total = total
    sum = sum
    source = source
    view = view
    t = t
INVARIANTS
    OwnedOnce
    EveryYieldTold
    OnlyEmptyBreaks
SYMMETRY Symmetry
CHECK_DEADLOCK FALSE
