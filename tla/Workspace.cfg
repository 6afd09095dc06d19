SPECIFICATION Spec
CONSTANTS
    Projects <- AllProjects
    Libs <- MCLibs
    Needs <- MCNeeds
    Names <- MCNames
    Manifest0 <- MCManifest0
    HandEdits <- MCHandEdits
    Editable <- MCEditable
    Edits <- MCEdits
    Commands <- MCCommands
    MaxTime = 1
INVARIANTS
    TargetIsWhole
    LinksWhatItDeclares
    RunIsCurrent
    ExactEdits
CHECK_DEADLOCK FALSE
