\* Editing sessions over one and two documents.
SPECIFICATION Spec
CONSTANTS
    Files <- MCFiles
    Ifaces = {iface}
    Worlds <- MCWorlds
    NoText = NoText
    NoContext = NoContext
    MaxInbox = 2
    MaxAsked = 2
    main = main other = other header = header iface = iface
INVARIANTS
    AnswersInOrder
    EditorIsCurrent
    MarkersCanBeCleared
PROPERTY
    CompletionOffers
CHECK_DEADLOCK FALSE
