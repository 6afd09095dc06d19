\* A report that cannot be sent: what comments promise of stale markers.
SPECIFICATION Spec
CONSTANTS
    Files <- MCFiles
    Ifaces = {iface}
    Worlds <- GarbledWorlds
    NoText = NoText
    NoContext = NoContext
    MaxInbox = 2
    MaxAsked = 2
    main = main other = other header = header iface = iface
INVARIANT
    NoStaleMarkers
CHECK_DEADLOCK FALSE
