SPECIFICATION FairSpec
CONSTANTS
    Streams <- ClientStreams
    Tables <- PortTables
    MaxResponse = 2
    None = None
CHECK_DEADLOCK FALSE
INVARIANTS TypeOK Verbatim ResponseComplete RightRoute PickIsWeighted
PROPERTY ConnectionEnds
