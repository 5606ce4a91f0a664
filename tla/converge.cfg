SPECIFICATION FairSpec
CONSTANTS
    Apps = {1, 2}
    Flushes = {f1}
    ra = ra
    rb = rb
    NoRoutes = NoRoutes
    Routes = {NoRoutes, ra, rb}
    Contents <- OptOutContents
    FullSync = TRUE
    MaxIndex = 2
    MaxFaults = 3
    None = None
CHECK_DEADLOCK FALSE
INVARIANTS TypeOK TablesAgree FileOfOneConverge
PROPERTY TablesConverge
