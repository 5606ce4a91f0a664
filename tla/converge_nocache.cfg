SPECIFICATION FairSpec
CONSTANTS
    Apps = {1}
    Flushes = {f1}
    ra = ra
    rb = rb
    NoRoutes = NoRoutes
    Routes = {NoRoutes, ra, rb}
    Contents <- NoCacheContents
    FullSync = TRUE
    MaxIndex = 2
    MaxFaults = 0
    None = None
CHECK_DEADLOCK FALSE
PROPERTY NoCacheFollowsMetadata
