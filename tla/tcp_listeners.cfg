SPECIFICATION ConnsOrReloadSpec
CONSTANTS
    NApps = 2
    Ports = {p1, r1}
    Reserved = {r1}
    Conns = {c1, c2}
    Converges = {f1}
    LateConverges = FALSE
    MaxGen = 2
    MaxConverges = 2
    MaxErrors = 1
INVARIANTS TypeOK NoLeak ListenersMatchTable SettledIsBound TrackingExact
PROPERTY TrackedConnsDrain
