SPECIFICATION FairSpec
CONSTANTS
    Services = {s1}
    Instances = {i1}
    r1 = r1
    r2 = r2
    u1 = u1
    Regs = {r1, r2, u1}
    TaggedRegs = {r1, r2}
    InstanceStates <- OnlyUp
    HealthPolicy = "passing"
    FullSync = TRUE
    MayStop = TRUE
    Flushes = {f1}
    MaxIndex = 1
    MaxErrors = 1
    None = None
INVARIANTS TypeOK NoLostChange NoLostWakeup
PROPERTIES StopEndsWatcher ImplementsFeed
