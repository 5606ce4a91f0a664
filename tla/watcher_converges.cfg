SPECIFICATION FairSpec
CONSTANTS
    Services = {s1}
    Instances = {i1}
    r1 = r1
    r2 = r2
    u1 = u1
    Regs = {r1, r2, u1}
    TaggedRegs = {r1, r2}
    InstanceStates <- EveryState
    HealthPolicy = "passing"
    FullSync = TRUE
    MayStop = FALSE
    Flushes = {f1}
    MaxIndex = 2
    MaxErrors = 0
    None = None
PROPERTY RoutesConverge
