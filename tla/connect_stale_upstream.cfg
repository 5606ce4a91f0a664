SPECIFICATION Spec
CONSTANTS
    Services = {s1, s2}
    PortStart = 1
    PortEnd = 3
    Hash <- Colliding
    MaxLosses = 0
    MaxErrors = 0
    MaxConverges = 2
    MaxRestarts = 0
INVARIANT StaleUpstreamsRemoved
