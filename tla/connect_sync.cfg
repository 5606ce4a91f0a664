SPECIFICATION FairSpec
CONSTANTS
    Services = {s1, s2}
    PortStart = 1
    PortEnd = 3
    Hash <- Colliding
    MaxLosses = 1
    MaxErrors = 1
    MaxConverges = 2
    MaxRestarts = 1
INVARIANTS TypeOK UniquePorts NoMisroute
PROPERTIES RegistrationHeals ListenersStay
