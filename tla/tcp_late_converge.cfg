SPECIFICATION Spec
CONSTANTS
    NApps = 2
    Ports = {p1}
    Reserved = {}
    Conns = {}
    Converges = {f1}
    LateConverges = TRUE
    MaxGen = 2
    MaxConverges = 2
    MaxErrors = 0
INVARIANT StoppedHoldsNothing
