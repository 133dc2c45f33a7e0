SPECIFICATION Spec
CONSTANTS
    n1 = n1
    n2 = n2
    Nodes = {n1, n2}
    Addrs = {a}
    None = None
    Interval = 1
    Timeout = 6
    Skew <- SkewedClocks
    MaxLag = 1
    MaxStarts = 2
    MaxFaults = 1
    FaultKinds = {"drop"}
INVARIANTS LiveNodeListed
