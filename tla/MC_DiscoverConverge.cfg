SPECIFICATION FairSpec
CONSTANTS
    n1 = n1
    n2 = n2
    Nodes = {n1, n2}
    Addrs = {a}
    None = None
    Interval = 1
    Timeout = 3
    Skew <- SkewedClocks
    MaxLag = 0
    MaxStarts = 3
    MaxFaults = 1
    FaultKinds = {"crash", "drop", "drop_sub", "deaf"}
PROPERTIES NamesConverge
