SPECIFICATION FairSpec
CONSTANTS
    n1 = n1
    n2 = n2
    Nodes = {n1, n2}
    Addrs = {a, b}
    None = None
    Interval = 1
    Timeout = 2
    Skew <- SameClocks
    MaxLag = 0
    MaxStarts = 3
    MaxFaults = 1
    FaultKinds = {"crash"}
PROPERTIES AddressesConverge
