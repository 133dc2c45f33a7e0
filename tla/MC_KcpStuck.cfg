SPECIFICATION FairSpec
CONSTANTS
    a = a
    b = b
    Peer <- Ends
    Script <- TooLong
    MaxFragments = 255
    SndWnd = 2
    RcvWnd = 1
    WndRcv = 2
    Mtu = 3
    PushSize = 2
    FastResend = 1
    NoCwnd = FALSE
    NetCap = 1
    AckCap = 1
    MaxFaults = 1
PROPERTY AllArrives
