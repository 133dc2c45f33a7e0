SPECIFICATION Spec
CONSTANTS
    a = a
    b = b
    Peer <- Ends
    Script <- TwoMessages
    MaxFragments = 255
    SndWnd = 2
    RcvWnd = 2
    WndRcv = 2
    Mtu = 3
    PushSize = 2
    FastResend = 1
    NoCwnd = FALSE
    NetCap = 2
    AckCap = 1
    MaxFaults = 1
INVARIANTS TypeOK NothingForgotten WithinWindows
PROPERTY ChannelSpec
