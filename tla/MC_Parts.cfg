SPECIFICATION MCSpec
CONSTANTS
    Nodes = {n1, n2}
    Addrs = {x, y}
    NoAddr = NoAddr
    TTL = 4
    Interval = 1
    MaxLag = 1
    MaxStarts = 3
    MaxFaults = 1
    Kcp = {k1, k2}
    Callback = {f1, f2}
    Nil = Nil
    First = 4
    MaxSlot = 6
    Thread = {t1, t2}
    File = {file}
    State = {s1, s2, s3}
    NULL = NULL
    MaxClears = 1
    Wrap = 9
    SlapLimit = 3
    Intervals = {1, 3}
    RtoNdl = 1
    RtoMin = 2
    RtoDef = 2
    RtoMax = 2
    Rtts = {0, 4}
    Ticks <- MCTicks
    MaxXmit = 2
    Path = {f}
    Chunk = {p, q}
    Env = {e}
    Block = 3
    Byte = {0, 1, 3, 128}
    MaxText = 4
    Flights = {3, 4}
    Data = {d1, d2}
    MaxData = 2
    Request = {r}
    Piece = {1, 3}
    MaxPieces = 3
    Initial = 1
    Packets <- MCPackets
    Bytes = {1, 2}
    MaxBytes = 3
    CACHE_SIZE = 4
    Day = 3
    MaxTime = 7
    NoFile = NoFile
    Stdout = Stdout
INVARIANTS
    CallbackIsOwn
    SharedAlive LeakIsBounded
    CheckIsNotLate SilenceIsBounded
    ListMatchesTable QueriesExact ObjectsSound
    FilterExact GoodFilesLoad RoundTrip
    BytesInOrder BodyIsWhole StreamsAreWhole LinesInTheirFile
    LeaseKept ViewFollows
PROPERTIES
    LimitKeepsTheRest ToldOnce InRangeIsTold BothFinish AllArrives
CHECK_DEADLOCK FALSE
