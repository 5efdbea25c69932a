SPECIFICATION Spec
CONSTANTS
    A = A
    B = B
    up = up
    down = down
    long = long
    short = short
    halt = halt
    plain = plain
    p1 = p1
    p2 = p2
    p3 = p3
    Command = {up, down, long, short, halt, plain}
    Press = {p1, p2, p3}
    Bridge = {A, B}
    Sent <- MCSent
    Pressed <- HeldPressed
    Casts <- HeldCasts
    Slack = 0
    Lag = 1
    Drain = 3
    EntryTtl = 4
    PendingTtl = 4
    BridgeCap = 2
    GlobalCap = 2
    MaxTargets = 3
    HoldTtl = 3
    HoldCap = 1
    DebounceWindow = 1
    CacheTtl = 6
    CacheCap = 12
    StatusDelay = 1
    ReportDelay = 1
    Skew = 0
    StartWait = 4
    Interval = 2
    BrokerDelay = 1
    Entry <- HeldEntry
    MaxTime = 6
INVARIANTS NoPressSwallowed
CHECK_DEADLOCK FALSE
