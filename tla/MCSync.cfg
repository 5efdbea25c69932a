SPECIFICATION Spec
CONSTANTS
    A = A
    B = B
    up = up
    down = down
    long = long
    short = short
    halt = halt
    plain = plain
    p1 = p1
    p2 = p2
    p3 = p3
    Command = {up, down, long, short, halt, plain}
    Press = {p1, p2, p3}
    Bridge = {A, B}
    Sent <- MCSent
    Pressed <- MCPressed
    Casts <- MCCasts
    Slack = 1
    Lag = 1
    Drain = 3
    EntryTtl = 4
    PendingTtl = 3
    BridgeCap = 2
    GlobalCap = 2
    MaxTargets = 3
    HoldTtl = 3
    HoldCap = 1
    DebounceWindow = 2
    CacheTtl = 6
    CacheCap = 12
    StatusDelay = 1
    ReportDelay = 1
    Skew = 1
    StartWait = 4
    Interval = 2
    BrokerDelay = 1
    Entry <- MCEntry
    MaxTime = 6
INVARIANTS TypeOK DispatchOrder Accounted HoldsEnd
PROPERTIES EchoNeverAPress
CHECK_DEADLOCK FALSE
