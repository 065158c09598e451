SPECIFICATION FairSpec
CONSTANTS
    on = on
    off = off
    set = set
    odd = odd
    bad = bad
    Commands = {on, off, set, bad}
    Token <- MCToken
    Kind <- MCKind
    RingSize = 2
    MaxCycles = 2
    SeqMod = 3
    RxTicks = 1
    MaintenanceTicks = 2
    PollTicks = 1
    Persist = FALSE
    DeepSleep = FALSE
    MaxDeliveries = 2
    MaxResets = 0
    NoRtc = NoRtc
INVARIANT NoEarlyRepeat
PROPERTY QuietWindowCloses
