SPECIFICATION Spec
CONSTANTS
    on = on
    off = off
    set = set
    odd = odd
    bad = bad
    Commands = {on, odd, set}
    Token <- MCToken
    Kind <- MCKind
    RingSize = 2
    MaxCycles = 2
    SeqMod = 3
    RxTicks = 1
    MaintenanceTicks = 2
    PollTicks = 1
    Persist = TRUE
    DeepSleep = TRUE
    MaxDeliveries = 2
    MaxResets = 1
    NoRtc = NoRtc
INVARIANT TypeOK
INVARIANT MaintenanceBounded
INVARIANT SequenceContinues
PROPERTY KeepsTokens
