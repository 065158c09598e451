SPECIFICATION Spec
CONSTANTS
    a = a
    b = b
    p = p
    leaf = leaf
    motor = motor
    Commands = {a, b, p}
    Clients = {k1, k2}
    Nodes = {leaf, motor}
    Target <- MCTarget
    Sleepy = {a, b}
    Given <- MCGiven
    Hash <- MCHash
    Epoch <- MCEpoch
    Posted = {p}
    MaxToken = 2
    RingSize = 1
    MaxTaken = 2
    MaxAsks = 3
    None = None
SYMMETRY Symmetry
CONSTRAINT OldestIfAny
INVARIANT TypeOK
INVARIANT AllocatedIsFresh
INVARIANT ResultIsTrue
INVARIANT OutcomeAgrees
INVARIANT PassedWasTaken
INVARIANT AnsweredIsQueued
PROPERTY OutcomeStands
CHECK_DEADLOCK FALSE
