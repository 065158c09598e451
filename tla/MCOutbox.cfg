SPECIFICATION FairSpec
CONSTANTS
    r1 = r1
    h1 = h1
    i1 = i1
    w1 = w1
    w2 = w2
    Items = {i1}
    Procs = {r1, h1}
    Planners = {"a", "b"}
    Kind <- MCKind
    WorkerID <- MCOwnIDs
    Limit <- MCLimit
    Urgency <- MCUrgency
    MaxRetry = 2
    MaxFaults = 1
    NoOwner = NoOwner
    NoItem = NoItem
    NoProc = NoProc
INVARIANT TypeOK
INVARIANT SendBudget
INVARIANT StatusEarned
INVARIANT OnlyReadyLeaves
INVARIANT SendsRecorded
PROPERTY NoStaleWrite
PROPERTY KeepsPromise
PROPERTY EventuallySettled
