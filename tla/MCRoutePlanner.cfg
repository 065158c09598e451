SPECIFICATION FairSpec
CONSTANTS
    leaf = leaf
    hop = hop
    Nobody = Nobody
    NoManifest = NoManifest
    NoLease = NoLease
    Unset = Unset
    NoRow = NoRow
    Nodes = {leaf, hop}
    Manifests <- MCManifests
    Leases <- MCLeases
    Envelopes <- MCEnvelopes
    Callers = {"sdk"}
    Planners = {"worker", "cli"}
    Limit = 1
    MaxRows = 2
    MaxChanges = 2
    MaxFaults = 1
    MaxCalls = 2
INVARIANT TypeOK
PROPERTY PermittedOnly
PROPERTY ReadyStays
PROPERTY RoutesCatchUp
