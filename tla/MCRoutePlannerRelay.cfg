SPECIFICATION Spec
CONSTANTS
    leaf = leaf
    hop = hop
    Nobody = Nobody
    NoManifest = NoManifest
    NoLease = NoLease
    Unset = Unset
    NoRow = NoRow
    Nodes = {leaf, hop}
    Manifests <- MCManifests
    Leases <- MCRelayingLeases
    Envelopes <- MCAlert
    Callers = {"sdk"}
    Planners = {"worker"}
    Limit = 1
    MaxRows = 2
    MaxChanges = 2
    MaxFaults = 0
    MaxCalls = 2
PROPERTY SleepyNeverRelays
