SPECIFICATION Spec
CONSTANTS
    f1 = f1
    f2 = f2
    a1 = a1
    a2 = a2
    Frames = {}
    Agents = {a1, a2}
    Key <- MCKey
    Posts <- MCUndated
    Window = 2
    Retention <- MCRetention
    MaxTime = 2
    MaxMessages = 4
    NoSession = NoSession
    NoRow = NoRow
    Absent = Absent
PROPERTY RebuildKeeps
