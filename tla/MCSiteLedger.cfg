SPECIFICATION Spec
CONSTANTS
    f1 = f1
    f2 = f2
    a1 = a1
    a2 = a2
    Frames = {f1, f2}
    Agents = {a1, a2}
    Key <- MCKey
    Posts <- MCPosts
    Window = 2
    Retention <- MCRetention
    MaxTime = 4
    MaxMessages = 4
    NoSession = NoSession
    NoRow = NoRow
    Absent = Absent
INVARIANT TypeOK
INVARIANT CountedOnce
INVARIANT AnsweredIsApplied
INVARIANT LatestIsNewest
INVARIANT FileIsWhole
SYMMETRY Alike
CONSTRAINT OneTopic
