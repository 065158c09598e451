SPECIFICATION Spec
CONSTANTS
    m1 = m1
    m2 = m2
    m3 = m3
    frame = frame
    t1 = t1
    t2 = t2
    agent1 = agent1
    agent2 = agent2
    NoKey = NoKey
    NoMsg = NoMsg
    Key <- MCKey
    Messages = {m1, m3}
    Bad = {}
    Huge = {}
    Processes = {agent1}
    Threads = {t1}
    ProcessOf <- OneProcess
    MaxRelays = 1
    MaxOutages = 2
    MaxFaults = 1
INVARIANT SpoolIsABuffer
CHECK_DEADLOCK FALSE
