CONSTANTS
    a = a
    b = b
    i1 = i1
    h1 = h1
    o1 = o1
    o2 = o2
    n1 = n1
    n2 = n2
    None = None
    Pods = {a, b}
    Ids = {i1, h1}
    Obs = {o1}
    UnknownSyscalls = {}
    Malformed = {}
    Names = {n1, n2}
    ProfileName <- MCProfileName
    EnableLogEnricher = TRUE
    MaxLog = 1
    MaxFail = 1
    RecordProfile <- MCRecordProfile
    HookAnn <- MCHookAnn
    LogAnn <- MCLogAnn
    HookFile <- MCHookFile
    HookBroken = {}

SPECIFICATION Spec

PROPERTY ProfileNeverShrinks

\* A node daemon waits for events: with every pod terminated, the queue
\* empty and the log read, nothing is enabled and nothing should be.
CHECK_DEADLOCK FALSE
