SPECIFICATION CFairSpec
CONSTANTS
    Proc = {p, q}
    Snapshot = {a0, b1}
    Path = {prompt, tools}
    Content = {old, new}
    Releasable = {b1}
    a0 = a0
    b1 = b1
    prompt = prompt
    tools = tools
    old = old
    new = new
    Absent = Absent
    NoSnapshot = NoSnapshot
    NoProc = NoProc
    NoApproval = NoApproval
    NoEvent = NoEvent
    Mixed = Mixed
    Parent <- MCParent
    Files <- MCFiles
    Approval <- MCApproval
    MaxActivations = 4
    MaxInterrupts = 1
    MaxEdits = 2
INVARIANTS
    LifecycleFollowsActivation
PROPERTIES
    PendingIsResolved
