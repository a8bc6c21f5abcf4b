SPECIFICATION Spec
CONSTANTS
    Proc = {p, q}
    Snapshot = {a0, b1, c2}
    Path = {prompt, tools}
    Content = {old, new}
    Releasable = {b1, c2}
    a0 = a0
    b1 = b1
    c2 = c2
    prompt = prompt
    tools = tools
    old = old
    new = new
    Absent = Absent
    NoSnapshot = NoSnapshot
    NoProc = NoProc
    NoApproval = NoApproval
    NoEvent = NoEvent
    Mixed = Mixed
    Parent <- MCParent
    Files <- MCFiles
    Approval <- MCApproval
    MaxActivations = 4
    MaxInterrupts = 2
    MaxEdits = 2
SYMMETRY MCSymmetry
INVARIANTS
    TypeOK
    HistoryIsChain
    JournalReconciles
    LiveIsActive
    AnswerIsRegistered
PROPERTIES
    EditIsKept
    ImplementsDeployment
