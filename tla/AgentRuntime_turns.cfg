SPECIFICATION Spec
CONSTANTS
    Sessions = {s1}
    Management = {s1}
    Turns = {t1, t2}
    Approvals = {a1}
    Requests = {r1, r2}
    NoTurn = NoTurn
    NoApproval = NoApproval
    MaxModelSteps = 2
    MaxCalls = 1
    MaxFaults = 1
    MaxVersion = 4
SYMMETRY Symmetry
INVARIANTS
    IInv
    TurnsInv
    ActiveTurnLock
    SingleDriver
    ExecutionFollowsApproval
    CompletedTurnIsClean
    RunningTurnIsDriven
PROPERTIES
    FinishedTurnFrozen
    ImplementsContract
CHECK_DEADLOCK FALSE
