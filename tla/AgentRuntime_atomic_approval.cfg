SPECIFICATION Spec
CONSTANTS
    Sessions = {s1}
    Management = {}
    Turns = {t1}
    Approvals = {a1}
    Requests = {r1, r2}
    NoTurn = NoTurn
    NoApproval = NoApproval
    MaxModelSteps = 2
    MaxCalls = 1
    MaxFaults = 0
    MaxVersion = 4
INVARIANT ApprovalResolvedAtomically
CHECK_DEADLOCK FALSE
