SPECIFICATION FairSpec
CONSTANTS
    Sessions = {s1}
    Management = {}
    Turns = {t1}
    Approvals = {a1}
    Requests = {r1, r2}
    NoTurn = NoTurn
    NoApproval = NoApproval
    MaxModelSteps = 2
    MaxCalls = 1
    MaxFaults = 1
    MaxVersion = 4
PROPERTIES
    RequestsReturn
    StartedTurnSettles
CHECK_DEADLOCK FALSE
