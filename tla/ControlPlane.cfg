SPECIFICATION Spec
CONSTANTS
    None = None
    Requests = {p, q}
    Accounts = {a, b}
    ssh = ssh
    http = http
    sql = sql
    e1 = e1
    e2 = e2
    d1 = d1
    d2 = d2
SYMMETRY Symmetry
INVARIANTS TypeOK AccessesFollowRows   RecordsAreConsistent
PROPERTY RepairsAndRevocationsHold
CHECK_DEADLOCK FALSE
