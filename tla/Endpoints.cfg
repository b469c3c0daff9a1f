SPECIFICATION Spec
CONSTANTS
    Components = {"terminals", "files", "uploads", "desktops", "data", "dialled", "stores",
                  "audit", "shell", "history"}
    None = None
    Gone = Gone
    Pair = {x1, x2}
    Reqs = {r1, r2, r3}
SYMMETRY Symmetry
INVARIANTS TypeOK StoppedAccessIsCut SessionsLeaveNothingBehind
PROPERTY SessionStepsAreSafe
CHECK_DEADLOCK FALSE
