SPECIFICATION Spec
CONSTANTS
    Components = {"tasks", "faults", "range", "hosts", "presence", "devices", "readers", "nics", "others", "disks",
                  "desktop", "logins"}
    None = None
    Gone = Gone
    Pair = {x1, x2}
    Reqs = {r1, r2, r3}
SYMMETRY Symmetry
INVARIANTS TypeOK 
 
CHECK_DEADLOCK FALSE
