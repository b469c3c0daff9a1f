SPECIFICATION SettlingSpec
CONSTANTS
    None = None
    Gone = Gone
PROPERTY WorkSettles
CHECK_DEADLOCK FALSE
