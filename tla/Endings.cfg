SPECIFICATION EndingsSpec
CONSTANTS
    None = None
    Gone = Gone
PROPERTIES  CallsReturn
CHECK_DEADLOCK FALSE
