SPECIFICATION Spec
CONSTANTS
    None = None
INVARIANTS TypeOK  GatewayInv  
 
CHECK_DEADLOCK FALSE
