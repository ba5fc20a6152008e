SPECIFICATION Spec
INVARIANTS TypesOK  
CHECK_DEADLOCK FALSE
