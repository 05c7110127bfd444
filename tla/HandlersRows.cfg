SPECIFICATION Spec
CONSTANTS
    MaxBodySize = 4
    MaxRows = 2
    Forms <- MCForms
INVARIANTS ListIsWhole
CHECK_DEADLOCK FALSE
