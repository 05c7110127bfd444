SPECIFICATION Spec
CONSTANTS
    MaxBodySize = 4
    MaxRows = 2
    Forms <- MCForms
INVARIANTS SuccessMeansDone
CHECK_DEADLOCK FALSE
