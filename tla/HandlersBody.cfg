SPECIFICATION Spec
CONSTANTS
    MaxBodySize = 4
    MaxRows = 2
    Forms <- MCForms
INVARIANTS ActsOnTheWholeBody
CHECK_DEADLOCK FALSE
