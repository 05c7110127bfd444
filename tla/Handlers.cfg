SPECIFICATION Spec
CONSTANTS
    MaxBodySize = 4
    MaxRows = 2
    Forms <- MCForms
INVARIANTS HandlersTypeOK ActsOnWhatWasSent AcceptedAreValid AnswersFit OrdersListIsWhole
CHECK_DEADLOCK FALSE
