SPECIFICATION TxSpec
CONSTANTS
    Users = {alice, bob}
    Numbers = {n1, n2}
    Accruals <- MCAccruals
    Sums = {1}
    MaxNumeric = 3
    NoRow = NoRow
    Sessions = {s1, s2}
    NoCall = NoCall
SYMMETRY Interchangeable
INVARIANTS TxTypeOK Conservation BalanceInRange AnswersStayTrue
PROPERTIES FinalOrdersAreFinal EarnedNeverFalls RefusalsLeaveNoTrace RefinesLedger
