SPECIFICATION FairSpec
CONSTANTS
    Users = {alice}
    Numbers = {n1}
    Accruals = {2}
    Sums = {1}
    MaxNumeric = 3
    NoRow = NoRow
    Sessions = {s1, s2, s3}
    NoCall = NoCall
INVARIANTS TxInv
PROPERTIES CallsReturn
