SPECIFICATION Spec
CONSTANTS
    Requests = {q1, q2, q3, q4}
    Compressed = {q1, q2, q3}
    Readers = {r1}
    Writers = {w1}
    Buffers = {b1, b2}
    Forms = {f1, f2}
    NoOne = NoOne
SYMMETRY Interchangeable
INVARIANTS PoolsTypeOK UsedByOne PooledIsClean DataFromSources
CHECK_DEADLOCK FALSE
