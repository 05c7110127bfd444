SPECIFICATION Spec
CONSTANTS
    Requests = {q1, q2, q3}
    Compressed = {q1, q2, q3}
    Readers = {r1}
    Writers = {w1, w2}
    Buffers = {b1, b2}
    Forms = {f1, f2}
    NoOne = NoOne
SYMMETRY Interchangeable
INVARIANTS OwnDataOnly
CHECK_DEADLOCK FALSE
