SPECIFICATION Spec
CONSTANTS
    Pods = {p1, p2}
    Nobody = Nobody
    Last = 3
    Requests = {q1, q2, q3}
    Forms <- MCForms
    NoForm = NoForm
    NoRow = NoRow
    NoUser = NoUser
SYMMETRY Interchangeable
INVARIANTS AccountsTypeOK SchemaConsistent LedPodsServeWhole WelcomesAreKept TokensNameOwner
PROPERTIES RefinesAccountBook
