SPECIFICATION Spec
CHECK_DEADLOCK FALSE
CONSTANTS
    r1 = r1
    r2 = r2
    r3 = r3
    r4 = r4
    r5 = r5
    None = None
    Request <- FiveRequests
SYMMETRY Interchangeable
INVARIANTS
    TypeOK
    SessionSurvives
    OneLiveToken
    ChainUnlessForked
PROPERTIES
    DeadStaysDead
