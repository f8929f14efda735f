SPECIFICATION Spec
CHECK_DEADLOCK FALSE
CONSTANTS
    k1 = k1
    k2 = k2
    f0 = f0
    p0 = p0
    v0 = v0
    r1 = r1
    r2 = r2
    r3 = r3
    q1 = q1
    q2 = q2
    q3 = q3
    None = None
    Absent = Absent
    MaxTime = 2
    Key <- MCKey
    Request <- MCRequest
    Seeded <- MCSeeded
    CatalogCall <- MCCall
    Workload <- Quiet
    OverrideRequest <- MCOverrideRequest
    SeededOverrides <- MCSeededOverrides
    OverrideWorkload <- MCOverrideWorkload
INVARIANT
    WindowIsValid
