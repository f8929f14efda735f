SPECIFICATION Spec
CHECK_DEADLOCK FALSE
CONSTANTS
    o1 = o1
    p1 = p1
    p2 = p2
    a1 = a1
    t1 = t1
    t2 = t2
    r1 = r1
    r2 = r2
    r3 = r3
    r4 = r4
    Null = Null
    None = None
    Org <- MCOrg
    Plan <- MCPlan
    Addon <- MCAddon
    Terms <- MCTerms
    Request <- MCRequest
    CreateDto <- MCCreate
    UpdateDto <- MCUpdate
    Workload <- MCWorkload
    AddonTableHasUpdatedAt = TRUE
SYMMETRY Interchangeable
INVARIANTS
    TypeOK
    OneActivePerOrg
    CanceledAtMeansCanceled
    OneRowPerAddon
    RowsReferToRows
PROPERTIES
    CreateIsAllOrNothing
    InactiveIsFinal
