SPECIFICATION AccessSpec
CHECK_DEADLOCK FALSE
CONSTANTS
    f1 = f1
    f2 = f2
    f9 = f9
    a1 = a1
    p1 = p1
    p2 = p2
    p9 = p9
    w1 = w1
    x1 = x1
    k1 = k1
    k2 = k2
    k3 = k3
    Null = Null
    Feature <- MCFeature
    Addon <- MCAddon
    Plan <- MCPlan
    Recalculation <- MCRecalculation
    AccessRequest <- MCAccessRequest
    Code <- MCCode
    Asked <- MCAsked
    Hypothesis <- MCHypothesis
    SubscriptionStates <- MCSubscriptions
    OverrideStates <- MCOverrides
    CatalogStates <- MCCatalogs
INVARIANTS
    TypeOK
    SimulationPredicts
PROPERTIES
    FreshCheckIsRight
    FrozenWithoutSubscription
