SPECIFICATION Spec
CHECK_DEADLOCK FALSE
CONSTANTS
    f1 = f1
    f2 = f2
    a1 = a1
    p1 = p1
    p2 = p2
    w1 = w1
    w2 = w2
    Null = Null
    Feature <- MCFeature
    Addon <- MCAddon
    Recalculation <- MCRecalculation
    MaxConcurrent = 2
    MaxInteger = 2
    SubscriptionStates <- MCSubscriptions
    OverrideStates <- MCOverrides
    CatalogStates <- MCCatalogs
INVARIANTS
    TypeOK
PROPERTIES
    LoneRecalculationReplaces
    RecalculationEnds
    KeepsPromise
