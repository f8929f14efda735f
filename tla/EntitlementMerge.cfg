SPECIFICATION Spec
CHECK_DEADLOCK FALSE
CONSTANTS
    f1 = f1
    f2 = f2
    a1 = a1
    a2 = a2
    Null = Null
    Feature <- MCFeature
    Addon <- MCAddon
    Inputs <- MCInputs
INVARIANTS
    TypeOK
    MergeGivesDocumentedRules
    MergeIsTheFold
PROPERTIES
    PolicyOnlyWidens
