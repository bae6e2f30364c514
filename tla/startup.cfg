SPECIFICATION MCSpec
CONSTANTS
    Pod = {p1, p2}
    Operator = Operator
    Urls = {"postgresql", "sqlite"}
    Plans = {"image", "guide", "serve"}
    Jobs = {"none", "release", "downgrade"}
    Faults = {"none", "weak", "backend"}
    MaxFault = 1
INVARIANTS
    TypeOK
    SchemaIsWhole
    ReferencesStand
    ReadyIsUsable

    
CHECK_DEADLOCK FALSE
