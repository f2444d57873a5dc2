SPECIFICATION Spec
CONSTANTS
    a = a
    b = b
    Calls = {a, b}
    MaxGen = 2
    MaxLeaves = 1
    Faults = {"break", "create", "lookup", "kick"}
INVARIANTS
    TypeOK
    RetrySuffices
    ConfirmedIsSubscribed
SYMMETRY Alike
PROPERTY DeliveryHolds
CHECK_DEADLOCK FALSE
