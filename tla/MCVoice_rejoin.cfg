SPECIFICATION Spec
CONSTANTS
    u1 = u1
    u2 = u2
    p1 = p1
    p2 = p2
    p3 = p3
    c1 = c1
    c2 = c2
    None = None
    Users = {u1, u2}
    Peers = {p1, p2, p3}
    UserOf <- Owner
    Callers = {c1, c2}
    Calls <- Pumps
    Inputs <- LeaveAndRejoin
PROPERTIES CallbackSparesOthers
CHECK_DEADLOCK FALSE
