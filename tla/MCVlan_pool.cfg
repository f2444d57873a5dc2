SPECIFICATION Spec
CONSTANTS
    r1 = r1
    r2 = r2
    u1 = u1
    u2 = u2
    k1 = k1
    k2 = k2
    k3 = k3
    None = None
    Rooms = {r1}
    Users = {u1, u2}
    Visitors = {}
    Keys = {k1, k2, k3}
    HolderOf <- Holder
    Tasks = {t1, t2}
    Gateway = 3
    LastAddress = 4
    MaxRows = 2
    MaxSleepers = 0
    MaxFaults = 1
INVARIANTS TypeOK AddressesDiffer  
