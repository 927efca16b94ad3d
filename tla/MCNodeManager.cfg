CONSTANTS
    Names = {n1}
    UUIDs = {u1, u2}
    NoID = NoID
    NoNode = NoNode
    Callers = {c1, c2}
    Listers = {c2}
    NodeOps = {"AddNode", "SetProviderID", "DeleteNode"}
    MaxChanges = 3
    MaxFaults = 1
SPECIFICATION LiveSpec
CHECK_DEADLOCK FALSE
INVARIANTS TypeOK NoNilVM
PROPERTIES LookupsFollow AllNodesReturned
