SPECIFICATION Spec
CONSTANTS
    n1 = n1
    n2 = n2
    n3 = n3
    Nodes = {n1, n2, n3}
    NoNode = NoNode
    Cases <- MCCases
    InitialNodes = {{n1, n2, n3}, {n1}}
    MaxFaults = 2
    MaxChanges = 2
INVARIANTS TypeOK Reachable LeaksBounded AttachmentsTrue
PROPERTIES OnlySatisfiable ProvisionEnds AttachEnds DetachEnds
CHECK_DEADLOCK FALSE
