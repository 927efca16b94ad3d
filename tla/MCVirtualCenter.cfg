CONSTANTS
    Callers = {c1, c2}
    NoCaller = NoCaller
    MaxFaults = 1
    MaxExpiries = 1
    MaxRotations = 1
SPECIFICATION LiveSpec
CHECK_DEADLOCK FALSE
INVARIANTS OneSession NoNilClient
PROPERTIES ConnectionRecovers SubClientsRecreated
