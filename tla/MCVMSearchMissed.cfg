CONSTANTS
    Workers = {w1, w2}
    v1 = v1  v2 = v2  d1 = d1  d2 = d2  d3 = d3  d4 = d4
    VCs <- MCVCs
    DCs <- MCDCs
    NoDC = NoDC
    Home = d3
    BufferSize = 3
    MaxFaults = 0
SPECIFICATION Spec
INVARIANTS NotFoundMeansAbsent
