SPECIFICATION LiveSpec
CONSTANTS
    Volumes = {v1}
    Claims = {c1}
    Pods = {p1}
    Labels = {l1}
    NoLabels = NoLabels
    NoObj = NoObj
    NoClaim = NoClaim
    Static = {v1}
    Retained = {v1}
    MaxFaults = 1
    MaxChanges = 6
    EnvOps = {"CreatePV", "FreePV", "DeletePV", "RemovePV", "Restart"}
    RelistFaults = TRUE
INVARIANTS TwoCycles
PROPERTIES LockProtects EventsHandled
CHECK_DEADLOCK FALSE
