SPECIFICATION LiveSpecInUse
CONSTANTS
    Volumes = {v1}
    Claims = {c1}
    Pods = {p1}
    Labels = {l1}
    NoLabels = NoLabels
    NoObj = NoObj
    NoClaim = NoClaim
    Static = {v1}
    Retained = {v1}
    MaxFaults = 1
    MaxChanges = 0
    EnvOps = {}
    RelistFaults = TRUE
PROPERTIES OrphansGo
CHECK_DEADLOCK FALSE
