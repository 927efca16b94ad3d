SPECIFICATION LiveSpec
CONSTANTS
    Volumes = {v1}
    Claims = {c1}
    Pods = {}
    Labels = {l1}
    NoLabels = NoLabels
    NoObj = NoObj
    NoClaim = NoClaim
    Static = {}
    Retained = {}
    MaxFaults = 0
    MaxChanges = 8
    EnvOps = {"ProvisionVolume", "CreatePVC", "CreatePV", "BindPV", "BindPVC", "DeletePVC", "ReleasePV", "ReclaimVolume", "RemovePV"}
    RelistFaults = FALSE
PROPERTIES CatalogueConverges
