SPECIFICATION SpecRepair
CONSTANTS
    Volumes = {v1}
    Claims = {c1}
    Pods = {p1, p2}
    Labels = {l1, l2}
    NoLabels = NoLabels
    NoObj = NoObj
    NoClaim = NoClaim
    Static = {v1}
    Retained = {v1}
    MaxFaults = 1
    MaxChanges = 1
    EnvOps = {"LabelPV", "LabelPVC", "DeletePVC", "CreatePod", "RunPod", "FinishPod", "DeletePod"}
    RelistFaults = FALSE
PROPERTIES CatalogueConverges MetadataConverges StaleEntriesGo
