------------------------------- MODULE MCSyncer -------------------------------
EXTENDS Syncer

(* One more failure or change is to come after the start.  Label maps and  *)
(* pods are interchangeable, so a PV may be taken to have the first of the *)
(* labels, and the first pod to be the most advanced.                      *)
FirstLabels == CHOOSE l \in Labels : TRUE

FirstPod == CHOOSE p \in Pods : TRUE

InitRepair ==
    /\ InitInUse
    /\ faults + changes = MaxFaults + MaxChanges - 1
    /\ \A v \in Volumes : pvs[v] # NoObj => pvs[v].labels = FirstLabels
    /\ \A p \in Pods : pods[p] # NoObj =>
          /\ pods[FirstPod] # NoObj
          /\ pods[p].phase = "Running" => pods[FirstPod].phase = "Running"

SpecRepair == InitRepair /\ [][Next]_vars /\ Fairness
=============================================================================
