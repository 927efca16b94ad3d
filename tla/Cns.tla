--------------------------------- MODULE Cns ---------------------------------
(***************************************************************************)
(* vSphere Cloud Native Storage (CNS) as the driver's volume manager sees  *)
(* it (pkg/common/cns-lib/volume/manager.go): the volumes of this cluster  *)
(* that CNS has registered, the Kubernetes entities recorded for each, and *)
(* the virtual disks behind them.  CNS itself is external; how a call can  *)
(* end is the manager's code.                                              *)
(*                                                                         *)
(* An entity is identified by its type and name; Labels stands for its     *)
(* label map.  A pod entity carries no labels.                             *)
(***************************************************************************)
EXTENDS Naturals, FiniteSets

CONSTANTS Volumes,      \* volume handles; a PV is named after its handle
          Claims,       \* PVC names
          Pods,         \* pod names
          Labels,       \* label maps of PVs and PVCs
          NoLabels,     \* the nil label map of a pod entity
          Static,       \* volumes whose disk the administrator made (storage class "")
          MaxFaults     \* bound: calls that may fail in a behaviour

ASSUME CnsAssumption == Static \subseteq Volumes /\ MaxFaults \in Nat

VARIABLES registered,   \* volumes CNS knows
          entities,     \* volume -> entities CNS has for it
          disk,         \* volume -> state of its virtual disk
          faults        \* failures so far

cnsVars == <<registered, entities, disk, faults>>

Entity == [type : {"PV"}, name : Volumes, labels : Labels]
            \cup [type : {"PVC"}, name : Claims, labels : Labels]
            \cup [type : {"POD"}, name : Pods, labels : {NoLabels}]

pvEntity(v, l)  == [type |-> "PV",  name |-> v, labels |-> l]
pvcEntity(c, l) == [type |-> "PVC", name |-> c, labels |-> l]
podEntity(p)    == [type |-> "POD", name |-> p, labels |-> NoLabels]

(* CNS after an update: the entities named by "del" go, those of "put"     *)
(* replace the ones of the same type and name.                             *)
SameEntity(e, f) == e.type = f.type /\ e.name = f.name

Updated(old, put, del) ==
    {e \in old : \A f \in put \cup del : ~SameEntity(e, f)} \cup put

CnsInit == /\ registered = {}
           /\ entities = [v \in Volumes |-> {}]
           /\ disk = [v \in Volumes |-> IF v \in Static THEN "present" ELSE "unborn"]
           /\ faults = 0

Fault == faults < MaxFaults /\ faults' = faults + 1

-----------------------------------------------------------------------------

(* How a call that CNS accepts ends.  It succeeds; or it fails before the  *)
(* request is accepted; or the task succeeds in CNS and the manager fails  *)
(* to fetch its result, so the effect is there and the caller gets an      *)
(* error.  A call that CNS refuses has no effect and returns an error.     *)
Call(accepted, Effect, ok) ==
    \/ ok /\ accepted /\ Effect /\ UNCHANGED faults
    \/ ~ok /\ accepted /\ Effect /\ Fault
    \/ ~ok /\ accepted /\ Fault /\ UNCHANGED <<registered, entities, disk>>
    \/ ~ok /\ ~accepted /\ UNCHANGED cnsVars

(* Register the disk v with its first entities.  CNS refuses a disk that   *)
(* does not exist or that is registered already.                           *)
CreateVolume(v, put, ok) ==
    Call(disk[v] = "present" /\ v \notin registered,
         /\ registered' = registered \cup {v}
         /\ entities' = [entities EXCEPT ![v] = put]
         /\ UNCHANGED disk,
         ok)

(* Make a new disk for the container volume v. *)
CreateDisk(v, ok) ==
    Call(disk[v] = "unborn",
         /\ registered' = registered \cup {v}
         /\ disk' = [disk EXCEPT ![v] = "present"]
         /\ UNCHANGED entities,
         ok)

DeleteVolume(v, deleteDisk, ok) ==
    Call(v \in registered,
         /\ registered' = registered \ {v}
         /\ entities' = [entities EXCEPT ![v] = {}]
         /\ disk' = IF deleteDisk THEN [disk EXCEPT ![v] = "deleted"] ELSE disk,
         ok)

UpdateVolumeMetadata(v, put, del, ok) ==
    Call(v \in registered,
         /\ entities' = [entities EXCEPT ![v] = Updated(@, put, del)]
         /\ UNCHANGED <<registered, disk>>,
         ok)

-----------------------------------------------------------------------------

CnsTypeOK == /\ registered \in SUBSET Volumes
             /\ entities \in [Volumes -> SUBSET Entity]
             /\ disk \in [Volumes -> {"unborn", "present", "deleted"}]
             /\ faults \in 0..MaxFaults
=============================================================================
