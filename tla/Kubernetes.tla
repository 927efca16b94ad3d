------------------------------ MODULE Kubernetes ------------------------------
(***************************************************************************)
(* The cluster around the syncer: PVs, PVCs and pods in the API server,    *)
(* the informers' queues of events that the syncer has not handled, and    *)
(* what users, the Kubernetes controllers and the CSI provisioner do to    *)
(* them.  All of it is external to the driver, except that the provisioner *)
(* calls the driver's controller service.                                  *)
(*                                                                         *)
(* An event is the pair of the old and the new object; a deletion has the  *)
(* null object as its new one, and a pod's event keeps the claims of the   *)
(* pod whose volumes its handler has still to go through.  The syncer      *)
(* registers no Add handlers, so the creation of an object queues nothing. *)
(***************************************************************************)
EXTENDS Cns, Sequences

CONSTANTS Retained,     \* volumes with reclaim policy Retain (the others: Delete)
          NoObj,        \* no object
          NoClaim,      \* a nil ClaimRef
          EnvOps,       \* bound: which of the operations below a behaviour has
          MaxChanges    \* bound: how many of them

ASSUME K8sAssumption == Retained \subseteq Volumes /\ MaxChanges \in Nat

VARIABLES pvs,          \* volume -> PV
          pvcs,         \* claim -> PVC
          pods,         \* pod name -> pod
          pvEvents, pvcEvents, podEvents,
          changes       \* operations so far

k8sVars == <<pvs, pvcs, pods, pvEvents, pvcEvents, podEvents, changes>>

PV == [phase : {"Pending", "Available", "Bound", "Released", "Failed"},
       labels : Labels, claim : Claims \cup {NoClaim}, deleting : BOOLEAN]

PVC == [phase : {"Pending", "Bound"}, labels : Labels, vol : Volumes \cup {NoObj}]

Pod == [phase : {"Pending", "Running", "Succeeded"}, claims : SUBSET Claims]

(* The volumes getPVsInBoundAvailableOrReleased lists. *)
Listed == {v \in Volumes : /\ pvs[v] # NoObj
                           /\ pvs[v].phase \in {"Bound", "Available", "Released"}}

K8sInit == /\ pvs = [v \in Volumes |-> NoObj]
           /\ pvcs = [c \in Claims |-> NoObj]
           /\ pods = [p \in Pods |-> NoObj]
           /\ pvEvents = <<>> /\ pvcEvents = <<>> /\ podEvents = <<>>
           /\ changes = 0

Op(name) == name \in EnvOps /\ changes < MaxChanges /\ changes' = changes + 1

(* Write an object and queue the event its informer delivers. *)
SetPV(v, new) ==
    /\ pvs' = [pvs EXCEPT ![v] = new]
    /\ pvEvents' = IF pvs[v] = NoObj THEN pvEvents
                   ELSE Append(pvEvents, [id |-> v, old |-> pvs[v], new |-> new])

SetPVC(c, new) ==
    /\ pvcs' = [pvcs EXCEPT ![c] = new]
    /\ pvcEvents' = IF pvcs[c] = NoObj THEN pvcEvents
                    ELSE Append(pvcEvents, [id |-> c, old |-> pvcs[c], new |-> new])

SetPod(p, new) ==
    /\ pods' = [pods EXCEPT ![p] = new]
    /\ podEvents' = IF pods[p] = NoObj THEN podEvents
                    ELSE Append(podEvents, [id |-> p, old |-> pods[p], new |-> new,
                                            left |-> pods[p].claims])

OnlyPV  == UNCHANGED <<pvcs, pods, pvcEvents, podEvents>>
OnlyPVC == UNCHANGED <<pvs, pods, pvEvents, podEvents, cnsVars>>
OnlyPod == UNCHANGED <<pvs, pvcs, pvEvents, pvcEvents, cnsVars>>

-----------------------------------------------------------------------------
(* Persistent volumes. *)

(* The administrator (a static volume) or the provisioner (after           *)
(* CreateVolume returned the handle) writes the PV of an existing disk.    *)
CreatePV(v) ==
    /\ Op("CreatePV") /\ pvs[v] = NoObj /\ disk[v] = "present"
    /\ \E l \in Labels, c \in Claims \cup {NoClaim} :
          /\ v \in Static <=> c = NoClaim
          /\ SetPV(v, [phase |-> "Pending", labels |-> l, claim |-> c,
                       deleting |-> FALSE])
    /\ OnlyPV /\ UNCHANGED cnsVars

(* A PV without a claim, new or given back by the administrator, is free.  *)
FreePV(v) ==
    /\ Op("FreePV") /\ pvs[v] # NoObj
    /\ \/ pvs[v].phase = "Pending" /\ pvs[v].claim = NoClaim
       \/ pvs[v].phase = "Released" /\ v \in Retained
    /\ SetPV(v, [pvs[v] EXCEPT !.phase = "Available", !.claim = NoClaim])
    /\ OnlyPV /\ UNCHANGED cnsVars

BindPV(v, c) ==
    /\ Op("BindPV") /\ pvs[v] # NoObj /\ ~pvs[v].deleting
    /\ pvcs[c] # NoObj /\ pvcs[c].phase = "Pending"
    /\ \A w \in Volumes : pvs[w] # NoObj => ~(pvs[w].phase = "Bound" /\ pvs[w].claim = c)
    /\ \/ pvs[v].phase = "Available"
       \/ pvs[v].phase = "Pending" /\ pvs[v].claim = c
    /\ SetPV(v, [pvs[v] EXCEPT !.phase = "Bound", !.claim = c])
    /\ OnlyPV /\ UNCHANGED cnsVars

LabelPV(v, l) ==
    /\ Op("LabelPV") /\ pvs[v] # NoObj /\ pvs[v].labels # l
    /\ SetPV(v, [pvs[v] EXCEPT !.labels = l])
    /\ OnlyPV /\ UNCHANGED cnsVars

(* The claim is gone. *)
ReleasePV(v) ==
    /\ Op("ReleasePV") /\ pvs[v] # NoObj /\ pvs[v].phase = "Bound"
    /\ pvcs[pvs[v].claim] = NoObj
    /\ SetPV(v, [pvs[v] EXCEPT !.phase = "Released"])
    /\ OnlyPV /\ UNCHANGED cnsVars

(* Deletion is requested, and carried out once the PV is not in use. *)
DeletePV(v) ==
    /\ Op("DeletePV") /\ pvs[v] # NoObj /\ ~pvs[v].deleting
    /\ SetPV(v, [pvs[v] EXCEPT !.deleting = TRUE])
    /\ OnlyPV /\ UNCHANGED cnsVars

RemovePV(v) ==
    /\ Op("RemovePV") /\ pvs[v] # NoObj /\ pvs[v].deleting /\ pvs[v].phase # "Bound"
    /\ SetPV(v, NoObj)
    /\ OnlyPV /\ UNCHANGED cnsVars

-----------------------------------------------------------------------------
(* The provisioner's calls of the controller service: CreateVolume for a   *)
(* dynamic volume, DeleteVolume (with its disk) for a released volume of   *)
(* policy Delete.  A failed delete leaves the PV in phase Failed.          *)

ProvisionVolume(v) ==
    /\ Op("ProvisionVolume") /\ v \notin Static /\ disk[v] = "unborn"
    /\ \E ok \in BOOLEAN : CreateDisk(v, ok)
    /\ UNCHANGED <<pvs, pvcs, pods, pvEvents, pvcEvents, podEvents>>

ReclaimVolume(v) ==
    /\ Op("ReclaimVolume") /\ v \notin Retained
    /\ pvs[v] # NoObj /\ pvs[v].phase \in {"Released", "Failed"} /\ ~pvs[v].deleting
    /\ \E ok \in BOOLEAN :
          /\ DeleteVolume(v, TRUE, ok)
          /\ SetPV(v, IF ok THEN [pvs[v] EXCEPT !.deleting = TRUE]
                            ELSE [pvs[v] EXCEPT !.phase = "Failed"])
    /\ OnlyPV

-----------------------------------------------------------------------------
(* Claims and pods. *)

CreatePVC(c) ==
    /\ Op("CreatePVC") /\ pvcs[c] = NoObj
    /\ \E l \in Labels : SetPVC(c, [phase |-> "Pending", labels |-> l, vol |-> NoObj])
    /\ OnlyPVC

BindPVC(c) ==
    /\ Op("BindPVC") /\ pvcs[c] # NoObj /\ pvcs[c].phase = "Pending"
    /\ \E v \in Volumes :
          /\ pvs[v] # NoObj /\ pvs[v].phase = "Bound" /\ pvs[v].claim = c
          /\ SetPVC(c, [pvcs[c] EXCEPT !.phase = "Bound", !.vol = v])
    /\ OnlyPVC

LabelPVC(c, l) ==
    /\ Op("LabelPVC") /\ pvcs[c] # NoObj /\ pvcs[c].labels # l
    /\ SetPVC(c, [pvcs[c] EXCEPT !.labels = l])
    /\ OnlyPVC

(* A claim that a pod uses is protected. *)
DeletePVC(c) ==
    /\ Op("DeletePVC") /\ pvcs[c] # NoObj
    /\ \A p \in Pods : pods[p] # NoObj => c \notin pods[p].claims \/ pods[p].phase = "Succeeded"
    /\ SetPVC(c, NoObj)
    /\ OnlyPVC

CreatePod(p) ==
    /\ Op("CreatePod") /\ pods[p] = NoObj
    /\ \E cs \in SUBSET Claims : SetPod(p, [phase |-> "Pending", claims |-> cs])
    /\ OnlyPod

RunPod(p) ==
    /\ Op("RunPod") /\ pods[p] # NoObj /\ pods[p].phase = "Pending"
    /\ \A c \in pods[p].claims : pvcs[c] # NoObj /\ pvcs[c].phase = "Bound"
    /\ SetPod(p, [pods[p] EXCEPT !.phase = "Running"])
    /\ OnlyPod

FinishPod(p) ==
    /\ Op("FinishPod") /\ pods[p] # NoObj /\ pods[p].phase = "Running"
    /\ SetPod(p, [pods[p] EXCEPT !.phase = "Succeeded"])
    /\ OnlyPod

DeletePod(p) ==
    /\ Op("DeletePod") /\ pods[p] # NoObj
    /\ SetPod(p, NoObj)
    /\ OnlyPod

K8sNext ==
    \/ \E v \in Volumes : \/ CreatePV(v) \/ FreePV(v) \/ ReleasePV(v)
                          \/ DeletePV(v) \/ RemovePV(v)
                          \/ ProvisionVolume(v) \/ ReclaimVolume(v)
                          \/ \E c \in Claims : BindPV(v, c)
                          \/ \E l \in Labels : LabelPV(v, l)
    \/ \E c \in Claims : \/ CreatePVC(c) \/ BindPVC(c) \/ DeletePVC(c)
                         \/ \E l \in Labels : LabelPVC(c, l)
    \/ \E p \in Pods : CreatePod(p) \/ RunPod(p) \/ FinishPod(p) \/ DeletePod(p)

-----------------------------------------------------------------------------

EventOf(Id, Obj) == [id : Id, old : Obj, new : Obj \cup {NoObj}]

K8sTypeOK == /\ pvs \in [Volumes -> PV \cup {NoObj}]
             /\ pvcs \in [Claims -> PVC \cup {NoObj}]
             /\ pods \in [Pods -> Pod \cup {NoObj}]
             /\ pvEvents \in Seq(EventOf(Volumes, PV))
             /\ pvcEvents \in Seq(EventOf(Claims, PVC))
             /\ podEvents \in Seq([id : Pods, old : Pod, new : Pod \cup {NoObj},
                                    left : SUBSET Claims])
             /\ changes \in 0..MaxChanges
=============================================================================
