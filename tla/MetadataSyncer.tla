---------------------------- MODULE MetadataSyncer ----------------------------
(***************************************************************************)
(* The event handlers of the metadata syncer                               *)
(* (pkg/syncer/metadatasyncer.go).  Each of the three informers delivers   *)
(* its events in order, one at a time; the three run concurrently.  A      *)
(* handler makes one call to CNS per volume.  HandlePV and HandlePVC take  *)
(* the oldest event, and ignore it or make the call, in one step.          *)
(*                                                                         *)
(* The handlers look objects up in the informers' caches, which lag behind *)
(* the API server: an object that exists may be missing (a fault here), and*)
(* one that is gone may still be found.  What the handlers read from a PV, *)
(* its handle and reclaim policy, does not change.  Every handler only     *)
(* logs an error; an event whose call failed is lost.  The PVs of other    *)
(* drivers, which every handler skips, are left out.                       *)
(***************************************************************************)
EXTENDS Kubernetes

VARIABLE lock   \* volumeOperationsLock: "free", or the full sync goroutine that holds it

handlerVars == <<lock>>

HandlersInit == lock = "free"

(* A lookup that finds nothing ends the handler. *)
LookupFails(found) == \/ ~found /\ UNCHANGED cnsVars
                      \/ found /\ Fault /\ UNCHANGED <<registered, entities, disk>>

Ignore == UNCHANGED cnsVars

-----------------------------------------------------------------------------
(* Persistent volume claims. *)

pvcUpdated(e) ==
    \/ e.new.phase # "Bound" /\ Ignore
    \/ /\ e.new.phase = "Bound"
       /\ LookupFails(pvs[e.new.vol] # NoObj)
    \/ /\ e.new.phase = "Bound"
       /\ \/ e.old.phase = "Bound" /\ e.old.labels = e.new.labels /\ Ignore
          \/ /\ e.old.phase # "Bound" \/ e.old.labels # e.new.labels
             /\ \E ok \in BOOLEAN :
                   UpdateVolumeMetadata(e.new.vol, {pvcEntity(e.id, e.new.labels)}, {}, ok)

(* With reclaim policy Delete the controller deletes the volume. *)
pvcDeleted(e) ==
    \/ e.old.phase # "Bound" /\ Ignore
    \/ /\ e.old.phase = "Bound"
       /\ LookupFails(pvs[e.old.vol] # NoObj)
    \/ /\ e.old.phase = "Bound"
       /\ \/ e.old.vol \notin Retained /\ Ignore
          \/ /\ e.old.vol \in Retained
             /\ \E ok \in BOOLEAN :
                   UpdateVolumeMetadata(e.old.vol, {}, {pvcEntity(e.id, e.old.labels)}, ok)

HandlePVC ==
    /\ pvcEvents # <<>>
    /\ pvcEvents' = Tail(pvcEvents)
    /\ LET e == Head(pvcEvents)
       IN  IF e.new = NoObj THEN pvcDeleted(e) ELSE pvcUpdated(e)
    /\ UNCHANGED <<pvs, pvcs, pods, pvEvents, podEvents, changes, lock>>

-----------------------------------------------------------------------------
(* Persistent volumes.  Creating and deleting a volume takes the lock. *)

pvUpdateIgnored(e) ==
    \/ e.new.phase \in {"Pending", "Failed"}
    \/ e.old.phase = "Available" /\ e.old.labels = e.new.labels
    \/ e.old.phase = "Bound" /\ e.new.phase = "Released" /\ e.id \notin Retained
    \/ e.new.deleting

(* pvUpdated that creates the volume without the lock. *)
pvUpdatedUnlocked(e) ==
    LET put == {pvEntity(e.id, e.new.labels)}
    IN  \/ pvUpdateIgnored(e) /\ Ignore
        \/ /\ ~pvUpdateIgnored(e)
           /\ \E ok \in BOOLEAN : IF e.old.phase = "Available" \/ e.id \notin Static
                                  THEN UpdateVolumeMetadata(e.id, put, {}, ok)
                                  ELSE CreateVolume(e.id, put, ok)

pvUpdated(e) ==
    LET put == {pvEntity(e.id, e.new.labels)}
    IN  \/ pvUpdateIgnored(e) /\ Ignore
        \/ /\ ~pvUpdateIgnored(e)
           /\ e.old.phase = "Available" \/ e.id \notin Static
           /\ \E ok \in BOOLEAN : UpdateVolumeMetadata(e.id, put, {}, ok)
        \/ /\ ~pvUpdateIgnored(e)
           /\ e.old.phase # "Available" /\ e.id \in Static
           /\ lock = "free"
           /\ \E ok \in BOOLEAN : CreateVolume(e.id, put, ok)

(* The disk goes with a claimed volume of policy Delete; that the volume   *)
(* is neither Available nor Released was checked before.                   *)
deleteDisk(pv, v) == ~(pv.claim = NoClaim \/ v \in Retained)

leftToController(pv, v) ==
    /\ pv.claim # NoClaim
    /\ pv.phase \in {"Available", "Released"}
    /\ v \notin Retained

pvDeleted(e) ==
    \/ leftToController(e.old, e.id) /\ Ignore
    \/ /\ ~leftToController(e.old, e.id)
       /\ lock = "free"
       /\ \E ok \in BOOLEAN : DeleteVolume(e.id, deleteDisk(e.old, e.id), ok)

HandlePV ==
    /\ pvEvents # <<>>
    /\ pvEvents' = Tail(pvEvents)
    /\ LET e == Head(pvEvents)
       IN  IF e.new = NoObj THEN pvDeleted(e) ELSE pvUpdated(e)
    /\ UNCHANGED <<pvs, pvcs, pods, pvcEvents, podEvents, changes, lock>>

-----------------------------------------------------------------------------
(* Pods.  updatePodMetadata makes one call per volume of the pod and goes  *)
(* on after an error, so HandlePod takes one step per claim in e.left.     *)

(* The volumes that the PVC cache may give for claim c; the cache may      *)
(* still hold a claim that is gone.                                        *)
VolumesOf(c) ==
    {v \in Volumes : IF pvcs[c] # NoObj THEN pvcs[c].vol = v
                     ELSE pvs[v] # NoObj /\ pvs[v].claim = c}

updatePodMetadata(p, c, deleteFlag) ==
    \/ LookupFails(\E v \in VolumesOf(c) : pvcs[c] # NoObj /\ pvs[v] # NoObj)
    \/ \E v \in VolumesOf(c), ok \in BOOLEAN :
          IF deleteFlag
          THEN UpdateVolumeMetadata(v, {}, {podEntity(p)}, ok)
          ELSE UpdateVolumeMetadata(v, {podEntity(p)}, {}, ok)

podUpdated(e, c) ==
    /\ e.old.phase = "Pending" /\ e.new.phase = "Running"
    /\ updatePodMetadata(e.id, c, FALSE)

podDeleted(e, c) ==
    /\ e.old.phase # "Pending"
    /\ updatePodMetadata(e.id, c, TRUE)

podIgnored(e) ==
    \/ e.left = {}
    \/ e.new = NoObj /\ e.old.phase = "Pending"
    \/ e.new # NoObj /\ ~(e.old.phase = "Pending" /\ e.new.phase = "Running")

HandlePod ==
    /\ podEvents # <<>>
    /\ LET e == Head(podEvents)
       IN  \/ podIgnored(e) /\ Ignore /\ podEvents' = Tail(podEvents)
           \/ \E c \in e.left :
                 /\ IF e.new = NoObj THEN podDeleted(e, c) ELSE podUpdated(e, c)
                 /\ podEvents' = IF e.left = {c} THEN Tail(podEvents)
                                 ELSE [podEvents EXCEPT ![1].left = @ \ {c}]
    /\ UNCHANGED <<pvs, pvcs, pods, pvEvents, pvcEvents, changes, lock>>
=============================================================================
