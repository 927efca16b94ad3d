------------------------------- MODULE FullSync -------------------------------
(***************************************************************************)
(* Full sync (pkg/syncer/fullsync.go): the periodic comparison of the PVs  *)
(* in Kubernetes with the volumes in CNS.  One goroutine runs the cycles   *)
(* one after the other; every call to the API server or to CNS is a step   *)
(* of its own, so the cluster, the handlers and the provisioner move in    *)
(* between.  At the end of a cycle three goroutines create, delete and     *)
(* update volumes, and the cycle waits for all of them.                    *)
(*                                                                         *)
(* The loops go over lists; their order does not matter to the code and is *)
(* left open.                                                              *)
(***************************************************************************)
EXTENDS MetadataSyncer

CONSTANT RelistFaults   \* bound: may the PV listing of a goroutine fail?

Goroutines == {"create", "delete", "update"}

VARIABLES
    pc,                 \* where triggerFullSync is
    listed,             \* k8sPVs: volume -> the PV as it was listed
    pvToPVC,            \* pvToPVCMap: volume -> [name, labels] of its PVC
    pvcToPod,           \* pvcToPodMap: claim -> pod
    inCns,              \* cnsVolumeArray
    op,                 \* k8sPVMap: volume -> operation, "none" for the empty string,
                        \* "absent" if not a key
    staleClaim,         \* cnsVolumeToPvcMap
    stalePod,           \* cnsVolumeToPodMap
    todo,               \* volumes the current loop has still to visit
    cnsCreationMap,
    cnsDeletionMap,
    gpc,                \* where each goroutine is
    work,               \* the specs each goroutine has still to process
    current,            \* currentK8sPVMap of the create and delete goroutines
    wg,                 \* the WaitGroup's counter
    seenMissing,        \* history: the volumes some completed cycle missed in CNS, their
                        \* PV listed since,
    seenOrphaned        \* those some completed cycle found there, their PV unlisted since

localVars == <<listed, pvToPVC, pvcToPod, inCns, op, staleClaim, stalePod>>
mapVars   == <<cnsCreationMap, cnsDeletionMap>>
goVars    == <<gpc, work, current, wg>>
history   == <<seenMissing, seenOrphaned>>
syncVars  == <<pc, todo, localVars, mapVars, goVars, history>>

Operations == {"absent", "none", "createVolume", "updateVolume",
               "updateVolumeWithDeleteClaim", "updateVolumeWithDeletePod"}

(* The local variables of triggerFullSync outside a cycle. *)
LocalsReset == /\ listed' = [v \in Volumes |-> NoObj]
               /\ pvToPVC' = [v \in Volumes |-> NoObj]
               /\ pvcToPod' = [c \in Claims |-> NoObj]
               /\ inCns' = {}
               /\ op' = [v \in Volumes |-> "absent"]
               /\ staleClaim' = [v \in Volumes |-> NoObj]
               /\ stalePod' = [v \in Volumes |-> NoObj]

SyncInit == /\ pc = "idle" /\ todo = {}
            /\ listed = [v \in Volumes |-> NoObj]
            /\ pvToPVC = [v \in Volumes |-> NoObj]
            /\ pvcToPod = [c \in Claims |-> NoObj]
            /\ inCns = {}
            /\ op = [v \in Volumes |-> "absent"]
            /\ staleClaim = [v \in Volumes |-> NoObj]
            /\ stalePod = [v \in Volumes |-> NoObj]
            /\ cnsCreationMap = {} /\ cnsDeletionMap = {}
            /\ gpc = [g \in Goroutines |-> "none"]
            /\ work = [g \in Goroutines |-> {}]
            /\ current = [g \in Goroutines |-> {}]
            /\ wg = 0
            /\ seenMissing = {} /\ seenOrphaned = {}

-----------------------------------------------------------------------------
(* Reading Kubernetes and CNS. *)

Keys == {v \in Volumes : listed[v] # NoObj}

(* The ticker starts a cycle.  A failed listing ends it at once, which     *)
(* leaves no trace.                                                        *)
ListPVs ==
    /\ pc = "idle"
    /\ pc' = "claims"
    /\ listed' = [v \in Volumes |-> IF v \in Listed THEN pvs[v] ELSE NoObj]
    /\ todo' = {v \in Listed : pvs[v].claim # NoClaim /\ pvs[v].phase = "Bound"}
    /\ UNCHANGED <<pvToPVC, pvcToPod, inCns, op, staleClaim, stalePod,
                   mapVars, goVars, history, k8sVars, cnsVars, lock>>

(* buildPVCMapPodMap, first call: the PVC of a bound PV.  Whatever error   *)
(* the call returns, the volume is treated as one without a claim.         *)
GetClaim(v) ==
    LET c == listed[v].claim
        GoesOn == /\ todo' = todo \ {v}
                  /\ UNCHANGED pvToPVC
    IN  /\ pc = "claims" /\ v \in todo
        /\ \A w \in todo : pvToPVC[w] = NoObj
        /\ \/ pvcs[c] = NoObj /\ GoesOn /\ UNCHANGED faults
           \/ pvcs[c] # NoObj /\ GoesOn /\ Fault
           \/ /\ pvcs[c] # NoObj
              /\ pvToPVC' = [pvToPVC EXCEPT ![v] = [name |-> c, labels |-> pvcs[c].labels]]
              /\ UNCHANGED <<todo, faults>>
        /\ UNCHANGED <<pc, listed, pvcToPod, inCns, op, staleClaim, stalePod,
                       mapVars, goVars, history, k8sVars, registered, entities,
                       disk, lock>>

(* Second call: the running pods of the claim, of which the last counts.   *)
ListPods(v) ==
    LET c     == pvToPVC[v].name
        Users == {p \in Pods : /\ pods[p] # NoObj /\ pods[p].phase = "Running"
                               /\ c \in pods[p].claims}
    IN  /\ pc = "claims" /\ v \in todo /\ pvToPVC[v] # NoObj
        /\ todo' = todo \ {v}
        /\ \/ Users = {} /\ UNCHANGED <<pvcToPod, faults>>
           \/ Users # {} /\ Fault /\ UNCHANGED pvcToPod
           \/ \E p \in Users : /\ pvcToPod' = [pvcToPod EXCEPT ![c] = p]
                               /\ UNCHANGED faults
        /\ UNCHANGED <<pc, listed, pvToPVC, inCns, op, staleClaim, stalePod,
                       mapVars, goVars, history, k8sVars, registered, entities,
                       disk, lock>>

(* QueryAllVolume; if it fails the cycle ends. *)
QueryAllVolume ==
    /\ pc = "claims" /\ todo = {}
    /\ \/ /\ pc' = "compare"
          /\ inCns' = registered
          /\ todo' = Keys
          /\ UNCHANGED <<listed, pvToPVC, pvcToPod, op, staleClaim, stalePod, faults>>
       \/ /\ Fault
          /\ pc' = "idle" /\ LocalsReset /\ UNCHANGED todo
    /\ UNCHANGED <<mapVars, goVars, history, k8sVars, registered, entities, disk, lock>>

-----------------------------------------------------------------------------
(* Comparing a volume. *)

(* What Kubernetes, as listed, says of a volume. *)
buildCnsUpdateMetadataList(v) ==
    {pvEntity(v, listed[v].labels)} \cup
    (IF pvToPVC[v] = NoObj THEN {}
     ELSE {pvcEntity(pvToPVC[v].name, pvToPVC[v].labels)} \cup
          (IF pvcToPod[pvToPVC[v].name] = NoObj THEN {}
           ELSE {podEntity(pvcToPod[pvToPVC[v].name])}))

(* For each entity type, the last entry of CNS's list; the order of the    *)
(* list is CNS's.                                                          *)
LastOfEachType(cns) ==
    {last \in [{e.type : e \in cns} -> cns] : \A t \in DOMAIN last : last[t].type = t}

(* A comparison that leaves the labels out. *)
NamesMatch(k8s, last) ==
    \A e \in k8s : e.type \in DOMAIN last => last[e.type].name = e.name

(* Entries are compared by type, and only for the types CNS has. *)
EntriesMatch(k8s, last) ==
    \A e \in k8s : e.type \in DOMAIN last => last[e.type] = e

(* Without the case for two entries in Kubernetes. *)
NoPodCase(k8s, cns, last) ==
    LET k == Cardinality(k8s)
        n == Cardinality(cns)
    IN  CASE k > n           -> "updateVolume"
          [] k < n /\ k = 1  -> "updateVolumeWithDeleteClaim"
          [] OTHER           -> IF EntriesMatch(k8s, last) THEN "none" ELSE "updateVolume"

getCnsUpdateOperationType(k8s, cns, last) ==
    LET k == Cardinality(k8s)
        n == Cardinality(cns)
    IN  CASE k > n           -> "updateVolume"
          [] k < n /\ k = 1  -> "updateVolumeWithDeleteClaim"
          [] k < n /\ k = 2  -> "updateVolumeWithDeletePod"
          [] OTHER           -> IF EntriesMatch(k8s, last) THEN "none" ELSE "updateVolume"

NameOfLast(type, last, none) == IF type \in DOMAIN last THEN last[type].name ELSE none

(* buildVolumeMap, one turn of its loop.  A volume in CNS is queried and   *)
(* compared; staleClaim and stalePod remember what CNS has too much.       *)
CompareMetadata(v) ==
    LET k8s   == buildCnsUpdateMetadataList(v)
        cns   == entities[v]
        fewer == Cardinality(k8s) < Cardinality(cns)
    IN  /\ v \in inCns /\ v \in registered
        /\ \E last \in LastOfEachType(cns) :
              /\ op' = [op EXCEPT ![v] = getCnsUpdateOperationType(k8s, cns, last)]
              /\ staleClaim' = [staleClaim EXCEPT ![v] =
                                  IF fewer THEN NameOfLast("PVC", last, NoObj) ELSE @]
              /\ stalePod' = [stalePod EXCEPT ![v] =
                                  IF fewer THEN NameOfLast("POD", last, NoObj) ELSE @]
        /\ UNCHANGED <<cnsCreationMap, faults>>

(* The query fails, or finds nothing because the volume has gone. *)
QueryFails(v) ==
    /\ v \in inCns
    /\ \/ v \in registered /\ Fault
       \/ v \notin registered /\ UNCHANGED faults
    /\ op' = [op EXCEPT ![v] = "none"]
    /\ UNCHANGED <<staleClaim, stalePod, cnsCreationMap>>

(* Marks a volume and never asks for its creation. *)
MarkOnly(v) ==
    /\ v \notin inCns
    /\ op' = [op EXCEPT ![v] = "none"]
    /\ cnsCreationMap' = cnsCreationMap \cup {v}
    /\ UNCHANGED <<staleClaim, stalePod, faults>>

(* A volume not in CNS is marked; if it was marked before it is created.   *)
MarkOrCreate(v) ==
    /\ v \notin inCns
    /\ op' = [op EXCEPT ![v] = IF v \in cnsCreationMap THEN "createVolume" ELSE "none"]
    /\ cnsCreationMap' = cnsCreationMap \cup {v}
    /\ UNCHANGED <<staleClaim, stalePod, faults>>

buildVolumeMap(v) ==
    /\ pc = "compare" /\ v \in todo
    /\ todo' = todo \ {v}
    /\ CompareMetadata(v) \/ QueryFails(v) \/ MarkOrCreate(v)
    /\ UNCHANGED <<pc, listed, pvToPVC, pvcToPod, inCns, cnsDeletionMap, goVars,
                   history, k8sVars, registered, entities, disk, lock>>

WithOp(ops) == {v \in Volumes : op[v] \in ops}

(* identifyVolumesToBeCreatedUpdated and identifyVolumesToBeDeleted; then  *)
(* the goroutines start.                                                   *)
StartGoroutines ==
    LET gone == inCns \ Keys
    IN  /\ pc = "compare" /\ todo = {}
        /\ pc' = "wait"
        /\ work' = [create |-> WithOp({"createVolume"}),
                    update |-> WithOp({"updateVolume", "updateVolumeWithDeleteClaim",
                                       "updateVolumeWithDeletePod"}),
                    delete |-> gone \cap cnsDeletionMap]
        /\ cnsDeletionMap' = cnsDeletionMap \cup gone
        /\ wg' = 3
        /\ gpc' = [create |-> "start", delete |-> "start", update |-> "run"]
        /\ UNCHANGED <<todo, localVars, cnsCreationMap, current, history,
                       k8sVars, cnsVars, lock>>

-----------------------------------------------------------------------------
(* The goroutines. *)

(* A listing that fails, and does not give the lock back. *)
LockLeaked(g) ==
    /\ g \in {"create", "delete"} /\ gpc[g] = "start" /\ lock = "free"
    /\ lock' = g
    /\ \/ /\ gpc' = [gpc EXCEPT ![g] = "run"]
          /\ current' = [current EXCEPT ![g] = Listed]
          /\ UNCHANGED <<work, faults>>
       \/ /\ RelistFaults /\ Fault
          /\ gpc' = [gpc EXCEPT ![g] = "none"]
          /\ work' = [work EXCEPT ![g] = {}]
          /\ UNCHANGED current
    /\ UNCHANGED <<pc, todo, localVars, mapVars, wg, history, k8sVars,
                   registered, entities, disk>>

(* fullSyncCreateVolumes and fullSyncDeleteVolumes take the lock and list  *)
(* the PVs again.  If that fails they return, without wg.Done().           *)
LockAndRelist(g) ==
    /\ g \in {"create", "delete"} /\ gpc[g] = "start" /\ lock = "free"
    /\ \/ /\ gpc' = [gpc EXCEPT ![g] = "run"]
          /\ lock' = g
          /\ current' = [current EXCEPT ![g] = Listed]
          /\ UNCHANGED <<work, faults>>
       \/ /\ RelistFaults /\ Fault
          /\ gpc' = [gpc EXCEPT ![g] = "none"]
          /\ work' = [work EXCEPT ![g] = {}]
          /\ UNCHANGED <<lock, current>>
    /\ UNCHANGED <<pc, todo, localVars, mapVars, wg, history, k8sVars,
                   registered, entities, disk>>

Processed(g, v) == work' = [work EXCEPT ![g] = @ \ {v}]

(* One spec: create the volume if its PV is still there; forget the mark   *)
(* unless the creation failed.                                             *)
fullSyncCreateVolumes(v) ==
    /\ gpc["create"] = "run" /\ v \in work["create"]
    /\ Processed("create", v)
    /\ \/ /\ v \in current["create"]
          /\ \E ok \in BOOLEAN :
                /\ CreateVolume(v, buildCnsUpdateMetadataList(v), ok)
                /\ cnsCreationMap' = IF ok THEN cnsCreationMap \ {v} ELSE cnsCreationMap
       \/ /\ v \notin current["create"]
          /\ cnsCreationMap' = cnsCreationMap \ {v}
          /\ UNCHANGED cnsVars
    /\ UNCHANGED <<pc, todo, localVars, cnsDeletionMap, gpc, current, wg, history,
                   k8sVars, lock>>

(* One volume: delete it, never its disk, if it still has no PV. *)
fullSyncDeleteVolumes(v) ==
    /\ gpc["delete"] = "run" /\ v \in work["delete"]
    /\ Processed("delete", v)
    /\ \/ /\ v \notin current["delete"]
          /\ \E ok \in BOOLEAN :
                /\ DeleteVolume(v, FALSE, ok)
                /\ cnsDeletionMap' = IF ok THEN cnsDeletionMap \ {v} ELSE cnsDeletionMap
       \/ /\ v \in current["delete"]
          /\ cnsDeletionMap' = cnsDeletionMap \ {v}
          /\ UNCHANGED cnsVars
    /\ UNCHANGED <<pc, todo, localVars, cnsCreationMap, gpc, current, wg, history,
                   k8sVars, lock>>

(* The entries that an update marks for deletion. *)
buildCnsMetadataSpecMarkedForDelete(v) ==
    {e \in entities[v] :
        \/ e.type = "PVC" /\ e.name = staleClaim[v] /\ op[v] = "updateVolumeWithDeleteClaim"
        \/ e.type = "POD" /\ e.name = stalePod[v]}

(* One spec, without the lock; errors are only logged. *)
fullSyncUpdateVolumes(v) ==
    /\ gpc["update"] = "run" /\ v \in work["update"]
    /\ Processed("update", v)
    /\ \E ok \in BOOLEAN :
          IF op[v] = "updateVolume"
          THEN UpdateVolumeMetadata(v, buildCnsUpdateMetadataList(v), {}, ok)
          ELSE UpdateVolumeMetadata(v, {}, buildCnsMetadataSpecMarkedForDelete(v), ok)
    /\ UNCHANGED <<pc, todo, localVars, mapVars, gpc, current, wg, history,
                   k8sVars, lock>>

(* wg.Done(), then the deferred Unlock. *)
GoroutineDone(g) ==
    /\ gpc[g] = "run" /\ work[g] = {}
    /\ gpc' = [gpc EXCEPT ![g] = "none"]
    /\ current' = [current EXCEPT ![g] = {}]
    /\ wg' = wg - 1
    /\ lock' = IF lock = g THEN "free" ELSE lock
    /\ UNCHANGED <<pc, todo, localVars, mapVars, work, history, k8sVars, cnsVars>>

(* History: what the cycle saw of PVs and volumes. *)
CycleRecorded ==
    /\ seenMissing' = (seenMissing \cap Keys) \cup (Keys \ inCns)
    /\ seenOrphaned' = (seenOrphaned \cup (inCns \ Keys)) \ Keys

(* The end of a cycle without cleanupCnsMaps. *)
EndWithoutCleanup ==
    /\ pc = "wait" /\ wg = 0
    /\ pc' = "idle" /\ LocalsReset
    /\ CycleRecorded
    /\ UNCHANGED <<todo, mapVars, goVars, k8sVars, cnsVars, lock>>

(* The end of a cycle that forgets every mark. *)
EndForgetting ==
    /\ pc = "wait" /\ wg = 0
    /\ pc' = "idle" /\ LocalsReset
    /\ cnsCreationMap' = {} /\ cnsDeletionMap' = {}
    /\ CycleRecorded
    /\ UNCHANGED <<todo, goVars, k8sVars, cnsVars, lock>>

(* wg.Wait() returns; cleanupCnsMaps; the cycle is over. *)
EndCycle ==
    /\ pc = "wait" /\ wg = 0
    /\ pc' = "idle" /\ LocalsReset
    /\ cnsCreationMap' = cnsCreationMap \cap Keys
    /\ cnsDeletionMap' = cnsDeletionMap \ Keys
    /\ CycleRecorded
    /\ UNCHANGED <<todo, goVars, k8sVars, cnsVars, lock>>

FullSyncNext ==
    \/ ListPVs \/ QueryAllVolume \/ StartGoroutines \/ EndCycle
    \/ \E v \in Volumes : \/ GetClaim(v) \/ ListPods(v) \/ buildVolumeMap(v)
                          \/ fullSyncCreateVolumes(v) \/ fullSyncDeleteVolumes(v)
                          \/ fullSyncUpdateVolumes(v)
    \/ \E g \in Goroutines : LockAndRelist(g) \/ GoroutineDone(g)

-----------------------------------------------------------------------------

SyncTypeOK ==
    /\ pc \in {"idle", "claims", "compare", "wait"}
    /\ listed \in [Volumes -> PV \cup {NoObj}]
    /\ pvToPVC \in [Volumes -> [name : Claims, labels : Labels] \cup {NoObj}]
    /\ pvcToPod \in [Claims -> Pods \cup {NoObj}]
    /\ inCns \in SUBSET Volumes
    /\ op \in [Volumes -> Operations]
    /\ staleClaim \in [Volumes -> Claims \cup {NoObj}]
    /\ stalePod \in [Volumes -> Pods \cup {NoObj}]
    /\ todo \in SUBSET Volumes
    /\ cnsCreationMap \in SUBSET Volumes /\ cnsDeletionMap \in SUBSET Volumes
    /\ gpc \in [Goroutines -> {"none", "start", "run"}]
    /\ work \in [Goroutines -> SUBSET Volumes]
    /\ current \in [Goroutines -> SUBSET Volumes]
    /\ wg \in 0..3
    /\ lock \in {"free", "create", "delete"}
    /\ seenMissing \in SUBSET Volumes /\ seenOrphaned \in SUBSET Volumes
=============================================================================
