---------------------------- MODULE SyncerProofs ----------------------------
(***************************************************************************)
(* Theorems about the syncer: its types, the two-cycle rule of full sync   *)
(* and what the lock protects, for every set of volumes, claims, pods and  *)
(* labels and every bound.                                                 *)
(*                                                                         *)
(* The first part shows that the calls to CNS, the cluster's operations,   *)
(* the event handlers and the steps of full sync keep the types of what    *)
(* they change; the second that full sync and its goroutines keep SyncInv, *)
(* from which the two-cycle rule follows; the third has the theorems.      *)
(***************************************************************************)
EXTENDS Syncer, TLAPS

-----------------------------------------------------------------------------
(* Calls to CNS. *)

(* Every way in which CreateVolume can end keeps the types of CNS. *)
LEMMA CreateVolumeTypes ==
    ASSUME CnsTypeOK, NEW v \in Volumes, NEW put \in SUBSET Entity,
           NEW ok \in BOOLEAN, CreateVolume(v, put, ok)
    PROVE  CnsTypeOK'
BY CnsAssumption DEF CnsTypeOK, CreateVolume, Call, Fault, cnsVars

(* And so does CreateDisk, the creation of a container volume. *)
LEMMA CreateDiskTypes ==
    ASSUME CnsTypeOK, NEW v \in Volumes, NEW ok \in BOOLEAN, CreateDisk(v, ok)
    PROVE  CnsTypeOK'
BY CnsAssumption DEF CnsTypeOK, CreateDisk, Call, Fault, cnsVars

(* And DeleteVolume. *)
LEMMA DeleteVolumeTypes ==
    ASSUME CnsTypeOK, NEW v \in Volumes, NEW dd \in BOOLEAN,
           NEW ok \in BOOLEAN, DeleteVolume(v, dd, ok)
    PROVE  CnsTypeOK'
BY CnsAssumption DEF CnsTypeOK, DeleteVolume, Call, Fault, cnsVars

(* And UpdateVolumeMetadata, for a volume CNS may not know. *)
LEMMA UpdateVolumeMetadataTypes ==
    ASSUME CnsTypeOK, NEW v, NEW put \in SUBSET Entity, NEW del,
           NEW ok \in BOOLEAN, UpdateVolumeMetadata(v, put, del, ok)
    PROVE  CnsTypeOK'
<1>1. Updated(entities[v], put, del) \in SUBSET Entity \/ v \notin Volumes
  BY Zenon DEF CnsTypeOK, Updated
<1> QED
  BY <1>1, CnsAssumption DEF CnsTypeOK, UpdateVolumeMetadata, Call, Fault, cnsVars

(* A lookup that fails changes nothing but the count of faults. *)
LEMMA LookupFailsTypes ==
    ASSUME CnsTypeOK, NEW found, LookupFails(found)
    PROVE  CnsTypeOK'
BY CnsAssumption DEF CnsTypeOK, LookupFails, Fault, cnsVars

(* The entities of a PV, a claim and a pod. *)
LEMMA EntityTypes ==
    /\ \A v \in Volumes, l \in Labels : pvEntity(v, l) \in Entity
    /\ \A c \in Claims, l \in Labels : pvcEntity(c, l) \in Entity
    /\ \A p \in Pods : podEntity(p) \in Entity
BY Zenon DEF pvEntity, pvcEntity, podEntity, Entity

-----------------------------------------------------------------------------
(* The cluster. *)

PVTypes  == pvs \in [Volumes -> PV \cup {NoObj}] /\ pvEvents \in Seq(EventOf(Volumes, PV))
PVCTypes == pvcs \in [Claims -> PVC \cup {NoObj}] /\ pvcEvents \in Seq(EventOf(Claims, PVC))
PodTypes == /\ pods \in [Pods -> Pod \cup {NoObj}]
            /\ podEvents \in Seq([id : Pods, old : Pod, new : Pod \cup {NoObj},
                                   left : SUBSET Claims])

(* Writing a PV, a claim or a pod keeps objects and events typed. *)
LEMMA SetPVTypes ==
    ASSUME PVTypes, NEW v \in Volumes, NEW new \in PV \cup {NoObj}, SetPV(v, new)
    PROVE  PVTypes'
<1>1. ASSUME pvs[v] # NoObj
      PROVE  [id |-> v, old |-> pvs[v], new |-> new] \in EventOf(Volumes, PV)
  BY <1>1, Zenon DEF PVTypes, EventOf
<1> QED
  BY <1>1 DEF PVTypes, SetPV

(* The same of a PVC. *)
LEMMA SetPVCTypes ==
    ASSUME PVCTypes, NEW c \in Claims, NEW new \in PVC \cup {NoObj}, SetPVC(c, new)
    PROVE  PVCTypes'
<1>1. ASSUME pvcs[c] # NoObj
      PROVE  [id |-> c, old |-> pvcs[c], new |-> new] \in EventOf(Claims, PVC)
  BY <1>1, Zenon DEF PVCTypes, EventOf
<1> QED
  BY <1>1 DEF PVCTypes, SetPVC

(* The same of a pod. *)
LEMMA SetPodTypes ==
    ASSUME PodTypes, NEW p \in Pods, NEW new \in Pod \cup {NoObj}, SetPod(p, new)
    PROVE  PodTypes'
<1> DEFINE E == [id : Pods, old : Pod, new : Pod \cup {NoObj}, left : SUBSET Claims]
<1>1. ASSUME pods[p] # NoObj
      PROVE  [id |-> p, old |-> pods[p], new |-> new, left |-> pods[p].claims] \in E
  <2>1. pods[p] \in Pod
    BY <1>1, Zenon DEF PodTypes
  <2>2. pods[p].claims \in SUBSET Claims
    BY <2>1, Zenon DEF Pod
  <2> QED
    BY <2>1, <2>2, Zenon
<1>2. podEvents \in Seq(E)
  BY Zenon DEF PodTypes
<1> HIDE DEF E
<1>3. podEvents' \in Seq(E)
  BY <1>1, <1>2 DEF SetPod
<1>4. pods' \in [Pods -> Pod \cup {NoObj}]
  BY Zenon DEF PodTypes, SetPod
<1> QED
  BY <1>3, <1>4, Zenon DEF PodTypes, E

(* An operation of users, controllers or the provisioner keeps the types   *)
(* of the cluster and of CNS.                                              *)
LEMMA K8sNextTypes ==
    ASSUME CnsTypeOK, K8sTypeOK, K8sNext
    PROVE  CnsTypeOK' /\ K8sTypeOK'
<1> USE K8sAssumption
<1>0. PVTypes /\ PVCTypes /\ PodTypes /\ changes \in 0..MaxChanges
  BY Zenon DEF K8sTypeOK, PVTypes, PVCTypes, PodTypes
<1>a. ASSUME PVTypes', PVCTypes', PodTypes', changes' \in 0..MaxChanges
      PROVE  K8sTypeOK'
  BY <1>a, Zenon DEF K8sTypeOK, PVTypes, PVCTypes, PodTypes
<1>b. ASSUME UNCHANGED cnsVars PROVE CnsTypeOK'
  BY <1>b, Zenon DEF CnsTypeOK, cnsVars
<1>c. ASSUME OnlyPV PROVE PVCTypes' /\ PodTypes'
  BY <1>0, <1>c, Zenon DEF OnlyPV, PVCTypes, PodTypes
<1>d. ASSUME OnlyPVC PROVE PVTypes' /\ PodTypes' /\ UNCHANGED cnsVars
  BY <1>0, <1>d, Zenon DEF OnlyPVC, PVTypes, PodTypes
<1>e. ASSUME OnlyPod PROVE PVTypes' /\ PVCTypes' /\ UNCHANGED cnsVars
  BY <1>0, <1>e, Zenon DEF OnlyPod, PVTypes, PVCTypes
<1>f. ASSUME NEW n, Op(n) PROVE changes' \in 0..MaxChanges
  BY <1>0, <1>f DEF Op
<1>g. ASSUME NEW v \in Volumes, pvs[v] # NoObj PROVE pvs[v] \in PV
  BY <1>0, <1>g, Zenon DEF PVTypes
<1>h. ASSUME NEW c \in Claims, pvcs[c] # NoObj PROVE pvcs[c] \in PVC
  BY <1>0, <1>h, Zenon DEF PVCTypes
<1>i. ASSUME NEW p \in Pods, pods[p] # NoObj PROVE pods[p] \in Pod
  BY <1>0, <1>i, Zenon DEF PodTypes
<1>1. ASSUME NEW v \in Volumes, CreatePV(v) PROVE CnsTypeOK' /\ K8sTypeOK'
  <2>1. PICK l \in Labels, c \in Claims \cup {NoClaim} :
           SetPV(v, [phase |-> "Pending", labels |-> l, claim |-> c, deleting |-> FALSE])
    BY Zenon, <1>1 DEF CreatePV
  <2>2. [phase |-> "Pending", labels |-> l, claim |-> c, deleting |-> FALSE] \in PV
    BY Zenon DEF PV
  <2>3. PVTypes'
    BY <2>1, <2>2, <1>0, SetPVTypes, Zenon
  <2> QED
    BY <1>1, <2>3, <1>a, <1>b, <1>c, <1>f, Zenon DEF CreatePV
<1>2. ASSUME NEW v \in Volumes, FreePV(v) PROVE CnsTypeOK' /\ K8sTypeOK'
  <2>1. [pvs[v] EXCEPT !.phase = "Available", !.claim = NoClaim] \in PV
    BY Zenon, <1>2, <1>g DEF FreePV, PV
  <2>2. PVTypes'
    BY <1>2, <2>1, <1>0, SetPVTypes, Zenon DEF FreePV
  <2> QED
    BY <1>2, <2>2, <1>a, <1>b, <1>c, <1>f, Zenon DEF FreePV
<1>3. ASSUME NEW v \in Volumes, NEW c \in Claims, BindPV(v, c)
      PROVE  CnsTypeOK' /\ K8sTypeOK'
  <2>1. [pvs[v] EXCEPT !.phase = "Bound", !.claim = c] \in PV
    BY Zenon, <1>3, <1>g DEF BindPV, PV
  <2>2. PVTypes'
    BY <1>3, <2>1, <1>0, SetPVTypes, Zenon DEF BindPV
  <2> QED
    BY <1>3, <2>2, <1>a, <1>b, <1>c, <1>f, Zenon DEF BindPV
<1>4. ASSUME NEW v \in Volumes, NEW l \in Labels, LabelPV(v, l)
      PROVE  CnsTypeOK' /\ K8sTypeOK'
  <2>1. [pvs[v] EXCEPT !.labels = l] \in PV
    BY <1>4, <1>g, Zenon DEF LabelPV, PV
  <2>2. PVTypes'
    BY <1>4, <2>1, <1>0, SetPVTypes, Zenon DEF LabelPV
  <2> QED
    BY <1>4, <2>2, <1>a, <1>b, <1>c, <1>f, Zenon DEF LabelPV
<1>5. ASSUME NEW v \in Volumes, ReleasePV(v) PROVE CnsTypeOK' /\ K8sTypeOK'
  <2>1. [pvs[v] EXCEPT !.phase = "Released"] \in PV
    BY <1>5, <1>g, Zenon DEF ReleasePV, PV
  <2>2. PVTypes'
    BY <1>5, <2>1, <1>0, SetPVTypes, Zenon DEF ReleasePV
  <2> QED
    BY <1>5, <2>2, <1>a, <1>b, <1>c, <1>f, Zenon DEF ReleasePV
<1>6. ASSUME NEW v \in Volumes, DeletePV(v) PROVE CnsTypeOK' /\ K8sTypeOK'
  <2>1. [pvs[v] EXCEPT !.deleting = TRUE] \in PV
    BY Zenon, <1>6, <1>g DEF DeletePV, PV
  <2>2. PVTypes'
    BY <1>6, <2>1, <1>0, SetPVTypes, Zenon DEF DeletePV
  <2> QED
    BY <1>6, <2>2, <1>a, <1>b, <1>c, <1>f, Zenon DEF DeletePV
<1>7. ASSUME NEW v \in Volumes, RemovePV(v) PROVE CnsTypeOK' /\ K8sTypeOK'
  <2>1. PVTypes'
    BY <1>7, <1>0, SetPVTypes, Zenon DEF RemovePV
  <2> QED
    BY <1>7, <2>1, <1>a, <1>b, <1>c, <1>f, Zenon DEF RemovePV
<1>8. ASSUME NEW v \in Volumes, ProvisionVolume(v) PROVE CnsTypeOK' /\ K8sTypeOK'
  <2>1. CnsTypeOK'
    BY <1>8, CreateDiskTypes, Zenon DEF ProvisionVolume
  <2> QED
    BY <1>8, <2>1, <1>0, <1>a, <1>f, Zenon DEF ProvisionVolume, PVTypes, PVCTypes, PodTypes
<1>9. ASSUME NEW v \in Volumes, ReclaimVolume(v) PROVE CnsTypeOK' /\ K8sTypeOK'
  <2>1. PICK ok \in BOOLEAN :
           /\ DeleteVolume(v, TRUE, ok)
           /\ SetPV(v, IF ok THEN [pvs[v] EXCEPT !.deleting = TRUE]
                             ELSE [pvs[v] EXCEPT !.phase = "Failed"])
    BY Zenon, <1>9 DEF ReclaimVolume
  <2>2. CnsTypeOK'
    BY Zenon, <2>1, DeleteVolumeTypes
  <2>3. (IF ok THEN [pvs[v] EXCEPT !.deleting = TRUE]
               ELSE [pvs[v] EXCEPT !.phase = "Failed"]) \in PV
    BY Zenon, <1>9, <1>g DEF ReclaimVolume, PV
  <2>4. PVTypes'
    BY <2>1, <2>3, <1>0, SetPVTypes, Zenon
  <2> QED
    BY <1>9, <2>2, <2>4, <1>a, <1>c, <1>f, Zenon DEF ReclaimVolume
<1>10. ASSUME NEW c \in Claims, CreatePVC(c) PROVE CnsTypeOK' /\ K8sTypeOK'
  <2>1. PICK l \in Labels : SetPVC(c, [phase |-> "Pending", labels |-> l, vol |-> NoObj])
    BY <1>10, Zenon DEF CreatePVC
  <2>2. [phase |-> "Pending", labels |-> l, vol |-> NoObj] \in PVC
    BY Zenon DEF PVC
  <2>3. PVCTypes'
    BY <2>1, <2>2, <1>0, SetPVCTypes, Zenon
  <2> QED
    BY <1>10, <2>3, <1>a, <1>b, <1>d, <1>f, Zenon DEF CreatePVC
<1>11. ASSUME NEW c \in Claims, BindPVC(c) PROVE CnsTypeOK' /\ K8sTypeOK'
  <2>1. PICK v \in Volumes : SetPVC(c, [pvcs[c] EXCEPT !.phase = "Bound", !.vol = v])
    BY Zenon, <1>11 DEF BindPVC
  <2>2. [pvcs[c] EXCEPT !.phase = "Bound", !.vol = v] \in PVC
    BY Zenon, <1>11, <1>h DEF BindPVC, PVC
  <2>3. PVCTypes'
    BY <2>1, <2>2, <1>0, SetPVCTypes, Zenon
  <2> QED
    BY <1>11, <2>3, <1>a, <1>b, <1>d, <1>f, Zenon DEF BindPVC
<1>12. ASSUME NEW c \in Claims, NEW l \in Labels, LabelPVC(c, l)
       PROVE  CnsTypeOK' /\ K8sTypeOK'
  <2>1. [pvcs[c] EXCEPT !.labels = l] \in PVC
    BY <1>12, <1>h, Zenon DEF LabelPVC, PVC
  <2>2. PVCTypes'
    BY <1>12, <2>1, <1>0, SetPVCTypes, Zenon DEF LabelPVC
  <2> QED
    BY <1>12, <2>2, <1>a, <1>b, <1>d, <1>f, Zenon DEF LabelPVC
<1>13. ASSUME NEW c \in Claims, DeletePVC(c) PROVE CnsTypeOK' /\ K8sTypeOK'
  <2>1. PVCTypes'
    BY <1>13, <1>0, SetPVCTypes, Zenon DEF DeletePVC
  <2> QED
    BY <1>13, <2>1, <1>a, <1>b, <1>d, <1>f, Zenon DEF DeletePVC
<1>14. ASSUME NEW p \in Pods, CreatePod(p) PROVE CnsTypeOK' /\ K8sTypeOK'
  <2>1. PICK cs \in SUBSET Claims : SetPod(p, [phase |-> "Pending", claims |-> cs])
    BY <1>14, Zenon DEF CreatePod
  <2>2. [phase |-> "Pending", claims |-> cs] \in Pod
    BY Zenon DEF Pod
  <2>3. PodTypes'
    BY <2>1, <2>2, <1>0, SetPodTypes, Zenon
  <2> QED
    BY <1>14, <2>3, <1>a, <1>b, <1>e, <1>f, Zenon DEF CreatePod
<1>15. ASSUME NEW p \in Pods, RunPod(p) PROVE CnsTypeOK' /\ K8sTypeOK'
  <2>1. [pods[p] EXCEPT !.phase = "Running"] \in Pod
    BY <1>15, <1>i, Zenon DEF RunPod, Pod
  <2>2. PodTypes'
    BY <1>15, <2>1, <1>0, SetPodTypes, Zenon DEF RunPod
  <2> QED
    BY <1>15, <2>2, <1>a, <1>b, <1>e, <1>f, Zenon DEF RunPod
<1>16. ASSUME NEW p \in Pods, FinishPod(p) PROVE CnsTypeOK' /\ K8sTypeOK'
  <2>1. [pods[p] EXCEPT !.phase = "Succeeded"] \in Pod
    BY <1>16, <1>i, Zenon DEF FinishPod, Pod
  <2>2. PodTypes'
    BY <1>16, <2>1, <1>0, SetPodTypes, Zenon DEF FinishPod
  <2> QED
    BY <1>16, <2>2, <1>a, <1>b, <1>e, <1>f, Zenon DEF FinishPod
<1>17. ASSUME NEW p \in Pods, DeletePod(p) PROVE CnsTypeOK' /\ K8sTypeOK'
  <2>1. PodTypes'
    BY <1>17, <1>0, SetPodTypes, Zenon DEF DeletePod
  <2> QED
    BY <1>17, <2>1, <1>a, <1>b, <1>e, <1>f, Zenon DEF DeletePod
<1> QED
  BY <1>1, <1>2, <1>3, <1>4, <1>5, <1>6, <1>7, <1>8, <1>9, <1>10, <1>11, <1>12,
     <1>13, <1>14, <1>15, <1>16, <1>17, Zenon DEF K8sNext

-----------------------------------------------------------------------------
(* The event handlers. *)

(* The oldest event is typed, and so is the queue without it. *)
LEMMA QueueTypes ==
    ASSUME NEW S, NEW q \in Seq(S), q # <<>>
    PROVE  Head(q) \in S /\ Tail(q) \in Seq(S)
OBVIOUS

(* HandlePVC, that is pvcUpdated or pvcDeleted, keeps the types. *)
LEMMA HandlePVCTypes ==
    ASSUME CnsTypeOK, K8sTypeOK, HandlePVC
    PROVE  CnsTypeOK' /\ K8sTypeOK'
<1> DEFINE e == Head(pvcEvents)
<1>1. e \in EventOf(Claims, PVC) /\ Tail(pvcEvents) \in Seq(EventOf(Claims, PVC))
  BY QueueTypes, Zenon DEF HandlePVC, K8sTypeOK
<1>2. K8sTypeOK'
  BY <1>1, Zenon DEF HandlePVC, K8sTypeOK
<1>3. e.id \in Claims /\ e.old \in PVC /\ (e.new # NoObj => e.new \in PVC)
  BY <1>1, Zenon DEF EventOf
<1>4. e.old.labels \in Labels /\ (e.new # NoObj => e.new.labels \in Labels)
  BY <1>3, Zenon DEF PVC
<1>5. ASSUME UNCHANGED cnsVars PROVE CnsTypeOK'
  BY <1>5, Zenon DEF CnsTypeOK, cnsVars
<1> HIDE DEF e
<1>6. ASSUME e.new = NoObj, pvcDeleted(e) PROVE CnsTypeOK'
  BY <1>3, <1>5, <1>6, LookupFailsTypes, UpdateVolumeMetadataTypes, Zenon DEF pvcDeleted, Ignore
<1>7. ASSUME e.new # NoObj, pvcUpdated(e) PROVE CnsTypeOK'
  <2>1. {pvcEntity(e.id, e.new.labels)} \in SUBSET Entity
    BY <1>3, <1>4, <1>7, EntityTypes, Zenon
  <2> QED
    BY <2>1, <1>5, <1>7, LookupFailsTypes, UpdateVolumeMetadataTypes, Zenon
    DEF pvcUpdated, Ignore
<1> QED
  BY <1>2, <1>6, <1>7, Zenon DEF HandlePVC, e

(* HandlePV, that is pvUpdated or pvDeleted. *)
LEMMA HandlePVTypes ==
    ASSUME CnsTypeOK, K8sTypeOK, HandlePV
    PROVE  CnsTypeOK' /\ K8sTypeOK'
<1> DEFINE e == Head(pvEvents)
<1>1. e \in EventOf(Volumes, PV) /\ Tail(pvEvents) \in Seq(EventOf(Volumes, PV))
  BY QueueTypes, Zenon DEF HandlePV, K8sTypeOK
<1>2. K8sTypeOK'
  BY <1>1, Zenon DEF HandlePV, K8sTypeOK
<1>3. e.id \in Volumes /\ e.old \in PV /\ (e.new # NoObj => e.new \in PV)
  BY <1>1, Zenon DEF EventOf
<1>4. e.new # NoObj => e.new.labels \in Labels
  BY <1>3, Zenon DEF PV
<1>5. ASSUME UNCHANGED cnsVars PROVE CnsTypeOK'
  BY <1>5, Zenon DEF CnsTypeOK, cnsVars
<1> HIDE DEF e
<1>6. ASSUME pvDeleted(e) PROVE CnsTypeOK'
  <2>1. deleteDisk(e.old, e.id) \in BOOLEAN
    BY Zenon DEF deleteDisk
  <2> QED
    BY <2>1, <1>3, <1>5, <1>6, DeleteVolumeTypes, Zenon DEF pvDeleted, Ignore
<1>7. ASSUME e.new # NoObj, pvUpdated(e) PROVE CnsTypeOK'
  <2>1. {pvEntity(e.id, e.new.labels)} \in SUBSET Entity
    BY <1>3, <1>4, <1>7, EntityTypes, Zenon
  <2> QED
    BY <2>1, <1>3, <1>5, <1>7, CreateVolumeTypes, UpdateVolumeMetadataTypes, Zenon
    DEF pvUpdated, Ignore
<1> QED
  BY <1>2, <1>6, <1>7, Zenon DEF HandlePV, e

(* HandlePod, one claim of podUpdated or podDeleted. *)
LEMMA HandlePodTypes ==
    ASSUME CnsTypeOK, K8sTypeOK, HandlePod
    PROVE  CnsTypeOK' /\ K8sTypeOK'
<1> DEFINE E == [id : Pods, old : Pod, new : Pod \cup {NoObj}, left : SUBSET Claims]
           e == Head(podEvents)
<1>1. podEvents \in Seq(E) /\ podEvents # <<>>
  BY Zenon DEF K8sTypeOK, HandlePod
<1>2. e \in E /\ e.id \in Pods /\ e.left \in SUBSET Claims
  <2>1. e \in E
    BY Zenon, <1>1, QueueTypes
  <2> QED
    BY <2>1, Zenon
<1>3. ASSUME UNCHANGED cnsVars PROVE CnsTypeOK'
  BY <1>3, Zenon DEF CnsTypeOK, cnsVars
<1>4. ASSUME NEW c, NEW flag \in BOOLEAN, updatePodMetadata(e.id, c, flag)
      PROVE  CnsTypeOK'
  <2>1. {podEntity(e.id)} \in SUBSET Entity /\ {} \in SUBSET Entity
    BY <1>2, EntityTypes, Zenon
  <2> HIDE DEF e
  <2> QED
    BY Zenon, <2>1, <1>4, LookupFailsTypes, UpdateVolumeMetadataTypes DEF updatePodMetadata
<1>5. CnsTypeOK'
  BY Zenon, <1>3, <1>4 DEF HandlePod, Ignore, podDeleted, podUpdated
<1>6. podEvents' \in Seq(E)
  <2>1. CASE podEvents' = Tail(podEvents)
    <3> HIDE DEF E
    <3> QED
      BY <2>1, <1>1, QueueTypes, Zenon
  <2>2. ASSUME NEW c, podEvents' = [podEvents EXCEPT ![1].left = @ \ {c}]
        PROVE  podEvents' \in Seq(E)
    <3>1. podEvents' = [podEvents EXCEPT ![1] = [podEvents[1] EXCEPT !.left = @ \ {c}]]
      BY <2>2, Zenon
    <3>2. podEvents[1] \in E
      BY <1>1, <1>2
    <3>3. [podEvents[1] EXCEPT !.left = @ \ {c}] \in E
      BY <3>2, Zenon
    <3> HIDE DEF E
    <3> QED
      BY <3>1, <3>3, <1>1
  <2> QED
    BY Zenon, <2>1, <2>2 DEF HandlePod
<1> QED
  BY <1>5, <1>6, Zenon DEF HandlePod, K8sTypeOK

-----------------------------------------------------------------------------
(* Full sync: types. *)

(* The entities full sync writes, and the operation it chooses. *)
LEMMA ListTypes ==
    ASSUME SyncTypeOK, NEW v \in Volumes, listed[v] # NoObj
    PROVE  buildCnsUpdateMetadataList(v) \in SUBSET Entity
<1>1. listed[v] \in PV /\ listed[v].labels \in Labels
  BY Zenon DEF SyncTypeOK, PV
<1>2. pvEntity(v, listed[v].labels) \in Entity
  BY <1>1, EntityTypes, Zenon
<1>3. ASSUME pvToPVC[v] # NoObj
      PROVE  pvToPVC[v].name \in Claims /\ pvToPVC[v].labels \in Labels
  BY <1>3, Zenon DEF SyncTypeOK
<1>4. ASSUME pvToPVC[v] # NoObj
      PROVE  pvcEntity(pvToPVC[v].name, pvToPVC[v].labels) \in Entity
  BY <1>3, <1>4, EntityTypes, Zenon
<1>5. ASSUME pvToPVC[v] # NoObj, pvcToPod[pvToPVC[v].name] # NoObj
      PROVE  podEntity(pvcToPod[pvToPVC[v].name]) \in Entity
  BY <1>3, <1>5, EntityTypes, Zenon DEF SyncTypeOK
<1> QED
  BY <1>2, <1>4, <1>5, Zenon DEF buildCnsUpdateMetadataList

(* getCnsUpdateOperationType returns an operation, never "absent". *)
LEMMA OperationTypes ==
    ASSUME NEW k8s, NEW cns, NEW last
    PROVE  getCnsUpdateOperationType(k8s, cns, last)
              \in {"none", "updateVolume", "updateVolumeWithDeleteClaim",
                   "updateVolumeWithDeletePod"}
BY Zenon DEF getCnsUpdateOperationType

(* The names remembered of CNS's last entries are names of claims and pods. *)
LEMMA LastTypes ==
    ASSUME CnsTypeOK, NEW v \in Volumes, NEW last \in LastOfEachType(entities[v])
    PROVE  /\ NameOfLast("PVC", last, NoObj) \in Claims \cup {NoObj}
           /\ NameOfLast("POD", last, NoObj) \in Pods \cup {NoObj}
<1>1. \A t \in DOMAIN last : last[t] \in Entity /\ last[t].type = t
  BY Zenon DEF LastOfEachType, CnsTypeOK
<1>2. \A e \in Entity : /\ e.type = "PVC" => e.name \in Claims
                        /\ e.type = "POD" => e.name \in Pods
  BY Zenon DEF Entity
<1> QED
  BY <1>1, <1>2, Zenon DEF NameOfLast

(* CompareMetadata, QueryFails and MarkOrCreate for one volume. *)
LEMMA BuildVolumeMapTypes ==
    ASSUME CnsTypeOK, SyncTypeOK, NEW v \in Volumes, buildVolumeMap(v)
    PROVE  SyncTypeOK' /\ CnsTypeOK'
<1>1. ASSUME CompareMetadata(v)
      PROVE  /\ op' \in [Volumes -> Operations]
             /\ staleClaim' \in [Volumes -> Claims \cup {NoObj}]
             /\ stalePod' \in [Volumes -> Pods \cup {NoObj}]
             /\ UNCHANGED <<cnsCreationMap, faults>>
  <2> DEFINE k8s == buildCnsUpdateMetadataList(v)
             fewer == Cardinality(k8s) < Cardinality(entities[v])
  <2>1. PICK last \in LastOfEachType(entities[v]) :
           /\ op' = [op EXCEPT ![v] = getCnsUpdateOperationType(k8s, entities[v], last)]
           /\ staleClaim' = [staleClaim EXCEPT ![v] =
                               IF fewer THEN NameOfLast("PVC", last, NoObj) ELSE @]
           /\ stalePod' = [stalePod EXCEPT ![v] =
                               IF fewer THEN NameOfLast("POD", last, NoObj) ELSE @]
    BY Zenon, <1>1 DEF CompareMetadata
  <2>2. getCnsUpdateOperationType(k8s, entities[v], last) \in Operations
    BY OperationTypes, Zenon DEF Operations
  <2> HIDE DEF k8s, fewer
  <2> QED
    BY <1>1, <2>1, <2>2, LastTypes, Zenon DEF SyncTypeOK, CompareMetadata
<1>2. ASSUME QueryFails(v) \/ MarkOrCreate(v)
      PROVE  /\ op' \in [Volumes -> Operations]
             /\ cnsCreationMap' \in SUBSET Volumes
             /\ UNCHANGED <<staleClaim, stalePod>>
             /\ faults' \in 0..MaxFaults
  <2>1. CASE QueryFails(v)
    <3>1. Fault \/ faults' = faults
      BY <2>1, Zenon DEF QueryFails
    <3>2. faults' \in 0..MaxFaults
      BY <3>1, CnsAssumption DEF Fault, CnsTypeOK
    <3>3. op' \in [Volumes -> Operations]
      BY <2>1, Zenon DEF QueryFails, SyncTypeOK, Operations
    <3> QED
      BY <2>1, <3>2, <3>3, Zenon DEF QueryFails, SyncTypeOK
  <2>2. CASE MarkOrCreate(v)
    <3>1. (IF v \in cnsCreationMap THEN "createVolume" ELSE "none") \in Operations
      BY Zenon DEF Operations
    <3> QED
      BY <2>2, <3>1, Zenon DEF MarkOrCreate, SyncTypeOK, CnsTypeOK
  <2> QED
    BY <1>2, <2>1, <2>2, Zenon
<1> QED
  BY <1>1, <1>2, Zenon DEF buildVolumeMap, SyncTypeOK, CnsTypeOK, goVars, history

-----------------------------------------------------------------------------
(* Every other step of full sync. *)
LEMMA FullSyncTypes ==
    ASSUME TypeOK, SyncInv, FullSyncNext
    PROVE  TypeOK'
<1> USE CnsAssumption DEF TypeOK
<1>k. ASSUME UNCHANGED k8sVars PROVE K8sTypeOK'
  BY <1>k, Zenon DEF K8sTypeOK, k8sVars
<1>l. ASSUME LocalsReset
      PROVE  /\ listed' \in [Volumes -> PV \cup {NoObj}]
             /\ pvToPVC' \in [Volumes -> [name : Claims, labels : Labels] \cup {NoObj}]
             /\ pvcToPod' \in [Claims -> Pods \cup {NoObj}]
             /\ inCns' \in SUBSET Volumes
             /\ op' \in [Volumes -> Operations]
             /\ staleClaim' \in [Volumes -> Claims \cup {NoObj}]
             /\ stalePod' \in [Volumes -> Pods \cup {NoObj}]
  BY <1>l, Zenon DEF LocalsReset, Operations
<1>1. CASE ListPVs
  BY <1>1, <1>k, Zenon DEF ListPVs, Listed, K8sTypeOK, SyncTypeOK, CnsTypeOK, mapVars, goVars,
                    history, cnsVars
<1>2. ASSUME NEW v \in Volumes, GetClaim(v) PROVE TypeOK'
  <2>1. listed[v].claim \in Claims
    BY <1>2 DEF GetClaim, SyncInv, SyncTypeOK, PV
  <2>2. pvcs[listed[v].claim] # NoObj => pvcs[listed[v].claim].labels \in Labels
    BY <2>1, Zenon DEF K8sTypeOK, PVC
  <2>3. CnsTypeOK'
    BY <1>2 DEF GetClaim, CnsTypeOK, Fault
  <2>4. pvToPVC' \in [Volumes -> [name : Claims, labels : Labels] \cup {NoObj}]
    BY <1>2, <2>1, <2>2 DEF GetClaim, SyncTypeOK
  <2> QED
    BY <1>2, <1>k, <2>3, <2>4, Zenon DEF GetClaim, SyncTypeOK, mapVars, goVars, history
<1>3. ASSUME NEW v \in Volumes, ListPods(v) PROVE TypeOK'
  <2>1. CnsTypeOK'
    BY <1>3 DEF ListPods, CnsTypeOK, Fault
  <2>2. pvcToPod' \in [Claims -> Pods \cup {NoObj}]
    BY <1>3, Zenon DEF ListPods, SyncTypeOK
  <2> QED
    BY <1>3, <1>k, <2>1, <2>2, Zenon DEF ListPods, SyncTypeOK, mapVars, goVars, history
<1>4. CASE QueryAllVolume
  <2>1. CnsTypeOK'
    BY <1>4 DEF QueryAllVolume, CnsTypeOK, Fault
  <2> QED
    BY <1>4, <1>k, <1>l, <2>1, Zenon
    DEF QueryAllVolume, SyncTypeOK, CnsTypeOK, Keys, mapVars, goVars, history
<1>5. ASSUME NEW v \in Volumes, buildVolumeMap(v) PROVE TypeOK'
  BY <1>5, <1>k, BuildVolumeMapTypes, Zenon DEF buildVolumeMap
<1>6. CASE StartGoroutines
  BY <1>6, <1>k DEF StartGoroutines, SyncTypeOK, CnsTypeOK, WithOp, Goroutines, localVars,
                    history, cnsVars
<1>7. ASSUME NEW g \in Goroutines, LockAndRelist(g) PROVE TypeOK'
  <2>1. CnsTypeOK'
    BY <1>7 DEF LockAndRelist, CnsTypeOK, Fault
  <2> QED
    BY <1>7, <1>k, <2>1 DEF LockAndRelist, SyncTypeOK, Listed, localVars, mapVars, history
<1>8. ASSUME NEW v \in Volumes, fullSyncCreateVolumes(v) PROVE TypeOK'
  <2>1. listed[v] # NoObj
    BY <1>8, Zenon DEF fullSyncCreateVolumes, SyncInv, TwoCycles, Keys
  <2>2. CnsTypeOK'
    BY <1>8, <2>1, ListTypes, CreateVolumeTypes, Zenon
    DEF fullSyncCreateVolumes, CnsTypeOK, cnsVars
  <2> QED
    BY <1>8, <1>k, <2>2, Zenon DEF fullSyncCreateVolumes, Processed, SyncTypeOK, Goroutines,
                            localVars, history
<1>9. ASSUME NEW v \in Volumes, fullSyncDeleteVolumes(v) PROVE TypeOK'
  <2>1. CnsTypeOK'
    BY Zenon, <1>9, DeleteVolumeTypes DEF fullSyncDeleteVolumes, CnsTypeOK, cnsVars
  <2> QED
    BY Zenon, <1>9, <1>k, <2>1 DEF fullSyncDeleteVolumes, Processed, SyncTypeOK, Goroutines,
                            localVars, history
<1>10. ASSUME NEW v \in Volumes, fullSyncUpdateVolumes(v) PROVE TypeOK'
  <2>1. listed[v] # NoObj
    BY <1>10, Zenon DEF fullSyncUpdateVolumes, SyncInv, Keys
  <2>2. CnsTypeOK'
    BY <1>10, <2>1, ListTypes, UpdateVolumeMetadataTypes, Zenon DEF fullSyncUpdateVolumes
  <2> QED
    BY <1>10, <1>k, <2>2, Zenon DEF fullSyncUpdateVolumes, Processed, SyncTypeOK, Goroutines,
                             localVars, mapVars, history
<1>11. ASSUME NEW g \in Goroutines, GoroutineDone(g) PROVE TypeOK'
  <2>1. wg - 1 \in 0..3
    BY <1>11 DEF GoroutineDone, SyncInv, SyncTypeOK, Busy, Goroutines
  <2> QED
    BY <1>11, <1>k, <2>1, Zenon DEF GoroutineDone, SyncTypeOK, CnsTypeOK, localVars, mapVars,
                             history, cnsVars
<1>12. CASE EndCycle
  BY <1>12, <1>k, <1>l, Zenon DEF EndCycle, CycleRecorded, SyncTypeOK, CnsTypeOK, Keys, goVars,
                            cnsVars
<1> QED
  BY <1>1, <1>2, <1>3, <1>4, <1>5, <1>6, <1>7, <1>8, <1>9, <1>10, <1>11, <1>12, Zenon
  DEF FullSyncNext

-----------------------------------------------------------------------------
(* Full sync: the inductive invariant. *)

(* The steps up to the start of the goroutines. *)
LEMMA CycleInv ==
    ASSUME TypeOK, SyncInv,
           \/ ListPVs \/ QueryAllVolume
           \/ \E v \in Volumes : GetClaim(v) \/ ListPods(v) \/ buildVolumeMap(v)
    PROVE  SyncInv'
<1> USE DEF TypeOK, SyncTypeOK
<1>1. CASE ListPVs
  <2>1. \A g \in Goroutines : work[g] = {}
    BY <1>1, Zenon DEF ListPVs, SyncInv
  <2>2. \A v \in todo' : listed'[v] # NoObj /\ listed'[v].claim # NoClaim
    BY <1>1, Zenon DEF ListPVs, Listed
  <2> QED
    BY <1>1, <2>1, <2>2, Zenon DEF ListPVs, SyncInv, MarksSeen, TwoCycles, Busy, Goroutines,
                            Keys, mapVars, goVars, history
<1>2. CASE QueryAllVolume
  <2>1. \A g \in Goroutines : work[g] = {}
    BY <1>2, Zenon DEF QueryAllVolume, SyncInv
  <2>2. CASE pc' = "compare"
    BY <1>2, <2>1, <2>2, Zenon DEF QueryAllVolume, SyncInv, MarksSeen, TwoCycles, Busy,
                            Goroutines, Keys, mapVars, goVars, history
  <2>3. CASE pc' = "idle" /\ LocalsReset /\ UNCHANGED todo
    BY <1>2, <2>1, <2>3, Zenon DEF QueryAllVolume, LocalsReset, SyncInv, MarksSeen, TwoCycles,
                            Busy, Goroutines, Keys, mapVars, goVars, history
  <2> QED
    BY <1>2, <2>2, <2>3, Zenon DEF QueryAllVolume
<1>3. ASSUME NEW v \in Volumes, GetClaim(v) \/ ListPods(v) PROVE SyncInv'
  <2>1. /\ todo' \in SUBSET todo /\ pc = "claims"
        /\ UNCHANGED <<pc, listed, inCns, op, mapVars, goVars, history, lock>>
    BY <1>3, Zenon DEF GetClaim, ListPods
  <2> QED
    BY <2>1, Zenon DEF SyncInv, MarksSeen, TwoCycles, Busy, Keys, mapVars, goVars, history
<1>4. ASSUME NEW v \in Volumes, buildVolumeMap(v) PROVE SyncInv'
  <2>1. /\ pc = "compare" /\ v \in todo /\ v \in Keys /\ todo' = todo \ {v}
        /\ UNCHANGED <<pc, listed, inCns, cnsDeletionMap, goVars, history, lock>>
    BY <1>4, Zenon DEF buildVolumeMap, SyncInv, Keys
  <2>2. /\ \A w \in cnsCreationMap' : w \in cnsCreationMap \/ (w = v /\ v \notin inCns)
        /\ \A w \in Volumes : w # v => op'[w] = op[w]
        /\ op'[v] = "createVolume" => v \in cnsCreationMap /\ v \notin inCns
    <3>1. CASE CompareMetadata(v)
      <4>1. PICK last : op' = [op EXCEPT ![v] = getCnsUpdateOperationType(
                                  buildCnsUpdateMetadataList(v), entities[v], last)]
        BY <3>1, Zenon DEF CompareMetadata
      <4>2. op'[v] # "createVolume"
        BY <4>1, OperationTypes, Zenon
      <4> QED
        BY <3>1, <4>1, <4>2, Zenon DEF CompareMetadata
    <3>2. CASE QueryFails(v)
      BY <3>2, Zenon DEF QueryFails
    <3>3. CASE MarkOrCreate(v)
      BY <3>3, Zenon DEF MarkOrCreate
    <3> QED
      BY <1>4, <3>1, <3>2, <3>3, Zenon DEF buildVolumeMap
  <2>3. v \in cnsCreationMap => v \in seenMissing
    BY <2>1, Zenon DEF SyncInv, MarksSeen
  <2>4. Keys' = Keys
    BY <2>1, Zenon DEF Keys
  <2> HIDE DEF Keys
  <2>5. MarksSeen'
    BY <2>1, <2>2, <2>4, Zenon DEF SyncInv, MarksSeen, history
  <2> QED
    BY <2>1, <2>2, <2>3, <2>4, <2>5, Zenon DEF SyncInv, TwoCycles, Busy, goVars, history
<1> QED
  BY <1>1, <1>2, <1>3, <1>4, Zenon

-----------------------------------------------------------------------------
(* The WaitGroup counts at least the goroutines that have not returned.    *)
Counted == wg >= Busy("create") + Busy("delete") + Busy("update")

(* At zero all of them have returned. *)
LEMMA CountedZero ==
    ASSUME Counted, wg = 0
    PROVE  \A g \in Goroutines : gpc[g] = "none"
BY DEF Counted, Busy, Goroutines

(* One that returns without Done leaves the counter too high, never too    *)
(* low.                                                                    *)
LEMMA CountedReturn ==
    ASSUME Counted, gpc \in [Goroutines -> {"none", "start", "run"}], wg \in 0..3,
           NEW g \in Goroutines, wg' = wg, gpc[g] # "none",
           \/ gpc' = [gpc EXCEPT ![g] = "none"]
           \/ gpc' = [gpc EXCEPT ![g] = "run"]
    PROVE  Counted'
BY DEF Counted, Busy, Goroutines

(* One that calls Done and returns lowers both. *)
LEMMA CountedDone ==
    ASSUME Counted, gpc \in [Goroutines -> {"none", "start", "run"}], wg \in 0..3,
           NEW g \in Goroutines, wg' = wg - 1, gpc[g] # "none",
           gpc' = [gpc EXCEPT ![g] = "none"]
    PROVE  Counted'
BY DEF Counted, Busy, Goroutines

(* The goroutines start: what they were given was marked in an earlier     *)
(* cycle.                                                                  *)
LEMMA StartInv ==
    ASSUME TypeOK, SyncInv, StartGoroutines
    PROVE  SyncInv'
<1> USE DEF TypeOK, SyncTypeOK
<1>1. /\ Keys' = Keys /\ inCns' = inCns
      /\ seenMissing' = seenMissing /\ seenOrphaned' = seenOrphaned
  BY Zenon DEF StartGoroutines, Keys, localVars, history
<1>2. \A v \in work'["create"] : v \in Keys /\ v \notin inCns /\ v \in seenMissing
  BY Zenon DEF StartGoroutines, SyncInv, WithOp
<1>3. \A v \in work'["delete"] : v \notin Keys /\ v \in inCns /\ v \in seenOrphaned
  BY Zenon DEF StartGoroutines, SyncInv, MarksSeen
<1>4. work'["update"] \subseteq Keys
  BY Zenon DEF StartGoroutines, SyncInv, WithOp
<1>5. /\ gpc'["create"] = "start" /\ gpc'["delete"] = "start" /\ gpc'["update"] = "run"
      /\ wg' = 3 /\ lock' = lock /\ pc' = "wait" /\ todo' = {} /\ op' = op
      /\ lock \notin {"create", "delete"}
  BY Zenon DEF StartGoroutines, localVars, SyncInv, Goroutines
<1>6. \A v \in Volumes : /\ op[v] # "absent" => v \in Keys
                         /\ op[v] = "createVolume" => v \notin inCns /\ v \in seenMissing
  BY Zenon DEF SyncInv
<1>m. MarksSeen'
  BY Zenon, <1>1 DEF StartGoroutines, SyncInv, MarksSeen
<1> HIDE DEF Keys, TypeOK, SyncTypeOK
<1>7. (wg >= Busy("create") + Busy("delete") + Busy("update"))'
  BY <1>5 DEF Busy
<1>8. \A g \in Goroutines : gpc'[g] # "none"
  BY <1>5, Zenon DEF Goroutines
<1>9. TwoCycles'
  BY <1>1, <1>2, <1>3, Zenon DEF TwoCycles
<1> QED
  BY <1>1, <1>4, <1>5, <1>6, <1>7, <1>8, <1>9, <1>m, Zenon DEF SyncInv

(* The goroutines at work. *)
LEMMA GoroutinesInv ==
    ASSUME TypeOK, SyncInv,
           \/ \E v \in Volumes : \/ fullSyncCreateVolumes(v) \/ fullSyncDeleteVolumes(v)
                                 \/ fullSyncUpdateVolumes(v)
           \/ \E g \in Goroutines : LockAndRelist(g) \/ GoroutineDone(g)
    PROVE  SyncInv'
<1> USE DEF TypeOK, SyncTypeOK
<1>1. ASSUME NEW v \in Volumes,
             \/ fullSyncCreateVolumes(v) \/ fullSyncDeleteVolumes(v)
             \/ fullSyncUpdateVolumes(v)
      PROVE  SyncInv'
  <2>1. /\ \A g \in Goroutines : work'[g] \subseteq work[g]
        /\ UNCHANGED <<pc, todo, listed, inCns, op, gpc, wg, history, lock>>
    BY Zenon, <1>1 DEF fullSyncCreateVolumes, fullSyncDeleteVolumes, fullSyncUpdateVolumes,
                Processed, localVars
  <2>2. pc = "wait"
    BY Zenon, <1>1 DEF fullSyncCreateVolumes, fullSyncDeleteVolumes, fullSyncUpdateVolumes,
                SyncInv, Goroutines
  <2>3. Keys' = Keys
    BY <2>1, Zenon DEF Keys
  <2> HIDE DEF Keys
  <2>m. cnsCreationMap' \subseteq cnsCreationMap /\ cnsDeletionMap' \subseteq cnsDeletionMap
    BY Zenon, <1>1 DEF fullSyncCreateVolumes, fullSyncDeleteVolumes, fullSyncUpdateVolumes,
                mapVars
  <2>4. MarksSeen'
    BY <2>1, <2>3, <2>m, Zenon DEF SyncInv, MarksSeen, history
  <2> QED
    BY <2>1, <2>2, <2>3, <2>4, Zenon DEF SyncInv, TwoCycles, Busy, Goroutines, history
<1>2. ASSUME NEW g \in Goroutines, LockAndRelist(g) PROVE SyncInv'
  <2>1. /\ UNCHANGED <<pc, todo, listed, inCns, op, mapVars, wg, history>>
        /\ pc = "wait" /\ gpc[g] = "start" /\ lock = "free" /\ g \in {"create", "delete"}
        /\ \/ gpc' = [gpc EXCEPT ![g] = "run"] /\ lock' = g /\ work' = work
           \/ /\ gpc' = [gpc EXCEPT ![g] = "none"] /\ lock' = lock
              /\ work' = [work EXCEPT ![g] = {}]
    BY <1>2, Zenon DEF LockAndRelist, SyncInv, localVars, Goroutines
  <2>2. Keys' = Keys
    BY <2>1, Zenon DEF Keys
  <2> HIDE DEF Keys
  <2>3. \A h \in Goroutines : /\ work'[h] \subseteq work[h]
                             /\ gpc'[h] = "none" => work'[h] = {}
    BY <2>1, Zenon DEF SyncInv
  <2>4. \A h \in {"create", "delete"} : lock' = h <=> gpc'[h] = "run"
    BY <2>1, ZenonT(30) DEF SyncInv, Goroutines
  <2>c. Counted
    BY Zenon DEF SyncInv, Counted
  <2>5. Counted'
    BY <2>1, <2>c, CountedReturn, Zenon
  <2>6. TwoCycles' /\ work'["update"] \subseteq Keys'
    BY <2>1, <2>2, <2>3, Zenon DEF SyncInv, TwoCycles, Goroutines, history
  <2>7. MarksSeen'
    BY <2>1, <2>2, Zenon DEF SyncInv, MarksSeen, history, mapVars
  <2> QED
    BY <2>1, <2>2, <2>3, <2>4, <2>5, <2>6, <2>7, Zenon DEF SyncInv, history, Counted
<1>3. ASSUME NEW g \in Goroutines, GoroutineDone(g) PROVE SyncInv'
  <2>1. /\ UNCHANGED <<pc, todo, listed, inCns, op, mapVars, work, history>>
        /\ pc = "wait" /\ gpc[g] = "run" /\ work[g] = {} /\ wg' = wg - 1
        /\ gpc' = [gpc EXCEPT ![g] = "none"]
        /\ lock' = IF lock = g THEN "free" ELSE lock
    BY <1>3, Zenon DEF GoroutineDone, SyncInv, localVars
  <2>2. Keys' = Keys
    BY <2>1, Zenon DEF Keys
  <2> HIDE DEF Keys
  <2>c. Counted
    BY Zenon DEF SyncInv, Counted
  <2>3. Counted'
    BY <2>1, <2>c, CountedDone, Zenon
  <2>4. \A h \in Goroutines : gpc'[h] = "none" => work'[h] = {}
    BY <2>1, Zenon DEF SyncInv
  <2>5. \A h \in {"create", "delete"} : lock' = h <=> gpc'[h] = "run"
    BY <2>1, Zenon DEF SyncInv, Goroutines
  <2>6. TwoCycles' /\ work'["update"] \subseteq Keys'
    BY <2>1, <2>2, Zenon DEF SyncInv, TwoCycles, history
  <2>7. MarksSeen'
    BY <2>1, <2>2, Zenon DEF SyncInv, MarksSeen, history, mapVars
  <2> QED
    BY <2>1, <2>2, <2>3, <2>4, <2>5, <2>6, <2>7, Zenon DEF SyncInv, history, Counted
<1> QED
  BY <1>1, <1>2, <1>3, Zenon

(* The end of a cycle: the marks are cleaned, and nobody has work left. *)
LEMMA EndCycleInv ==
    ASSUME TypeOK, SyncInv, EndCycle
    PROVE  SyncInv'
<1> USE DEF TypeOK, SyncTypeOK
<1>c. Counted
  BY Zenon DEF SyncInv, Counted
<1>1. \A g \in Goroutines : gpc[g] = "none" /\ work[g] = {}
  BY <1>c, CountedZero, Zenon DEF EndCycle, SyncInv
<1>2. /\ cnsCreationMap' \subseteq seenMissing' /\ cnsDeletionMap' \subseteq seenOrphaned'
  BY Zenon DEF EndCycle, CycleRecorded, SyncInv, MarksSeen
<1>3. /\ \A v \in Volumes : op'[v] = "absent"
      /\ pc' = "idle" /\ todo' = {} /\ lock' = lock /\ work' = work /\ gpc' = gpc /\ wg' = wg
  BY Zenon DEF EndCycle, LocalsReset, SyncInv, goVars
<1>4. MarksSeen'
  BY <1>2, Zenon DEF MarksSeen
<1> QED
  BY <1>1, <1>3, <1>4, Zenon DEF SyncInv, TwoCycles, Busy, Goroutines

-----------------------------------------------------------------------------
(* The whole syncer. *)

IInv == TypeOK /\ SyncInv

(* Full sync and its locals start, and start again, in the same state. *)
LEMMA InitIInv == Init => IInv
<1> SUFFICES ASSUME Init PROVE IInv
  BY Zenon
<1> USE DEF Init, IInv, TypeOK
<1>1. CnsTypeOK
  BY CnsAssumption DEF CnsInit, CnsTypeOK
<1>2. K8sTypeOK
  BY K8sAssumption DEF K8sInit, K8sTypeOK
<1>3. SyncTypeOK
  BY DEF SyncInit, HandlersInit, SyncTypeOK, Operations
<1>4. SyncInv
  BY DEF SyncInit, HandlersInit, SyncInv, MarksSeen, TwoCycles, Busy, Goroutines
<1> QED
  BY <1>1, <1>2, <1>3, <1>4, Zenon

(* So does a syncer that is started on a cluster in use. *)
LEMMA InitInUseIInv == InitInUse => IInv
<1> SUFFICES ASSUME InitInUse PROVE IInv
  BY Zenon
<1> USE DEF InitInUse, IInv, TypeOK
<1>1. CnsTypeOK
  BY CnsAssumption, Zenon DEF CnsTypeOK
<1>2. K8sTypeOK
  <2>1. InUsePV \subseteq PV \cup {NoObj}
    BY Zenon DEF InUsePV, PV
  <2>2. {NoObj} \cup [phase : {"Bound"}, labels : Labels, vol : Volumes]
           \subseteq PVC \cup {NoObj}
    BY Zenon DEF PVC
  <2>3. {NoObj} \cup [phase : {"Pending", "Running"}, claims : {{c} : c \in Claims}]
           \subseteq Pod \cup {NoObj}
    BY DEF Pod
  <2>4. /\ pvs \in [Volumes -> PV \cup {NoObj}] /\ pvcs \in [Claims -> PVC \cup {NoObj}]
        /\ pods \in [Pods -> Pod \cup {NoObj}]
    BY <2>1, <2>2, <2>3, Zenon
  <2> QED
    BY <2>4, K8sAssumption DEF K8sTypeOK
<1>3. SyncTypeOK
  BY DEF SyncInit, HandlersInit, SyncTypeOK, Operations
<1>4. SyncInv
  BY DEF SyncInit, HandlersInit, SyncInv, MarksSeen, TwoCycles, Busy, Goroutines
<1> QED
  BY <1>1, <1>2, <1>3, <1>4, Zenon

(* Every step of the cluster, the handlers, full sync and a restart keeps  *)
(* the invariant.                                                          *)
LEMMA NextIInv == IInv /\ [Next]_vars => IInv'
<1> SUFFICES ASSUME IInv, [Next]_vars PROVE IInv'
  BY Zenon
<1> USE DEF IInv
<1>1. ASSUME UNCHANGED <<lock, syncVars>> PROVE SyncInv' /\ SyncTypeOK'
  BY <1>1, Zenon DEF TypeOK, SyncInv, MarksSeen, SyncTypeOK, TwoCycles, Busy, Keys, syncVars,
              localVars, mapVars, goVars, history
<1>2. CASE K8sNext /\ UNCHANGED <<lock, syncVars>>
  BY <1>1, <1>2, K8sNextTypes, Zenon DEF TypeOK
<1>3. CASE HandlersNext /\ UNCHANGED syncVars
  <2>1. lock' = lock
    BY <1>3, Zenon DEF HandlersNext, HandlePV, HandlePVC, HandlePod
  <2> QED
    BY <1>1, <1>3, <2>1, HandlePVTypes, HandlePVCTypes, HandlePodTypes, Zenon
    DEF TypeOK, HandlersNext
<1>4. CASE FullSyncNext
  <2>1. TypeOK'
    BY <1>4, FullSyncTypes, Zenon
  <2> QED
    BY <1>4, <2>1, CycleInv, StartInv, GoroutinesInv, EndCycleInv, Zenon DEF FullSyncNext
<1>5. CASE Restart
  <2>1. K8sTypeOK' /\ CnsTypeOK'
    BY <1>5, K8sAssumption DEF Restart, Op, TypeOK, K8sTypeOK, CnsTypeOK, cnsVars
  <2>2. SyncTypeOK'
    BY <1>5 DEF Restart, LocalsReset, SyncTypeOK, Operations
  <2>3. SyncInv'
    BY <1>5 DEF Restart, LocalsReset, SyncInv, MarksSeen, TwoCycles, Busy, Goroutines
  <2> QED
    BY <2>1, <2>2, <2>3, Zenon DEF TypeOK
<1>6. CASE UNCHANGED vars
  BY <1>1, <1>6, Zenon DEF vars, TypeOK, CnsTypeOK, K8sTypeOK, cnsVars, k8sVars, handlerVars
<1> QED
  BY <1>2, <1>3, <1>4, <1>5, <1>6, Zenon DEF Next

(* The variables of the syncer, the cluster and CNS keep their types. *)
THEOREM SyncerTypes == Spec => []TypeOK
<1>1. IInv => TypeOK
  BY Zenon DEF IInv
<1> QED
  BY <1>1, InitIInv, NextIInv, PTL DEF Spec

(* The two-cycle rule of full sync: a volume that it creates was missing   *)
(* from CNS, with its PV listed, in an earlier cycle and in this one, and  *)
(* a volume that it deletes was there without a listed PV in both, nor     *)
(* has a cycle in between seen the PV the other way, whatever handlers,    *)
(* users and failures do.                                                  *)
THEOREM TwoCycleRule == Spec => []TwoCycles
<1>1. IInv => TwoCycles
  BY Zenon DEF IInv, SyncInv
<1> QED
  BY <1>1, InitIInv, NextIInv, PTL DEF Spec

(* The same for a syncer that is started on a cluster in use, with         *)
(* whatever CNS holds then.                                                *)
THEOREM TwoCycleRuleInUse == SpecInUse => []TwoCycles
<1>1. IInv => TwoCycles
  BY Zenon DEF IInv, SyncInv
<1> QED
  BY <1>1, InitInUseIInv, NextIInv, PTL DEF SpecInUse

-----------------------------------------------------------------------------
(* The lock. *)

(* How the calls to CNS change the set of registered volumes. *)
LEMMA CallsAndRegistration ==
    /\ \A v : \A ok \in BOOLEAN :
          CreateDisk(v, ok) => registered \subseteq registered'
                               /\ registered' \subseteq registered \cup {v}
    /\ \A v, put : \A ok \in BOOLEAN :
          CreateVolume(v, put, ok) => registered \subseteq registered'
    /\ \A v : \A dd, ok \in BOOLEAN :
          DeleteVolume(v, dd, ok) => registered' \subseteq registered
                                     /\ registered \subseteq registered' \cup {v}
    /\ \A v, put, del : \A ok \in BOOLEAN :
          UpdateVolumeMetadata(v, put, del, ok) => registered' = registered
    /\ \A found : LookupFails(found) => registered' = registered
BY Zenon DEF Call, Fault, CreateVolume, CreateDisk, DeleteVolume, UpdateVolumeMetadata,
       LookupFails, cnsVars

LockStep ==
    /\ lock = "delete" => \A v \in Static : v \in registered' => v \in registered
    /\ lock = "create" => \A v \in Retained : v \in registered => v \in registered'

(* While a goroutine of full sync holds the lock, only that goroutine and  *)
(* the provisioner change which volumes CNS knows.                         *)
LEMMA LockedSteps ==
    ASSUME SyncInv, [Next]_vars
    PROVE  LockStep
<1>a. ASSUME registered' = registered PROVE LockStep
  BY <1>a, Zenon DEF LockStep
<1>b. ASSUME UNCHANGED cnsVars PROVE LockStep
  BY <1>a, <1>b, Zenon DEF cnsVars
<1>c. ASSUME lock = "free" PROVE LockStep
  BY <1>c, Zenon DEF LockStep
<1>1. ASSUME K8sNext PROVE LockStep
  <2>1. ASSUME NEW v \in Volumes, ProvisionVolume(v) PROVE LockStep
    <3>1. v \notin Static /\ registered \subseteq registered'
          /\ registered' \subseteq registered \cup {v}
      BY <2>1, CallsAndRegistration, Zenon DEF ProvisionVolume
    <3> QED
      BY <3>1, Zenon DEF LockStep
  <2>2. ASSUME NEW v \in Volumes, ReclaimVolume(v) PROVE LockStep
    <3>1. v \notin Retained /\ registered' \subseteq registered
          /\ registered \subseteq registered' \cup {v}
      BY Zenon, <2>2, CallsAndRegistration DEF ReclaimVolume
    <3> QED
      BY <3>1, Zenon DEF LockStep
  <2>3. CASE UNCHANGED cnsVars
    BY <2>3, <1>b, Zenon
  <2> QED
    BY <1>1, <2>1, <2>2, <2>3, Zenon
    DEF K8sNext, CreatePV, FreePV, ReleasePV, DeletePV, RemovePV, BindPV, LabelPV, CreatePVC,
        BindPVC, DeletePVC, LabelPVC, CreatePod, RunPod, FinishPod, DeletePod, OnlyPVC, OnlyPod
<1>2. ASSUME HandlersNext PROVE LockStep
  <2>1. ASSUME NEW e, pvUpdated(e) \/ pvDeleted(e) PROVE LockStep
    <3>1. \/ UNCHANGED cnsVars \/ lock = "free"
          \/ \E ok \in BOOLEAN :
                UpdateVolumeMetadata(e.id, {pvEntity(e.id, e.new.labels)}, {}, ok)
      BY <2>1, Zenon DEF pvUpdated, pvDeleted, Ignore
    <3> QED
      BY <3>1, <1>a, <1>b, <1>c, CallsAndRegistration
  <2>2. ASSUME NEW e, pvcUpdated(e) \/ pvcDeleted(e) PROVE LockStep
    <3>1. \/ UNCHANGED cnsVars \/ \E found : LookupFails(found)
          \/ \E v, put, del : \E ok \in BOOLEAN : UpdateVolumeMetadata(v, put, del, ok)
      BY <2>2, Zenon DEF pvcUpdated, pvcDeleted, Ignore
    <3> QED
      BY <3>1, <1>a, <1>b, CallsAndRegistration
  <2>3. ASSUME NEW p, NEW c, NEW flag, updatePodMetadata(p, c, flag) PROVE LockStep
    <3>1. \/ \E found : LookupFails(found)
          \/ \E v, put, del : \E ok \in BOOLEAN : UpdateVolumeMetadata(v, put, del, ok)
      BY <2>3, Zenon DEF updatePodMetadata
    <3> QED
      BY <3>1, <1>a, CallsAndRegistration
  <2> QED
    BY Zenon, <1>2, <1>b, <2>1, <2>2, <2>3
    DEF HandlersNext, HandlePV, HandlePVC, HandlePod, podUpdated, podDeleted, Ignore
<1>3. ASSUME FullSyncNext PROVE LockStep
  <2>1. ASSUME NEW v \in Volumes, fullSyncCreateVolumes(v) PROVE LockStep
    <3>1. lock = "create" /\ registered \subseteq registered'
      BY <2>1, CallsAndRegistration, ZenonT(30) DEF fullSyncCreateVolumes, SyncInv, cnsVars
    <3> QED
      BY <3>1, Zenon DEF LockStep
  <2>2. ASSUME NEW v \in Volumes, fullSyncDeleteVolumes(v) PROVE LockStep
    <3>1. lock = "delete" /\ registered' \subseteq registered
      BY Zenon, <2>2, CallsAndRegistration DEF fullSyncDeleteVolumes, SyncInv, cnsVars
    <3> QED
      BY <3>1, Zenon DEF LockStep
  <2>3. ASSUME NEW v \in Volumes, fullSyncUpdateVolumes(v) PROVE LockStep
    BY <2>3, <1>a, CallsAndRegistration DEF fullSyncUpdateVolumes
  <2>4. CASE UNCHANGED cnsVars \/ UNCHANGED registered
    BY <2>4, <1>a, <1>b, Zenon
  <2> QED
    BY <1>3, <2>1, <2>2, <2>3, <2>4, Zenon
    DEF FullSyncNext, ListPVs, QueryAllVolume, StartGoroutines, EndCycle, GetClaim, ListPods,
        buildVolumeMap, LockAndRelist, GoroutineDone
<1>4. ASSUME Restart \/ UNCHANGED vars PROVE LockStep
  BY <1>4, <1>b, Zenon DEF Restart, vars
<1> QED
  BY <1>1, <1>2, <1>3, <1>4, Zenon DEF Next

(* What volumeOperationsLock is for: full sync's listing of the PVs cannot *)
(* be overtaken by a handler before full sync has acted on it.             *)
THEOREM LockRule == Spec => LockProtects
<1>1. IInv /\ [Next]_vars => [LockStep]_vars
  BY LockedSteps, Zenon DEF IInv
<1> QED
  BY <1>1, InitIInv, NextIInv, PTL DEF Spec, LockProtects, LockStep
=============================================================================
