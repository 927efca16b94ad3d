-------------------------------- MODULE Syncer --------------------------------
(***************************************************************************)
(* The syncer process: the event handlers and full sync, over Kubernetes   *)
(* and CNS, with restarts.                                                 *)
(***************************************************************************)
EXTENDS FullSync

vars == <<cnsVars, k8sVars, handlerVars, syncVars>>

(* What CNS should have of a volume with a PV. *)
Desired(v) ==
    LET c == pvs[v].claim
    IN  {pvEntity(v, pvs[v].labels)} \cup
        (IF pvs[v].phase # "Bound" \/ c = NoClaim THEN {}
         ELSE IF pvcs[c] = NoObj THEN {}
         ELSE {pvcEntity(c, pvcs[c].labels)} \cup
              {podEntity(p) : p \in {q \in Pods : /\ pods[q] # NoObj
                                                  /\ pods[q].phase = "Running"
                                                  /\ c \in pods[q].claims}})

(* The syncer is started on an empty cluster. *)
Init == CnsInit /\ K8sInit /\ HandlersInit /\ SyncInit

(* The syncer is started on a cluster in use: bound and free volumes,      *)
(* pods, and in CNS whatever earlier runs left there.  Of the failures and *)
(* changes that the bounds allow, some may have happened before.           *)
InUsePV ==
    {NoObj} \cup [phase : {"Bound"}, labels : Labels, claim : Claims, deleting : {FALSE}]
            \cup [phase : {"Available"}, labels : Labels, claim : {NoClaim}, deleting : {FALSE}]

InitInUse ==
    /\ disk = [v \in Volumes |-> "present"] /\ faults \in 0..MaxFaults
    /\ registered \in SUBSET Volumes
    /\ pvs \in [Volumes -> InUsePV]
    /\ pvcs \in [Claims -> {NoObj} \cup [phase : {"Bound"}, labels : Labels, vol : Volumes]]
    /\ pods \in [Pods -> {NoObj} \cup [phase : {"Pending", "Running"}, claims : {{c} : c \in Claims}]]
    /\ \A v \in Volumes, c \in Claims :
          pvs[v] # NoObj /\ pvs[v].claim = c <=> pvcs[c] # NoObj /\ pvcs[c].vol = v
    /\ \A p \in Pods : pods[p] # NoObj => \A c \in pods[p].claims : pvcs[c] # NoObj
    /\ entities \in [Volumes -> SUBSET Entity]
    /\ \A v \in Volumes : /\ v \notin registered => entities[v] = {}
                          /\ \A e, f \in entities[v] : SameEntity(e, f) => e = f
                          /\ \A e \in entities[v] : e.type = "PV" => e.name = v
    /\ pvEvents = <<>> /\ pvcEvents = <<>> /\ podEvents = <<>> /\ changes \in 0..MaxChanges
    /\ HandlersInit /\ SyncInit

(* The process dies and starts again: it loses the maps, the cycle it was  *)
(* in and every event it had not handled; its informers list the objects   *)
(* anew and deliver them as additions, which no handler listens to.        *)
Restart ==
    /\ Op("Restart")
    /\ pvEvents' = <<>> /\ pvcEvents' = <<>> /\ podEvents' = <<>>
    /\ lock' = "free"
    /\ pc' = "idle" /\ todo' = {} /\ LocalsReset
    /\ cnsCreationMap' = {} /\ cnsDeletionMap' = {}
    /\ gpc' = [g \in Goroutines |-> "none"]
    /\ work' = [g \in Goroutines |-> {}]
    /\ current' = [g \in Goroutines |-> {}]
    /\ wg' = 0
    /\ seenMissing' = {} /\ seenOrphaned' = {}
    /\ UNCHANGED <<pvs, pvcs, pods, cnsVars>>

HandlersNext == HandlePV \/ HandlePVC \/ HandlePod

Next == \/ K8sNext /\ UNCHANGED <<lock, syncVars>>
        \/ HandlersNext /\ UNCHANGED syncVars
        \/ FullSyncNext
        \/ Restart

(* The ticker fires for ever, goroutines run, informers deliver.  Go's     *)
(* mutex does not starve a waiting handler.                                *)
Fairness == /\ WF_vars(FullSyncNext)
            /\ SF_vars(HandlePV /\ UNCHANGED syncVars)
            /\ WF_vars(HandlePVC /\ UNCHANGED syncVars)
            /\ WF_vars(HandlePod /\ UNCHANGED syncVars)

Spec == Init /\ [][Next]_vars

SpecInUse == InitInUse /\ [][Next]_vars

LiveSpec == Spec /\ Fairness

LiveSpecInUse == SpecInUse /\ Fairness

-----------------------------------------------------------------------------

(* The types of the variables. *)
TypeOK == CnsTypeOK /\ K8sTypeOK /\ SyncTypeOK

(* Full sync creates a volume in CNS only if CNS lacks it in this cycle    *)
(* and an earlier completed cycle missed it too, with its PV listed in     *)
(* this cycle and in every one since; and it deletes a volume only if CNS  *)
(* has it in this cycle, an earlier completed cycle saw it there without a *)
(* listed PV, and no cycle since listed one.  So neither is done for what  *)
(* one cycle alone saw: the marks in cnsCreationMap and cnsDeletionMap,    *)
(* kept across cycles and cleaned at their end, mean that much.            *)
TwoCycles ==
    /\ \A v \in work["create"] : v \in Keys /\ v \notin inCns /\ v \in seenMissing
    /\ \A v \in work["delete"] : v \notin Keys /\ v \in inCns /\ v \in seenOrphaned

(* What makes TwoCycles inductive: a mark stands for what a completed      *)
(* cycle, or this one, saw, a goroutine that is not running has no work,   *)
(* and wg counts at least the goroutines that run.                         *)
Busy(g) == IF gpc[g] = "none" THEN 0 ELSE 1

MarksSeen ==
    /\ \A v \in cnsCreationMap :
          \/ v \in seenMissing
          \/ pc \in {"compare", "wait"} /\ v \in Keys /\ v \notin todo /\ v \notin inCns
    /\ \A v \in cnsDeletionMap :
          v \in seenOrphaned \/ (pc = "wait" /\ v \in inCns /\ v \notin Keys)

SyncInv ==
    /\ TwoCycles
    /\ pc \in {"idle", "wait"} => todo = {}
    /\ \A v \in todo : listed[v] # NoObj /\ (pc = "claims" => listed[v].claim # NoClaim)
    /\ pc \in {"idle", "claims"} => \A v \in Volumes : op[v] = "absent"
    /\ pc # "wait" => \A g \in Goroutines : gpc[g] = "none"
    /\ \A g \in Goroutines : gpc[g] = "none" => work[g] = {}
    /\ wg >= Busy("create") + Busy("delete") + Busy("update")
    /\ \A g \in {"create", "delete"} : lock = g <=> gpc[g] = "run"
    /\ \A v \in Volumes :
          /\ op[v] # "absent" => v \in Keys
          /\ op[v] = "createVolume" => v \notin inCns /\ v \in seenMissing
    /\ work["update"] \subseteq Keys
    /\ MarksSeen

(* volumeOperationsLock: between the moment full sync lists the PVs again  *)
(* and its last deletion no static volume is registered, and between the   *)
(* listing and its last creation no volume that only the syncer deletes is *)
(* unregistered.  So full sync does not undo what a handler has just done. *)
LockProtects ==
    [][/\ lock = "delete" => \A v \in Static : v \in registered' => v \in registered
       /\ lock = "create" => \A v \in Retained : v \in registered => v \in registered']_vars

-----------------------------------------------------------------------------
(* What full sync repairs, once users stop changing the cluster and CNS    *)
(* stops failing (both are bounded here). *)

(* A volume whose PV is gone leaves CNS: a volume in CNS without a PV is   *)
(* deleted from it after two cycles, whatever events were lost.            *)
OrphansGo ==
    \A v \in Volumes : <>[](pvs[v] = NoObj) => <>[](v \notin registered)

(* A volume with a PV, and a disk, comes into CNS. *)
MissingCreated ==
    \A v \in Volumes : <>[](v \in Listed /\ disk[v] = "present") => <>[](v \in registered)

(* CNS comes to have the volumes of Kubernetes and no others, whatever     *)
(* events were lost, calls failed or provisioning raced with a cycle.      *)
CatalogueConverges == OrphansGo /\ MissingCreated

NoStaleEntry(v) == \A e \in entities[v] : \E d \in Desired(v) : SameEntity(d, e)

OnePodAtMost(v) == \A d, e \in Desired(v) : d.type = "POD" /\ e.type = "POD" => d = e

(* Labels and missing entries are repaired in every volume that at most    *)
(* one running pod uses and of which CNS has no entry too many.  Of        *)
(* several pods full sync looks at one, and goes by the number of entries. *)
MetadataConverges ==
    \A v \in Volumes :
        <>[](v \in Listed /\ v \in registered /\ OnePodAtMost(v) /\ NoStaleEntry(v))
            => <>[](v \in Listed => entities[v] = Desired(v))

OnePerType(v) == \A e, f \in entities[v] : e.type = f.type => e = f

(* Entries too many, at most one of each type, do not stay in CNS when the *)
(* rest of the volume's entries is right: a pod or a claim whose deletion  *)
(* the handlers missed.                                                    *)
StaleEntriesGo ==
    \A v \in Volumes :
        []<>~(/\ v \in Listed /\ v \in registered /\ OnePerType(v)
              /\ Desired(v) \subseteq entities[v] /\ Desired(v) # entities[v])

(* The PV handlers, which wait for the lock, never stop: every PV event is *)
(* handled, even while full sync is stuck after a failed listing in a      *)
(* goroutine.                                                              *)
EventsHandled == <>[](pvEvents = <<>>)
=============================================================================
