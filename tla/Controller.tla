------------------------------ MODULE Controller ------------------------------
(***************************************************************************)
(* The CSI controller service (csi/service/cns/controller.go) with the     *)
(* helpers it calls (common/vsphereutil.go, cns-lib/volume/manager.go)     *)
(* through the life of one claim: CreateVolume, ControllerPublishVolume,   *)
(* ControllerUnpublishVolume and DeleteVolume, one step per call to vCenter. *)
(* The serial volume access middleware (provider.go) refuses a call while  *)
(* another one for the same volume, or the same name, runs: there is one   *)
(* call at a time.  A caller may give up and call again; a handler goes on *)
(* (the volume manager's calls have a context of their own).               *)
(*                                                                         *)
(* The cluster's side (provisioner, attacher, attach/detach controller)    *)
(* and CNS are external.  CNS makes a new volume for every CreateVolume;   *)
(* how it answers a request for work already done (again) is a parameter   *)
(* chosen at the start.  CNS tasks of one volume end in order.             *)
(***************************************************************************)
EXTENDS Topology

CONSTANTS Nodes, NoNode,
          Cases,            \* the inventories and requests considered, a sequence
          InitialNodes,     \* the sets of nodes that may be known at the start
          MaxFaults,        \* bound: failures, timeouts and crashes
          MaxChanges        \* bound: changes of the cluster

ASSUME ControllerAssumption ==
    /\ NoNode \notin Nodes /\ InitialNodes \subseteq SUBSET Nodes
    /\ MaxFaults \in Nat /\ MaxChanges \in Nat

(* An inventory has the nodes, and a request asks for topologies. *)
ASSUME CasesAssumption ==
    /\ IsFiniteSet(Nodes)
    /\ \A c \in DOMAIN Cases :
          /\ \A n \in Nodes : Inventory(Cases[c].inv, n)
          /\ Range(Cases[c].req.preferred) \cup Range(Cases[c].req.requisite)
                \subseteq Topologies

VARIABLES case,             \* which inventory and request, fixed
          found,            \* what CreateVolume finds among a set of nodes, fixed
          again,            \* "ok" or "fault": CNS's answer to work already done
          nodes,            \* nodes the node manager knows
          cns,              \* the volumes: datastore, VM, "kept" or "deleted"
          call,             \* the call that runs
          claim,            \* "wanted", "deleting" or "gone"
          pv,               \* the volume of the PV, its topology, and the nodes
                            \* that were known when its datastore was chosen
          va, vaState,      \* the VolumeAttachment: its node and where it stands
          forced,           \* history: a VolumeAttachment was removed by hand
          changes, faults

fixed == <<case, found, again>>
kube  == <<claim, pv, va, vaState, forced>>
vars  == <<fixed, nodes, cns, call, kube, changes, faults>>

NoUrl  == ""
NoPV   == [vol |-> 0, topo |-> NoTopology, seen |-> {}]
NoCall == [op |-> "none", step |-> "none", node |-> NoNode, waits |-> FALSE,
           vol |-> 0, ds |-> {}, map |-> << >>, seen |-> {}]

inv == Cases[case].inv
req == Cases[case].req

(* The shared datastores, and which topologies each of them serves. *)
SharedDatastores(ns) ==
    IF ~ req.topology
    THEN With(GetSharedDatastoresInK8SCluster(inv, ns), << >>)
    ELSE IF inv.labels THEN GetSharedDatastoresInTopology(inv, ns, req)
    ELSE With(Failed, << >>)

Init == /\ case \in DOMAIN Cases /\ again \in {"ok", "fault"}
        /\ found = [ns \in SUBSET Nodes |-> SharedDatastores(ns)]
        /\ nodes \in InitialNodes
        /\ cns = << >> /\ call = NoCall
        /\ claim = "wanted" /\ pv = NoPV
        /\ va = NoNode /\ vaState = "none" /\ forced = FALSE
        /\ changes = 0 /\ faults = 0

Fault  == faults < MaxFaults /\ faults' = faults + 1
Change == changes < MaxChanges /\ changes' = changes + 1
At(op, step) == call.op = op /\ call.step = step

-----------------------------------------------------------------------------
(* The cluster *)

(* A call begins; gocsi would refuse it while another one runs. *)
Begin(op, n) ==
    /\ call = NoCall
    /\ call' = [NoCall EXCEPT !.op = op, !.step = "start", !.node = n, !.waits = TRUE,
                              !.vol = pv.vol]
    /\ UNCHANGED <<fixed, nodes, cns, kube, changes, faults>>

ProvisionerCreates == claim = "wanted" /\ pv = NoPV /\ Begin("create", NoNode)
ProvisionerDeletes == claim = "deleting" /\ Begin("delete", NoNode)
AttacherAttaches   == vaState = "attaching" /\ Begin("publish", va)
AttacherDetaches   == vaState = "detaching" /\ Begin("unpublish", va)

(* The caller gives up.  A crash, or a panic, ends the call as well. *)
Timeout == /\ call.waits /\ Fault
           /\ call' = [call EXCEPT !.waits = FALSE]
           /\ UNCHANGED <<fixed, nodes, cns, kube, changes>>

Crash == /\ call # NoCall /\ Fault
         /\ call' = NoCall
         /\ UNCHANGED <<fixed, nodes, cns, kube, changes>>

(* What an answer does to the cluster, if the caller still waits for it. *)
Error == call' = NoCall /\ UNCHANGED kube

Created(vol, topo) ==
    /\ call' = NoCall
    /\ pv' = IF call.waits THEN [vol |-> vol, topo |-> topo, seen |-> call.seen] ELSE pv
    /\ UNCHANGED <<claim, va, vaState, forced>>

Deleted ==
    /\ call' = NoCall
    /\ claim' = IF call.waits THEN "gone" ELSE claim
    /\ pv' = IF call.waits THEN NoPV ELSE pv
    /\ UNCHANGED <<va, vaState, forced>>

Published ==
    /\ call' = NoCall
    /\ vaState' = IF call.waits /\ vaState = "attaching" /\ va = call.node
                  THEN "attached" ELSE vaState
    /\ UNCHANGED <<claim, pv, va, forced>>

Unpublished ==
    /\ call' = NoCall
    /\ LET gone == call.waits /\ vaState = "detaching" /\ va = call.node
       IN  /\ vaState' = IF gone THEN "none" ELSE vaState
           /\ va' = IF gone THEN NoNode ELSE va
    /\ UNCHANGED <<claim, pv, forced>>

(* A pod is scheduled where the PV's topology allows it, and goes; the     *)
(* claim is deleted; an attachment is removed by hand, without a call.     *)
AddAttachment ==
    /\ claim = "wanted" /\ pv # NoPV /\ vaState = "none" /\ Change
    /\ \E n \in {m \in Nodes : Matches(NodeLabels(inv, m), pv.topo)} : va' = n
    /\ vaState' = "attaching"
    /\ UNCHANGED <<fixed, nodes, cns, call, claim, pv, forced, faults>>

RemoveAttachment ==
    /\ vaState \in {"attaching", "attached"}
    /\ vaState' = "detaching"
    /\ UNCHANGED <<fixed, nodes, cns, call, claim, pv, va, forced, changes, faults>>

ForceRemoveAttachment ==
    /\ vaState = "detaching" /\ Fault
    /\ vaState' = "none" /\ va' = NoNode /\ forced' = TRUE
    /\ UNCHANGED <<fixed, nodes, cns, call, claim, pv, changes>>

DeleteClaim ==
    /\ claim = "wanted" /\ pv # NoPV /\ vaState = "none"
    /\ claim' = "deleting"
    /\ UNCHANGED <<fixed, nodes, cns, call, pv, va, vaState, forced, changes, faults>>

NodeJoins  == /\ Change /\ \E n \in Nodes \ nodes : nodes' = nodes \cup {n}
              /\ UNCHANGED <<fixed, cns, call, kube, faults>>
NodeLeaves == /\ Change /\ \E n \in nodes : nodes' = nodes \ {n}
              /\ UNCHANGED <<fixed, cns, call, kube, faults>>

-----------------------------------------------------------------------------
(* CreateVolume *)

(* A call to vCenter or CNS that fails without effect ends the handler. *)
VCenterFails(op) ==
    /\ call.op = op /\ Fault /\ Error
    /\ UNCHANGED <<fixed, nodes, cns, changes>>

(* CreateVolumeUtil: a datastore named by the storage class must be shared *)
(* and lie in one of the configured datacenters.                           *)
Candidates(shared) ==
    IF req.url = NoUrl THEN shared ELSE {req.url} \cap shared \cap inv.listed

(* CreateVolume up to the request to CNS: the searches use the request's   *)
(* context, so that a caller who gave up may have ended them.              *)
ChooseDatastores ==
    LET r == found[nodes]
        ds == Candidates(r.ds)
    IN  /\ At("create", "start")
        /\ \/ (r.err \/ ds = {} \/ ~ call.waits) /\ Error
           \/ /\ ~ r.err /\ ds # {}
              /\ call' = [call EXCEPT !.step = "create", !.ds = ds, !.map = r.map,
                                      !.seen = nodes]
              /\ UNCHANGED kube
        /\ UNCHANGED <<fixed, nodes, cns, changes, faults>>

(* The request is sent again when its answer is lost. *)
CreateVolumeTwice ==
    /\ At("create", "create")
    /\ \E d \in call.ds :
           cns' = cns \o [i \in 1..2 |-> [ds |-> d, vm |-> NoNode, state |-> "kept"]]
    /\ \/ /\ DOMAIN call.map # {}
          /\ call' = [call EXCEPT !.step = "query", !.vol = Len(cns')]
          /\ UNCHANGED kube
       \/ DOMAIN call.map = {} /\ Created(Len(cns'), NoTopology)
    /\ UNCHANGED <<fixed, nodes, changes, faults>>

(* The task's result is not looked at: it may hold a fault. *)
CreateVolumeUnchecked ==
    /\ At("create", "create")
    /\ Fault /\ Created(Len(cns) + 1, NoTopology)
    /\ UNCHANGED <<fixed, nodes, cns, changes>>

(* CNS places the volume.  If its answer is lost the volume stays behind.  *)
CreateVolume ==
    /\ At("create", "create")
    /\ \E d \in call.ds : cns' = Append(cns, [ds |-> d, vm |-> NoNode, state |-> "kept"])
    /\ \/ /\ DOMAIN call.map # {}
          /\ call' = [call EXCEPT !.step = "query", !.vol = Len(cns')]
          /\ UNCHANGED <<kube, faults>>
       \/ DOMAIN call.map = {} /\ Created(Len(cns'), NoTopology) /\ UNCHANGED faults
       \/ Fault /\ Error
    /\ UNCHANGED <<fixed, nodes, changes>>

(* QueryVolume tells the datastore, and one of its topologies is picked.   *)
(* If the query finds no volume (CNS does not list it yet, or any more),   *)
(* or the map has nothing for the datastore, the answer has no topology.   *)
QueryDatastore ==
    LET d    == cns[call.vol].ds
        told == IF d \in DOMAIN call.map THEN call.map[d] ELSE {}
    IN  /\ At("create", "query")
        /\ \/ /\ \E t \in IF told = {} THEN {NoTopology} ELSE told : Created(call.vol, t)
              /\ UNCHANGED faults
           \/ Fault /\ Created(call.vol, NoTopology)
        /\ UNCHANGED <<fixed, nodes, cns, changes>>

-----------------------------------------------------------------------------
(* DeleteVolume, ControllerPublishVolume, ControllerUnpublishVolume *)

(* The handler succeeds only if CNS says so, and not if the answer is lost. *)
Reply(ok, Success) ==
    \/ ok /\ Success /\ UNCHANGED faults
    \/ ~ ok /\ Error /\ UNCHANGED faults
    \/ Fault /\ Error

DeleteVolume ==
    LET v == cns[call.vol]
    IN  /\ At("delete", "start")
        /\ cns' = IF v.vm = NoNode THEN [cns EXCEPT ![call.vol].state = "deleted"] ELSE cns
        /\ Reply(v.vm = NoNode /\ (v.state = "kept" \/ again = "ok"), Deleted)
        /\ UNCHANGED <<fixed, nodes, changes>>

(* A node that is not known needs no detaching. *)
GetNodeByNameLenient(op) ==
    /\ At(op, "start")
    /\ \/ call.node \notin nodes /\ op = "publish" /\ Error
       \/ call.node \notin nodes /\ op = "unpublish" /\ Unpublished
       \/ /\ call.node \in nodes
          /\ call' = [call EXCEPT !.step = "cns"] /\ UNCHANGED kube
    /\ UNCHANGED <<fixed, nodes, cns, changes, faults>>

(* GetNodeByName, in both handlers. *)
GetNodeByName(op) ==
    /\ At(op, "start")
    /\ \/ call.node \notin nodes /\ Error
       \/ /\ call.node \in nodes
          /\ call' = [call EXCEPT !.step = "cns"] /\ UNCHANGED kube
    /\ UNCHANGED <<fixed, nodes, cns, changes, faults>>

(* AttachVolume.  A volume in use may be attached to this VM already.      *)
(* vCenter refuses a VM whose host cannot access the volume's datastore.   *)
AttachVolume ==
    LET v == cns[call.vol]
        accessible == v.ds \in inv.access[call.node]
    IN  /\ At("publish", "cns")
        /\ \/ /\ v.state = "kept" /\ v.vm = NoNode /\ accessible
              /\ cns' = [cns EXCEPT ![call.vol].vm = call.node]
              /\ Reply(TRUE, Published)
           \/ /\ v.vm # NoNode
              /\ call' = [call EXCEPT !.step = "inuse"]
              /\ UNCHANGED <<cns, kube, faults>>
           \/ /\ v.state = "deleted" \/ (v.vm = NoNode /\ ~ accessible)
              /\ Error /\ UNCHANGED <<cns, faults>>
        /\ UNCHANGED <<fixed, nodes, changes>>

(* In use is an error like any other. *)
InUseIsError ==
    /\ At("publish", "inuse") /\ Error
    /\ UNCHANGED <<fixed, nodes, cns, changes, faults>>

GetDiskAttachedToVM ==
    /\ At("publish", "inuse")
    /\ \/ cns[call.vol].vm = call.node /\ Published
       \/ cns[call.vol].vm # call.node /\ Error
    /\ UNCHANGED <<fixed, nodes, cns, changes, faults>>

(* Detaching what is not attached is an error. *)
DetachOnce ==
    LET here == cns[call.vol].vm = call.node
    IN  /\ At("unpublish", "cns")
        /\ cns' = IF here THEN [cns EXCEPT ![call.vol].vm = NoNode] ELSE cns
        /\ Reply(here, Unpublished)
        /\ UNCHANGED <<fixed, nodes, changes>>

DetachVolume ==
    LET here == cns[call.vol].vm = call.node
    IN  /\ At("unpublish", "cns")
        /\ cns' = IF here THEN [cns EXCEPT ![call.vol].vm = NoNode] ELSE cns
        /\ Reply(here \/ again = "ok", Unpublished)
        /\ UNCHANGED <<fixed, nodes, changes>>

-----------------------------------------------------------------------------
Handlers == {"create", "delete", "publish", "unpublish"}

HandlerSteps ==
    \/ ChooseDatastores \/ CreateVolume \/ QueryDatastore
    \/ DeleteVolume
    \/ \E op \in {"publish", "unpublish"} : GetNodeByName(op)
    \/ AttachVolume \/ GetDiskAttachedToVM \/ DetachVolume

Calls == ProvisionerCreates \/ ProvisionerDeletes \/ AttacherAttaches \/ AttacherDetaches

Next == \/ HandlerSteps \/ Calls
        \/ \E op \in Handlers : VCenterFails(op)
        \/ Timeout \/ Crash
        \/ AddAttachment \/ RemoveAttachment \/ ForceRemoveAttachment \/ DeleteClaim
        \/ NodeJoins \/ NodeLeaves

(* A handler that runs goes on, and the cluster's controllers retry.       *)
Fairness == WF_vars(HandlerSteps) /\ WF_vars(Calls)

Spec == Init /\ [][Next]_vars /\ Fairness

-----------------------------------------------------------------------------
(* Types.  A call for an existing volume names the one in the PV: no call  *)
(* outlives the volume it was made for.                                    *)
TypeOK == /\ nodes \subseteq Nodes
          /\ \A i \in DOMAIN cns : /\ cns[i].vm \in Nodes \cup {NoNode}
                                   /\ cns[i].state \in {"kept", "deleted"}
          /\ pv.vol \in {0} \cup DOMAIN cns
          /\ call.op \in Handlers \cup {"none"}
          /\ call.op \notin {"none", "create"} => call.vol = pv.vol /\ pv # NoPV
          /\ (vaState = "none") = (va = NoNode)
          /\ vaState \in {"none", "attaching", "attached", "detaching"}
          /\ vaState # "none" => pv # NoPV /\ claim = "wanted"
          /\ claim \in {"wanted", "deleting", "gone"}
          /\ faults \in 0..MaxFaults /\ changes \in 0..MaxChanges

(* The nodes ns that topology t names, by their nearest tags. *)
Selected(c, ns, t) ==
    {n \in ns : /\ t # NoTopology
                /\ t.zone \in {"", NearestTag(c.inv, n, "zone")}
                /\ t.region \in {"", NearestTag(c.inv, n, "region")}}

(* The nodes ns on which topology t lets a pod run can access datastore d. *)
Serves(d, t, ns) == \A n \in ns : Matches(NodeLabels(inv, n), t) => d \in inv.access[n]

(* A volume on datastore d, chosen among the nodes ns, is answered with    *)
(* topology topo.                                                          *)
Placed(d, topo, ns) ==
    IF req.topology /\ topo = NoTopology
    THEN \E t \in Range(req.preferred) \cup Range(req.requisite) :
            Selected(Cases[case], ns, t) # {} /\ Serves(d, t, ns)
    ELSE Serves(d, topo, ns)

(* CreateVolume puts the volume where its pods can use it: every node that *)
(* was known when the datastores were chosen, and on which the PV's        *)
(* topology lets a pod run, can access the volume's datastore.  A volume   *)
(* for which topologies were asked may be answered without one, because    *)
(* the query did not find it; then the PV lets a pod run anywhere, and     *)
(* only this is sure: one of the topologies asked for has nodes, and all   *)
(* of those can access the datastore.                                      *)
Reachable == pv # NoPV => Placed(cns[pv.vol].ds, pv.topo, pv.seen)

(* A volume that no PV names, and no running CreateVolume is about to      *)
(* return, was left by a failure; each failure leaves at most one.         *)
LeaksBounded ==
    Cardinality({i \in DOMAIN cns : /\ cns[i].state = "kept" /\ i # pv.vol
                                    /\ ~ (call.op = "create" /\ i = call.vol)}) <= faults

(* The answers of ControllerPublishVolume and ControllerUnpublishVolume are *)
(* true, and stay true: while the attachment says attached, the volume is   *)
(* attached to that node's VM; once it is gone, and was not removed by      *)
(* hand, the volume is attached to no VM.                                   *)
AttachmentsTrue ==
    /\ vaState = "attached" => cns[pv.vol].vm = va
    /\ pv # NoPV /\ vaState = "none" /\ ~ forced => cns[pv.vol].vm = NoNode

(* What the request asks for, by intersection and the nearest tags.        *)
SatisfiableFor(c, ns) ==
    LET usable(ds)  == IF c.req.url = NoUrl THEN ds # {}
                       ELSE c.req.url \in ds \cap c.inv.listed
        served(arr) == {t \in Range(arr) : Selected(c, ns, t) # {}}
        all(arr)    == UNION {Common(c.inv, Selected(c, ns, t)) : t \in served(arr)}
        fits(arr)   == /\ usable(all(arr))
                       /\ \A t \in served(arr) : Common(c.inv, Selected(c, ns, t)) # {}
    IN  IF ~ c.req.topology THEN usable(Common(c.inv, ns))
        ELSE /\ c.inv.labels
             /\ \/ fits(c.req.preferred)
                \/ served(c.req.preferred) = {} /\ fits(c.req.requisite)

SatisfiableTable ==
    [c \in DOMAIN Cases |-> [ns \in SUBSET Nodes |-> SatisfiableFor(Cases[c], ns)]]

Satisfiable == SatisfiableTable[case][nodes]

(* A request that can be satisfied is: if from some time on the nodes of   *)
(* every preferred topology (or, if no preferred one has nodes, of every   *)
(* requisite one; or all nodes, if no topology is asked for) share a       *)
(* datastore the claim may use, the provisioner gets its volume.           *)
ProvisionEnds == <>[]Satisfiable => <>(pv # NoPV)

(* And only then: a volume is made only for a request that could be        *)
(* satisfied when the datastores were chosen.                              *)
OnlySatisfiable ==
    [][At("create", "start") /\ call'.step = "create" => Satisfiable]_vars

(* An attachment ends up attached, whatever failed or was repeated before: *)
(* unless the pod goes, the node is unknown or its host cannot access the  *)
(* datastore (see Reachable), or the volume is in use on another VM, on    *)
(* which an attachment removed by hand left it.                            *)
AttachEnds ==
    ~ <>[](/\ vaState = "attaching" /\ va \in nodes
           /\ cns[pv.vol].vm \in {NoNode, va} /\ cns[pv.vol].ds \in inv.access[va])

(* A detachment ends if the node stays known and CNS takes a detach of a   *)
(* volume that is not attached for done; so does a deletion, of a volume   *)
(* that is not attached.  (With the other answer of CNS the handlers fail  *)
(* for ever after one lost answer.)                                        *)
DetachEnds ==
    again = "ok" => /\ ~ <>[](vaState = "detaching" /\ va \in nodes)
                    /\ ~ <>[](claim = "deleting" /\ cns[pv.vol].vm = NoNode)
===============================================================================
