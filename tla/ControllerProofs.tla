--------------------------- MODULE ControllerProofs ---------------------------
(***************************************************************************)
(* Theorems about the controller service, for every inventory, request,    *)
(* set of nodes and bound: its types, the truth of the answers that the    *)
(* attacher gets, the number of volumes that failures leave behind, and    *)
(* where CreateVolume puts a volume.                                       *)
(***************************************************************************)
EXTENDS Controller, TLAPS

-----------------------------------------------------------------------------
(* What the datastores and topologies are does not matter here: they are   *)
(* those that CreateVolume may find.                                       *)
Datastores == UNION {found[ns].ds : ns \in SUBSET Nodes}
Maps       == {<< >>} \cup {found[ns].map : ns \in SUBSET Nodes}
Hosts      == Nodes \cup {NoNode}
Steps      == {"none", "start", "create", "query", "cns", "inuse"}

Volume == [ds : Datastores, vm : Hosts, state : {"kept", "deleted"}]
Call   == [op : Handlers \cup {"none"}, step : Steps, node : Hosts, waits : BOOLEAN,
           vol : Nat, ds : SUBSET Datastores, map : Maps, seen : SUBSET Nodes]

(* The shapes of the state. *)
Shapes == /\ nodes \subseteq Nodes
          /\ cns \in Seq(Volume) /\ call \in Call
          /\ va \in Hosts /\ vaState \in {"none", "attaching", "attached", "detaching"}
          /\ claim \in {"wanted", "deleting", "gone"} /\ forced \in BOOLEAN
          /\ faults \in 0..MaxFaults /\ changes \in 0..MaxChanges
          /\ pv # NoPV => pv.vol \in 1..Len(cns)

(* A call runs for the PV there is, or, to create a volume, while there is *)
(* none; a volume that CreateVolume has made and not returned is not       *)
(* attached.                                                               *)
CallInv ==
    /\ call.op = "none" => call = NoCall
    /\ call.op \in {"delete", "publish", "unpublish"} => call.vol = pv.vol /\ pv # NoPV
    /\ call.op = "create" => pv = NoPV /\ (call.step # "query" => call.vol = 0)
    /\ At("create", "query") => call.vol \in 1..Len(cns) /\ cns[call.vol].vm = NoNode

(* The attachment and the VM: unless an attachment was removed by hand, a  *)
(* volume is attached to no other VM than that of the attachment's node,   *)
(* for which every running publish or unpublish call was made; and no such *)
(* call runs while the attachment says attached.                           *)
AttachInv ==
    /\ (vaState = "none") = (va = NoNode)
    /\ vaState # "none" => pv # NoPV /\ claim = "wanted"
    /\ claim = "deleting" => pv # NoPV
    /\ claim = "wanted" \/ call.op # "create"
    /\ call.op = "delete" => claim = "deleting"
    /\ call.op \in {"publish", "unpublish"} =>
           call.node \in Nodes /\ vaState # "attached" /\ (~ forced => va = call.node)
    /\ pv # NoPV /\ ~ forced => cns[pv.vol].vm \in {NoNode, va}
    /\ vaState = "attached" => cns[pv.vol].vm = va

IInv == Shapes /\ CallInv /\ AttachInv

-----------------------------------------------------------------------------
(* The sets of volumes and calls depend only on what is fixed. *)
LEMMA SameSets ==
    ASSUME UNCHANGED fixed
    PROVE  Volume' = Volume /\ Call' = Call
BY ZenonT(30) DEF fixed, Volume, Call, Datastores, Maps, Hosts

(* No call is a call. *)
LEMMA NoCallTypes == NoCall \in Call
<1>1. NoNode \in Hosts /\ << >> \in Maps
  BY Zenon DEF Hosts, Maps
<1>2. ASSUME NEW m \in Maps, NEW n \in Hosts
      PROVE  [op |-> "none", step |-> "none", node |-> n, waits |-> FALSE,
              vol |-> 0, ds |-> {}, map |-> m, seen |-> {}] \in Call
  BY Zenon DEF Call, Steps
<1> QED
  BY <1>1, <1>2, Zenon DEF NoCall

(* A call that has begun, that goes on to its next step, or whose caller   *)
(* has given up.                                                           *)
LEMMA BeginTypes ==
    ASSUME NEW op \in Handlers, NEW n \in Hosts, NEW vol \in Nat
    PROVE  [NoCall EXCEPT !.op = op, !.step = "start", !.node = n, !.waits = TRUE,
                          !.vol = vol] \in Call
BY NoCallTypes, Zenon DEF Call, Steps

LEMMA StepTypes ==
    ASSUME call \in Call, NEW step \in Steps, call' = [call EXCEPT !.step = step]
    PROVE  /\ call' \in Call /\ call'.step = step /\ call'.op = call.op
           /\ call'.node = call.node /\ call'.waits = call.waits /\ call'.vol = call.vol
BY Zenon DEF Call

LEMMA WaitTypes ==
    ASSUME call \in Call, call' = [call EXCEPT !.waits = FALSE]
    PROVE  /\ call' \in Call /\ call'.waits = FALSE /\ call'.op = call.op
           /\ call'.node = call.node /\ call'.step = call.step /\ call'.vol = call.vol
BY Zenon DEF Call

LEMMA InitIInv == Init => IInv
<1> SUFFICES ASSUME Init PROVE IInv
  BY Zenon
<1>1. Shapes
  <2>1. cns \in Seq(Volume)
    BY DEF Init
  <2>2. nodes \subseteq Nodes /\ call \in Call /\ va \in Hosts
    BY NoCallTypes, ControllerAssumption, Zenon DEF Init, Hosts
  <2>3. faults \in 0..MaxFaults /\ changes \in 0..MaxChanges
    BY ControllerAssumption DEF Init
  <2> QED
    BY <2>1, <2>2, <2>3, Zenon DEF Init, Shapes
<1>2. CallInv
  BY Zenon DEF Init, CallInv, NoCall, At, NoPV
<1>3. AttachInv
  BY Zenon DEF Init, AttachInv, NoCall, NoPV
<1> QED
  BY <1>1, <1>2, <1>3, Zenon DEF IInv

(* The steps of the cluster's objects and nodes. *)
LEMMA ClusterInv ==
    ASSUME IInv,
           \/ AddAttachment \/ RemoveAttachment \/ ForceRemoveAttachment \/ DeleteClaim
           \/ NodeJoins \/ NodeLeaves
    PROVE  IInv'
<1>0. /\ UNCHANGED <<fixed, cns, call, pv>> /\ nodes' \subseteq Nodes
  BY Zenon DEF AddAttachment, RemoveAttachment, ForceRemoveAttachment, DeleteClaim, NodeJoins,
         NodeLeaves, kube, IInv, Shapes
<1>1. Shapes'
  <2>1. /\ va' \in Hosts /\ vaState' \in {"none", "attaching", "attached", "detaching"}
        /\ claim' \in {"wanted", "deleting", "gone"} /\ forced' \in BOOLEAN
    BY Zenon DEF AddAttachment, RemoveAttachment, ForceRemoveAttachment, DeleteClaim, NodeJoins,
           NodeLeaves, kube, IInv, Shapes, Hosts
  <2>2. faults' \in 0..MaxFaults /\ changes' \in 0..MaxChanges
    BY ControllerAssumption
    DEF AddAttachment, RemoveAttachment, ForceRemoveAttachment, DeleteClaim, NodeJoins,
        NodeLeaves, Fault, Change, IInv, Shapes
  <2> QED
    BY <1>0, <2>1, <2>2, SameSets, Zenon DEF IInv, Shapes, NoPV
<1>2. CallInv'
  BY <1>0, Zenon DEF CallInv, IInv, At
<1>3. AttachInv'
  BY <1>0, ControllerAssumption
  DEF AddAttachment, RemoveAttachment, ForceRemoveAttachment, DeleteClaim, NodeJoins,
      NodeLeaves, kube, IInv, Shapes, AttachInv, CallInv, NoCall
<1> QED
  BY <1>1, <1>2, <1>3, Zenon DEF IInv

-----------------------------------------------------------------------------
(* What CNS does to its volumes. *)

(* A new volume is the last one, and attached to no VM. *)
LEMMA NewVolume ==
    ASSUME Shapes, NEW d \in Datastores,
           cns' = Append(cns, [ds |-> d, vm |-> NoNode, state |-> "kept"])
    PROVE  /\ cns' \in Seq(Volume) /\ Len(cns) \in Nat /\ Len(cns') = Len(cns) + 1
           /\ cns'[Len(cns')].vm = NoNode /\ cns'[Len(cns')].state = "kept"
           /\ cns'[Len(cns')].ds = d
           /\ \A i \in 1..Len(cns) : cns'[i] = cns[i]
<1> DEFINE v == [ds |-> d, vm |-> NoNode, state |-> "kept"]
<1>1. v \in Volume /\ v.vm = NoNode /\ v.state = "kept" /\ v.ds = d
  BY Zenon DEF Volume, Hosts
<1>2. cns \in Seq(Volume)
  BY Zenon DEF Shapes
<1> HIDE DEF v
<1>3. cns' = Append(cns, v)
  BY Zenon DEF v
<1> QED
  BY <1>1, <1>2, <1>3

(* One volume is attached, detached or deleted. *)
LEMMA ChangedVolume ==
    ASSUME Shapes, NEW k \in 1..Len(cns), NEW n \in Hosts,
           \/ cns' = [cns EXCEPT ![k].vm = n]
           \/ cns' = [cns EXCEPT ![k].state = "deleted"]
    PROVE  /\ cns' \in Seq(Volume) /\ Len(cns') = Len(cns)
           /\ \A i \in 1..Len(cns) :
                 (i # k => cns'[i] = cns[i]) /\ cns'[i].ds = cns[i].ds
           /\ cns' = [cns EXCEPT ![k].vm = n] =>
                 cns'[k].vm = n /\ cns'[k].state = cns[k].state
           /\ cns' = [cns EXCEPT ![k].state = "deleted"] =>
                 cns'[k].vm = cns[k].vm /\ cns'[k].state = "deleted"
<1>1. cns \in Seq(Volume) /\ cns[k] \in Volume
  BY DEF Shapes
<1>2. CASE cns' = [cns EXCEPT ![k].vm = n]
  <2>1. [cns[k] EXCEPT !.vm = n] \in Volume
    BY <1>1, Zenon DEF Volume
  <2> QED
    BY <1>1, <1>2, <2>1 DEF Volume
<1>3. CASE cns' = [cns EXCEPT ![k].state = "deleted"]
  <2>1. [cns[k] EXCEPT !.state = "deleted"] \in Volume
    BY <1>1, Zenon DEF Volume
  <2> QED
    BY <1>1, <1>3, <2>1 DEF Volume
<1> QED
  BY <1>2, <1>3, Zenon

-----------------------------------------------------------------------------
(* The calls. *)

(* A call that ends without an answer, or with an error, leaves the cluster *)
(* as it was; CNS may have done the work.                                   *)
LEMMA EndInv ==
    ASSUME IInv, call' = NoCall, UNCHANGED <<fixed, nodes, kube, changes>>,
           Fault \/ UNCHANGED faults, cns' \in Seq(Volume), Len(cns) <= Len(cns'),
           pv # NoPV =>
               \/ cns'[pv.vol].vm = cns[pv.vol].vm
               \/ vaState # "attached" /\ (forced \/ cns'[pv.vol].vm \in {NoNode, va})
    PROVE  IInv'
<1>1. Shapes'
  <2>1. faults' \in 0..MaxFaults
    BY ControllerAssumption DEF Fault, IInv, Shapes
  <2>2. pv # NoPV => pv.vol \in 1..Len(cns')
    <3>1. Len(cns) \in Nat /\ Len(cns') \in Nat
      BY DEF IInv, Shapes
    <3> QED
      BY <3>1 DEF IInv, Shapes
  <2> QED
    BY <2>1, <2>2, NoCallTypes, SameSets, Zenon DEF IInv, Shapes, kube
<1>2. CallInv'
  BY Zenon DEF CallInv, NoCall, At
<1>3. AttachInv'
  BY Zenon DEF IInv, AttachInv, NoCall, kube
<1> QED
  BY <1>1, <1>2, <1>3, Zenon DEF IInv

(* So does one that CNS has done nothing for. *)
LEMMA ErrorInv ==
    ASSUME IInv, call' = NoCall, UNCHANGED <<fixed, nodes, cns, kube, changes>>,
           Fault \/ UNCHANGED faults
    PROVE  IInv'
<1>1. cns' \in Seq(Volume) /\ Len(cns) <= Len(cns')
  BY DEF IInv, Shapes
<1> QED
  BY <1>1, EndInv, Zenon

(* A call begins, for the PV there is. *)
LEMMA CallsInv ==
    ASSUME IInv, Calls
    PROVE  IInv'
<1>0. PICK op \in Handlers, n \in Hosts :
        /\ Begin(op, n)
        /\ op = "create" => claim = "wanted" /\ pv = NoPV
        /\ op = "delete" => claim = "deleting"
        /\ op = "publish" => vaState = "attaching" /\ n = va
        /\ op = "unpublish" => vaState = "detaching" /\ n = va
  BY Zenon DEF Calls, ProvisionerCreates, ProvisionerDeletes, AttacherAttaches, AttacherDetaches,
         Handlers, Hosts, IInv, Shapes
<1>1. /\ UNCHANGED <<fixed, nodes, cns, kube, changes, faults>>
      /\ call' = [NoCall EXCEPT !.op = op, !.step = "start", !.node = n, !.waits = TRUE,
                                !.vol = pv.vol]
  BY <1>0, Zenon DEF Begin
<1>2. pv.vol \in Nat
  BY DEF IInv, Shapes, NoPV
<1>3. Shapes'
  BY <1>1, <1>2, BeginTypes, SameSets, ZenonT(30) DEF IInv, Shapes, kube
<1>4. /\ call'.op = op /\ call'.step = "start" /\ call'.node = n /\ call'.vol = pv.vol
  BY <1>1, Zenon DEF NoCall
<1>5. CallInv'
  BY <1>0, <1>1, <1>4 DEF IInv, CallInv, AttachInv, At, kube, Handlers, NoPV
<1>6. AttachInv'
  BY <1>0, <1>1, <1>4, ControllerAssumption, Zenon DEF IInv, AttachInv, Shapes, kube, Handlers, Hosts
<1> QED
  BY <1>3, <1>5, <1>6, Zenon DEF IInv

(* The caller gives up; the call goes on. *)
LEMMA TimeoutInv ==
    ASSUME IInv, Timeout
    PROVE  IInv'
<1>1. /\ UNCHANGED <<fixed, nodes, cns, kube, changes>> /\ Fault
      /\ call' = [call EXCEPT !.waits = FALSE] /\ call \in Call /\ call # NoCall
  BY DEF Timeout, IInv, Shapes, NoCall
<1>2. /\ call' \in Call /\ call'.op = call.op
      /\ call'.step = call.step /\ call'.node = call.node /\ call'.vol = call.vol
  BY <1>1, WaitTypes, Zenon
<1>3. Shapes'
  <2>1. faults' \in 0..MaxFaults
    BY <1>1, ControllerAssumption DEF Fault, IInv, Shapes
  <2> QED
    BY <1>1, <1>2, <2>1, SameSets, Zenon DEF IInv, Shapes, kube
<1>4. CallInv'
  BY <1>1, <1>2, Zenon DEF IInv, CallInv, At, kube, NoCall
<1>5. AttachInv'
  BY <1>1, <1>2, Zenon DEF IInv, AttachInv, kube
<1> QED
  BY <1>3, <1>4, <1>5, Zenon DEF IInv

-----------------------------------------------------------------------------
(* CreateVolume. *)

(* The datastores and their topologies are among those found. *)
LEMMA ChosenTypes ==
    ASSUME IInv, ChooseDatastores
    PROVE  /\ call.op = "create" /\ call.vol = 0
           /\ UNCHANGED <<fixed, nodes, cns, kube, changes, faults>>
           /\ \/ call' = NoCall
              \/ /\ call' \in Call /\ call'.op = "create" /\ call'.step = "create"
                 /\ call'.vol = 0 /\ call'.waits = call.waits
<1> DEFINE r  == found[nodes]
           ds == Candidates(r.ds)
<1>1. /\ call.op = "create" /\ call.step = "start"
      /\ UNCHANGED <<fixed, nodes, cns, kube, changes, faults>>
      /\ \/ call' = NoCall
         \/ call' = [call EXCEPT !.step = "create", !.ds = ds, !.map = r.map, !.seen = nodes]
  BY Zenon DEF ChooseDatastores, At, Error
<1>2. call.vol = 0
  BY <1>1, Zenon DEF IInv, CallInv
<1>3. ds \in SUBSET Datastores /\ r.map \in Maps /\ nodes \in SUBSET Nodes
  <2>1. nodes \in SUBSET Nodes
    BY Zenon DEF IInv, Shapes
  <2>2. ds \subseteq r.ds
    BY Zenon DEF Candidates
  <2> QED
    BY <2>1, <2>2, Zenon DEF Datastores, Maps
<1> HIDE DEF ds, r
<1>4. call \in Call
  BY Zenon DEF IInv, Shapes
<1>5. CASE call' = [call EXCEPT !.step = "create", !.ds = ds, !.map = r.map, !.seen = nodes]
  BY <1>1, <1>2, <1>3, <1>4, <1>5, Zenon DEF Call, Steps
<1> QED
  BY <1>1, <1>2, <1>5, Zenon

LEMMA ChooseInv ==
    ASSUME IInv, ChooseDatastores
    PROVE  IInv'
<1>1. CASE call' = NoCall
  BY <1>1, ChosenTypes, ErrorInv, Zenon
<1>2. CASE call' # NoCall
  <2>1. /\ UNCHANGED <<fixed, nodes, cns, kube, changes, faults>>
        /\ call.op = "create" /\ call'.op = "create" /\ call'.step = "create"
        /\ call' \in Call /\ call'.vol = 0
    BY <1>2, ChosenTypes, Zenon
  <2>2. Shapes'
    BY <2>1, SameSets, Zenon DEF IInv, Shapes, kube
  <2>3. CallInv'
    BY <2>1, Zenon DEF IInv, CallInv, At, kube
  <2>4. AttachInv'
    BY <2>1, Zenon DEF IInv, AttachInv, kube
  <2> QED
    BY <2>2, <2>3, <2>4, Zenon DEF IInv
<1> QED
  BY <1>1, <1>2, Zenon

(* The PV is written, if the provisioner still waits. *)
LEMMA CreatedInv ==
    ASSUME IInv, call.op = "create", NEW vol \in Nat, NEW topo, Created(vol, topo),
           UNCHANGED <<fixed, nodes, changes>>, Fault \/ UNCHANGED faults,
           cns' \in Seq(Volume), vol \in 1..Len(cns'), cns'[vol].vm = NoNode
    PROVE  IInv'
<1>1. /\ call' = NoCall /\ pv = NoPV /\ UNCHANGED <<claim, va, vaState, forced>>
      /\ vaState = "none" /\ va = NoNode /\ claim = "wanted"
      /\ pv' = NoPV \/ pv'.vol = vol
  BY Zenon DEF Created, IInv, CallInv, AttachInv
<1>2. NoPV.vol = 0
  BY Zenon DEF NoPV
<1>3. Shapes'
  <2>1. faults' \in 0..MaxFaults
    BY ControllerAssumption DEF Fault, IInv, Shapes
  <2> QED
    BY <1>1, <2>1, NoCallTypes, SameSets, Zenon DEF IInv, Shapes
<1>4. CallInv'
  BY <1>1, Zenon DEF CallInv, NoCall, At
<1>5. AttachInv'
  BY <1>1, Zenon DEF AttachInv, NoCall
<1> QED
  BY <1>3, <1>4, <1>5, Zenon DEF IInv

LEMMA CreateInv ==
    ASSUME IInv, CreateVolume
    PROVE  IInv'
<1>1. /\ call.op = "create" /\ call.step = "create" /\ pv = NoPV /\ vaState = "none"
      /\ UNCHANGED <<fixed, nodes, changes>> /\ Shapes /\ call \in Call
  BY Zenon DEF CreateVolume, At, IInv, CallInv, AttachInv, Shapes
<1>2. PICK d \in call.ds : cns' = Append(cns, [ds |-> d, vm |-> NoNode, state |-> "kept"])
  BY Zenon DEF CreateVolume
<1>3. d \in Datastores
  BY <1>1, <1>2, Zenon DEF Call
<1>4. /\ cns' \in Seq(Volume) /\ Len(cns) \in Nat /\ Len(cns') = Len(cns) + 1
      /\ cns'[Len(cns')].vm = NoNode
  BY <1>1, <1>2, <1>3, NewVolume, Zenon
<1>5. Len(cns') \in Nat /\ Len(cns') \in 1..Len(cns') /\ Len(cns) <= Len(cns')
  BY <1>4
<1>6. CASE call' = [call EXCEPT !.step = "query", !.vol = Len(cns')]
           /\ UNCHANGED <<kube, faults>>
  <2>1. /\ call' \in Call /\ call'.op = "create" /\ call'.step = "query"
        /\ call'.vol = Len(cns')
    BY <1>1, <1>5, <1>6, Zenon DEF Call, Steps
  <2>2. Shapes'
    BY <1>1, <1>4, <1>6, <2>1, SameSets, Zenon DEF Shapes, kube
  <2>3. CallInv'
    BY <1>1, <1>4, <1>5, <1>6, <2>1, Zenon DEF CallInv, At, kube
  <2>4. AttachInv'
    BY <1>1, <1>6, <2>1, Zenon DEF IInv, AttachInv, kube
  <2> QED
    BY <2>2, <2>3, <2>4, Zenon DEF IInv
<1>7. CASE Created(Len(cns'), NoTopology) /\ UNCHANGED faults
  BY <1>1, <1>4, <1>5, <1>7, CreatedInv, Zenon
<1>8. CASE Fault /\ Error
  BY <1>1, <1>4, <1>5, <1>8, EndInv, Zenon DEF Error
<1> QED
  BY <1>6, <1>7, <1>8, Zenon DEF CreateVolume

LEMMA QueryInv ==
    ASSUME IInv, QueryDatastore
    PROVE  IInv'
<1>1. /\ call.op = "create" /\ call.vol \in 1..Len(cns) /\ cns[call.vol].vm = NoNode
      /\ UNCHANGED <<fixed, nodes, cns, changes>> /\ cns \in Seq(Volume)
      /\ call.vol \in Nat
  BY DEF QueryDatastore, At, IInv, CallInv, Shapes
<1>2. PICK t : Created(call.vol, t) /\ (Fault \/ UNCHANGED faults)
  BY Zenon DEF QueryDatastore
<1> QED
  BY <1>1, <1>2, CreatedInv, Zenon

-----------------------------------------------------------------------------
(* DeleteVolume, ControllerPublishVolume, ControllerUnpublishVolume. *)

(* The PV goes with its volume, if the provisioner still waits. *)
LEMMA DeletedInv ==
    ASSUME IInv, call.op = "delete", Deleted, UNCHANGED <<fixed, nodes, changes, faults>>,
           cns' \in Seq(Volume), Len(cns') = Len(cns),
           cns'[pv.vol].vm = cns[pv.vol].vm
    PROVE  IInv'
<1>1. /\ call' = NoCall /\ claim = "deleting" /\ UNCHANGED <<va, vaState, forced>>
      /\ vaState = "none" /\ va = NoNode /\ claim' \in {"deleting", "gone"}
      /\ \/ pv' = NoPV /\ claim' = "gone"
         \/ pv' = pv /\ claim' = claim
  BY Zenon DEF Deleted, IInv, AttachInv
<1>2. Shapes'
  BY <1>1, NoCallTypes, SameSets, Zenon DEF IInv, Shapes
<1>3. CallInv'
  BY <1>1, Zenon DEF CallInv, NoCall, At
<1>4. AttachInv'
  BY <1>1, Zenon DEF IInv, AttachInv, NoCall
<1> QED
  BY <1>2, <1>3, <1>4, Zenon DEF IInv

(* The attachment becomes attached when the volume is attached. *)
LEMMA PublishedInv ==
    ASSUME IInv, call.op = "publish", Published, UNCHANGED <<fixed, nodes, changes, faults>>,
           cns' \in Seq(Volume), Len(cns') = Len(cns), cns'[pv.vol].vm = call.node
    PROVE  IInv'
<1>1. /\ call' = NoCall /\ UNCHANGED <<claim, pv, va, forced>>
      /\ vaState # "attached" /\ (~ forced => va = call.node)
      /\ \/ vaState' = vaState
         \/ vaState = "attaching" /\ vaState' = "attached" /\ va = call.node
  BY Zenon DEF Published, IInv, AttachInv
<1>2. Shapes'
  BY <1>1, NoCallTypes, SameSets, Zenon DEF IInv, Shapes
<1>3. CallInv'
  BY <1>1, Zenon DEF CallInv, NoCall, At
<1>4. AttachInv'
  BY <1>1, Zenon DEF IInv, AttachInv, NoCall
<1> QED
  BY <1>2, <1>3, <1>4, Zenon DEF IInv

(* The attachment goes when the volume is detached. *)
LEMMA UnpublishedInv ==
    ASSUME IInv, call.op = "unpublish", Unpublished,
           UNCHANGED <<fixed, nodes, changes, faults>>,
           cns' \in Seq(Volume), Len(cns') = Len(cns),
           ~ forced => cns'[pv.vol].vm = NoNode
    PROVE  IInv'
<1>1. /\ call' = NoCall /\ UNCHANGED <<claim, pv, forced>>
      /\ vaState # "attached"
      /\ \/ UNCHANGED <<vaState, va>>
         \/ vaState = "detaching" /\ vaState' = "none" /\ va' = NoNode
  BY Zenon DEF Unpublished, IInv, AttachInv
<1>2. Shapes'
  BY <1>1, NoCallTypes, SameSets, Zenon DEF IInv, Shapes, Hosts
<1>3. CallInv'
  BY <1>1, Zenon DEF CallInv, NoCall, At
<1>4. AttachInv'
  BY <1>1, Zenon DEF IInv, AttachInv, NoCall
<1> QED
  BY <1>2, <1>3, <1>4, Zenon DEF IInv

LEMMA DeleteInv ==
    ASSUME IInv, DeleteVolume
    PROVE  IInv'
<1>1. /\ call.op = "delete" /\ call.vol = pv.vol /\ pv # NoPV /\ pv.vol \in 1..Len(cns)
      /\ UNCHANGED <<fixed, nodes, changes>> /\ Shapes /\ cns \in Seq(Volume)
      /\ NoNode \in Hosts
  BY Zenon DEF DeleteVolume, At, IInv, CallInv, Shapes, Hosts
<1>2. cns' \in Seq(Volume) /\ Len(cns') = Len(cns) /\ cns'[pv.vol].vm = cns[pv.vol].vm
  BY <1>1, ChangedVolume, Zenon DEF DeleteVolume
<1>3. CASE Deleted /\ UNCHANGED faults
  BY <1>1, <1>2, <1>3, DeletedInv, Zenon
<1>4. CASE Error /\ (Fault \/ UNCHANGED faults)
  <2>1. Len(cns) <= Len(cns')
    BY <1>1, <1>2
  <2> QED
    BY <1>1, <1>2, <1>4, <2>1, EndInv, Zenon DEF Error
<1> QED
  BY <1>3, <1>4, Zenon DEF DeleteVolume, Reply

(* A handler that goes on to its next request to CNS. *)
LEMMA OnwardInv ==
    ASSUME IInv, NEW step \in Steps, call' = [call EXCEPT !.step = step],
           call.op \in {"publish", "unpublish"},
           UNCHANGED <<fixed, nodes, cns, kube, changes, faults>>
    PROVE  IInv'
<1>1. call' \in Call /\ call'.op = call.op /\ call'.vol = call.vol /\ call'.node = call.node
  BY StepTypes, Zenon DEF IInv, Shapes
<1>2. Shapes'
  BY <1>1, SameSets, Zenon DEF IInv, Shapes, kube
<1>3. CallInv'
  BY <1>1, Zenon DEF IInv, CallInv, At, kube
<1>4. AttachInv'
  BY <1>1, Zenon DEF IInv, AttachInv, kube
<1> QED
  BY <1>2, <1>3, <1>4, Zenon DEF IInv

LEMMA NodeByNameInv ==
    ASSUME IInv, NEW op \in {"publish", "unpublish"}, GetNodeByName(op)
    PROVE  IInv'
<1>1. CASE Error
  BY <1>1, ErrorInv, Zenon DEF GetNodeByName, Error
<1>2. CASE call' = [call EXCEPT !.step = "cns"] /\ UNCHANGED kube
  <2>1. "cns" \in Steps
    BY Zenon DEF Steps
  <2> QED
    BY <1>2, <2>1, OnwardInv, Zenon DEF GetNodeByName, At
<1> QED
  BY <1>1, <1>2, Zenon DEF GetNodeByName

LEMMA AttachVolumeInv ==
    ASSUME IInv, AttachVolume
    PROVE  IInv'
<1>1. /\ call.op = "publish" /\ call.vol = pv.vol /\ pv # NoPV /\ pv.vol \in 1..Len(cns)
      /\ UNCHANGED <<fixed, nodes, changes>> /\ Shapes /\ cns \in Seq(Volume)
      /\ call.node \in Hosts /\ vaState # "attached" /\ (forced \/ call.node = va)
  BY Zenon DEF AttachVolume, At, IInv, CallInv, AttachInv, Shapes, Hosts
<1>2. CASE cns' = [cns EXCEPT ![call.vol].vm = call.node] /\ Reply(TRUE, Published)
  <2>1. cns' \in Seq(Volume) /\ Len(cns') = Len(cns) /\ cns'[pv.vol].vm = call.node
    BY <1>1, <1>2, ChangedVolume, Zenon
  <2>2. CASE Published /\ UNCHANGED faults
    BY <1>1, <2>1, <2>2, PublishedInv, Zenon
  <2>3. CASE Error /\ Fault
    <3>1. Len(cns) <= Len(cns')
      BY <1>1, <2>1
    <3> QED
      BY <1>1, <2>1, <2>3, <3>1, EndInv, Zenon DEF Error
  <2> QED
    BY <1>2, <2>2, <2>3, Zenon DEF Reply
<1>3. CASE call' = [call EXCEPT !.step = "inuse"] /\ UNCHANGED <<cns, kube, faults>>
  <2>1. "inuse" \in Steps
    BY Zenon DEF Steps
  <2> QED
    BY <1>1, <1>3, <2>1, OnwardInv, Zenon
<1>4. CASE Error /\ UNCHANGED <<cns, faults>>
  BY <1>1, <1>4, ErrorInv, Zenon DEF Error
<1> QED
  BY <1>2, <1>3, <1>4, Zenon DEF AttachVolume

LEMMA DiskAttachedInv ==
    ASSUME IInv, GetDiskAttachedToVM
    PROVE  IInv'
<1>1. CASE Error
  BY <1>1, ErrorInv, Zenon DEF GetDiskAttachedToVM, Error
<1>2. CASE cns[call.vol].vm = call.node /\ Published
  <2>1. /\ call.op = "publish" /\ call.vol = pv.vol /\ cns \in Seq(Volume)
        /\ UNCHANGED <<fixed, nodes, cns, changes, faults>>
    BY Zenon DEF GetDiskAttachedToVM, At, IInv, CallInv, Shapes
  <2> QED
    BY <1>2, <2>1, PublishedInv, Zenon
<1> QED
  BY <1>1, <1>2, Zenon DEF GetDiskAttachedToVM

(* A volume that is attached to another VM was left there by an attachment *)
(* removed by hand.                                                        *)
LEMMA DetachVolumeInv ==
    ASSUME IInv, DetachVolume
    PROVE  IInv'
<1>1. /\ call.op = "unpublish" /\ call.vol = pv.vol /\ pv # NoPV /\ pv.vol \in 1..Len(cns)
      /\ UNCHANGED <<fixed, nodes, changes>> /\ Shapes /\ cns \in Seq(Volume)
      /\ NoNode \in Hosts /\ vaState # "attached" /\ (forced \/ call.node = va)
      /\ forced \/ cns[pv.vol].vm \in {NoNode, va}
  BY Zenon DEF DetachVolume, At, IInv, CallInv, AttachInv, Shapes, Hosts
<1>2. /\ cns' \in Seq(Volume) /\ Len(cns') = Len(cns)
      /\ \/ cns'[pv.vol].vm = NoNode
         \/ cns'[pv.vol].vm = cns[pv.vol].vm /\ cns[pv.vol].vm # call.node
  <2>1. CASE cns[call.vol].vm = call.node
    <3>1. cns' = [cns EXCEPT ![pv.vol].vm = NoNode]
      BY <1>1, <2>1, Zenon DEF DetachVolume
    <3> QED
      BY <1>1, <3>1, ChangedVolume, Zenon
  <2>2. CASE cns[call.vol].vm # call.node
    <3>1. cns' = cns
      BY <2>2, Zenon DEF DetachVolume
    <3> QED
      BY <1>1, <2>2, <3>1, Zenon
  <2> QED
    BY <2>1, <2>2, Zenon
<1>3. ~ forced => cns'[pv.vol].vm = NoNode
  BY <1>1, <1>2, Zenon
<1>4. CASE Unpublished /\ UNCHANGED faults
  BY <1>1, <1>2, <1>3, <1>4, UnpublishedInv, Zenon
<1>5. CASE Error /\ (Fault \/ UNCHANGED faults)
  <2>1. Len(cns) <= Len(cns')
    BY <1>1, <1>2
  <2> QED
    BY <1>1, <1>2, <1>3, <1>5, <2>1, EndInv, Zenon DEF Error
<1> QED
  BY <1>4, <1>5, Zenon DEF DetachVolume, Reply

-----------------------------------------------------------------------------
(* Every step keeps the invariant. *)
LEMMA NextIInv == IInv /\ [Next]_vars => IInv'
<1> SUFFICES ASSUME IInv, [Next]_vars PROVE IInv'
  BY Zenon
<1>1. CASE HandlerSteps
  BY <1>1, ChooseInv, CreateInv, QueryInv, DeleteInv, NodeByNameInv, AttachVolumeInv,
     DiskAttachedInv, DetachVolumeInv, Zenon DEF HandlerSteps
<1>2. CASE Calls
  BY <1>2, CallsInv, Zenon
<1>3. CASE (\E op \in Handlers : VCenterFails(op)) \/ Crash
  BY <1>3, ErrorInv, Zenon DEF VCenterFails, Crash, Error
<1>4. CASE Timeout
  BY <1>4, TimeoutInv, Zenon
<1>5. CASE \/ AddAttachment \/ RemoveAttachment \/ ForceRemoveAttachment \/ DeleteClaim
           \/ NodeJoins \/ NodeLeaves
  BY <1>5, ClusterInv, Zenon
<1>6. CASE UNCHANGED vars
  <2>1. /\ UNCHANGED <<fixed, nodes, cns, call, claim, pv, va, vaState, forced>>
        /\ UNCHANGED <<changes, faults>>
    BY <1>6, Zenon DEF vars, kube
  <2>2. Shapes'
    BY <2>1, SameSets, Zenon DEF IInv, Shapes
  <2>3. CallInv' /\ AttachInv'
    BY <2>1, Zenon DEF IInv, CallInv, AttachInv, At
  <2> QED
    BY <2>2, <2>3, Zenon DEF IInv
<1> QED
  BY <1>1, <1>2, <1>3, <1>4, <1>5, <1>6, Zenon DEF Next

(* Types, for every inventory, request, set of nodes and bound: and so the *)
(* calls for an existing volume (DeleteVolume, ControllerPublishVolume and *)
(* ControllerUnpublishVolume) never outlive the PV they were made for,     *)
(* whatever times out, fails, crashes or is removed by hand.               *)
THEOREM ControllerTypes == Spec => []TypeOK
<1>1. IInv => TypeOK
  <2> SUFFICES ASSUME IInv PROVE TypeOK
    BY Zenon
  <2>1. \A i \in DOMAIN cns : /\ cns[i].vm \in Nodes \cup {NoNode}
                              /\ cns[i].state \in {"kept", "deleted"}
    <3>1. \A i \in DOMAIN cns : cns[i] \in Volume
      BY DEF IInv, Shapes
    <3> QED
      BY <3>1, Zenon DEF Volume, Hosts
  <2>2. pv.vol \in {0} \cup DOMAIN cns
    BY DEF IInv, Shapes, NoPV
  <2>3. call.op \in Handlers \cup {"none"}
    BY Zenon DEF IInv, Shapes, Call
  <2>4. call.op \notin {"none", "create"} => call.vol = pv.vol /\ pv # NoPV
    BY <2>3, Zenon DEF IInv, CallInv, Handlers
  <2> QED
    BY <2>1, <2>2, <2>3, <2>4, Zenon DEF TypeOK, IInv, Shapes, AttachInv
<1> QED
  BY <1>1, InitIInv, NextIInv, PTL DEF Spec

(* The attachment never says what is not so, for every inventory, request, *)
(* set of nodes and bound: while it says attached, the volume is attached  *)
(* to that node's VM; once it is gone, and was not removed by hand, the    *)
(* volume is attached to no VM.                                            *)
THEOREM AttachmentsAlwaysTrue == Spec => []AttachmentsTrue
<1>1. IInv => AttachmentsTrue
  BY Zenon DEF IInv, AttachInv, AttachmentsTrue
<1> QED
  BY <1>1, InitIInv, NextIInv, PTL DEF Spec

-----------------------------------------------------------------------------
(* The volumes left behind.  A caller who gave up may leave one more, when *)
(* its call ends: the invariant counts it already.                         *)
Left == {i \in DOMAIN cns : /\ cns[i].state = "kept" /\ i # pv.vol
                            /\ ~ (call.op = "create" /\ i = call.vol)}

Abandoned == IF call.op # "none" /\ ~ call.waits THEN 1 ELSE 0

LeakInv == Cardinality(Left) + Abandoned <= faults

(* A step that leaves nothing more behind; one that is itself a failure;   *)
(* and one that ends a call, which failed or whose caller had given up,    *)
(* and leaves its volume.                                                  *)
Keeps  == Left' \subseteq Left /\ Abandoned' <= Abandoned /\ faults <= faults'
Fails  == Left' \subseteq Left /\ faults' = faults + 1
Leaves == /\ \E k : Left' \subseteq Left \cup {k}
          /\ Abandoned' = 0
          /\ \/ Abandoned = 1 /\ faults' = faults
             \/ faults' = faults + 1

(* The steps of the cluster, and of its callers. *)
LEMMA ClusterLeak ==
    ASSUME IInv,
           \/ AddAttachment \/ RemoveAttachment \/ ForceRemoveAttachment \/ DeleteClaim
           \/ NodeJoins \/ NodeLeaves
    PROVE  Keeps
<1>1. UNCHANGED <<cns, call, pv>> /\ (Fault \/ UNCHANGED faults)
  BY Zenon DEF AddAttachment, RemoveAttachment, ForceRemoveAttachment, DeleteClaim, NodeJoins,
         NodeLeaves, kube
<1>2. faults <= faults'
  BY <1>1, ControllerAssumption DEF Fault, IInv, Shapes
<1>3. Left' = Left /\ Abandoned' = Abandoned
  BY <1>1, Zenon DEF Left, Abandoned
<1>4. Abandoned <= Abandoned
  BY DEF Abandoned
<1> QED
  BY <1>2, <1>3, <1>4, Zenon DEF Keeps

LEMMA CallsLeak ==
    ASSUME IInv, Calls
    PROVE  Keeps
<1>1. PICK op, n : Begin(op, n)
  BY Zenon DEF Calls, ProvisionerCreates, ProvisionerDeletes, AttacherAttaches,
               AttacherDetaches
<1>2. /\ UNCHANGED <<cns, kube, faults>> /\ call = NoCall
      /\ call' = [NoCall EXCEPT !.op = op, !.step = "start", !.node = n, !.waits = TRUE,
                                !.vol = pv.vol]
  BY <1>1, Zenon DEF Begin
<1>3. call.op = "none" /\ call'.waits = TRUE
  BY <1>2, Zenon DEF NoCall
<1>4. Left' \subseteq Left
  BY <1>2, <1>3, Zenon DEF Left, kube
<1>5. Abandoned' <= Abandoned /\ faults <= faults'
  BY <1>2, <1>3, ControllerAssumption DEF Abandoned, IInv, Shapes
<1> QED
  BY <1>4, <1>5, Zenon DEF Keeps

LEMMA TimeoutLeak ==
    ASSUME IInv, Timeout
    PROVE  Fails
<1>1. UNCHANGED <<cns, kube>> /\ call' = [call EXCEPT !.waits = FALSE] /\ call \in Call
  BY Zenon DEF Timeout, IInv, Shapes
<1>2. call'.op = call.op /\ call'.vol = call.vol
  BY <1>1, WaitTypes, Zenon
<1>3. Left' = Left
  BY <1>1, <1>2, Zenon DEF Left, kube
<1> QED
  BY <1>3, Zenon DEF Fails, Timeout, Fault

(* A call that fails leaves the volume it made, if it made one. *)
LEMMA FailureLeak ==
    ASSUME IInv, call' = NoCall, UNCHANGED <<cns, pv>>, Fault
    PROVE  Leaves
<1>1. Left' \subseteq Left \cup {call.vol}
  BY Zenon DEF Left
<1>2. Abandoned' = 0
  BY Zenon DEF Abandoned, NoCall
<1> QED
  BY <1>1, <1>2, Zenon DEF Leaves, Fault

(* CreateVolume. *)
LEMMA ChooseLeak ==
    ASSUME IInv, ChooseDatastores
    PROVE  Keeps
<1>1. /\ UNCHANGED <<cns, pv, faults>> /\ call.op = "create" /\ call.vol = 0
      /\ \/ call'.op = "none"
         \/ call'.op = "create" /\ call'.vol = 0 /\ call'.waits = call.waits
  <2>1. NoCall.op = "none"
    BY Zenon DEF NoCall
  <2> QED
    BY <2>1, ChosenTypes, Zenon DEF kube
<1>2. \A i \in DOMAIN cns : i # 0
  BY DEF IInv, Shapes
<1>3. Left' \subseteq Left
  BY <1>1, <1>2, Zenon DEF Left
<1>4. Abandoned' <= Abandoned /\ faults <= faults'
  BY <1>1, ControllerAssumption DEF Abandoned, IInv, Shapes
<1> QED
  BY <1>3, <1>4, Zenon DEF Keeps

(* An answer that the provisioner takes writes the PV; one that it does    *)
(* not wait for leaves the volume behind.                                  *)
LEMMA CreatedLeak ==
    ASSUME IInv, call.op = "create", NEW vol, NEW topo, Created(vol, topo),
           Fault \/ UNCHANGED faults,
           \A i \in DOMAIN cns' : cns'[i].state = "kept" => i \in Left \/ i = vol
    PROVE  Keeps \/ Leaves
<1>1. Left' \subseteq Left \cup {vol} /\ Abandoned' = 0
  <2>1. Abandoned' = 0
    BY Zenon DEF Created, Abandoned, NoCall
  <2> QED
    BY <2>1, Zenon DEF Left
<1>2. CASE call.waits
  <2>1. pv'.vol = vol
    BY <1>2, Zenon DEF Created
  <2>2. Left' \subseteq Left
    BY <2>1, Zenon DEF Left
  <2>3. Abandoned' <= Abandoned /\ faults <= faults'
    BY <1>1, ControllerAssumption DEF Abandoned, Fault, IInv, Shapes
  <2> QED
    BY <2>2, <2>3, Zenon DEF Keeps
<1>3. CASE ~ call.waits
  <2>1. Abandoned = 1
    BY <1>3, Zenon DEF Abandoned
  <2> QED
    BY <1>1, <2>1, Zenon DEF Leaves, Fault
<1> QED
  BY <1>2, <1>3, Zenon

LEMMA CreateLeak ==
    ASSUME IInv, CreateVolume
    PROVE  Keeps \/ Leaves
<1>1. /\ call.op = "create" /\ call.step = "create" /\ pv = NoPV /\ Shapes /\ call \in Call
      /\ call.vol = 0 /\ pv.vol = 0 /\ cns \in Seq(Volume)
  BY DEF CreateVolume, At, IInv, CallInv, Shapes, NoPV
<1>2. PICK d \in call.ds : cns' = Append(cns, [ds |-> d, vm |-> NoNode, state |-> "kept"])
  BY Zenon DEF CreateVolume
<1>3. d \in Datastores
  BY <1>1, <1>2, Zenon DEF Call
<1>4. /\ cns' \in Seq(Volume) /\ Len(cns) \in Nat /\ Len(cns') = Len(cns) + 1
      /\ \A i \in 1..Len(cns) : cns'[i] = cns[i]
  BY <1>1, <1>2, <1>3, NewVolume, Zenon
<1>5. \A i \in DOMAIN cns' : cns'[i].state = "kept" => i \in Left \/ i = Len(cns')
  <2> SUFFICES ASSUME NEW i \in DOMAIN cns', cns'[i].state = "kept", i # Len(cns')
               PROVE  i \in Left
    BY Zenon
  <2>1. i \in DOMAIN cns /\ i # 0 /\ cns'[i] = cns[i]
    BY <1>1, <1>4
  <2> QED
    BY <1>1, <2>1, Zenon DEF Left
<1>6. CASE call' = [call EXCEPT !.step = "query", !.vol = Len(cns')]
           /\ UNCHANGED <<kube, faults>>
  <2>1. call'.op = "create" /\ call'.vol = Len(cns') /\ call'.waits = call.waits
    BY <1>1, <1>6, Zenon DEF Call
  <2>2. Left' \subseteq Left
    BY <1>5, <2>1, Zenon DEF Left
  <2>3. Abandoned' <= Abandoned /\ faults <= faults'
    BY <1>1, <1>6, <2>1, ControllerAssumption DEF Abandoned, Shapes
  <2> QED
    BY <2>2, <2>3, Zenon DEF Keeps
<1>7. CASE Created(Len(cns'), NoTopology) /\ UNCHANGED faults
  BY <1>1, <1>5, <1>7, CreatedLeak, Zenon
<1>8. CASE Fault /\ Error
  <2>1. Abandoned' = 0
    BY <1>8, Zenon DEF Error, Abandoned, NoCall
  <2>2. Left' \subseteq Left \cup {Len(cns')}
    BY <1>5, Zenon DEF Left
  <2> QED
    BY <1>8, <2>1, <2>2, Zenon DEF Leaves, Fault
<1> QED
  BY <1>6, <1>7, <1>8, Zenon DEF CreateVolume

LEMMA QueryLeak ==
    ASSUME IInv, QueryDatastore
    PROVE  Keeps \/ Leaves
<1>1. /\ call.op = "create" /\ UNCHANGED cns /\ pv = NoPV /\ pv.vol = 0
      /\ \A i \in DOMAIN cns : i # 0
  BY DEF QueryDatastore, At, IInv, CallInv, Shapes, NoPV
<1>2. PICK t : Created(call.vol, t) /\ (Fault \/ UNCHANGED faults)
  BY Zenon DEF QueryDatastore
<1>3. \A i \in DOMAIN cns' : cns'[i].state = "kept" => i \in Left \/ i = call.vol
  BY <1>1, Zenon DEF Left
<1> QED
  BY <1>1, <1>2, <1>3, CreatedLeak, Zenon

(* The handlers of an existing volume leave none behind: DeleteVolume      *)
(* succeeds only when CNS has deleted the volume of the PV.                *)
LEMMA ExistingLeak ==
    ASSUME IInv, call.op \in {"delete", "publish", "unpublish"}, Fault \/ UNCHANGED faults,
           DOMAIN cns' = DOMAIN cns,
           \A i \in DOMAIN cns : cns'[i].state = "kept" => cns[i].state = "kept",
           \/ pv' = pv
           \/ pv' = NoPV /\ cns'[pv.vol].state = "deleted",
           \/ call' = NoCall
           \/ call'.op = call.op /\ call'.waits = call.waits
    PROVE  Keeps
<1>1. Left' \subseteq Left
  <2> SUFFICES ASSUME NEW i \in DOMAIN cns, cns'[i].state = "kept", i # pv'.vol
               PROVE  i \in Left
    BY Zenon DEF Left
  <2>1. i # pv.vol
    BY Zenon
  <2> QED
    BY <2>1, Zenon DEF Left
<1>2. faults <= faults'
  BY ControllerAssumption DEF Fault, IInv, Shapes
<1>3. Abandoned' <= Abandoned
  BY DEF Abandoned, NoCall
<1> QED
  BY <1>1, <1>2, <1>3, Zenon DEF Keeps

LEMMA DeleteLeak ==
    ASSUME IInv, DeleteVolume
    PROVE  Keeps
<1>1. /\ call.op = "delete" /\ call.vol = pv.vol /\ pv.vol \in 1..Len(cns)
      /\ Shapes /\ cns \in Seq(Volume) /\ NoNode \in Hosts
  BY Zenon DEF DeleteVolume, At, IInv, CallInv, Shapes, Hosts
<1>2. /\ call' = NoCall /\ (Fault \/ UNCHANGED faults)
      /\ pv' = pv \/ (pv' = NoPV /\ cns[pv.vol].vm = NoNode)
  BY <1>1, Zenon DEF DeleteVolume, Reply, Deleted, Error, kube
<1>3. CASE cns[pv.vol].vm = NoNode
  <2>1. cns' = [cns EXCEPT ![pv.vol].state = "deleted"]
    BY <1>1, <1>3, Zenon DEF DeleteVolume
  <2>2. /\ cns' \in Seq(Volume) /\ Len(cns') = Len(cns) /\ cns'[pv.vol].state = "deleted"
        /\ \A i \in 1..Len(cns) : i # pv.vol => cns'[i] = cns[i]
    BY <1>1, <2>1, ChangedVolume, Zenon
  <2>3. DOMAIN cns' = DOMAIN cns /\ DOMAIN cns = 1..Len(cns)
    BY <1>1, <2>2
  <2>4. \A i \in DOMAIN cns : cns'[i].state = "kept" => cns[i].state = "kept"
    BY <2>2, <2>3, Zenon
  <2> QED
    BY <1>1, <1>2, <2>2, <2>3, <2>4, ExistingLeak, Zenon
<1>4. CASE cns[pv.vol].vm # NoNode
  <2>1. cns' = cns
    BY <1>1, <1>4, Zenon DEF DeleteVolume
  <2> QED
    BY <1>1, <1>2, <1>4, <2>1, ExistingLeak, Zenon
<1> QED
  BY <1>3, <1>4, Zenon

(* Attaching and detaching do not change which volumes there are. *)
LEMMA AttachLeak ==
    ASSUME IInv,
           \/ \E op \in {"publish", "unpublish"} : GetNodeByName(op)
           \/ AttachVolume \/ GetDiskAttachedToVM \/ DetachVolume
    PROVE  Keeps
<1>1. /\ call.op \in {"publish", "unpublish"} /\ call.vol = pv.vol /\ pv.vol \in 1..Len(cns)
      /\ Shapes /\ cns \in Seq(Volume) /\ NoNode \in Hosts /\ call.node \in Hosts
      /\ call \in Call
  <2>1. call.op \in {"publish", "unpublish"}
    BY Zenon DEF GetNodeByName, AttachVolume, GetDiskAttachedToVM, DetachVolume, At
  <2> QED
    BY <2>1, Zenon DEF IInv, CallInv, AttachInv, Shapes, Hosts
<1>2. /\ pv' = pv /\ (Fault \/ UNCHANGED faults)
      /\ \/ call' = NoCall
         \/ \E step \in Steps : call' = [call EXCEPT !.step = step]
  <2>1. "cns" \in Steps /\ "inuse" \in Steps
    BY Zenon DEF Steps
  <2> QED
    BY <2>1, Zenon DEF GetNodeByName, AttachVolume, GetDiskAttachedToVM, DetachVolume, Reply,
                       Published, Unpublished, Error, kube
<1>3. call' = NoCall \/ (call'.op = call.op /\ call'.waits = call.waits)
  BY <1>1, <1>2, StepTypes, Zenon
<1>4. \/ cns' = cns
      \/ \E n \in Hosts : cns' = [cns EXCEPT ![pv.vol].vm = n]
  BY <1>1, Zenon DEF GetNodeByName, AttachVolume, GetDiskAttachedToVM, DetachVolume
<1>5. CASE cns' = cns
  BY <1>1, <1>2, <1>3, <1>5, ExistingLeak, Zenon
<1>6. CASE cns' # cns
  <2>1. PICK n \in Hosts : cns' = [cns EXCEPT ![pv.vol].vm = n]
    BY <1>4, <1>6, Zenon
  <2>2. /\ cns' \in Seq(Volume) /\ Len(cns') = Len(cns)
        /\ cns'[pv.vol].state = cns[pv.vol].state
        /\ \A i \in 1..Len(cns) : i # pv.vol => cns'[i] = cns[i]
    BY <1>1, <2>1, ChangedVolume, Zenon
  <2>3. DOMAIN cns' = DOMAIN cns /\ DOMAIN cns = 1..Len(cns)
    BY <1>1, <2>2
  <2>4. \A i \in DOMAIN cns : cns'[i].state = "kept" => cns[i].state = "kept"
    BY <2>2, <2>3, Zenon
  <2> QED
    BY <1>1, <1>2, <1>3, <2>3, <2>4, ExistingLeak, Zenon
<1> QED
  BY <1>5, <1>6, Zenon

-----------------------------------------------------------------------------
(* Where CreateVolume puts a volume. *)

(* The datastores found among the nodes ns are right: a volume on one of   *)
(* them can be used where Placed says, whichever of the datastore's        *)
(* topologies is picked, and if none is.                                   *)
Sound(r, ns) ==
    \A d \in r.ds : /\ Placed(d, NoTopology, ns)
                    /\ d \in DOMAIN r.map => \A t \in r.map[d] : Placed(d, t, ns)

FoundSound == \A ns \in SUBSET Nodes : ~ found[ns].err => Sound(found[ns], ns)

(* A call goes on with what it found among the nodes it saw; its volume    *)
(* lies on one of those datastores.                                        *)
Chosen ==
    /\ call.op = "create" /\ call.step \in {"create", "query"} =>
          /\ ~ found[call.seen].err /\ call.ds \subseteq found[call.seen].ds
          /\ call.map = found[call.seen].map
    /\ At("create", "query") => cns[call.vol].ds \in call.ds /\ DOMAIN call.map # {}

PlaceInv == FoundSound /\ Chosen /\ Reachable

(* The inventory and the request stay as they are. *)
LEMMA PlacedKept ==
    ASSUME UNCHANGED fixed, NEW d, NEW t, NEW ns, Placed(d, t, ns)
    PROVE  Placed(d, t, ns)'
BY Zenon DEF Placed, Serves, fixed, inv, req

LEMMA SoundKept ==
    ASSUME FoundSound, UNCHANGED fixed
    PROVE  FoundSound'
<1> SUFFICES ASSUME NEW ns \in SUBSET Nodes, ~ found'[ns].err, NEW d \in found'[ns].ds
             PROVE  /\ Placed(d, NoTopology, ns)'
                    /\ d \in DOMAIN found'[ns].map =>
                          \A t \in found'[ns].map[d] : Placed(d, t, ns)'
  BY Zenon DEF FoundSound, Sound
<1>1. found' = found
  BY Zenon DEF fixed
<1>2. /\ Placed(d, NoTopology, ns)
      /\ d \in DOMAIN found'[ns].map => \A t \in found'[ns].map[d] : Placed(d, t, ns)
  BY <1>1, Zenon DEF FoundSound, Sound
<1>3. \A t : Placed(d, t, ns) => Placed(d, t, ns)'
  BY PlacedKept, Zenon
<1> QED
  BY <1>2, <1>3, Zenon

(* A step that writes no PV and takes no call to its next search. *)
LEMMA PlaceKept ==
    ASSUME IInv, PlaceInv, UNCHANGED fixed, pv' = pv \/ pv' = NoPV,
           \A i \in 1..Len(cns) : cns'[i].ds = cns[i].ds,
           \/ call'.op # "create" \/ call'.step = "start"
           \/ /\ call'.op = call.op /\ call'.step = call.step /\ call'.vol = call.vol
              /\ call'.ds = call.ds /\ call'.map = call.map /\ call'.seen = call.seen
    PROVE  PlaceInv'
<1>1. FoundSound'
  BY SoundKept, Zenon DEF PlaceInv
<1>2. Chosen'
  <2>1. CASE call'.op # "create" \/ call'.step = "start"
    BY <2>1, Zenon DEF Chosen, At
  <2>2. CASE /\ call'.op = call.op /\ call'.step = call.step /\ call'.vol = call.vol
             /\ call'.ds = call.ds /\ call'.map = call.map /\ call'.seen = call.seen
    BY <2>2, Zenon DEF PlaceInv, Chosen, At, IInv, CallInv, fixed
  <2> QED
    BY <2>1, <2>2, Zenon
<1>3. Reachable'
  <2>1. CASE pv' = pv /\ pv # NoPV
    <3>1. pv.vol \in 1..Len(cns)
      BY <2>1, Zenon DEF IInv, Shapes
    <3> QED
      BY <2>1, <3>1, Zenon DEF PlaceInv, Reachable, Placed, Serves, inv, req, fixed
  <2>2. CASE pv' = NoPV
    BY <2>2, Zenon DEF Reachable, NoPV
  <2> QED
    BY <2>1, <2>2, Zenon
<1> QED
  BY <1>1, <1>2, <1>3, Zenon DEF PlaceInv

(* CreateVolume answers with a volume that lies on a datastore found. *)
LEMMA CreatedPlace ==
    ASSUME IInv, PlaceInv, UNCHANGED fixed, call.op = "create",
           NEW vol, NEW topo, Created(vol, topo),
           Placed(cns'[vol].ds, topo, call.seen)
    PROVE  PlaceInv'
<1>1. FoundSound'
  BY SoundKept, Zenon DEF PlaceInv
<1>2. Chosen'
  BY Zenon DEF Created, Chosen, NoCall, At
<1>3. pv = NoPV
  BY Zenon DEF IInv, CallInv
<1>4. CASE pv' = NoPV
  BY <1>1, <1>2, <1>4, Zenon DEF PlaceInv, Reachable, NoPV
<1>5. CASE pv' # NoPV
  <2>1. pv' = [vol |-> vol, topo |-> topo, seen |-> call.seen]
    BY <1>3, <1>5, Zenon DEF Created
  <2>2. pv'.vol = vol /\ pv'.topo = topo /\ pv'.seen = call.seen
    BY <2>1, Zenon
  <2>3. Reachable'
    BY <2>2, Zenon DEF Reachable, Placed, Serves, inv, req, fixed
  <2> QED
    BY <1>1, <1>2, <2>3, Zenon DEF PlaceInv
<1> QED
  BY <1>4, <1>5, Zenon

LEMMA ChoosePlace ==
    ASSUME IInv, PlaceInv, ChooseDatastores
    PROVE  PlaceInv'
<1> DEFINE r  == found[nodes]
           ds == Candidates(r.ds)
<1>1. UNCHANGED <<fixed, cns, kube>>
  BY ChosenTypes, Zenon
<1>2. CASE call' = NoCall
  BY <1>1, <1>2, PlaceKept, Zenon DEF NoCall, kube
<1>3. CASE call' # NoCall
  <2>1. ~ r.err /\ call' = [call EXCEPT !.step = "create", !.ds = ds, !.map = r.map,
                                        !.seen = nodes]
    BY <1>3, Zenon DEF ChooseDatastores, Error
  <2>2. ds \subseteq r.ds
    BY Zenon DEF Candidates
  <2>3. call \in Call
    BY Zenon DEF IInv, Shapes
  <2> HIDE DEF ds, r
  <2>4. call'.step = "create" /\ call'.ds = ds /\ call'.map = r.map /\ call'.seen = nodes
    BY <2>1, <2>3, Zenon DEF Call
  <2>5. Chosen'
    BY <1>1, <2>1, <2>2, <2>4, Zenon DEF Chosen, At, fixed, r
  <2>6. Reachable'
    BY <1>1, Zenon DEF PlaceInv, Reachable, Placed, Serves, inv, req, fixed, kube
  <2> QED
    BY <1>1, <2>5, <2>6, SoundKept, Zenon DEF PlaceInv
<1> QED
  BY <1>2, <1>3, Zenon

LEMMA CreatePlace ==
    ASSUME IInv, PlaceInv, CreateVolume
    PROVE  PlaceInv'
<1>1. /\ call.op = "create" /\ call.step = "create" /\ pv = NoPV /\ UNCHANGED fixed
      /\ Shapes /\ call \in Call /\ call.seen \in SUBSET Nodes
  BY Zenon DEF CreateVolume, At, IInv, CallInv, Shapes, Call
<1>2. PICK d \in call.ds : cns' = Append(cns, [ds |-> d, vm |-> NoNode, state |-> "kept"])
  BY Zenon DEF CreateVolume
<1>3. d \in Datastores
  BY <1>1, <1>2, Zenon DEF Call
<1>4. /\ cns'[Len(cns')].ds = d /\ \A i \in 1..Len(cns) : cns'[i].ds = cns[i].ds
  BY <1>1, <1>2, <1>3, NewVolume, Zenon
<1>5. /\ ~ found[call.seen].err /\ call.ds \subseteq found[call.seen].ds
      /\ call.map = found[call.seen].map
  BY <1>1, Zenon DEF PlaceInv, Chosen
<1>6. CASE call' = [call EXCEPT !.step = "query", !.vol = Len(cns')] /\ DOMAIN call.map # {}
           /\ UNCHANGED <<kube, faults>>
  <2>1. /\ call'.vol = Len(cns') /\ call'.ds = call.ds /\ call'.map = call.map
        /\ call'.seen = call.seen
    BY <1>1, <1>6, Zenon DEF Call
  <2>2. Chosen'
    BY <1>1, <1>2, <1>4, <1>5, <1>6, <2>1, Zenon DEF Chosen, At, fixed
  <2>3. Reachable'
    BY <1>1, <1>6, Zenon DEF Reachable, kube, NoPV
  <2> QED
    BY <1>1, <2>2, <2>3, SoundKept, Zenon DEF PlaceInv
<1>7. CASE Created(Len(cns'), NoTopology) /\ DOMAIN call.map = {}
  <2>1. Sound(found[call.seen], call.seen)
    BY <1>1, <1>5, Zenon DEF PlaceInv, FoundSound
  <2>2. Placed(d, NoTopology, call.seen)
    BY <1>2, <1>5, <2>1, Zenon DEF Sound
  <2> QED
    BY <1>1, <1>4, <1>7, <2>2, CreatedPlace, Zenon
<1>8. CASE Error
  BY <1>1, <1>4, <1>8, PlaceKept, Zenon DEF Error, NoCall, kube
<1> QED
  BY <1>6, <1>7, <1>8, Zenon DEF CreateVolume

LEMMA QueryPlace ==
    ASSUME IInv, PlaceInv, QueryDatastore
    PROVE  PlaceInv'
<1>1. /\ call.op = "create" /\ call.step = "query" /\ UNCHANGED <<fixed, cns>>
      /\ call.seen \in SUBSET Nodes
  BY Zenon DEF QueryDatastore, At, IInv, Shapes, Call
<1>2. /\ ~ found[call.seen].err /\ cns[call.vol].ds \in found[call.seen].ds
      /\ call.map = found[call.seen].map /\ DOMAIN call.map # {}
  BY <1>1, Zenon DEF PlaceInv, Chosen, At
<1>3. PICK t : /\ Created(call.vol, t)
               /\ \/ t = NoTopology
                  \/ cns[call.vol].ds \in DOMAIN call.map /\ t \in call.map[cns[call.vol].ds]
  BY Zenon DEF QueryDatastore
<1>4. Sound(found[call.seen], call.seen)
  BY <1>1, <1>2, Zenon DEF PlaceInv, FoundSound
<1>5. Placed(cns[call.vol].ds, t, call.seen)
  BY <1>2, <1>3, <1>4, Zenon DEF Sound
<1> QED
  BY <1>1, <1>3, <1>5, CreatedPlace, Zenon

(* The handlers of an existing volume. *)
LEMMA ExistingPlace ==
    ASSUME IInv, PlaceInv,
           \/ DeleteVolume \/ \E op \in {"publish", "unpublish"} : GetNodeByName(op)
           \/ AttachVolume \/ GetDiskAttachedToVM \/ DetachVolume
    PROVE  PlaceInv'
<1>1. /\ call.op \in {"delete", "publish", "unpublish"} /\ call.vol = pv.vol
      /\ pv.vol \in 1..Len(cns) /\ UNCHANGED fixed
      /\ Shapes /\ NoNode \in Hosts /\ call.node \in Hosts /\ call \in Call
  <2>1. call.op \in {"delete", "publish", "unpublish"} /\ UNCHANGED fixed
    BY Zenon DEF DeleteVolume, GetNodeByName, AttachVolume, GetDiskAttachedToVM, DetachVolume, At
  <2> QED
    BY <2>1, Zenon DEF IInv, CallInv, AttachInv, Shapes, Hosts, Call
<1>2. /\ pv' = pv \/ pv' = NoPV
      /\ \/ call' = NoCall
         \/ \E step \in Steps : call' = [call EXCEPT !.step = step]
  <2>1. "cns" \in Steps /\ "inuse" \in Steps
    BY Zenon DEF Steps
  <2> QED
    BY <2>1, Zenon DEF DeleteVolume, GetNodeByName, AttachVolume, GetDiskAttachedToVM,
                       DetachVolume, Reply, Deleted, Published, Unpublished, Error, kube
<1>3. call'.op # "create"
  <2>1. call' = NoCall \/ call'.op = call.op
    BY <1>1, <1>2, StepTypes, Zenon
  <2>2. NoCall.op = "none"
    BY Zenon DEF NoCall
  <2> QED
    BY <1>1, <2>1, <2>2
<1>4. \/ cns' = cns
      \/ \E n \in Hosts : \/ cns' = [cns EXCEPT ![pv.vol].vm = n]
                         \/ cns' = [cns EXCEPT ![pv.vol].state = "deleted"]
  BY <1>1, Zenon DEF DeleteVolume, GetNodeByName, AttachVolume, GetDiskAttachedToVM, DetachVolume
<1>5. \A i \in 1..Len(cns) : cns'[i].ds = cns[i].ds
  <2>1. CASE cns' = cns
    BY <2>1, Zenon
  <2>2. CASE cns' # cns
    <3>1. PICK n \in Hosts : \/ cns' = [cns EXCEPT ![pv.vol].vm = n]
                            \/ cns' = [cns EXCEPT ![pv.vol].state = "deleted"]
      BY <1>4, <2>2, Zenon
    <3> QED
      BY <1>1, <3>1, ChangedVolume, Zenon
  <2> QED
    BY <2>1, <2>2, Zenon
<1> QED
  BY <1>1, <1>2, <1>3, <1>5, PlaceKept, Zenon

LEMMA NextPlace ==
    ASSUME IInv, PlaceInv, [Next]_vars
    PROVE  PlaceInv'
<1>1. CASE HandlerSteps
  BY <1>1, ChoosePlace, CreatePlace, QueryPlace, ExistingPlace, Zenon DEF HandlerSteps
<1>2. CASE Calls
  <2>1. PICK op, n : Begin(op, n)
    BY <1>2, Zenon DEF Calls, ProvisionerCreates, ProvisionerDeletes, AttacherAttaches,
                       AttacherDetaches
  <2>2. /\ call' = [NoCall EXCEPT !.op = op, !.step = "start", !.node = n, !.waits = TRUE,
                                  !.vol = pv.vol]
        /\ UNCHANGED <<fixed, cns, pv>>
    BY <2>1, Zenon DEF Begin, kube
  <2>3. call'.step = "start"
    BY <2>2, Zenon DEF NoCall
  <2> QED
    BY <2>2, <2>3, PlaceKept, Zenon
<1>3. CASE (\E op \in Handlers : VCenterFails(op)) \/ Crash
  <2>1. call' = NoCall /\ UNCHANGED <<fixed, cns, pv>>
    BY <1>3, Zenon DEF VCenterFails, Crash, Error, kube
  <2>2. call'.op = "none"
    BY <2>1, Zenon DEF NoCall
  <2> QED
    BY <2>1, <2>2, PlaceKept, Zenon
<1>4. CASE Timeout
  <2>1. call' = [call EXCEPT !.waits = FALSE] /\ call \in Call /\ UNCHANGED <<fixed, cns, pv>>
    BY <1>4, Zenon DEF Timeout, kube, IInv, Shapes
  <2>2. /\ call'.op = call.op /\ call'.step = call.step /\ call'.vol = call.vol
        /\ call'.ds = call.ds /\ call'.map = call.map /\ call'.seen = call.seen
    BY <2>1, Zenon DEF Call
  <2> QED
    BY <2>1, <2>2, PlaceKept, Zenon
<1>5. CASE \/ AddAttachment \/ RemoveAttachment \/ ForceRemoveAttachment \/ DeleteClaim
           \/ NodeJoins \/ NodeLeaves
  <2>1. UNCHANGED <<fixed, cns, pv, call>>
    BY <1>5, Zenon DEF AddAttachment, RemoveAttachment, ForceRemoveAttachment, DeleteClaim,
                       NodeJoins, NodeLeaves, kube
  <2> QED
    BY <2>1, PlaceKept, Zenon
<1>6. CASE UNCHANGED vars
  BY <1>6, PlaceKept, Zenon DEF vars, kube
<1> QED
  BY <1>1, <1>2, <1>3, <1>4, <1>5, <1>6, Zenon DEF Next

(* What is found among the nodes is fixed by the case. *)
Fixed == case \in DOMAIN Cases /\ found = [ns \in SUBSET Nodes |-> SharedDatastores(ns)]

LEMMA NextFixed ==
    ASSUME Fixed, [Next]_vars
    PROVE  Fixed'
<1>1. UNCHANGED fixed
  BY Zenon DEF Next, HandlerSteps, Calls, ChooseDatastores, CreateVolume, QueryDatastore,
      DeleteVolume, GetNodeByName, AttachVolume, GetDiskAttachedToVM, DetachVolume,
      ProvisionerCreates, ProvisionerDeletes, AttacherAttaches, AttacherDetaches, Begin,
      VCenterFails, Timeout, Crash, AddAttachment, RemoveAttachment, ForceRemoveAttachment,
      DeleteClaim, NodeJoins, NodeLeaves, vars
<1> QED
  BY <1>1, Zenon DEF Fixed, fixed, SharedDatastores, inv, req

(* A step to the request to CNS is the choice of the datastores. *)
LEMMA OnlyChoice ==
    ASSUME IInv, Next, At("create", "start"), call'.step = "create"
    PROVE  ChooseDatastores
<1>1. call.op = "create" /\ call.step = "start" /\ call # NoCall /\ call \in Call
  BY DEF At, NoCall, IInv, Shapes
<1>2. NoCall.step = "none"
  BY Zenon DEF NoCall
<1>3. call' # NoCall /\ call' # call
  BY <1>1, <1>2
<1>4. CASE HandlerSteps
  BY <1>1, <1>4, Zenon DEF HandlerSteps, CreateVolume, QueryDatastore, DeleteVolume, GetNodeByName,
                           AttachVolume, GetDiskAttachedToVM, DetachVolume, At
<1>5. CASE Calls
  BY <1>1, <1>5, Zenon DEF Calls, ProvisionerCreates, ProvisionerDeletes, AttacherAttaches,
                           AttacherDetaches, Begin
<1>6. CASE (\E op \in Handlers : VCenterFails(op)) \/ Crash
  BY <1>3, <1>6, Zenon DEF VCenterFails, Crash, Error
<1>7. CASE Timeout
  <2>1. call'.step = call.step
    BY <1>1, <1>7, WaitTypes, Zenon DEF Timeout
  <2> QED
    BY <1>1, <2>1
<1>8. CASE \/ AddAttachment \/ RemoveAttachment \/ ForceRemoveAttachment \/ DeleteClaim
           \/ NodeJoins \/ NodeLeaves
  BY <1>3, <1>8, Zenon DEF AddAttachment, RemoveAttachment, ForceRemoveAttachment, DeleteClaim,
                           NodeJoins, NodeLeaves
<1> QED
  BY <1>4, <1>5, <1>6, <1>7, <1>8, Zenon DEF Next

-----------------------------------------------------------------------------
(* Finite sets: the number of volumes left behind. *)

INSTANCE TopologyProofs

LEMMA LeftFinite ==
    ASSUME IInv
    PROVE  IsFiniteSet(Left) /\ Cardinality(Left) \in Nat /\ DOMAIN cns = 1..Len(cns)
<1>1. DOMAIN cns = 1..Len(cns) /\ Len(cns) \in Nat
  BY DEF IInv, Shapes
<1>2. IsFiniteSet(1..Len(cns))
  BY <1>1, FS_Interval
<1>3. Left \subseteq 1..Len(cns)
  BY <1>1, Zenon DEF Left
<1>4. IsFiniteSet(Left)
  BY <1>2, <1>3, FS_Subset, Zenon
<1> QED
  BY <1>1, <1>4, FS_CardinalityType, Zenon

(* One element more makes a finite set larger by one at most. *)
LEMMA OneMore ==
    ASSUME NEW S, IsFiniteSet(S), NEW k, NEW T, T \subseteq S \cup {k}
    PROVE  Cardinality(T) <= Cardinality(S) + 1
<1>1. /\ IsFiniteSet(S \cup {k})
      /\ Cardinality(S \cup {k}) = Cardinality(S) \/ Cardinality(S \cup {k}) = Cardinality(S) + 1
  BY FS_AddElement, Zenon
<1>2. Cardinality(T) <= Cardinality(S \cup {k})
  BY <1>1, FS_Subset, Zenon
<1>3. Cardinality(S) \in Nat
  BY FS_CardinalityType, Zenon
<1>4. Cardinality(T) \in Nat
  BY <1>1, FS_Subset, FS_CardinalityType, Zenon
<1> QED
  BY <1>1, <1>2, <1>3, <1>4

LEMMA LeakStep ==
    ASSUME IInv, IInv', LeakInv, Keeps \/ Fails \/ Leaves
    PROVE  LeakInv'
<1>1. /\ Cardinality(Left) \in Nat /\ Cardinality(Left') \in Nat
      /\ IsFiniteSet(Left) /\ faults \in Nat /\ faults' \in Nat
  <2>1. faults \in Nat /\ faults' \in Nat
    BY ControllerAssumption DEF IInv, Shapes
  <2>2. IsFiniteSet(Left') /\ Cardinality(Left') \in Nat
    <3>1. cns' \in Seq(Volume')
      BY Zenon DEF IInv, Shapes
    <3>2. DOMAIN cns' = 1..Len(cns') /\ Len(cns') \in Nat
      BY <3>1
    <3>3. Left' \subseteq 1..Len(cns')
      BY <3>2, Zenon DEF Left
    <3>4. IsFiniteSet(1..Len(cns'))
      BY <3>2, FS_Interval
    <3> QED
      BY <3>3, <3>4, FS_Subset, FS_CardinalityType, Zenon
  <2> QED
    BY <2>1, <2>2, LeftFinite, Zenon
<1>2. Abandoned \in {0, 1} /\ Abandoned' \in {0, 1}
  BY Zenon DEF Abandoned
<1>3. Left' \subseteq Left => Cardinality(Left') <= Cardinality(Left)
  BY <1>1, FS_Subset, Zenon
<1>4. Cardinality(Left) + Abandoned <= faults
  BY Zenon DEF LeakInv
<1> SUFFICES Cardinality(Left') + Abandoned' <= faults'
  BY Zenon DEF LeakInv
<1>5. CASE Keeps
  BY <1>1, <1>2, <1>3, <1>4, <1>5 DEF Keeps
<1>6. CASE Fails
  BY <1>1, <1>2, <1>3, <1>4, <1>6 DEF Fails
<1>7. CASE Leaves
  <2>1. Cardinality(Left') <= Cardinality(Left) + 1
    BY <1>1, <1>7, OneMore, Zenon DEF Leaves
  <2> QED
    BY <1>1, <1>2, <1>4, <1>7, <2>1 DEF Leaves
<1> QED
  BY <1>5, <1>6, <1>7, Zenon

LEMMA NextLeak ==
    ASSUME IInv, IInv', LeakInv, [Next]_vars
    PROVE  LeakInv'
<1>1. CASE HandlerSteps
  <2>1. Keeps \/ Leaves
    BY <1>1, ChooseLeak, CreateLeak, QueryLeak, DeleteLeak, AttachLeak, Zenon DEF HandlerSteps
  <2> QED
    BY <2>1, LeakStep, Zenon
<1>2. CASE Calls
  BY <1>2, CallsLeak, LeakStep, Zenon
<1>3. CASE (\E op \in Handlers : VCenterFails(op)) \/ Crash
  <2>1. call' = NoCall /\ UNCHANGED <<cns, pv>> /\ Fault
    BY <1>3, Zenon DEF VCenterFails, Crash, Error, kube
  <2> QED
    BY <2>1, FailureLeak, LeakStep, Zenon
<1>4. CASE Timeout
  BY <1>4, TimeoutLeak, LeakStep, Zenon
<1>5. CASE \/ AddAttachment \/ RemoveAttachment \/ ForceRemoveAttachment \/ DeleteClaim
           \/ NodeJoins \/ NodeLeaves
  BY <1>5, ClusterLeak, LeakStep, Zenon
<1>6. CASE UNCHANGED vars
  BY <1>6, Zenon DEF vars, kube, LeakInv, Left, Abandoned
<1> QED
  BY <1>1, <1>2, <1>3, <1>4, <1>5, <1>6, Zenon DEF Next

(* At most one volume is left behind per failure, for every inventory,     *)
(* request, set of nodes and bound: CreateVolume, sent again after each    *)
(* failure, timeout or crash, leaves no more volumes without a PV than     *)
(* there were failures; and DeleteVolume leaves none.                      *)
THEOREM LeaksAlwaysBounded == Spec => []LeaksBounded
<1>1. Init => LeakInv
  <2> SUFFICES ASSUME Init PROVE LeakInv
    BY Zenon
  <2>1. Left = {} /\ Abandoned = 0 /\ faults = 0
    <3>1. DOMAIN cns = {}
      BY DEF Init
    <3> QED
      BY <3>1, Zenon DEF Init, Left, Abandoned, NoCall
  <2>2. Cardinality({}) = 0
    BY FS_EmptySet, Zenon
  <2> QED
    BY <2>1, <2>2 DEF LeakInv
<1>2. IInv /\ LeakInv => LeaksBounded
  <2> SUFFICES ASSUME IInv, LeakInv PROVE Cardinality(Left) <= faults
    BY Zenon DEF LeaksBounded, Left
  <2>1. Cardinality(Left) \in Nat /\ faults \in Nat /\ Abandoned \in {0, 1}
    <3>1. Abandoned \in {0, 1}
      BY Zenon DEF Abandoned
    <3>2. faults \in Nat
      BY ControllerAssumption DEF IInv, Shapes
    <3> QED
      BY <3>1, <3>2, LeftFinite, Zenon
  <2> QED
    BY <2>1 DEF LeakInv
<1>3. IInv /\ LeakInv /\ [Next]_vars => (IInv /\ LeakInv)'
  BY NextIInv, NextLeak, Zenon
<1> QED
  BY <1>1, <1>2, <1>3, InitIInv, PTL DEF Spec

-----------------------------------------------------------------------------
(* What the requests and inventories make of the searches. *)

LEMMA WithIs ==
    ASSUME NEW r, NEW map
    PROVE  With(r, map).ds = r.ds /\ With(r, map).err = r.err /\ With(r, map).map = map
BY Zenon DEF With

LEMMA FailedIs ==
    Failed.ds = {} /\ Failed.err = TRUE /\ \A D : Found(D).ds = D /\ Found(D).err = FALSE
BY Zenon DEF Failed, Found

(* The nodes that a topology selects are those with its nearest tags. *)
LEMMA SelectedIs ==
    ASSUME case \in DOMAIN Cases, NEW ns \in SUBSET Nodes, NEW t \in Topologies
    PROVE  Selected(Cases[case], ns, t) = getNodesInZoneRegion(inv, ns, t)
<1>1. \A n \in ns : Inventory(inv, n)
  BY CasesAssumption, Zenon DEF inv
<1>2. ASSUME NEW n \in ns
      PROVE  IsInZoneRegion(inv, n, t) <=>
                /\ t # NoTopology
                /\ t.zone \in {"", NearestTag(inv, n, "zone")}
                /\ t.region \in {"", NearestTag(inv, n, "region")}
  BY <1>1, InZoneRegionIs, Zenon
<1> QED
  BY <1>2, Zenon DEF Selected, getNodesInZoneRegion, inv

(* Among the nodes of one topology, or all of them. *)
LEMMA SharedSound ==
    ASSUME case \in DOMAIN Cases, NEW ns \in SUBSET Nodes, ~ SharedDatastores(ns).err
    PROVE  Sound(SharedDatastores(ns), ns)
<1> DEFINE r == SharedDatastores(ns)
<1>0. /\ IsFiniteSet(ns) /\ \A n \in ns : Inventory(inv, n)
      /\ Range(req.preferred) \subseteq Topologies /\ Range(req.requisite) \subseteq Topologies
  BY CasesAssumption, FS_Subset, Zenon DEF inv, req
<1>1. CASE ~ req.topology
  <2> DEFINE k == GetSharedDatastoresInK8SCluster(inv, ns)
  <2>1. r = With(k, << >>)
    BY <1>1, Zenon DEF SharedDatastores
  <2>2. r.ds = k.ds /\ ~ k.err /\ r.map = << >>
    <3>1. ~ r.err
      BY Zenon
    <3> HIDE DEF r, k
    <3> QED
      BY <2>1, <3>1, WithIs, Zenon
  <2>3. ns # {} /\ k = Shared(inv, ns)
    BY <1>0, <2>2, FailedIs, SharedAreCommon, Zenon DEF GetSharedDatastoresInK8SCluster
  <2>4. k.ds = Common(inv, ns)
    BY <2>2, <2>3, FailedIs, Zenon DEF Shared
  <2>5. \A d \in r.ds : \A n \in ns : d \in inv.access[n]
    BY <2>2, <2>4, Zenon DEF Common
  <2>6. DOMAIN r.map = {}
    BY <2>2
  <2> HIDE DEF r
  <2>7. Sound(r, ns)
    BY <1>1, <2>5, <2>6, Zenon DEF Sound, Placed, Serves
  <2> QED
    BY <2>7, Zenon DEF r
<1>2. CASE req.topology
  <2>1. PICK arr : /\ Range(arr) \subseteq Topologies
                   /\ Range(arr) \subseteq Range(req.preferred) \cup Range(req.requisite)
                   /\ r = getSharedDatastoresInTopology(inv, ns, arr)
    <3>1. ~ With(Failed, << >>).err <=> FALSE
      BY FailedIs, WithIs, Zenon
    <3> QED
      BY <1>0, <1>2, <3>1, Zenon DEF SharedDatastores, GetSharedDatastoresInTopology
  <2>2. PerTopology(r, inv, ns, arr)
    BY <1>0, <2>1, SharedPerTopology, Zenon
  <2> HIDE DEF r
  <2>3. ASSUME NEW t \in Range(arr), NEW d \in CommonIn(inv, ns, t)
        PROVE  Serves(d, t, ns) /\ Selected(Cases[case], ns, t) # {}
    <3>1. t \in Topologies
      BY <2>1, Zenon
    <3>2. Serves(d, t, ns)
      BY <1>0, <3>1, ServesMatching, Zenon DEF Serves
    <3>3. getNodesInZoneRegion(inv, ns, t) # {}
      BY Zenon DEF CommonIn, Common
    <3> QED
      BY <3>1, <3>2, <3>3, SelectedIs, Zenon
  <2>4. ASSUME NEW d \in r.ds
        PROVE  Placed(d, NoTopology, ns)
    <3>1. PICK t \in Range(arr) : d \in CommonIn(inv, ns, t)
      BY <2>2, Zenon DEF PerTopology
    <3> QED
      BY <1>2, <2>1, <2>3, <3>1, Zenon DEF Placed
  <2>5. ASSUME NEW d \in r.ds, NEW t \in r.map[d]
        PROVE  Placed(d, t, ns)
    <3>1. t \in Range(arr) /\ d \in CommonIn(inv, ns, t)
      BY <2>2, Zenon DEF PerTopology
    <3> QED
      BY <2>3, <2>4, <3>1, Zenon DEF Placed
  <2>6. Sound(r, ns)
    BY <2>4, <2>5, Zenon DEF Sound
  <2> QED
    BY <2>6, Zenon DEF r
<1> QED
  BY <1>1, <1>2, Zenon

LEMMA InitPlace == Init => PlaceInv
<1> SUFFICES ASSUME Init PROVE PlaceInv
  BY Zenon
<1>1. FoundSound
  <2> SUFFICES ASSUME NEW ns \in SUBSET Nodes, ~ found[ns].err
               PROVE  Sound(found[ns], ns)
    BY Zenon DEF FoundSound
  <2>1. found[ns] = SharedDatastores(ns) /\ case \in DOMAIN Cases
    BY Zenon DEF Init
  <2> QED
    BY <2>1, SharedSound, Zenon
<1>2. Chosen
  BY Zenon DEF Init, Chosen, NoCall, At
<1>3. Reachable
  BY Zenon DEF Init, Reachable, NoPV
<1> QED
  BY <1>1, <1>2, <1>3, Zenon DEF PlaceInv

(* CreateVolume puts a volume where its pods can use it, for every         *)
(* inventory, request and set of nodes: every node that was known when the *)
(* datastores were chosen, and on which the PV's topology lets a pod run,  *)
(* can access the volume's datastore; an answer without a topology, though *)
(* some were asked for, still means that all nodes of one of those can.    *)
THEOREM AlwaysReachable == Spec => []Reachable
<1>1. PlaceInv => Reachable
  BY Zenon DEF PlaceInv
<1>2. IInv /\ PlaceInv /\ [Next]_vars => (IInv /\ PlaceInv)'
  BY NextIInv, NextPlace, Zenon
<1> QED
  BY <1>1, <1>2, InitIInv, InitPlace, PTL DEF Spec

(* A search that succeeds for a topology list shows that the list fits. *)
Served(ns, arr) == {t \in Range(arr) : Selected(Cases[case], ns, t) # {}}

LEMMA ServedAre ==
    ASSUME case \in DOMAIN Cases, NEW ns \in SUBSET Nodes, NEW arr,
           Range(arr) \subseteq Topologies, NEW r, PerTopology(r, inv, ns, arr)
    PROVE  /\ UNION {Common(Cases[case].inv, Selected(Cases[case], ns, t)) :
                        t \in Served(ns, arr)} = r.ds
           /\ \A t \in Served(ns, arr) :
                 Common(Cases[case].inv, Selected(Cases[case], ns, t)) # {}
           /\ r.ds = {} => Served(ns, arr) = {}
<1> inv = Cases[case].inv
  BY Zenon DEF inv
<1>1. \A t \in Range(arr) :
         /\ Selected(Cases[case], ns, t) = getNodesInZoneRegion(inv, ns, t)
         /\ CommonIn(inv, ns, t) = Common(inv, Selected(Cases[case], ns, t))
  BY SelectedIs, Zenon DEF CommonIn
<1>2. \A t \in Served(ns, arr) :
         /\ t \in Range(arr)
         /\ Common(inv, Selected(Cases[case], ns, t)) # {}
  BY <1>1, Zenon DEF Served, PerTopology
<1>3. \A t \in Range(arr) : \A d \in CommonIn(inv, ns, t) : t \in Served(ns, arr)
  <2>1. \A d : d \notin Common(inv, {})
    BY Zenon DEF Common
  <2> QED
    BY <1>1, <2>1, Zenon DEF Served
<1>4. r.ds = UNION {CommonIn(inv, ns, t) : t \in Range(arr)}
  BY Zenon DEF PerTopology
<1>5. \A d : d \in r.ds <=> \E t \in Served(ns, arr) :
                                d \in Common(inv, Selected(Cases[case], ns, t))
  BY <1>1, <1>2, <1>3, <1>4, ZenonT(30)
<1> QED
  BY <1>2, <1>5, Zenon

LEMMA FoundSatisfiable ==
    ASSUME case \in DOMAIN Cases, NEW ns \in SUBSET Nodes, ~ SharedDatastores(ns).err,
           Candidates(SharedDatastores(ns).ds) # {}
    PROVE  SatisfiableFor(Cases[case], ns)
<1> DEFINE c == Cases[case]
           r == SharedDatastores(ns)
           usable(ds) == IF c.req.url = NoUrl THEN ds # {}
                         ELSE c.req.url \in ds \cap c.inv.listed
<1>0. /\ IsFiniteSet(ns) /\ inv = c.inv /\ req = c.req
      /\ Range(req.preferred) \subseteq Topologies /\ Range(req.requisite) \subseteq Topologies
  BY CasesAssumption, FS_Subset, Zenon DEF inv, req
<1>1. usable(r.ds)
  BY Zenon DEF Candidates, inv, req
<1>2. CASE ~ req.topology
  <2> DEFINE k == GetSharedDatastoresInK8SCluster(inv, ns)
  <2>1. r = With(k, << >>) /\ ~ r.err
    BY <1>2, Zenon DEF SharedDatastores
  <2>2. r.ds = k.ds /\ ~ k.err
    <3> HIDE DEF r, k
    <3> QED
      BY <2>1, WithIs, Zenon
  <2>3. ns # {} /\ k = Shared(inv, ns)
    BY <1>0, <2>2, FailedIs, SharedAreCommon, Zenon DEF GetSharedDatastoresInK8SCluster
  <2>4. k.ds = Common(inv, ns)
    BY <2>2, <2>3, FailedIs, Zenon DEF Shared
  <2>5. usable(Common(c.inv, ns))
    <3> HIDE DEF r, k, c
    <3> QED
      BY <1>0, <1>1, <2>2, <2>4, Zenon
  <2> QED
    BY <1>2, <2>5, Zenon DEF SatisfiableFor, req
<1>3. CASE req.topology
  <2> DEFINE p == getSharedDatastoresInTopology(inv, ns, req.preferred)
             q == getSharedDatastoresInTopology(inv, ns, req.requisite)
             all(arr)  == UNION {Common(c.inv, Selected(c, ns, t)) : t \in Served(ns, arr)}
             fits(arr) == /\ usable(all(arr))
                          /\ \A t \in Served(ns, arr) : Common(c.inv, Selected(c, ns, t)) # {}
  <2>0. \A ds, D : usable(ds) /\ D = ds => usable(D)
    BY Zenon
  <2>1. With(Failed, << >>).err = TRUE
    BY FailedIs, WithIs, Zenon
  <2>2. /\ inv.labels
        /\ \/ r = p /\ ~ p.err
           \/ ~ p.err /\ p.ds = {} /\ r = q /\ ~ q.err
    BY <1>3, <2>1, Zenon DEF SharedDatastores, GetSharedDatastoresInTopology
  <2>3. CASE r = p /\ ~ p.err
    <3>1. PerTopology(r, inv, ns, req.preferred)
      BY <1>0, <2>3, SharedPerTopology, Zenon
    <3> HIDE DEF r, p, q
    <3>2. /\ all(req.preferred) = r.ds
          /\ \A t \in Served(ns, req.preferred) : Common(c.inv, Selected(c, ns, t)) # {}
      BY <1>0, <3>1, ServedAre, Zenon
    <3>3. fits(req.preferred)
      BY <1>1, <3>2, <2>0, Zenon
    <3> QED
      BY <1>0, <1>3, <2>2, <3>3, Zenon DEF SatisfiableFor, Served
  <2>4. CASE ~ p.err /\ p.ds = {} /\ r = q /\ ~ q.err
    <3>1. PerTopology(r, inv, ns, req.requisite) /\ PerTopology(p, inv, ns, req.preferred)
      BY <1>0, <2>4, SharedPerTopology, Zenon
    <3> HIDE DEF r, p, q
    <3>2. /\ all(req.requisite) = r.ds
          /\ \A t \in Served(ns, req.requisite) : Common(c.inv, Selected(c, ns, t)) # {}
      BY <1>0, <3>1, ServedAre, Zenon
    <3>3. Served(ns, req.preferred) = {}
      BY <1>0, <2>4, <3>1, ServedAre, Zenon
    <3>4. fits(req.requisite)
      BY <1>1, <3>2, <2>0, Zenon
    <3> QED
      BY <1>0, <1>3, <2>2, <3>3, <3>4, Zenon DEF SatisfiableFor, Served
  <2> QED
    BY <2>2, <2>3, <2>4, Zenon
<1> QED
  BY <1>2, <1>3, Zenon

(* A volume is made only for a request that could be satisfied when the    *)
(* datastores were chosen, for every inventory, request and set of nodes.  *)
THEOREM AlwaysOnlySatisfiable == Spec => OnlySatisfiable
<1>1. Init => Fixed
  BY Zenon DEF Init, Fixed
<1>2. ASSUME IInv, Fixed, [Next]_vars
      PROVE  [At("create", "start") /\ call'.step = "create" => Satisfiable]_vars
  <2> SUFFICES ASSUME Next, At("create", "start"), call'.step = "create"
               PROVE  Satisfiable
    BY <1>2, Zenon
  <2>1. ChooseDatastores /\ nodes \in SUBSET Nodes
    BY <1>2, OnlyChoice, Zenon DEF IInv, Shapes
  <2>2. call' # NoCall
    <3>1. NoCall.step = "none"
      BY Zenon DEF NoCall
    <3> QED
      BY <3>1
  <2>3. ~ found[nodes].err /\ Candidates(found[nodes].ds) # {}
    BY <2>1, <2>2, Zenon DEF ChooseDatastores, Error
  <2>4. found[nodes] = SharedDatastores(nodes) /\ case \in DOMAIN Cases
    BY <1>2, <2>1, Zenon DEF Fixed
  <2>5. SatisfiableFor(Cases[case], nodes)
    BY <2>1, <2>3, <2>4, FoundSatisfiable, Zenon
  <2> QED
    BY <2>1, <2>4, <2>5, Zenon DEF Satisfiable, SatisfiableTable
<1>3. IInv /\ Fixed /\ [Next]_vars => (IInv /\ Fixed)'
  BY NextIInv, NextFixed, Zenon
<1> QED
  BY <1>1, <1>2, <1>3, InitIInv, PTL DEF Spec, OnlySatisfiable
===============================================================================
