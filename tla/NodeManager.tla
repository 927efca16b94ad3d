------------------------------ MODULE NodeManager ------------------------------
(***************************************************************************)
(* The node manager (pkg/common/cns-lib/node/manager.go) and the informer  *)
(* callbacks that feed it (pkg/csi/service/cns/nodes.go).  Two sync.Maps,  *)
(* from node names to UUIDs and from UUIDs to VMs, without a common lock:  *)
(* each operation on one of them, and each call to the API server or to    *)
(* vCenter, is a step.  The informer delivers its events in order, one at  *)
(* a time; requests run concurrently with it and with each other.          *)
(*                                                                         *)
(* A node's providerID is the UUID of its VM, or NoID until the cloud      *)
(* provider sets it; the informer has no update callback.  Every UUID has  *)
(* a VM.  A VM is its UUID.  The nil VM that GetNode asserts to be one     *)
(* panics, which ends the process.                                         *)
(***************************************************************************)
EXTENDS NodeKeys, Naturals, Sequences

CONSTANTS NoID,             \* the empty providerID, as a UUID
          NoNode,           \* no such node, no such key
          Callers,
          Listers,          \* bound: the callers that call GetAllNodes
          NodeOps,          \* bound: which changes of the cluster a behaviour has
          MaxChanges,       \* bound: how many
          MaxFaults         \* bound: calls to the API server or vCenter that fail

ASSUME NodeAssumption == /\ NoID \notin UUIDs /\ NoNode \notin UUIDs \cup {NoID} \cup Names
                         /\ MaxChanges \in Nat /\ MaxFaults \in Nat

VARIABLES nodes,            \* the API server: name -> providerID
          events,           \* what the informer has still to deliver
          nodeNameToUUID,
          nodeVMs,          \* the keys of the map
          informer,         \* the callback that runs: its step, node and UUID
          req,              \* each caller's request: its step, node and UUID
          todo, vms,        \* each caller's Range, and the result of its GetAllNodes
          last,             \* history: what the last GetNodeByName of a node returned
          stayed,           \* history: the VMs that have been known ever since a
                            \* GetAllNodes began
          removed,          \* history: the VMs that UnregisterNode has deleted
          process, changes, faults

envVars == <<nodes, changes, removed>>
vars == <<nodes, events, nodeNameToUUID, nodeVMs, informer, req, todo, vms, last,
          stayed, removed, process, changes, faults>>

IDs  == UUIDs \cup {NoID}
Idle == [pc |-> "idle", name |-> NoNode, uuid |-> NoNode]

Init == /\ nodes = [n \in Names |-> NoNode] /\ events = <<>>
        /\ nodeNameToUUID = [n \in Names |-> NoNode] /\ nodeVMs = {}
        /\ informer = Idle
        /\ req = [c \in Callers |-> Idle]
        /\ todo = [c \in Callers |-> {}] /\ vms = [c \in Callers |-> {}]
        /\ last = [n \in Names |-> NoNode]
        /\ stayed = [c \in Callers |-> {}] /\ removed = {}
        /\ process = "up" /\ changes = 0 /\ faults = 0

Fault == faults < MaxFaults /\ faults' = faults + 1

-----------------------------------------------------------------------------
(* The cluster. *)

Change(op) == op \in NodeOps /\ changes < MaxChanges /\ changes' = changes + 1

AddNode(n, id) ==
    /\ Change("AddNode") /\ nodes[n] = NoNode
    /\ id = NoID => "SetProviderID" \in NodeOps
    /\ \A m \in Names : nodes[m] # id \/ id = NoID
    /\ nodes' = [nodes EXCEPT ![n] = id]
    /\ events' = Append(events, [type |-> "add", name |-> n, uuid |-> id])
    /\ UNCHANGED <<nodeNameToUUID, nodeVMs, informer, req, todo, vms, last, stayed, removed,
                   process, faults>>

SetProviderID(n, id) ==
    /\ Change("SetProviderID") /\ nodes[n] = NoID
    /\ \A m \in Names : nodes[m] # id
    /\ nodes' = [nodes EXCEPT ![n] = id]
    /\ UNCHANGED <<events, nodeNameToUUID, nodeVMs, informer, req, todo, vms, last,
                   stayed, removed, process, faults>>

DeleteNode(n) ==
    /\ Change("DeleteNode") /\ nodes[n] # NoNode
    /\ nodes' = [nodes EXCEPT ![n] = NoNode]
    /\ events' = Append(events, [type |-> "delete", name |-> n, uuid |-> nodes[n]])
    /\ UNCHANGED <<nodeNameToUUID, nodeVMs, informer, req, todo, vms, last, stayed, removed,
                   process, faults>>

-----------------------------------------------------------------------------
(* The informer's callbacks: nodeAdd and nodeDelete. *)

At(l)     == informer.pc = l /\ process = "up"
RequestsUnchanged == UNCHANGED <<req, todo, vms, last, stayed, process>>

(* RegisterNode stores the name, then discovers the VM; there is none for  *)
(* the empty UUID.                                                         *)
RegisterNode ==
    /\ At("idle") /\ events # <<>> /\ Head(events).type = "add"
    /\ LET e == Head(events)
       IN  /\ nodeNameToUUID' = [nodeNameToUUID EXCEPT ![e.name] = e.uuid]
           /\ informer' = [pc |-> "discover", name |-> e.name, uuid |-> e.uuid]
    /\ events' = Tail(events)
    /\ RequestsUnchanged /\ UNCHANGED <<envVars, nodeVMs, faults>>

(* RegisterNode that stores whatever the lookup returned. *)
DiscoverUnchecked ==
    /\ At("discover")
    /\ nodeVMs' = nodeVMs \cup {informer.uuid}
    /\ informer' = Idle
    /\ RequestsUnchanged /\ UNCHANGED <<envVars, events, nodeNameToUUID, faults>>

RegisterDiscovers ==
    /\ At("discover")
    /\ \/ informer.uuid # NoID /\ nodeVMs' = nodeVMs \cup {informer.uuid} /\ UNCHANGED faults
       \/ informer.uuid = NoID /\ UNCHANGED <<nodeVMs, faults>>
       \/ informer.uuid # NoID /\ Fault /\ UNCHANGED nodeVMs
    /\ informer' = Idle
    /\ RequestsUnchanged /\ UNCHANGED <<envVars, events, nodeNameToUUID>>

(* UnregisterNode that leaves the name. *)
UnregisterVMOnly ==
    /\ At("idle") /\ events # <<>> /\ Head(events).type = "delete"
    /\ informer' = [pc |-> "deleteVM", name |-> Head(events).name,
                    uuid |-> nodeNameToUUID[Head(events).name]]
    /\ events' = Tail(events)
    /\ RequestsUnchanged /\ UNCHANGED <<envVars, nodeNameToUUID, nodeVMs, faults>>

(* UnregisterNode: read the UUID, delete the name, delete the VM.          *)
UnregisterNode ==
    /\ At("idle") /\ events # <<>> /\ Head(events).type = "delete"
    /\ LET n == Head(events).name
       IN  informer' = IF nodeNameToUUID[n] = NoNode THEN Idle
                       ELSE [pc |-> "deleteName", name |-> n, uuid |-> nodeNameToUUID[n]]
    /\ events' = Tail(events)
    /\ RequestsUnchanged /\ UNCHANGED <<envVars, nodeNameToUUID, nodeVMs, faults>>

UnregisterName ==
    /\ At("deleteName")
    /\ nodeNameToUUID' = [nodeNameToUUID EXCEPT ![informer.name] = NoNode]
    /\ informer' = [informer EXCEPT !.pc = "deleteVM"]
    /\ RequestsUnchanged /\ UNCHANGED <<envVars, events, nodeVMs, faults>>

UnregisterVM ==
    /\ At("deleteVM")
    /\ nodeVMs' = nodeVMs \ {informer.uuid}
    /\ removed' = removed \cup {informer.uuid}
    /\ stayed' = [c \in Callers |-> stayed[c] \ {informer.uuid}]
    /\ informer' = Idle
    /\ UNCHANGED <<nodes, changes, events, nodeNameToUUID, req, todo, vms, last, process,
                   faults>>

InformerNext == \/ RegisterNode \/ RegisterDiscovers
                \/ UnregisterNode \/ UnregisterName \/ UnregisterVM

-----------------------------------------------------------------------------
(* GetNodeByName and GetNode. *)

ReqAt(c, l)   == req[c].pc = l /\ process = "up"
ReqGoto(c, l) == req' = [req EXCEPT ![c].pc = l]
InformerUnchanged == UNCHANGED <<envVars, events, informer>>

(* The request returns a VM, or NoNode and an error. *)
Answer(c, vm) == /\ req' = [req EXCEPT ![c] = Idle]
                 /\ last' = [last EXCEPT ![req[c].name] = vm]

(* GetNodeByName: an unknown name is an error, a known UUID goes to        *)
(* GetNode, an empty one is looked up in the API server.                   *)
GetNodeByName(c, n) ==
    /\ ReqAt(c, "idle")
    /\ LET u == nodeNameToUUID[n]
       IN  \/ /\ u = NoNode /\ last' = [last EXCEPT ![n] = NoNode] /\ UNCHANGED req
           \/ /\ u # NoNode /\ UNCHANGED last
              /\ req' = [req EXCEPT ![c] =
                            [pc |-> IF u = NoID THEN "query" ELSE "load", name |-> n, uuid |-> u]]
    /\ InformerUnchanged
    /\ UNCHANGED <<nodeNameToUUID, nodeVMs, todo, vms, stayed, process, faults>>

GetNodeVMUUID(c) ==
    /\ ReqAt(c, "query")
    /\ LET id == nodes[req[c].name]
       IN  \/ id = NoNode /\ Answer(c, NoNode) /\ UNCHANGED faults
           \/ Fault /\ Answer(c, NoNode)
           \/ /\ id # NoNode
              /\ req' = [req EXCEPT ![c].pc = "store", ![c].uuid = id]
              /\ UNCHANGED <<last, faults>>
    /\ InformerUnchanged
    /\ UNCHANGED <<nodeNameToUUID, nodeVMs, todo, vms, stayed, process>>

StoreUUID(c) ==
    /\ ReqAt(c, "store")
    /\ nodeNameToUUID' = [nodeNameToUUID EXCEPT ![req[c].name] = req[c].uuid]
    /\ ReqGoto(c, "load")
    /\ InformerUnchanged
    /\ UNCHANGED <<nodeVMs, todo, vms, last, stayed, process, faults>>

(* GetNode: a VM in the map is renewed and returned, one that is not is    *)
(* discovered.                                                             *)
LoadVM(c) ==
    /\ ReqAt(c, "load")
    /\ \/ req[c].uuid \in nodeVMs /\ Answer(c, req[c].uuid) /\ UNCHANGED faults
       \/ req[c].uuid \in nodeVMs /\ Fault /\ Answer(c, NoNode)
       \/ req[c].uuid \notin nodeVMs /\ ReqGoto(c, "discover") /\ UNCHANGED <<last, faults>>
    /\ InformerUnchanged
    /\ UNCHANGED <<nodeNameToUUID, nodeVMs, todo, vms, stayed, process>>

(* DiscoverNode that does not store the VM. *)
FindOnly(c) ==
    /\ ReqAt(c, "discover") /\ req[c].uuid # NoID /\ ReqGoto(c, "reload")
    /\ InformerUnchanged
    /\ UNCHANGED <<nodeNameToUUID, nodeVMs, todo, vms, last, stayed, process, faults>>

DiscoverNode(c) ==
    /\ ReqAt(c, "discover")
    /\ \/ /\ req[c].uuid # NoID
          /\ nodeVMs' = nodeVMs \cup {req[c].uuid} /\ ReqGoto(c, "reload")
          /\ UNCHANGED <<last, faults>>
       \/ req[c].uuid = NoID /\ Answer(c, NoNode) /\ UNCHANGED <<nodeVMs, faults>>
       \/ req[c].uuid # NoID /\ Fault /\ Answer(c, NoNode) /\ UNCHANGED nodeVMs
    /\ InformerUnchanged
    /\ UNCHANGED <<nodeNameToUUID, todo, vms, stayed, process>>

(* The second Load ignores whether it found the VM. *)
ReloadVM(c) ==
    /\ ReqAt(c, "reload")
    /\ \/ req[c].uuid \in nodeVMs /\ Answer(c, req[c].uuid) /\ UNCHANGED process
       \/ req[c].uuid \notin nodeVMs /\ process' = "panicked" /\ UNCHANGED <<req, last>>
    /\ InformerUnchanged
    /\ UNCHANGED <<nodeNameToUUID, nodeVMs, todo, vms, stayed, faults>>

-----------------------------------------------------------------------------
(* GetAllNodes. *)

GetAllNodes(c) ==
    /\ c \in Listers /\ ReqAt(c, "idle")
    /\ req' = [req EXCEPT ![c].pc = "names"]
    /\ todo' = [todo EXCEPT ![c] = {n \in Names : nodeNameToUUID[n] # NoNode}]
    /\ stayed' = [stayed EXCEPT ![c] = nodeVMs]
    /\ InformerUnchanged
    /\ UNCHANGED <<nodeNameToUUID, nodeVMs, vms, last, process, faults>>

(* Range over the names: the first whose empty UUID can be looked up gets  *)
(* it, and ends the loop.                                                  *)
ResolveName(c, n) ==
    /\ ReqAt(c, "names") /\ n \in todo[c]
    /\ \/ nodeNameToUUID[n] # NoID /\ todo' = [todo EXCEPT ![c] = @ \ {n}]
          /\ UNCHANGED <<req, faults>>
       \/ /\ nodeNameToUUID[n] = NoID
          /\ \/ nodes[n] \in {NoID, NoNode} /\ UNCHANGED faults
             \/ Fault
          /\ todo' = [todo EXCEPT ![c] = @ \ {n}] /\ UNCHANGED req
       \/ /\ nodeNameToUUID[n] = NoID /\ nodes[n] \in UUIDs
          /\ todo' = [todo EXCEPT ![c] = {}]
          /\ req' = [req EXCEPT ![c] = [pc |-> "resolved", name |-> n, uuid |-> nodes[n]]]
          /\ UNCHANGED faults
    /\ InformerUnchanged
    /\ UNCHANGED <<nodeNameToUUID, nodeVMs, vms, last, stayed, process>>

StoreResolved(c) ==
    /\ ReqAt(c, "resolved")
    /\ nodeNameToUUID' = [nodeNameToUUID EXCEPT ![req[c].name] = req[c].uuid]
    /\ req' = [req EXCEPT ![c] = [Idle EXCEPT !.pc = "names"]]
    /\ InformerUnchanged
    /\ UNCHANGED <<nodeVMs, todo, vms, last, stayed, process, faults>>

RangeVMs(c) ==
    /\ ReqAt(c, "names") /\ todo[c] = {}
    /\ ReqGoto(c, "vms")
    /\ todo' = [todo EXCEPT ![c] = nodeVMs]
    /\ InformerUnchanged
    /\ UNCHANGED <<nodeNameToUUID, nodeVMs, vms, last, stayed, process, faults>>

Forget(c) == /\ req' = [req EXCEPT ![c] = Idle]
             /\ todo' = [todo EXCEPT ![c] = {}] /\ vms' = [vms EXCEPT ![c] = {}]
             /\ stayed' = [stayed EXCEPT ![c] = {}]

(* A VM that cannot be renewed is left out. *)
RenewOrSkip(c, u) ==
    /\ ReqAt(c, "vms") /\ u \in todo[c]
    /\ todo' = [todo EXCEPT ![c] = @ \ {u}]
    /\ \/ vms' = [vms EXCEPT ![c] = @ \cup {u}] /\ UNCHANGED faults
       \/ Fault /\ UNCHANGED vms
    /\ InformerUnchanged
    /\ UNCHANGED <<nodeNameToUUID, nodeVMs, req, last, stayed, process>>

(* Range over the VMs: each is renewed, an error aborts. *)
RenewVM(c, u) ==
    /\ ReqAt(c, "vms") /\ u \in todo[c]
    /\ \/ /\ todo' = [todo EXCEPT ![c] = @ \ {u}]
          /\ vms' = IF u \in nodeVMs THEN [vms EXCEPT ![c] = @ \cup {u}] ELSE vms
          /\ UNCHANGED <<req, stayed, faults>>
       \/ u \in nodeVMs /\ Fault /\ Forget(c)
    /\ InformerUnchanged
    /\ UNCHANGED <<nodeNameToUUID, nodeVMs, last, process>>

ReturnVMs(c) ==
    /\ ReqAt(c, "vms") /\ todo[c] = {}
    /\ Forget(c)
    /\ InformerUnchanged
    /\ UNCHANGED <<nodeNameToUUID, nodeVMs, last, process, faults>>

RequestNext(c) ==
    \/ \E n \in Names : GetNodeByName(c, n) \/ ResolveName(c, n)
    \/ GetNodeVMUUID(c) \/ StoreUUID(c) \/ LoadVM(c) \/ DiscoverNode(c) \/ ReloadVM(c)
    \/ GetAllNodes(c) \/ StoreResolved(c) \/ RangeVMs(c) \/ ReturnVMs(c)
    \/ \E u \in UUIDs : RenewVM(c, u)

Next == \/ \E n \in Names : DeleteNode(n) \/ \E id \in IDs : AddNode(n, id)
        \/ \E n \in Names, id \in UUIDs : SetProviderID(n, id)
        \/ InformerNext
        \/ \E c \in Callers : RequestNext(c)

(* The informer delivers, requests go on, and attach and detach requests   *)
(* come for every node again and again.                                    *)
Fairness == /\ WF_vars(InformerNext)
            /\ \A c \in Callers : WF_vars(RequestNext(c))
            /\ \A c \in Callers, n \in Names : SF_vars(GetNodeByName(c, n))

Spec == Init /\ [][Next]_vars

LiveSpec == Spec /\ Fairness

-----------------------------------------------------------------------------

(* The types of the variables. *)
TypeOK == /\ nodes \in [Names -> IDs \cup {NoNode}]
          /\ events \in Seq([type : {"add", "delete"}, name : Names, uuid : IDs])
          /\ nodeNameToUUID \in [Names -> IDs \cup {NoNode}]
          /\ nodeVMs \in SUBSET UUIDs
          /\ informer.pc \in {"idle", "discover", "deleteName", "deleteVM"}
          /\ \A c \in Callers : req[c].pc \in {"idle", "query", "store", "load", "discover",
                                               "reload", "names", "resolved", "vms"}
          /\ \A c \in Callers : vms[c] \subseteq UUIDs /\ stayed[c] \subseteq UUIDs
          /\ last \in [Names -> UUIDs \cup {NoNode}]
          /\ process \in {"up", "panicked"}

(* Once a node stays as it is and calls stop failing, GetNodeByName comes  *)
(* to return its VM, or to report that it is not there: names follow the   *)
(* cluster, whatever requests raced with the callbacks.  Not so for a node *)
(* that is removed after it was added without a providerID: a request may  *)
(* store the one it looked up after UnregisterNode, and for good.          *)
LookupsFollow ==
    \A n \in Names, id \in UUIDs \cup {NoNode} :
        /\ <>[](nodes[n] = id)
        /\ [](nodes[n] = NoID => [](nodes[n] # NoNode))
        => <>[](last[n] = id \/ process = "panicked")

(* GetNode finds the VM that it has just discovered, unless UnregisterNode *)
(* has deleted it: only a removal makes its type assertion panic.          *)
NoNilVM ==
    process = "panicked" => \E c \in Callers : req[c].pc = "reload" /\ req[c].uuid \in removed

(* GetAllNodes returns, if it returns no error, every VM that was known    *)
(* when the call began and was not removed since: requests that store and  *)
(* discover meanwhile, callbacks for other nodes, and VMs that cannot be   *)
(* renewed do not make it skip one.                                        *)
AllNodesReturned == [][\A c \in Callers : ReturnVMs(c) => stayed[c] \subseteq vms[c]]_vars
=============================================================================
