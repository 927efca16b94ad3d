# Verification of the vSphere CSI driver

TLA+ models of the stateful parts of the driver, the TLC runs that check them on
small instances, and TLAPS proofs of the most important properties for every
instance. `PROJECT.json` maps every definition to the lines it models.

## The system

The driver connects Kubernetes volumes with First Class Disks in vSphere. Its
processes and their parts:

| part | source | status |
|---|---|---|
| controller service | `pkg/csi/service/cns/controller.go`, `pkg/csi/service/common` | modelled, for valid requests |
| topology, shared datastores | `pkg/csi/service/cns/nodes.go`, `vsphere/virtualmachine.go` | modelled, as operators |
| node service | `pkg/csi/service/node.go` | modelled |
| metadata syncer: event handlers | `pkg/syncer/metadatasyncer.go` | modelled |
| metadata syncer: full sync | `pkg/syncer/fullsync.go`, `types.go` | modelled |
| volume manager (calls to CNS) | `pkg/common/cns-lib/volume` | modelled |
| connection to vCenter | `pkg/common/cns-lib/vsphere/virtualcenter.go`, `cns.go`, `pbm.go` | modelled but for two methods (see the end) |
| vCenter registry | `vsphere/virtualcentermanager.go` | modelled |
| search for a VM | `vsphere/virtualmachine.go`, `datacenter.go` | modelled |
| node manager | `pkg/common/cns-lib/node/manager.go`, `pkg/csi/service/cns/nodes.go` | modelled |
| node cache | `pkg/common/cns-lib/node/cache.go` | modelled |
| configuration | `pkg/common/config`, `vsphere/utils.go` | modelled, as operators |
| Kubernetes objects, informers, sidecars, kubelet | `pkg/kubernetes` | modelled as the driver sees them |
| set-up, identity service | `cmd`, `pkg/csi/service/service.go`, `identity.go`, `pkg/csi/provider` | only the serial volume access it sets up |
| hosts and datastores | `vsphere/hostsystem.go`, `datastore.go` | only as input of the shared datastores |

The controller plugin answers the calls of Kubernetes' sidecars: it makes a
volume on a datastore that the nodes of a topology share, deletes it, attaches it
to a node's VM and detaches it. The node plugin, on every node, mounts the disk
to a staging path and from there to the pods' target paths, and reports the zone
and region of its node. For each volume gocsi, the library that serves the calls,
runs one call at a time.

The syncer keeps CNS (vSphere's catalogue of container volumes) in step with
Kubernetes. Handlers react to informer events; a full sync every 30 minutes
compares everything and repairs what the handlers missed. Both go through the
volume manager, and share one mutex, `volumeOperationsLock`, around the creation
and the deletion of volumes. The provisioner, in another process, creates and
deletes volumes without it. Every call to vSphere goes through one shared
connection object per vCenter, which logs in again when its session has ended
and fetches the credentials again when they are refused. Attaching needs the VM
of a node, which the node manager finds by searching all datacenters with a pool
of goroutines.

## Modules

    Cns <- Kubernetes <- MetadataSyncer <- FullSync <- Syncer <- MCSyncer
    Syncer <- SyncerProofs
    Topology <- Controller <- MCController, ControllerProofs
    Topology <- TopologyProofs
    Config, Topology <- NodeInfo <- MCNodeInfo, NodeInfoProofs
    NodeService <- MCNodeService, NodeServiceProofs
    VirtualCenter <- MCVirtualCenter, VirtualCenterProofs
    NodeKeys <- NodeCache <- MCNodeCache
    NodeKeys <- NodeManager <- MCNodeManager
    NodeCache, NodeManager <- NodeProofs
    VMSearch <- MCVMSearch, VMSearchProofs

(The right-hand module extends the left-hand one. `NodeCache` instantiates its
abstract specification `NodeBindings`, and `NodeService` its own,
`VolumeLifecycle`. `ControllerProofs` and `NodeInfoProofs` instantiate
`TopologyProofs` in the middle, where its theorems are first needed. `NodeKeys` declares
the keys of the two maps of package node; the definitions of `NodeCache` that its
specification shares with other modules' have the prefix `Cache`.)

**Cns.** The registered volumes, the entities CNS has recorded for each (an
entity is a PV, PVC or pod with its labels) and the disks. `Call` gives the ways
a call of the volume manager ends: success; failure before CNS accepts it;
success in CNS with an error to the caller, because fetching the task's result
failed; refusal by CNS. Callers choose the outcome with `ok`.

**Kubernetes.** API objects, one event queue per informer, and the operations of
users, controllers and the provisioner. An event has the old and the new
object. No Add handlers are registered, so that creation queues nothing.
`EnvOps` and `MaxChanges` bound which operations a run has and how many.

**MetadataSyncer.** `HandlePV`, `HandlePVC` and `HandlePod` take the oldest event
of their queue. PV and PVC handlers make at most one call to CNS and are one
step; the pod handler makes one call per volume and takes one step for each.
The informers' caches may lag: a lookup of an object that exists may fail, one
of an object that is gone may succeed.

**FullSync.** One cycle of `triggerFullSync`, with one step for each call to the
API server or CNS, so that everything else moves in between:
`ListPVs`, `GetClaim` and `ListPods` per bound volume, `QueryAllVolume`,
`buildVolumeMap` per volume, `StartGoroutines`, then the create, delete and update
goroutines, and `EndCycle` with `cleanupCnsMaps`. `wg` is the WaitGroup.
Two history variables say what completed cycles saw: `seenMissing`, the volumes that
some cycle saw in Kubernetes and not in CNS, with their PV listed in every cycle since;
`seenOrphaned`, those that some cycle saw in CNS without a listed PV, with none listed
since. Local variables are reset outside a cycle.

**Syncer.** The composition, with `Restart`: the process loses both maps, the
running cycle and undelivered events. Behaviours start on an empty cluster
(`Init`), on a cluster with anything in CNS that earlier runs could have left
(`InitInUse`).

**VirtualCenter.** A client is the number of the session it uses; 0 is nil.
Callers run `Connect` and then, for the CNS and PBM clients, the nil check, the
construction and the use without the mutex. Environment: sessions end, the
password of the account changes, the secret is updated, calls fail. A nil client
that is used panics, which ends the process.

**NodeManager.** Two `sync.Map`s without a common lock: every operation on one of
them is a step, as is every remote call. The informer's callbacks run one at a
time; requests run concurrently. Nodes may get their providerID after they were
added, and the informer has no update callback.

**VMSearch.** The sender, the two channels with their buffers and closing, the
workers with their select, the cancelled context, and the return. A sender that waits
at a full channel does not look at the context, and may be left there (`Blocked`).

**Topology.** Pure operators over an inventory: the ancestors of each node's VM,
their tags, and the datastores its host can access. `GetZoneRegion` reads tags
from the host upwards and keeps the first of each category; `IsInZoneRegion`
selects nodes; `GetSharedDatastoresForVMs` intersects node by node and stops at
the first empty intersection; `GetSharedDatastoresInTopology` tries the preferred
topologies and then the requisite ones.

**Controller.** One claim from its provisioning to its deletion, with its
VolumeAttachment. The steps of a call: `ChooseDatastores`, `CreateVolume`,
`QueryDatastore` (which answers without a topology if the query finds no volume, or
the map has nothing for its datastore); `DeleteVolume`; `GetNodeByName`,
`AttachVolume`, `GetDiskAttachedToVM`; `GetNodeByName`, `DetachVolume`. Any step at
vCenter may fail before it has an effect, or after it. The sidecars call again until they get
an answer, may give up waiting while the handler goes on, and the process may be
killed. Nodes join and leave; an administrator may remove a VolumeAttachment by
hand. CNS is external: it makes a new volume for every `CreateVolume`; whether it
takes the repetition of a finished detach or delete for done or for a fault
(`again`) is not known from this code, and both are considered.

**NodeService / VolumeLifecycle.** One volume on one node. The mount table is a
stack of mounts for each path; a device is named by the number of the attachment
that brought it. Every handler reads the table first (`start`, `look`) and then
acts, one step for each system call that changes the node (`StageMount`,
`UnstageUnmount`, `PublishBind`, `UnpublishUnmount`, `UnpublishRemove`). Between two steps
a call may be given up, the process killed, the node rebooted or the disk
detached. The kubelet is external: it stages before it publishes, repeats a call
until it succeeds and remembers what it has to undo. The abstract specification
has only the two facts `staged` and `published`, and the rule that ties them.

**Config.** `FromEnv`, `validateConfig`, `GetCnsconfig` and
`GetVirtualCenterConfig` as functions of a file and an environment. A key is the
tuple of its parts; a value may contain `=` (`WithEquals`), which the code's
`strings.Split` does not expect.

**NodeInfo.** Calls of `NodeGetInfo` that share the registry of vCenters: read the
configuration, register (`RegisterLoad` and `RegisterStore`, two operations on the
`sync.Map`), connect, find the VM by the UUID and then by the converted one, read
the tags in a REST session of their own (`GetTagManager`, `ReadTags`, `RestLogout`),
and in any case unregister all vCenters (`UnregisterAll` to `Delete`). Nothing keeps
two calls apart. A login may be performed and its answer lost (`ConnectFails`), and a
REST logout may fail unnoticed; `lost` has the calls that left a session nobody will
end. The search is reduced to visiting the vCenters one by one, and keeps what it
does to its caller: it may miss a VM that is there (run `vm_search_missed`), and a
vCenter without datacenters in its settings is searched at the empty path, which may
fail. Its goroutines are the subject of `VMSearch`.

**NodeCache / NodeBindings.** The two maps and every method, and as the abstract
specification a set of bindings that is a matching. The abstract `Store` may bind a
known name anew (`Rebind`), as the code does; the refinement therefore does not show
the error that the comments promise for it (see below).

Operators directly before a definition whose comment describes a defect
(`StoreKeepingOld`, `LockLeaked`, ...) are plausible wrong versions of that
definition; no specification uses them. They serve to confirm that each property
can fail.

## Runs

| run | checks | states |
|---|---|---|
| `node_cache` | the maps are inverse (`LookupsAgree`), refinement of `NodeBindings` (`Implements`) | 206 |
| `syncer_static` | life of a static, retained volume, with failures and a restart: `TwoCycles`, `LockProtects`, `EventsHandled` | 80,890 |
| `syncer_repair` | from every content of CNS, with one failure or one change after the start: `CatalogueConverges` (orphans go and missing volumes come), `MetadataConverges`, `StaleEntriesGo`; two pods may use the claim | 272,421 |
| `syncer_dynamic` | life of a dynamic volume, racing with the provisioner: `CatalogueConverges` | 135,781 |
| `vc` | two callers, a failure, an expiry, a rotation: `OneSession`, `NoNilClient`, `ConnectionRecovers`, `SubClientsRecreated` | 246,934 |
| `nodes` | removals, late providerIDs, a lookup and a listing that overlap, a failure: `LookupsFollow`, `NoNilVM`, `AllNodesReturned` | 73,458 |
| `vm_search` | an error is sent once and last (`SingleError`), `FoundIsReturned`; the search returns, and its sender ends but for the one case in which it is left blocked (`SearchEnds`) | 2,424 |
| `controller` | five inventories and requests, three nodes, two failures, two changes: the volume is reachable from every node its topology allows (`Reachable`), made exactly for requests that can be satisfied (`OnlySatisfiable`, `ProvisionEnds`), a failure leaves at most one volume behind (`LeaksBounded`), answers about attachments are true (`AttachmentsTrue`), retries end (`AttachEnds`, `DetachEnds`) | 127,700 |
| `node_service` | two pods, mount and block volumes, read-only and not, with a failure and a second attachment: refinement of `VolumeLifecycle` (`Implements`), `PublishedAsAsked`, `NothingForgotten`, `SetupEnds`, `TeardownEnds` | 78,322 |
| `node_info` | eight configurations, calls alone or overlapping, a failure: an accepted configuration is complete and has the password of the vCenter's own variable (`ConfigSound`), calls that do not overlap leave nothing behind that they could have removed (`NothingLeft`), only overlapping ones meet a nil client (`NoLonePanic`), an undisturbed one answers with the nearest tags (`LoneCallAnswers`), `CallsEnd` | 187,544 |

`ProvisionEnds` and `OnlySatisfiable` compare the loops of `nodes.go` with a
definition by set intersection and nearest tags; `LoneCallAnswers` does the same
for `GetZoneRegion` and the byte order of the UUID.

`TwoCycles` says exactly this of a volume that full sync is about to create: its PV
is listed and CNS lacks it in this cycle, and some earlier completed cycle missed it
too, with the PV listed in every cycle since. In between, cycles may have seen the
volume in CNS, so that the two cycles need not be successive: the rule of `types.go`
is weaker than it reads (see below). Likewise for a deletion.

`MetadataConverges` holds for volumes that at most one running pod uses: of several
pods full sync looks at one (`fullsync.go:433`), and compares one entry per type.
It also excludes stale entries, and `StaleEntriesGo` missing ones; a mixture may stay
(see below).

`ConfigSound` says which variables count if several name the same vCenter: the
last one that names it gives the id, and the first password given for that id goes
before the file's, unless it is empty or has an `=`. It claims nothing of the other
variables, which do not all go before the file (see below), nor that a host is one:
the value of `VSPHERE_VCENTER_PORT` passes for it.

`NothingLeft` distinguishes what a call can clean up (its REST session; its vCenter
and client, unless a logout fails or calls overlap) from sessions it cannot know of,
which only failures leave. `LoneCallAnswers` is about a call whose search does not
miss the VM and whose vCenters name their datacenters.

`Reachable` says less of a PV that was answered without a topology although some
were asked for: one of them has nodes, and these reach the datastore, but the
scheduler may place the pod elsewhere. `AttachEnds` leaves out nodes that cannot
access the datastore for that reason.

The type invariants of all modules are proved (see below), as is `KeysNormalized` of
the node cache; `TypeOK` is checked by the runs `nodes`, `controller` and `node_info`
as well.

Two runs show disagreements between the code and what a comment says:

| run | what TLC shows |
|---|---|
| `syncer_relist` | the PV listing fails in the create or delete goroutine, which returns without `wg.Done()`: full sync waits for ever and an orphan is never deleted |
| `vm_search_missed` | `errChan` is closed while datacenters are in the buffer; if every worker sees that first, an existing VM is reported as not found |

Other comments, stated without conditions as properties of these modules, are refuted
by TLC too. They are not kept as runs; the properties that are kept have the conditions
under which they hold, and the hazards of `PROJECT.json` name what they leave out.

- A mark in `cnsCreationMap` stays while a cycle sees the volume in CNS. When the volume
  goes, it is created after one cycle without it; `types.go:67` says two. `TwoCycles` is
  what remains of the rule.
- Full sync does not list a Failed PV, and unregisters its volume without the disk. When
  the PV is deleted then, the `DeleteVolume` of `pvDeleted`, which would take the disk
  along (`metadatasyncer.go:381`), is refused by CNS, and the disk stays.
- A claim's entry is missing and a pod's is stale: the number is right, the entries of
  the types that both sides have match, and `getCnsUpdateOperationType` returns that
  nothing is to be done (`fullsync.go:447,493`). Neither `MetadataConverges` nor
  `StaleEntriesGo` covers such a mixture.
- The session ends and the password changes: the failed login leaves `vc.Client` nil,
  the retry takes the branch for a first client (`virtualcenter.go:225`) and does not
  make the CNS and PBM clients anew, which keep the ended session; the comment at 249 says
  that they are recreated. The same happens if a session ends between the look at
  `vc.Client` and the store of a client made from it (`cns.go:44`, `pbm.go:33`) while
  another caller logs in again. `SubClientsRecreated` excludes both.
- `GetAllNodes` leaves out a registered node whose providerID was set late, with nothing
  added or removed meanwhile (`node/manager.go:53,196`). `AllNodesReturned` is about the
  VMs that were known when the call began.
- A request that races with `UnregisterNode` stores the UUID, or the VM, again, and it
  stays (`node/manager.go:141,119`). `LookupsFollow` excludes a node removed after it was
  added without a providerID, and says nothing of `nodeVMs`.
- `Store` binds a known name to another UUID without an error, if that UUID is new
  (`cache.go:169`; the comments at 27 and 165 say that it is refused).
- `VCENTER_<id>_INSECURE` is set and has no effect (`config.go:159`; the comment at 88
  says that the environment goes before the file).
- Two overlapping calls register the same vCenter, as the look and the store are two
  operations (`virtualcentermanager.go:28,100`).
- The workers that cancelled the context have left, and the sender waits for ever at a
  full channel (`datacenter.go:109,149`). Every worker has to leave with a VM or an error
  of its own, and more datacenters than the buffer and the workers hold have to be there.
  `SearchEnds` shows that the sender is left in no other state.

Further behaviour worth knowing:

- A PVC lookup that fails for a moment is taken for a deleted claim, and full sync
  deletes the entries of the live one (`fullsync.go:414`; the comment at 377 speaks
  of claims that do not exist). `MetadataConverges` shows that they come back.
- `VSPHERE_VCENTER_PORT` has the prefix of the variables that name a vCenter, so
  that its value, a port, becomes a vCenter host (`config.go:141`), which
  `GetVirtualCenterConfig` may choose. A variable whose value has an `=` is skipped
  (`config.go:63,134`), and the global `VSPHERE_PASSWORD` does not go before the
  password of a vCenter's section in the file, against the comment at 88.
- An empty list of datacenters is split into one empty path, so that
  `GetDatacenters` never takes the branch for "all Datacenters"
  (`vsphere/utils.go:98`, `virtualcenter.go:300`).
- A logout that fails leaves the vCenter registered, and `RegisterVirtualCenter`
  refuses every later `NodeGetInfo` (`virtualcentermanager.go:101,121`). Overlapping
  calls can do the same, lose a session, or use a client the other one has set to
  nil. Likewise a failed login of one caller, or a removed node, can make another
  caller use a nil client or VM (`cns.go:45`, `node/manager.go:161`); `NoNilClient` and
  `NoNilVM` show that nothing else can.
  `NothingLeft` and `LoneCallAnswers` are about executions in which no
  calls overlapped, `NoLonePanic` about a call that none overlapped.
- If CNS answers the repetition of a detach or delete with a fault, one lost answer
  makes all retries fail (`volume/manager.go:260`). `DetachEnds` assumes the other
  answer.
- A disk that is detached while mounted leaves mounts that unstage and unpublish
  refuse to touch, as the device is gone (`node.go:811`). `TeardownEnds` and
  `SetupEnds` exclude it.
- A datastore that serves a zone is chosen for the nodes known at that time; a node
  that joins the zone later may not reach it. `Reachable` is about the former.
- With two pods on a claim the entry of a deleted pod may stay in CNS
  (`fullsync.go:456`), which is why `StaleEntriesGo` speaks of one entry per type.
- `pvDeleted` deletes the disk of a claimed PV that is still Pending
  (`metadatasyncer.go:382` speaks of failed ones).

### Bounds

`MaxChanges` and `MaxFaults` make behaviours finite in the number of disturbances,
never in the number of full sync cycles, requests or logins. The liveness
properties of the syncer say what happens once disturbances stop, so that a bound
on them is part of the statement. One volume is enough for the properties checked,
which are about each volume by itself: the loops of full sync treat volumes
independently, and what they share (lock, WaitGroup, failing lists) is exercised
by one volume and the three goroutines. The proofs hold for any number. Six
changes let a static volume be created, become available, be deleted and removed,
with a restart in between; eight take a dynamic one from provisioning to its
reclaim. `syncer_repair` starts from every content of CNS, which replaces long
histories: there one failure or one change follows (`InitRepair` in `MCSyncer`),
whereas the longer runs combine them. The five cases of `controller` have a
zone overridden on a host, a node without a zone, a preferred topology without
nodes, one datastore for two topologies, and a datastore named by the storage
class; three nodes are the least with an intersection of two and a stranger. Two
attachments let a stale mount meet a new device, three changes replace a pod by
another, and two slots let a call overlap one that was given up, if serial
access allowed it. `node_info` has two calls, of which the second may overlap or
follow the first; its safety properties were also checked with three. In `nodes` one
caller looks up a node and the other lists all (`Listers`); its safety properties were
also checked with a change more. Two callers (`vc`, `nodes`) are the least that race; four
datacenters in two vCenters, with two workers and a buffer of one, let the sender wait
for workers, and let both leave while it waits.
`CHECK_DEADLOCK FALSE` is set where the process can stop for good: after a panic
(`vc`, `nodes`), and when full sync is stuck and no event is left
(`syncer_static`, `syncer_relist`), when the bounds are used up and the cluster
rests (`controller`, `node_service`), and when all calls are made (`node_info`).

### Fairness

- Full sync: weak. The ticker fires for ever and goroutines are scheduled.
- PV handler: strong, because it needs the mutex, which full sync takes and
  releases again and again; Go's mutex switches to starvation mode, so a waiter
  gets it. The other handlers: weak.
- Callers of the connection: weak. Operations keep coming; full sync alone makes
  them. The administrator eventually stores the changed password.
- Node manager: weak for the informer and requests, strong for starting a request
  for each node, since attach and detach requests are repeated by Kubernetes.
- Controller: weak for the running handler and for the sidecars, which repeat a
  call with a growing pause for as long as it fails.
- Node service: weak for a running call; strong for each call the kubelet has to
  make, since it repeats them all in turn and finds the volume free now and then.
- `NodeGetInfo`: weak for every call that runs. Its calls to vCenter return, if
  only with an error.
- VM search: weak for every goroutine. `select` may favour one case for ever.

## Proofs

All assumptions are the named `ASSUME`s of the modules: bounds are natural numbers,
null values differ from proper ones, `Static` and `Retained` are sets of volumes, and
(`SetupsAssumption`) a file is read into a whole configuration, the environment is a
list and a UUID has 16 bytes; (`CasesAssumption`) there are finitely many nodes and a
request asks for zones and regions. Both say that an inventory gives each node a
sequence of ancestors and each of them a sequence of tags, and that a tag has a name
(`Inventory`). None bounds the number of volumes, claims, pods, nodes,
callers, workers or datacenters. TLC has checked every inductive invariant
on the instance of its run as well.

**SyncerProofs.** `SyncerTypes`: type correctness. Its only difficult part is that the
WaitGroup's counter stays natural, which needs that it counts at least the
running goroutines. `TwoCycleRule`: full sync creates a volume only if its PV was
listed and CNS lacks it in this cycle, and an earlier completed cycle missed it too,
with the PV listed in every one since; and deletes one only if CNS has it without a
listed PV in this cycle, and an earlier one saw the same, with no PV listed since.
The inductive invariant `SyncInv` adds where the marks come from (`MarksSeen`): a mark
for creation is of a volume in `seenMissing`, or of one that this cycle has compared
and missed; a mark for deletion is of one in `seenOrphaned`, or of an orphan of this
cycle; goroutines that do not run have no work; the lock is held exactly by a
goroutine that runs. `TwoCycleRuleInUse` is the same from `InitInUse`. `LockRule`
proves `LockProtects` from the correspondence of lock and goroutines in `SyncInv`.

**VirtualCenterProofs.** `SingleSession`: every live session is the client's or was
lost in a failed login, for any number of callers. `ConnectInv` adds that whoever is
inside `connect` holds the mutex, and that a caller about to log in does so while
the client's session is not live; neither can be dropped. `ConnectionTypes`: every
client is nil or refers to a session that was made. `ClientsNotNil`: without a
failed login no nil client is used, although `ConnectCNS` and `ConnectPbm` read the
clients outside the mutex. `ClientInv` says why: a client that is set stays set,
so that what a caller has seen not to be nil is not nil later.

**NodeServiceProofs.** For any number of pods, attachments, failures and slots:
`NodeServiceTypeOK`, `NodeServiceForgetsNothing`, `NodeServicePublishes` and
`NodeServiceImplements` (the refinement of `VolumeLifecycle`). The inductive
invariant `IInv` is about what a call may rely on between its look and its act.
A path's mounts are layered, a later attachment above an earlier one; a mounted
volume's targets hold only devices that are mounted to the staging path as well;
one call runs at a time; and a call about to bind knows that the top of the
staging path is the device it looked up and that its target has only older ones,
a call about to unstage that the staging path has one mount and no target has
any. Serial access is needed for the last two, and layering for
`PublishedAsAsked`, as the code looks for its device anywhere in the table, while
a pod sees what is on top.

**ControllerProofs.** For every inventory, request and set of nodes, and any number of
failures and changes. `AttachmentsAlwaysTrue`: the attachment never says what is not so.
`AttachmentsTrue` speaks of the moments between calls; `IInv` adds what holds while one
runs. A call is for the PV there is, or creates a volume while there is none
(`CallInv`). Unless an attachment was removed by hand, the volume is attached to no
other VM than that of the attachment's node, every running publish or unpublish call
is for that node, and none runs while the attachment says attached (`AttachInv`); the
last is why a late answer cannot make it untrue. `ControllerTypes` follows.
`LeaksAlwaysBounded`: volumes left behind are at most as many as failures. To be
inductive it counts a call whose caller gave up as a failure that has not left its
volume yet (`LeakInv`), and each step is one of three kinds: it leaves nothing, is a
failure itself, or ends such a call.
`AlwaysReachable`: a volume is put where its pods can use it. `PlaceInv` says that what is
found among any set of nodes serves them, or without a topology serves the nodes of one
that was asked for (`FoundSound`), and that a running call goes on
with what it found among the nodes it saw (`Chosen`). The first follows from
`SharedPerTopology` and from a fact about labels: a node that a topology admits by its
labels is one that `IsInZoneRegion` selects, and the empty topology selects none.
`AlwaysOnlySatisfiable`: what a successful search finds is what the reference definition
`SatisfiableFor`, by nearest tags and common datastores, asks for.

**NodeProofs**, the node cache. `CacheInvariant`: `CacheInv`, the conjunction of types,
`LookupsAgree` and `KeysNormalized`, is inductive; `LookupsAgree` alone is not, since
a lookup normalises its key and says nothing of keys stored in another spelling.
From it `LookupsAlwaysAgree`, `KeysAlwaysNormalized`, `CacheTypes`, and `CacheImplementsBindings`: each
method maps to a step of `NodeBindings` or a stutter.

**NodeProofs**, the node manager. For any nodes, VMs and requests: `NodeManagerTypes`;
`OnlyRemovalsPanic`, as the UUID of a VM that a request has discovered and is about to
load is in the map or was removed from it; and `ListingsComplete`, as a VM that stayed
since a listing began is in the map and, during its second loop, returned already or
still to be visited.

**VMSearchProofs.** For any number of workers and datacenters, any buffer and any
failures: `SearchTypes`; `ErrorsAreSingle` (an error is the sender's last message, so that
it never blocks on `errChan`, whose buffer has one place); `FoundAlwaysReturned`, from
the fact that a search which has returned waited for all its workers; and
`ReturnedIsThere`, the converse: what is returned is in one of the datacenters.

**NodeInfoProofs.** For every configuration that satisfies `SetupsAssumption`, any number
of calls and failures. `ConfigAlwaysSound` is about `GetCnsconfig` alone: each way a
vCenter gets into the configuration is followed to the checks of `validateConfig`; of the
environment it covers the password alone.
`LoneCallsNeverPanic`, `NothingEverLeft` and `LoneCallsAnswer` rest on one invariant: the
registry holds objects under their own hosts (`RegistryInv`), of two running calls both
were overlapped (`OverlapInv`), and without overlap a call that has registered owns the
registry's only entry and the only session until its cleanup has removed them
(`CleanInv`, `TrackInv`); a REST session belongs to a call between `GetTagManager` and
`RestLogout`, and a lost one to a failure or an overlap (`SessionsInv`). `LoneCallsAnswer`
proves `LoneCallAnswers`: such a call answers
with the nearest tags, the VM being found under its UUID or the converted one. It
rests on the lemma `ConvertSwaps` (`convertUUID` reverses the first three groups of bytes
of every UUID) and on `ZoneRegionNearest`.

**TopologyProofs.** What the loops compute, for every inventory. `ZoneRegionNearest`:
`GetZoneRegion` returns, for each category, the first tag on the nearest ancestor that
has one. `SharedAreCommon`: `GetSharedDatastoresForVMs` returns what all of the VMs can
access; it fails if there are VMs and nothing is left, and it is empty without VMs.
`SharedPerTopology`: the datastores found for a list of topologies, and which topologies
each serves. The loops are recursive functions, over the naturals or over subsets. A
recursive function is what its equation says only if some function satisfies the
equation; each proof first shows that one does, and then that the claim holds along the
recursion. Both are inductions, from the fact that a set of naturals that is not empty
has a least element (`LeastNat`).

Liveness, and what the runs `syncer_relist` and `vm_search_missed` show, is only model-checked: fairness is
outside the prover's reach. Every invariant
and action property that a passing run checks is also proved.

## Not modelled

- Validation of requests (`controller_helper.go`, `common_controller_helper.go`, the
  checks at the top of the node calls) and the conversion of sizes: they refuse a
  call before it has changed anything, or compute a number from one.
- The capability queries, `GetPluginInfo` and `Probe`, the calls that answer
  `Unimplemented`, and the start-up code: constant answers and wiring.
- Namespaces of claims and pods, PVs of other drivers, API pagination. A claim and
  the pods that use it share a namespace.
- The user session query of the volume manager (`volume/manager.go:94`), the token
  variant of a login, `DisconnectCNS`, which only a test
  calls, and `DisconnectPbm`.
- Reads of vCenter properties (`hostsystem.go`, `datastore.go` and the rest of
  `datacenter.go` and `virtualmachine.go`): they have no state of their own, and
  appear as fields of an inventory and as calls that may fail.
- Changes of tags or of the inventory while the controller runs, and more than one
  claim at a time: calls for different volumes share only the connection and the
  node manager, which have modules of their own.
- The storage policy and the type of a file system, which are passed on.
