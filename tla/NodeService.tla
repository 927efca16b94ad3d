------------------------------ MODULE NodeService ------------------------------
(***************************************************************************)
(* The node service (pkg/csi/service/node.go): staging a volume, publishing*)
(* it to the pods' target paths, and undoing both, for one volume on one   *)
(* node, over the node's mount table and file system.  Volumes do not      *)
(* share paths or devices, so one stands for all.                          *)
(*                                                                         *)
(* Each call reads what it needs and then changes the node in one or more  *)
(* steps; between any two of them the disk may be detached, the process    *)
(* killed or the kubelet give up waiting.  gocsi, as provider.go sets it   *)
(* up, refuses a call while another one on the same volume runs.           *)
(*                                                                         *)
(* The mount table is, for every path, the stack of what is mounted there, *)
(* oldest first, as the table lists it.  A device is named by the number   *)
(* of the attachment that brought it; Linux does not give a name that is   *)
(* still mounted to another disk.  The kubelet is external, and modelled   *)
(* by the calls the code expects of it.                                    *)
(***************************************************************************)
EXTENDS Naturals, Sequences

CONSTANTS Targets,          \* target paths, one per pod
          Staging,          \* the volume's staging path, which the kubelet creates
          NoPath,
          Slots,            \* calls that may run at the same time
          MaxAttach,        \* bound: how often the disk is attached
          MaxChanges,       \* bound: pods added and removed
          MaxFaults         \* bound: failed system calls, timeouts, crashes, reboots

ASSUME NodeServiceAssumption ==
    /\ Staging \notin Targets /\ NoPath \notin Targets \cup {Staging}
    /\ MaxAttach \in Nat /\ MaxChanges \in Nat /\ MaxFaults \in Nat

VARIABLES access,           \* access type of the volume: "mount" or "block"
          mode,             \* its access mode: "rw" or "ro"
          device,           \* the disk's device, NoDevice if it is not attached
          attached,         \* attachments so far
          fs,               \* the file system on the disk: "none" or "some"
          mounts,           \* path -> stack of mounts
          created,          \* targets whose directory or file exists
          call,             \* slot -> the call that runs in it
          pods,             \* target -> "none", or the mode its pod asked for
          owed,             \* kubelet: paths it has to unstage or unpublish some time
          ready,            \* kubelet: paths whose stage or publish call succeeded
          changes, faults

diskVars    == <<access, mode, device, attached>>
nodeVars    == <<fs, mounts, created>>
kubeletVars == <<owed, ready>>
envVars     == <<pods, changes>>
vars == <<diskVars, nodeVars, call, kubeletVars, envVars, faults>>

NoDevice == 0               \* as a mount's device: the node's own file system
Paths    == Targets \cup {Staging}
Idle     == [op |-> "none", step |-> "idle", path |-> NoPath, mode |-> "rw",
             dev |-> NoDevice, waiting |-> "no"]

Init == /\ access \in {"mount", "block"} /\ mode \in {"rw", "ro"}
        /\ device = NoDevice /\ attached = 0 /\ fs = "none"
        /\ mounts = [p \in Paths |-> <<>>] /\ created = {}
        /\ call = [s \in Slots |-> Idle]
        /\ pods = [t \in Targets |-> "none"]
        /\ owed = {} /\ ready = {}
        /\ changes = 0 /\ faults = 0

Fault == faults < MaxFaults /\ faults' = faults + 1

-----------------------------------------------------------------------------
(* The node. *)

(* The entries of the mount table for a device, as path and position. *)
getDevMounts(d) ==
    {e \in UNION {{p} \X (1..Len(mounts[p])) : p \in Paths} : mounts[e[1]][e[2]].dev = d}

Several(S) == \E x, y \in S : x # y

(* getDevFromMount takes the oldest mount of a path, and its device if     *)
(* getDevice still finds it.                                               *)
getDevFromMount(p) == Head(mounts[p]).dev

getDevice(d) == d \in {NoDevice, device}

(* What a bind mount of a path, and an unmount, work on. *)
Top(p) == IF mounts[p] = <<>> THEN NoDevice ELSE mounts[p][Len(mounts[p])].dev

Mount(p, d, m) == mounts' = [mounts EXCEPT ![p] = Append(@, [dev |-> d, mode |-> m])]

Unmount(p) == mounts' = [mounts EXCEPT ![p] = SubSeq(@, 1, Len(@) - 1)]

-----------------------------------------------------------------------------
(* The calls.  A call first reads, then goes on to a step that acts. *)

Runs(s, op, step) == call[s].op = op /\ call[s].step = step

Goto(s, step, d) == /\ call' = [call EXCEPT ![s].step = step, ![s].dev = d]
                    /\ UNCHANGED kubeletVars

(* The call returns, and a kubelet that still waits notes a success. *)
Return(s, ok) ==
    LET c     == call[s]
        noted == ok /\ c.waiting = "yes"
    IN  /\ call' = [call EXCEPT ![s] = Idle]
        /\ ready' = IF noted /\ c.op \in {"stage", "publish"}
                    THEN ready \cup {c.path} ELSE ready
        /\ owed' = IF noted /\ c.op \in {"unstage", "unpublish"}
                   THEN owed \ {c.path} ELSE owed

Kept == UNCHANGED <<diskVars, envVars>>

-----------------------------------------------------------------------------
(* NodeStageVolume. *)

(* Staging that takes a device which is mounted already for an error. *)
StageOnce(s) ==
    /\ Runs(s, "stage", "start")
    /\ IF device = NoDevice THEN Return(s, FALSE)
       ELSE IF access = "block" THEN Return(s, TRUE)
       ELSE IF getDevMounts(device) = {} THEN Goto(s, "mount", device)
       ELSE Return(s, FALSE)
    /\ Kept /\ UNCHANGED <<nodeVars, faults>>

(* The device of an attached disk; a block volume needs nothing else.  A   *)
(* device mounted already has to be mounted to the staging path, in the    *)
(* mode of the volume.                                                     *)
NodeStageVolume(s) ==
    LET here == {e \in getDevMounts(device) : e[1] = Staging}
    IN  /\ Runs(s, "stage", "start")
        /\ \/ device = NoDevice /\ Return(s, FALSE)
           \/ device # NoDevice /\ access = "block" /\ Return(s, TRUE)
           \/ /\ device # NoDevice /\ access = "mount" /\ getDevMounts(device) = {}
              /\ Goto(s, "mount", device)
           \/ /\ device # NoDevice /\ access = "mount" /\ getDevMounts(device) # {}
              /\ Return(s, \E e \in here : mounts[Staging][e[2]].mode = mode)
        /\ Kept /\ UNCHANGED <<nodeVars, faults>>

(* Mount for a volume that is only read, which needs a file system; or     *)
(* FormatAndMount, which makes one if there is none, and may fail after.   *)
StageMount(s) ==
    LET d == call[s].dev
    IN  /\ Runs(s, "stage", "mount")
        /\ \/ /\ d = device /\ (mode = "rw" \/ fs = "some")
              /\ Mount(Staging, d, mode) /\ fs' = "some"
              /\ Return(s, TRUE) /\ UNCHANGED faults
           \/ /\ d # device \/ (mode = "ro" /\ fs = "none")
              /\ Return(s, FALSE) /\ UNCHANGED <<mounts, fs, faults>>
           \/ /\ Fault
              /\ fs' \in (IF mode = "rw" /\ d = device THEN {fs, "some"} ELSE {fs})
              /\ Return(s, FALSE) /\ UNCHANGED mounts
        /\ Kept /\ UNCHANGED created

-----------------------------------------------------------------------------
(* NodeUnstageVolume. *)

(* Unstaging that does not look for other mounts of the device. *)
UnstageAnyway(s) ==
    /\ Runs(s, "unstage", "start")
    /\ IF mounts[Staging] = <<>> THEN Return(s, TRUE)
       ELSE IF getDevice(getDevFromMount(Staging)) THEN Goto(s, "unmount", NoDevice)
       ELSE Return(s, FALSE)
    /\ Kept /\ UNCHANGED <<nodeVars, faults>>

(* Nothing mounted: done.  A device that is gone, or mounted elsewhere     *)
(* too: an error.                                                          *)
NodeUnstageVolume(s) ==
    LET d == getDevFromMount(Staging)
    IN  /\ Runs(s, "unstage", "start")
        /\ \/ mounts[Staging] = <<>> /\ Return(s, TRUE)
           \/ /\ mounts[Staging] # <<>>
              /\ ~getDevice(d) \/ Several(getDevMounts(d))
              /\ Return(s, FALSE)
           \/ /\ mounts[Staging] # <<>>
              /\ getDevice(d) /\ ~Several(getDevMounts(d))
              /\ Goto(s, "unmount", NoDevice)
        /\ Kept /\ UNCHANGED <<nodeVars, faults>>

UnstageUnmount(s) ==
    /\ Runs(s, "unstage", "unmount")
    /\ \/ mounts[Staging] # <<>> /\ Unmount(Staging) /\ Return(s, TRUE) /\ UNCHANGED faults
       \/ Fault /\ Return(s, FALSE) /\ UNCHANGED mounts
    /\ Kept /\ UNCHANGED <<fs, created>>

-----------------------------------------------------------------------------
(* NodePublishVolume. *)

(* The device of an attached disk; then mkdir, or mkfile for a block       *)
(* volume, which is refused only after that if it is to be read-only.      *)
NodePublishVolume(s) ==
    LET c == call[s]
    IN  /\ Runs(s, "publish", "start")
        /\ \/ device = NoDevice /\ Return(s, FALSE) /\ UNCHANGED <<created, faults>>
           \/ /\ device # NoDevice
              /\ created' = created \cup {c.path}
              /\ IF access = "block" /\ c.mode = "ro" THEN Return(s, FALSE)
                 ELSE Goto(s, "look", device)
              /\ UNCHANGED faults
        /\ Kept /\ UNCHANGED <<fs, mounts>>

(* publishMountVol that asks only whether the target is mounted. *)
publishUnchecked(s) ==
    /\ Runs(s, "publish", "look") /\ access = "mount"
    /\ IF mounts[call[s].path] # <<>> THEN Return(s, TRUE) ELSE Goto(s, "bind", call[s].dev)
    /\ Kept /\ UNCHANGED <<nodeVars, faults>>

(* publishMountVol: the device has to be mounted; with more than one mount *)
(* the volume may be published already, and has to be in the mode asked.   *)
publishMountVol(s) ==
    LET c    == call[s]
        all  == getDevMounts(c.dev)
        here == {e \in all : e[1] = c.path}
    IN  /\ Runs(s, "publish", "look") /\ access = "mount"
        /\ \/ all = {} /\ Return(s, FALSE)
           \/ /\ Several(all) /\ here # {}
              /\ Return(s, \E e \in here : mounts[c.path][e[2]].mode = c.mode)
           \/ /\ all # {} /\ ~(Several(all) /\ here # {})
              /\ Goto(s, "bind", c.dev)
        /\ Kept /\ UNCHANGED <<nodeVars, faults>>

(* publishBlockVol: the device may be mounted to the target, and to        *)
(* nothing else.                                                           *)
publishBlockVol(s) ==
    LET c   == call[s]
        all == getDevMounts(c.dev)
    IN  /\ Runs(s, "publish", "look") /\ access = "block"
        /\ \/ all = {} /\ Goto(s, "bind", c.dev)
           \/ all # {} /\ Return(s, ~Several(all) /\ \A e \in all : e[1] = c.path)
        /\ Kept /\ UNCHANGED <<nodeVars, faults>>

(* BindMount of the staging path, or of the block device. *)
PublishBind(s) ==
    LET c == call[s]
    IN  /\ Runs(s, "publish", "bind")
        /\ \/ /\ access = "mount"
              /\ Mount(c.path, Top(Staging), c.mode) /\ Return(s, TRUE) /\ UNCHANGED faults
           \/ /\ access = "block" /\ c.dev = device
              /\ Mount(c.path, device, c.mode) /\ Return(s, TRUE) /\ UNCHANGED faults
           \/ /\ access = "block" /\ c.dev # device
              /\ Return(s, FALSE) /\ UNCHANGED <<mounts, faults>>
           \/ Fault /\ Return(s, FALSE) /\ UNCHANGED mounts
        /\ Kept /\ UNCHANGED <<fs, created>>

-----------------------------------------------------------------------------
(* NodeUnpublishVolume. *)

(* Unpublishing that takes a missing target for an error. *)
UnpublishOnce(s) ==
    LET t == call[s].path
    IN  /\ Runs(s, "unpublish", "start")
        /\ IF t \notin created THEN Return(s, FALSE)
           ELSE IF mounts[t] = <<>> THEN Goto(s, "remove", NoDevice)
           ELSE IF getDevice(getDevFromMount(t)) THEN Goto(s, "unmount", NoDevice)
           ELSE Return(s, FALSE)
        /\ Kept /\ UNCHANGED <<nodeVars, faults>>

(* No target: done.  Nothing mounted to it: remove it.  A device that is   *)
(* gone: an error.                                                         *)
NodeUnpublishVolume(s) ==
    LET t == call[s].path
    IN  /\ Runs(s, "unpublish", "start")
        /\ \/ t \notin created /\ Return(s, TRUE)
           \/ t \in created /\ mounts[t] = <<>> /\ Goto(s, "remove", NoDevice)
           \/ /\ t \in created /\ mounts[t] # <<>> /\ ~getDevice(getDevFromMount(t))
              /\ Return(s, FALSE)
           \/ /\ t \in created /\ mounts[t] # <<>> /\ getDevice(getDevFromMount(t))
              /\ Goto(s, "unmount", NoDevice)
        /\ Kept /\ UNCHANGED <<nodeVars, faults>>

UnpublishUnmount(s) ==
    LET t == call[s].path
    IN  /\ Runs(s, "unpublish", "unmount")
        /\ \/ mounts[t] # <<>> /\ Unmount(t) /\ Goto(s, "remove", NoDevice) /\ UNCHANGED faults
           \/ Fault /\ Return(s, FALSE) /\ UNCHANGED mounts
        /\ Kept /\ UNCHANGED <<fs, created>>

(* rmpath fails on a target to which something is still mounted. *)
UnpublishRemove(s) ==
    LET t == call[s].path
    IN  /\ Runs(s, "unpublish", "remove")
        /\ \/ /\ mounts[t] = <<>> /\ created' = created \ {t}
              /\ Return(s, TRUE) /\ UNCHANGED faults
           \/ mounts[t] # <<>> /\ Return(s, FALSE) /\ UNCHANGED <<created, faults>>
           \/ Fault /\ Return(s, FALSE) /\ UNCHANGED created
        /\ Kept /\ UNCHANGED <<fs, mounts>>

(* A directory, the list of disks or the mount table cannot be read, or    *)
(* the target not be made, before anything was changed.                    *)
LookFails(s) ==
    /\ call[s].step \in {"start", "look"} /\ Fault
    /\ Return(s, FALSE)
    /\ Kept /\ UNCHANGED nodeVars

HandlerNext(s) ==
    \/ NodeStageVolume(s) \/ StageMount(s)
    \/ NodeUnstageVolume(s) \/ UnstageUnmount(s)
    \/ NodePublishVolume(s) \/ publishMountVol(s) \/ publishBlockVol(s) \/ PublishBind(s)
    \/ NodeUnpublishVolume(s) \/ UnpublishUnmount(s) \/ UnpublishRemove(s)
    \/ LookFails(s)

-----------------------------------------------------------------------------
(* The kubelet, which repeats a call until it succeeds. *)

InUse == \E t \in Targets : pods[t] # "none"

(* No serial access: any free slot takes the call. *)
AnySlot(s) == call[s] = Idle

(* Serial volume access: a call is refused while another one runs. *)
SerialVolAccess(s) == \A r \in Slots : call[r] = Idle

Begin(s, op, p, m) ==
    /\ call' = [call EXCEPT ![s] = [op |-> op, step |-> "start", path |-> p, mode |-> m,
                                    dev |-> NoDevice, waiting |-> "yes"]]
    /\ UNCHANGED <<diskVars, nodeVars, envVars, faults>>

CallUp(s, op, p, m) == /\ Begin(s, op, p, m)
                       /\ owed' = owed \cup {p} /\ UNCHANGED ready

CallDown(s, op, p) == /\ Begin(s, op, p, "rw")
                      /\ ready' = ready \ {p} /\ UNCHANGED owed

(* A volume is staged before it is published, and unstaged when no pod     *)
(* needs it; a kubelet that has just started may do that before it finds   *)
(* what is still to be unpublished.                                        *)
KubeletCalls(s, p) ==
    /\ SerialVolAccess(s)
    /\ \/ /\ p = Staging /\ InUse /\ p \notin ready
          /\ CallUp(s, "stage", p, mode)
       \/ /\ p # Staging /\ pods[p] # "none" /\ Staging \in ready /\ p \notin ready
          /\ CallUp(s, "publish", p, pods[p])
       \/ /\ p # Staging /\ pods[p] = "none" /\ p \in owed
          /\ CallDown(s, "unpublish", p)
       \/ /\ p = Staging /\ ~InUse /\ p \in owed
          /\ CallDown(s, "unstage", p)

(* The kubelet gives up waiting; the call goes on. *)
Timeout(s) ==
    /\ call[s].waiting = "yes" /\ Fault
    /\ call' = [call EXCEPT ![s].waiting = "no"]
    /\ UNCHANGED <<diskVars, nodeVars, kubeletVars, envVars>>

(* The process dies; the kubelet sees an error. *)
Crash ==
    /\ Fault
    /\ call' = [s \in Slots |-> Idle]
    /\ UNCHANGED <<diskVars, nodeVars, kubeletVars, envVars>>

(* The node starts again: directories are still there, mounts are not. *)
Reboot ==
    /\ Fault
    /\ call' = [s \in Slots |-> Idle]
    /\ mounts' = [p \in Paths |-> <<>>] /\ ready' = {}
    /\ UNCHANGED <<diskVars, fs, created, owed, envVars>>

-----------------------------------------------------------------------------
(* Pods come and go; the disk is attached, and detached even while it is   *)
(* in use (an unreachable node, after a time).                             *)

Change == changes < MaxChanges /\ changes' = changes + 1

AddPod(t, m) ==
    /\ Change /\ pods[t] = "none"
    /\ pods' = [pods EXCEPT ![t] = m] /\ ready' = ready \ {t}
    /\ UNCHANGED <<diskVars, nodeVars, call, owed, faults>>

RemovePod(t) ==
    /\ Change /\ pods[t] # "none"
    /\ pods' = [pods EXCEPT ![t] = "none"]
    /\ UNCHANGED <<diskVars, nodeVars, call, kubeletVars, faults>>

Attach ==
    /\ device = NoDevice /\ attached < MaxAttach
    /\ attached' = attached + 1 /\ device' = attached + 1
    /\ UNCHANGED <<access, mode, nodeVars, call, kubeletVars, envVars, faults>>

Detach ==
    /\ device # NoDevice /\ device' = NoDevice
    /\ UNCHANGED <<access, mode, attached, nodeVars, call, kubeletVars, envVars, faults>>

Next == \/ \E s \in Slots : HandlerNext(s) \/ Timeout(s) \/ \E p \in Paths : KubeletCalls(s, p)
        \/ Crash \/ Reboot \/ Attach \/ Detach
        \/ \E t \in Targets : RemovePod(t) \/ \E m \in {"rw", "ro"} : AddPod(t, m)

(* Calls that run go on; the kubelet repeats each call it has to make, and *)
(* finds the volume free now and then.                                     *)
Fairness == /\ \A s \in Slots : WF_vars(HandlerNext(s))
            /\ \A p \in Paths : SF_vars(\E s \in Slots : KubeletCalls(s, p))

Spec == Init /\ [][Next]_vars

LiveSpec == Spec /\ Fairness

-----------------------------------------------------------------------------

(* The types of the variables. *)
TypeOK ==
    /\ access \in {"mount", "block"} /\ mode \in {"rw", "ro"}
    /\ attached \in Nat /\ device \in 0..attached
    /\ fs \in {"none", "some"}
    /\ mounts \in [Paths -> Seq([dev : Nat, mode : {"rw", "ro"}])]
    /\ created \in SUBSET Targets
    /\ call \in [Slots -> [op : {"none", "stage", "unstage", "publish", "unpublish"},
                           step : {"idle", "start", "mount", "unmount", "look", "bind", "remove"},
                           path : Paths \cup {NoPath}, mode : {"rw", "ro"}, dev : Nat,
                           waiting : {"yes", "no"}]]
    /\ pods \in [Targets -> {"none", "rw", "ro"}]
    /\ owed \in SUBSET Paths /\ ready \in SUBSET Paths
    /\ changes \in 0..MaxChanges /\ faults \in 0..MaxFaults

Lifecycle == INSTANCE VolumeLifecycle WITH
    staged    <- IF mounts[Staging] = <<>> THEN "no" ELSE "yes",
    published <- {t \in Targets : mounts[t] # <<>>}

(* A mounted volume is published only while it is staged, and is not       *)
(* unstaged while it is published, whatever is repeated, cut off, killed   *)
(* or detached.                                                            *)
Implements == Lifecycle!Spec

(* A publish call that succeeds leaves the pod with the disk that was      *)
(* attached when the call began, not with an older attachment of it nor    *)
(* with the bare directory, and in the mode it asked for.                  *)
PublishedAsAsked ==
    [][\A s \in Slots :
          /\ call[s].op = "publish" /\ call[s].waiting = "yes" /\ call[s] # call'[s]
          /\ call[s].path \in ready' \ ready
          => LET m == mounts'[call[s].path]
             IN  /\ m # <<>> /\ m[Len(m)].dev = call[s].dev
                 /\ m[Len(m)].dev # NoDevice /\ m[Len(m)].mode = call[s].mode]_vars

(* Every mount and every target is one the kubelet knows it has to undo:   *)
(* when it has nothing left to unstage or unpublish, nothing is mounted.   *)
NothingForgotten ==
    /\ \A p \in Paths : mounts[p] # <<>> => p \in owed
    /\ created \subseteq owed

NothingStale == \A p \in Paths : mounts[p] # <<>> => getDevice(getDevFromMount(p))

(* The mounts and the target of a pod that is gone go too, and with the    *)
(* last pod the staging mount and all that is left to undo, if no mounted  *)
(* disk is detached: crashes and lost answers between unmounting and       *)
(* removing do not leave anything.                                         *)
TeardownEnds ==
    []NothingStale =>
        /\ \A t \in Targets : <>[](pods[t] = "none")
                                  => <>[](mounts[t] = <<>> /\ t \notin created)
        /\ <>[]~InUse => <>[](mounts[Staging] = <<>> /\ owed = {})

(* A pod gets its volume if the disk stays attached, the pod asks for a    *)
(* mode the volume can have and the target is not published in another     *)
(* one, and, for a block volume, no other pod has it: stage and publish    *)
(* calls that were cut off can be repeated.                                *)
SetupEnds ==
    \A t \in Targets :
        /\ <>[](/\ pods[t] # "none" /\ device # NoDevice
                /\ access = "block" => /\ pods[t] = "rw"
                                       /\ \A u \in Targets \ {t} : pods[u] = "none"
                /\ \A e \in getDevMounts(device) : e[1] = t => mounts[t][e[2]].mode = pods[t])
        /\ access = "mount" => mode = "rw"
        /\ []NothingStale
        => <>[](t \in ready)
=============================================================================
