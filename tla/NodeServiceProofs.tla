-------------------------- MODULE NodeServiceProofs --------------------------
(***************************************************************************)
(* What the node service guarantees: it does not forget what it mounted,   *)
(* publishes what was asked for, and implements the life cycle the CSI     *)
(* specification gives a volume on a node.                                 *)
(*                                                                         *)
(* First its inductive invariant, for every set of targets and every       *)
(* number of attachments, pods and failures: how the mounts of a path are  *)
(* layered (a later attachment above an earlier one), that a mounted       *)
(* volume's targets only hold what is staged, and, for the one call that   *)
(* serial access lets run, what it found when it last looked.              *)
(***************************************************************************)
EXTENDS NodeService, SequenceTheorems, TLAPS

Index(p) == 1..Len(mounts[p])

(* A later attachment is mounted above an earlier one. *)
Layered == \A p \in Paths : \A i, j \in Index(p) :
                i < j => mounts[p][i].dev < mounts[p][j].dev

(* Only attached disks were mounted, block volumes for writing. *)
Known == \A p \in Paths : \A i \in Index(p) :
                /\ 0 < mounts[p][i].dev /\ mounts[p][i].dev <= attached
                /\ access = "block" => mounts[p][i].mode = "rw"

(* A mounted volume is published from its staging path, a block volume is  *)
(* not staged.                                                             *)
Through ==
    /\ access = "block" => mounts[Staging] = <<>>
    /\ access = "mount" =>
          \A t \in Targets : \A i \in Index(t) :
              \E j \in Index(Staging) : mounts[Staging][j].dev = mounts[t][i].dev

(* What is mounted or made is owed, and a mounted target exists. *)
Owed == /\ NothingForgotten
        /\ \A t \in Targets : mounts[t] # <<>> => t \in created

OneCall == \A r, s \in Slots : call[r] # Idle /\ call[s] # Idle => r = s

Below(p, d) == \A i \in Index(p) : mounts[p][i].dev < d

(* What a call knows at each of its steps. *)
Steps(c) ==
    \/ c = Idle
    \/ c.op = "stage" /\ c.step \in {"start", "mount"} /\ c.path = Staging
    \/ c.op = "unstage" /\ c.step \in {"start", "unmount"} /\ c.path = Staging
    \/ c.op = "publish" /\ c.step \in {"start", "look", "bind"} /\ c.path \in Targets
    \/ c.op = "unpublish" /\ c.step \in {"start", "unmount", "remove"} /\ c.path \in Targets

Knows(c) ==
    /\ c.op \in {"stage", "publish"} => c.path \in owed
    /\ c.op = "stage" /\ c.step = "mount" =>
          access = "mount" /\ 0 < c.dev /\ c.dev <= attached /\ Below(Staging, c.dev)
    /\ c.op = "unstage" /\ c.step = "unmount" =>
          Len(mounts[Staging]) = 1 /\ \A t \in Targets : mounts[t] = <<>>
    /\ c.op = "publish" /\ c.step \in {"look", "bind"} =>
          /\ 0 < c.dev /\ c.dev <= attached /\ c.path \in created
          /\ access = "block" => c.mode = "rw"
          /\ \A p \in Paths : Below(p, c.dev + 1)
    /\ c.op = "publish" /\ c.step = "bind" =>
          /\ Below(c.path, c.dev)
          /\ access = "mount" => mounts[Staging] # <<>> /\ Top(Staging) = c.dev

IInv == /\ TypeOK /\ device \in {NoDevice, attached}
        /\ Layered /\ Known /\ Through /\ Owed /\ OneCall
        /\ \A s \in Slots : Steps(call[s]) /\ Knows(call[s])

-----------------------------------------------------------------------------
Entry == [dev : Nat, mode : {"rw", "ro"}]

Call == [op : {"none", "stage", "unstage", "publish", "unpublish"},
         step : {"idle", "start", "mount", "unmount", "look", "bind", "remove"},
         path : Paths \cup {NoPath}, mode : {"rw", "ro"}, dev : Nat,
         waiting : {"yes", "no"}]

(* The type of an entry, and the bound on faults. *)
LEMMA Entries ==
    ASSUME TypeOK
    PROVE  \A p \in Paths :
              /\ mounts[p] \in Seq(Entry) /\ Len(mounts[p]) \in Nat
              /\ mounts[p] # <<>> => Len(mounts[p]) > 0 /\ 1 \in Index(p)
                                     /\ Head(mounts[p]) = mounts[p][1]
              /\ \A i \in Index(p) : mounts[p][i].dev \in Nat /\ i \in Nat /\ 0 < i
<1> SUFFICES ASSUME NEW p \in Paths
             PROVE  /\ mounts[p] \in Seq(Entry) /\ Len(mounts[p]) \in Nat
                    /\ mounts[p] # <<>> => Len(mounts[p]) > 0 /\ 1 \in Index(p)
                                           /\ Head(mounts[p]) = mounts[p][1]
                    /\ \A i \in Index(p) : mounts[p][i].dev \in Nat /\ i \in Nat /\ 0 < i
  BY Zenon
<1>1. mounts[p] \in Seq(Entry)
  BY Zenon DEF TypeOK, Entry
<1>2. Len(mounts[p]) \in Nat /\ \A i \in Index(p) : mounts[p][i] \in Entry
  BY <1>1 DEF Index
<1>3. mounts[p] # <<>> => Len(mounts[p]) > 0 /\ 1 \in Index(p) /\ Head(mounts[p]) = mounts[p][1]
  BY <1>1, <1>2 DEF Index
<1> QED BY <1>1, <1>2, <1>3 DEF Entry, Index

LEMMA FaultBound ==
    ASSUME TypeOK, Fault \/ faults' = faults
    PROVE  faults' \in 0..MaxFaults
BY NodeServiceAssumption DEF TypeOK, Fault

(* Mounting adds an entry on top of one path. *)
LEMMA MountAdds ==
    ASSUME TypeOK, NEW p \in Paths, NEW d \in Nat, NEW m \in {"rw", "ro"}, Mount(p, d, m)
    PROVE  /\ mounts' \in [Paths -> Seq(Entry)]
           /\ \A q \in Paths \ {p} : mounts'[q] = mounts[q]
           /\ Len(mounts'[p]) = Len(mounts[p]) + 1
           /\ \A i \in Index(p) : mounts'[p][i] = mounts[p][i]
           /\ mounts'[p][Len(mounts[p]) + 1] = [dev |-> d, mode |-> m]
           /\ mounts'[p] # <<>>
<1> DEFINE e == [dev |-> d, mode |-> m]
<1>1. e \in Entry /\ mounts \in [Paths -> Seq(Entry)]
  BY Zenon DEF Entry, TypeOK
<1>2. mounts' = [mounts EXCEPT ![p] = Append(mounts[p], e)]
  BY Zenon DEF Mount
<1> HIDE DEF e
<1>3. mounts'[p] = Append(mounts[p], e)
  BY <1>1, <1>2, Zenon
<1>4. /\ Append(mounts[p], e) \in Seq(Entry)
      /\ Len(Append(mounts[p], e)) = Len(mounts[p]) + 1
      /\ \A i \in 1..Len(mounts[p]) : Append(mounts[p], e)[i] = mounts[p][i]
      /\ Append(mounts[p], e)[Len(mounts[p]) + 1] = e
      /\ Append(mounts[p], e) # <<>>
  <2>1. mounts[p] \in Seq(Entry) /\ Len(mounts[p]) \in Nat
    BY <1>1
  <2>2. Append(mounts[p], e) \in Seq(Entry) /\ Append(mounts[p], e) # <<>>
    BY <1>1, <2>1, AppendProperties
  <2> QED BY <1>1, <2>1, <2>2, AppendProperties
<1>5. e = [dev |-> d, mode |-> m]
  BY Zenon DEF e
<1> QED BY <1>1, <1>2, <1>3, <1>4, <1>5, Zenon DEF Index

(* Unmounting takes the topmost entry of one path away. *)
LEMMA UnmountRemoves ==
    ASSUME TypeOK, NEW p \in Paths, mounts[p] # <<>>, Unmount(p)
    PROVE  /\ mounts' \in [Paths -> Seq(Entry)]
           /\ \A q \in Paths \ {p} : mounts'[q] = mounts[q]
           /\ Len(mounts'[p]) = Len(mounts[p]) - 1
           /\ \A i \in Index(p)' : i \in Index(p) /\ mounts'[p][i] = mounts[p][i]
           /\ Len(mounts[p]) = 1 => mounts'[p] = <<>>
<1>1. mounts \in [Paths -> Seq(Entry)]
  BY Zenon DEF Entry, TypeOK
<1>2. mounts'[p] = SubSeq(mounts[p], 1, Len(mounts[p]) - 1)
  BY <1>1, Zenon DEF Unmount
<1>3. mounts[p] \in Seq(Entry) /\ Len(mounts[p]) \in Nat /\ Len(mounts[p]) > 0
  BY <1>1
<1>4. /\ SubSeq(mounts[p], 1, Len(mounts[p]) - 1) \in Seq(Entry)
      /\ Len(SubSeq(mounts[p], 1, Len(mounts[p]) - 1)) = Len(mounts[p]) - 1
      /\ \A i \in 1..(Len(mounts[p]) - 1) :
            SubSeq(mounts[p], 1, Len(mounts[p]) - 1)[i] = mounts[p][i]
  BY <1>3
<1>5. mounts' \in [Paths -> Seq(Entry)] /\ \A q \in Paths \ {p} : mounts'[q] = mounts[q]
  BY <1>1, <1>2, <1>4, Zenon DEF Unmount
<1>6. \A i \in 1..(Len(mounts[p]) - 1) : i \in 1..Len(mounts[p])
  BY <1>3
<1>7. ASSUME Len(mounts[p]) = 1 PROVE mounts'[p] = <<>>
  <2>1. Len(mounts'[p]) = 0 /\ mounts'[p] \in Seq(Entry)
    BY <1>2, <1>3, <1>4, <1>7
  <2> QED BY <2>1
<1> QED BY <1>2, <1>3, <1>4, <1>5, <1>6, <1>7, Zenon DEF Index

(* A call that goes on changes nothing but its step and its device. *)
LEMMA GotoCall ==
    ASSUME TypeOK, NEW s \in Slots, NEW d \in Nat,
           NEW step \in {"mount", "unmount", "look", "bind", "remove"}, Goto(s, step, d)
    PROVE  /\ call' \in [Slots -> Call] /\ owed' = owed /\ ready' = ready
           /\ \A r \in Slots \ {s} : call'[r] = call[r]
           /\ call'[s].step = step /\ call'[s].dev = d
           /\ call'[s].op = call[s].op /\ call'[s].path = call[s].path
           /\ call'[s].mode = call[s].mode
<1>1. call \in [Slots -> Call]
  BY Zenon DEF TypeOK, Call
<1>2. call' = [call EXCEPT ![s].step = step, ![s].dev = d] /\ owed' = owed /\ ready' = ready
  BY Zenon DEF Goto, kubeletVars
<1>3. call[s] \in Call
  BY <1>1, Zenon
<1> QED BY <1>1, <1>2, <1>3, Zenon DEF Call

(* A call that returns leaves its slot, and what is owed shrinks at most   *)
(* by the path of an unstage or unpublish call that succeeded.             *)
LEMMA ReturnCall ==
    ASSUME TypeOK, NEW s \in Slots, NEW ok \in BOOLEAN, Return(s, ok)
    PROVE  /\ call' \in [Slots -> Call] /\ call'[s] = Idle
           /\ \A r \in Slots \ {s} : call'[r] = call[r]
           /\ \/ owed' = owed
              \/ /\ owed' = owed \ {call[s].path}
                 /\ ok /\ call[s].op \in {"unstage", "unpublish"}
           /\ \/ ready' = ready
              \/ /\ ready' = ready \cup {call[s].path}
                 /\ ok /\ call[s].op \in {"stage", "publish"}
<1>1. call \in [Slots -> Call] /\ Idle \in Call
  BY Zenon DEF TypeOK, Call, Idle, NoDevice
<1>2. call' = [call EXCEPT ![s] = Idle]
  BY Zenon DEF Return
<1>3. \/ owed' = owed
      \/ /\ owed' = owed \ {call[s].path}
         /\ ok /\ call[s].op \in {"unstage", "unpublish"}
  BY Zenon DEF Return
<1>4. \/ ready' = ready
      \/ /\ ready' = ready \cup {call[s].path}
         /\ ok /\ call[s].op \in {"stage", "publish"}
  BY Zenon DEF Return
<1> QED BY <1>1, <1>2, <1>3, <1>4, Zenon

(* A slot without a call has nothing to know. *)
LEMMA IdleCall ==
    ASSUME NEW s \in Slots, call'[s] = Idle
    PROVE  Steps(call[s])' /\ Knows(call[s])'
<1>1. call'[s].op = "none"
  BY DEF Idle
<1> QED BY <1>1, Zenon DEF Steps, Knows

(* If the calls of the other slots stay, it is enough to look at one. *)
LEMMA OneSlot ==
    ASSUME IInv, NEW s \in Slots, call[s] # Idle,
           call' \in [Slots -> Call],
           \A r \in Slots \ {s} : call'[r] = call[r],
           Steps(call[s])', Knows(call[s])'
    PROVE  OneCall' /\ \A r \in Slots : Steps(call[r])' /\ Knows(call[r])'
<1>1. \A r \in Slots \ {s} : call'[r] = Idle
  BY Zenon DEF IInv, OneCall
<1>2. OneCall'
  BY <1>1, Zenon DEF OneCall
<1> QED BY <1>1, <1>2, IdleCall, Zenon

-----------------------------------------------------------------------------
(* A step that mounts and unmounts nothing keeps the invariants of the     *)
(* mount table.                                                            *)
LEMMA SameMounts ==
    ASSUME IInv, mounts' = mounts, UNCHANGED diskVars
    PROVE  Layered' /\ Known' /\ Through' /\ (device \in {NoDevice, attached})'
BY Zenon DEF IInv, Layered, Known, Through, Index, diskVars

(* A call that returns with an error, or with success when its work is     *)
(* done, keeps the invariant.                                              *)
LEMMA QuietReturn ==
    ASSUME IInv, NEW s \in Slots, call[s] # Idle, mounts' = mounts, created' = created,
           Kept, fs' \in {"none", "some"}, faults' \in 0..MaxFaults,
           NEW ok \in BOOLEAN, Return(s, ok),
           ok /\ call[s].op \in {"unstage", "unpublish"}
               => mounts[call[s].path] = <<>> /\ call[s].path \notin created
    PROVE  IInv'
<1>1. TypeOK /\ Owed
  BY Zenon DEF IInv
<1>2. /\ call' \in [Slots -> Call] /\ call'[s] = Idle
      /\ \A r \in Slots \ {s} : call'[r] = call[r]
      /\ \/ owed' = owed
         \/ /\ owed' = owed \ {call[s].path}
            /\ ok /\ call[s].op \in {"unstage", "unpublish"}
      /\ \/ ready' = ready
         \/ /\ ready' = ready \cup {call[s].path}
            /\ ok /\ call[s].op \in {"stage", "publish"}
  BY <1>1, ReturnCall, Zenon
<1>3. call[s].op \in {"stage", "publish"} => call[s].path \in Paths
  <2>1. Steps(call[s])
    BY Zenon DEF IInv
  <2> QED BY <2>1, Zenon DEF Steps, Paths, Idle
<1>4. TypeOK'
  <2>1. ready' \in SUBSET Paths /\ owed' \in SUBSET Paths
    BY <1>1, <1>2, <1>3, Zenon DEF TypeOK
  <2> QED BY <1>1, <1>2, <2>1, Zenon DEF TypeOK, Call, Kept, diskVars, envVars
<1>5. Layered' /\ Known' /\ Through' /\ (device \in {NoDevice, attached})'
  BY SameMounts, Zenon DEF Kept
<1>6. Owed'
  BY <1>1, <1>2, Zenon DEF Owed, NothingForgotten
<1>7. Steps(call[s])' /\ Knows(call[s])'
  BY <1>2, IdleCall, Zenon
<1>8. OneCall' /\ \A r \in Slots : Steps(call[r])' /\ Knows(call[r])'
  BY <1>2, <1>7, OneSlot, Zenon
<1> QED BY <1>4, <1>5, <1>6, <1>8, Zenon DEF IInv

(* So does a call that goes on and knows what it has to. *)
LEMMA QuietGoto ==
    ASSUME IInv, NEW s \in Slots, call[s] # Idle, mounts' = mounts,
           created \subseteq created', created' \subseteq owed \cap Targets,
           Kept, fs' \in {"none", "some"}, faults' \in 0..MaxFaults,
           NEW d \in Nat, NEW step \in {"mount", "unmount", "look", "bind", "remove"},
           Goto(s, step, d), Steps(call[s])', Knows(call[s])'
    PROVE  IInv'
<1>1. TypeOK /\ Owed
  BY Zenon DEF IInv
<1>2. /\ call' \in [Slots -> Call] /\ owed' = owed /\ ready' = ready
      /\ \A r \in Slots \ {s} : call'[r] = call[r]
  BY <1>1, GotoCall, Zenon
<1>3. TypeOK'
  BY <1>1, <1>2, Zenon DEF TypeOK, Call, Kept, diskVars, envVars
<1>4. Layered' /\ Known' /\ Through' /\ (device \in {NoDevice, attached})'
  BY SameMounts, Zenon DEF Kept
<1>5. Owed'
  BY <1>1, <1>2, Zenon DEF Owed, NothingForgotten
<1>6. OneCall' /\ \A r \in Slots : Steps(call[r])' /\ Knows(call[r])'
  BY <1>2, OneSlot, Zenon
<1> QED BY <1>3, <1>4, <1>5, <1>6, Zenon DEF IInv

(* A mount on top of earlier attachments only, of a disk that is staged    *)
(* if the target is published through the staging path, and its answer.    *)
LEMMA MountStep ==
    ASSUME IInv, NEW s \in Slots, call[s] # Idle, call[s].op \in {"stage", "publish"},
           NEW p \in Paths, NEW d \in Nat, NEW m \in {"rw", "ro"},
           Mount(p, d, m), 0 < d, d <= attached, Below(p, d),
           access = "block" => m = "rw" /\ p # Staging,
           p \in owed, p \in Targets => p \in created,
           access = "mount" /\ p # Staging =>
              \E j \in Index(Staging) : mounts[Staging][j].dev = d,
           created' = created, Kept, fs' \in {"none", "some"}, faults' \in 0..MaxFaults,
           Return(s, TRUE)
    PROVE  IInv'
<1>1. TypeOK /\ Owed /\ Layered /\ Known /\ Through /\ Staging \in Paths
  BY Zenon DEF IInv, Paths
<1>2. /\ call' \in [Slots -> Call] /\ call'[s] = Idle /\ owed' = owed
      /\ \A r \in Slots \ {s} : call'[r] = call[r]
      /\ ready' = ready \/ ready' = ready \cup {call[s].path}
  BY <1>1, ReturnCall, Zenon
<1>3. call[s].path \in Paths
  <2>1. Steps(call[s])
    BY Zenon DEF IInv
  <2> QED BY <2>1, Zenon DEF Steps, Paths, Idle
<1>4. /\ mounts' \in [Paths -> Seq(Entry)]
      /\ \A q \in Paths \ {p} : mounts'[q] = mounts[q]
      /\ Len(mounts'[p]) = Len(mounts[p]) + 1
      /\ \A i \in Index(p) : mounts'[p][i] = mounts[p][i]
      /\ mounts'[p][Len(mounts[p]) + 1] = [dev |-> d, mode |-> m]
      /\ mounts'[p] # <<>>
  BY <1>1, MountAdds, Zenon
<1>5. TypeOK'
  <2>1. ready' \in SUBSET Paths /\ owed' \in SUBSET Paths
    BY <1>1, <1>2, <1>3, Zenon DEF TypeOK
  <2> QED BY <1>1, <1>2, <1>4, <2>1, Zenon DEF TypeOK, Call, Entry, Kept, diskVars, envVars
<1>6. mounts \in [Paths -> Seq(Entry)] /\ \A q \in Paths : Len(mounts[q]) \in Nat
  <2>1. mounts \in [Paths -> Seq(Entry)]
    BY <1>1, Zenon DEF TypeOK, Entry
  <2> QED BY <2>1
<1>7. \A i \in Index(p)' : \/ i \in Index(p) /\ mounts'[p][i] = mounts[p][i]
                           \/ /\ i = Len(mounts[p]) + 1
                              /\ mounts'[p][i].dev = d /\ mounts'[p][i].mode = m
  <2> SUFFICES ASSUME NEW i \in Index(p)'
               PROVE  \/ i \in Index(p) /\ mounts'[p][i] = mounts[p][i]
                      \/ /\ i = Len(mounts[p]) + 1
                         /\ mounts'[p][i].dev = d /\ mounts'[p][i].mode = m
    BY Zenon
  <2>1. Len(mounts[p]) \in Nat
    BY <1>6, Zenon
  <2>2. i \in 1..(Len(mounts[p]) + 1)
    BY <1>4 DEF Index
  <2>3. i \in Index(p) \/ i = Len(mounts[p]) + 1
    BY <2>1, <2>2 DEF Index
  <2>4. [dev |-> d, mode |-> m].dev = d /\ [dev |-> d, mode |-> m].mode = m
    BY Zenon
  <2> QED BY <1>4, <2>3, <2>4, Zenon
<1>8. Layered'
  <2> SUFFICES ASSUME NEW q \in Paths, NEW i \in Index(q)', NEW j \in Index(q)', i < j
               PROVE  mounts'[q][i].dev < mounts'[q][j].dev
    BY Zenon DEF Layered
  <2>1. CASE q # p
    BY <1>1, <1>4, <2>1, Zenon DEF Layered, Index
  <2>2. CASE q = p
    <3>1. i \in Index(p) /\ mounts'[p][i] = mounts[p][i]
      BY <1>4, <1>6, <1>7, <2>2 DEF Index
    <3>2. mounts[p][i].dev < d
      BY <3>1, Zenon DEF Below
    <3> QED BY <1>1, <1>7, <2>2, <3>1, <3>2, Zenon DEF Layered
  <2> QED BY <2>1, <2>2, Zenon
<1>9. Known' /\ (device \in {NoDevice, attached})'
  <2>1. access' = access /\ attached' = attached /\ device' = device
    BY Zenon DEF Kept, diskVars
  <2>2. ASSUME NEW q \in Paths, NEW i \in Index(q)'
        PROVE  /\ 0 < mounts'[q][i].dev /\ mounts'[q][i].dev <= attached
               /\ access = "block" => mounts'[q][i].mode = "rw"
    <3>1. CASE q # p
      BY <1>1, <1>4, <2>2, <3>1, Zenon DEF Known, Index
    <3>2. CASE q = p
      BY <1>1, <1>7, <2>2, <3>2, Zenon DEF Known
    <3> QED BY <3>1, <3>2, Zenon
  <2> QED BY <2>1, <2>2, Zenon DEF Known, IInv
<1>10. Through'
  <2>1. access' = access
    BY Zenon DEF Kept, diskVars
  <2>2. access = "block" => mounts'[Staging] = <<>>
    BY <1>1, <1>4, Zenon DEF Through
  <2>3. ASSUME access = "mount", NEW t \in Targets, NEW i \in Index(t)'
        PROVE  \E j \in Index(Staging)' : mounts'[Staging][j].dev = mounts'[t][i].dev
    <3>1. t \in Paths /\ t # Staging
      BY NodeServiceAssumption, Zenon DEF Paths
    <3>2. \A j \in Index(Staging) : j \in Index(Staging)' /\ mounts'[Staging][j] = mounts[Staging][j]
      BY <1>1, <1>4, <1>6 DEF Index
    <3>3. CASE t # p
      <4>1. i \in Index(t) /\ mounts'[t] = mounts[t]
        BY <1>4, <2>3, <3>1, <3>3, Zenon DEF Index
      <4> QED BY <1>1, <2>3, <3>2, <4>1 DEF Through
    <3>4. CASE t = p
      <4>1. \E j \in Index(Staging) : mounts[Staging][j].dev = mounts'[t][i].dev
        BY <1>1, <1>7, <2>3, <3>1, <3>4 DEF Through
      <4> QED BY <3>2, <4>1, Zenon
    <3> QED BY <3>3, <3>4, Zenon
  <2> QED BY <2>1, <2>2, <2>3, Zenon DEF Through
<1>11. Owed'
  <2>1. ASSUME NEW q \in Paths, mounts'[q] # <<>> PROVE q \in owed'
    BY <1>1, <1>2, <1>4, <2>1, Zenon DEF Owed, NothingForgotten
  <2>2. ASSUME NEW t \in Targets, mounts'[t] # <<>> PROVE t \in created'
    BY <1>1, <1>4, <2>2, Zenon DEF Owed, Paths
  <2>3. created' \subseteq owed'
    BY <1>1, <1>2, Zenon DEF Owed, NothingForgotten
  <2> QED BY <2>1, <2>2, <2>3, Zenon DEF Owed, NothingForgotten
<1>12. Steps(call[s])' /\ Knows(call[s])'
  BY <1>2, IdleCall, Zenon
<1>13. OneCall' /\ \A r \in Slots : Steps(call[r])' /\ Knows(call[r])'
  BY <1>2, <1>12, OneSlot, Zenon
<1> QED BY <1>5, <1>8, <1>9, <1>10, <1>11, <1>13, Zenon DEF IInv

(* Unmounting keeps the invariants of the mount table, if the staging path *)
(* is unmounted only when no target is mounted.                            *)
LEMMA UnmountKeeps ==
    ASSUME IInv, NEW p \in Paths, mounts[p] # <<>>, Unmount(p), UNCHANGED diskVars,
           p = Staging => \A t \in Targets : mounts[t] = <<>>
    PROVE  /\ Layered' /\ Known' /\ Through' /\ (device \in {NoDevice, attached})'
           /\ mounts' \in [Paths -> Seq(Entry)]
           /\ \A q \in Paths : mounts'[q] # <<>> => mounts[q] # <<>>
           /\ Len(mounts[p]) = 1 => mounts'[p] = <<>>
<1>1. TypeOK /\ Layered /\ Known /\ Through /\ Staging \in Paths
  BY Zenon DEF IInv, Paths
<1>2. /\ mounts' \in [Paths -> Seq(Entry)]
      /\ \A q \in Paths \ {p} : mounts'[q] = mounts[q]
      /\ Len(mounts'[p]) = Len(mounts[p]) - 1
      /\ \A i \in Index(p)' : i \in Index(p) /\ mounts'[p][i] = mounts[p][i]
      /\ Len(mounts[p]) = 1 => mounts'[p] = <<>>
  BY <1>1, UnmountRemoves, Zenon
<1>3. \A q \in Paths : \A i \in Index(q)' : i \in Index(q) /\ mounts'[q][i] = mounts[q][i]
  BY <1>2, Zenon DEF Index
<1>4. access' = access /\ attached' = attached /\ device' = device
  BY Zenon DEF diskVars
<1>5. Layered' /\ Known' /\ (device \in {NoDevice, attached})'
  BY <1>1, <1>3, <1>4 DEF Layered, Known, IInv
<1>6. \A q \in Paths : mounts'[q] # <<>> => mounts[q] # <<>>
  BY <1>2, Zenon
<1>7. Through'
  <2>1. access = "block" => mounts'[Staging] = <<>>
    BY <1>1, <1>6, Zenon DEF Through
  <2>2. ASSUME access = "mount", NEW t \in Targets, NEW i \in Index(t)'
        PROVE  \E j \in Index(Staging)' : mounts'[Staging][j].dev = mounts'[t][i].dev
    <3>1. t \in Paths /\ t # Staging
      BY NodeServiceAssumption, Zenon DEF Paths
    <3>2. i \in Index(t) /\ mounts'[t][i] = mounts[t][i]
      BY <1>3, <2>2, <3>1, Zenon
    <3>3. mounts[t] # <<>>
      BY <3>2 DEF Index
    <3>4. p # Staging /\ mounts'[Staging] = mounts[Staging]
      BY <1>1, <1>2, <3>3, Zenon
    <3>5. PICK j \in Index(Staging) : mounts[Staging][j].dev = mounts[t][i].dev
      BY <1>1, <2>2, <3>2, Zenon DEF Through
    <3>6. j \in Index(Staging)'
      BY <3>4, Zenon DEF Index
    <3> QED BY <3>2, <3>4, <3>5, <3>6, Zenon
  <2> QED BY <1>4, <2>1, <2>2, Zenon DEF Through
<1> QED BY <1>2, <1>5, <1>6, <1>7, Zenon

(* What getDevMounts finds. *)
LEMMA DevMounts ==
    ASSUME TypeOK, NEW d
    PROVE  /\ \A p \in Paths : \A i \in Index(p) :
                mounts[p][i].dev = d => <<p, i>> \in getDevMounts(d)
           /\ \A e \in getDevMounts(d) :
                e[1] \in Paths /\ e[2] \in Index(e[1]) /\ mounts[e[1]][e[2]].dev = d
BY DEF getDevMounts, Index

(* A running call has a slot that is not idle. *)
LEMMA Running ==
    ASSUME NEW s \in Slots, NEW op, NEW step, Runs(s, op, step), op # "none"
    PROVE  call[s] # Idle /\ call[s].op = op /\ call[s].step = step
BY DEF Runs, Idle

-----------------------------------------------------------------------------
(* NodeStageVolume keeps the invariant. *)
LEMMA StageIInv ==
    ASSUME IInv, NEW s \in Slots, NodeStageVolume(s) \/ StageMount(s)
    PROVE  IInv'
<1>1. TypeOK /\ Known /\ Steps(call[s]) /\ Knows(call[s]) /\ Staging \in Paths
  BY Zenon DEF IInv, Paths
<1>2. CASE NodeStageVolume(s)
  <2>1. call[s] # Idle /\ call[s].op = "stage"
    BY <1>2, Running, Zenon DEF NodeStageVolume
  <2>2. /\ Kept /\ mounts' = mounts /\ created' = created /\ fs' = fs /\ faults' = faults
        /\ fs' \in {"none", "some"} /\ faults' \in 0..MaxFaults
    BY <1>1, <1>2, Zenon DEF NodeStageVolume, nodeVars, TypeOK
  <2>3. ASSUME NEW ok \in BOOLEAN, Return(s, ok) PROVE IInv'
    BY <2>1, <2>2, <2>3, QuietReturn, Zenon
  <2>4. ASSUME device # NoDevice, access = "mount", getDevMounts(device) = {},
               Goto(s, "mount", device)
        PROVE  IInv'
    <3>1. device \in Nat /\ device = attached /\ 0 < device
      BY <1>1, <2>4 DEF IInv, TypeOK, NoDevice
    <3>2. /\ owed' = owed /\ call'[s].step = "mount" /\ call'[s].dev = device
          /\ call'[s].op = call[s].op /\ call'[s].path = call[s].path
      BY <1>1, <2>4, <3>1, GotoCall, Zenon
    <3>3. Below(Staging, device)
      <4> SUFFICES ASSUME NEW i \in Index(Staging) PROVE mounts[Staging][i].dev < device
        BY Zenon DEF Below
      <4>1. mounts[Staging][i].dev # device
        BY <1>1, <2>4, DevMounts, Zenon
      <4>2. mounts[Staging][i].dev <= attached /\ mounts[Staging][i].dev \in Nat
        BY <1>1, Entries, Zenon DEF Known
      <4> QED BY <3>1, <4>1, <4>2
    <3>4. Steps(call[s])' /\ Knows(call[s])'
      <4>1. /\ call'[s].op = "stage" /\ call'[s].path = Staging
            /\ call'[s].path \in owed' /\ call'[s].step = "mount"
        <5>1. call[s].path = Staging /\ call[s].path \in owed
          BY <1>1, <2>1, Zenon DEF Steps, Knows
        <5> QED BY <2>1, <3>2, <5>1, Zenon
      <4>2. /\ access' = "mount" /\ 0 < call'[s].dev /\ call'[s].dev <= attached'
            /\ Below(Staging, call[s].dev)'
        BY <2>2, <2>4, <3>1, <3>2, <3>3 DEF Below, Index, Kept, diskVars
      <4> QED BY <4>1, <4>2, Zenon DEF Steps, Knows
    <3>5. created' \subseteq owed \cap Targets
      BY <2>2, Zenon DEF IInv, Owed, NothingForgotten, TypeOK
    <3> QED BY <2>1, <2>2, <2>4, <3>1, <3>4, <3>5, QuietGoto, Zenon
  <2>5. \E ok \in BOOLEAN : Return(s, ok) \/ 
           /\ device # NoDevice /\ access = "mount" /\ getDevMounts(device) = {}
           /\ Goto(s, "mount", device)
    BY <1>2, Zenon DEF NodeStageVolume
  <2> QED BY <2>3, <2>4, <2>5, Zenon
<1>3. CASE StageMount(s)
  <2>1. call[s] # Idle /\ call[s].op = "stage" /\ call[s].step = "mount"
    BY <1>3, Running, Zenon DEF StageMount
  <2>2. Kept /\ created' = created /\ fs' \in {"none", "some"} /\ faults' \in 0..MaxFaults
    <3>1. fs \in {"none", "some"} /\ (Fault \/ faults' = faults)
      BY <1>1, <1>3, Zenon DEF StageMount, TypeOK
    <3>2. fs' \in {fs, "some"}
      BY <1>3, Zenon DEF StageMount
    <3> QED BY <1>1, <1>3, <3>1, <3>2, FaultBound, Zenon DEF StageMount
  <2>3. /\ access = "mount" /\ 0 < call[s].dev /\ call[s].dev <= attached
        /\ Below(Staging, call[s].dev) /\ Staging \in owed
        /\ call[s].dev \in Nat /\ mode \in {"rw", "ro"}
    BY <1>1, <2>1, Zenon DEF Steps, Knows, TypeOK, Idle
  <2>4. CASE mounts' = mounts /\ Return(s, FALSE)
    BY <2>1, <2>2, <2>4, QuietReturn, Zenon
  <2>5. CASE Mount(Staging, call[s].dev, mode) /\ Return(s, TRUE)
    <3>1. Staging \notin Targets
      BY NodeServiceAssumption, Zenon
    <3> QED BY <1>1, <2>1, <2>2, <2>3, <2>5, <3>1, MountStep, Zenon
  <2> QED BY <1>3, <2>4, <2>5, Zenon DEF StageMount
<1> QED BY <1>2, <1>3, Zenon

(* NodeUnstageVolume keeps the invariant: what it unmounts is mounted to   *)
(* no target, because the device it finds is the newest one and has no     *)
(* other mount.                                                            *)
LEMMA UnstageIInv ==
    ASSUME IInv, NEW s \in Slots, NodeUnstageVolume(s) \/ UnstageUnmount(s)
    PROVE  IInv'
<1>1. /\ TypeOK /\ Known /\ Layered /\ Through /\ Owed
      /\ Steps(call[s]) /\ Knows(call[s]) /\ Staging \in Paths
  BY Zenon DEF IInv, Paths
<1>2. CASE NodeUnstageVolume(s)
  <2> DEFINE d == getDevFromMount(Staging)
  <2>1. call[s] # Idle /\ call[s].op = "unstage" /\ call[s].path = Staging
    <3>1. call[s] # Idle /\ call[s].op = "unstage"
      BY <1>2, Running, Zenon DEF NodeUnstageVolume, Runs
    <3> QED BY <1>1, <3>1, Zenon DEF Steps
  <2>2. /\ Kept /\ mounts' = mounts /\ created' = created /\ fs' = fs /\ faults' = faults
        /\ fs' \in {"none", "some"} /\ faults' \in 0..MaxFaults
    BY <1>1, <1>2, Zenon DEF NodeUnstageVolume, nodeVars, TypeOK
  <2>3. CASE mounts[Staging] = <<>> /\ Return(s, TRUE)
    <3>1. Staging \notin created
      BY <1>1, NodeServiceAssumption, Zenon DEF TypeOK
    <3> QED BY <2>1, <2>2, <2>3, <3>1, QuietReturn, Zenon
  <2>4. CASE Return(s, FALSE)
    BY <2>1, <2>2, <2>4, QuietReturn, Zenon
  <2>5. CASE /\ mounts[Staging] # <<>> /\ getDevice(d) /\ ~Several(getDevMounts(d))
             /\ Goto(s, "unmount", NoDevice)
    <3>1. /\ Len(mounts[Staging]) \in Nat /\ Len(mounts[Staging]) > 0
          /\ \A p \in Paths : \A i \in Index(p) : mounts[p][i].dev \in Nat
          /\ d = mounts[Staging][1].dev /\ 1 \in Index(Staging)
      BY <1>1, <2>5, Entries, Zenon DEF getDevFromMount
    <3>2. d = attached
      BY <1>1, <2>5, <3>1 DEF Known, getDevice, IInv, NoDevice
    <3>3. Len(mounts[Staging]) = 1
      <4>1. ASSUME Len(mounts[Staging]) > 1 PROVE FALSE
        <5>1. 2 \in Index(Staging)
          BY <3>1, <4>1 DEF Index
        <5>2. mounts[Staging][1].dev < mounts[Staging][2].dev
          BY <1>1, <3>1, <5>1 DEF Layered
        <5>3. mounts[Staging][2].dev <= attached /\ mounts[Staging][2].dev \in Nat
          BY <1>1, <3>1, <5>1, Zenon DEF Known
        <5>4. attached \in Nat /\ mounts[Staging][1].dev = attached
          BY <1>1, <3>1, <3>2, Zenon DEF TypeOK
        <5> QED BY <5>2, <5>3, <5>4
      <4>2. Len(mounts[Staging]) \in Nat /\ Len(mounts[Staging]) > 0
        BY <3>1, Zenon
      <4>3. \A n \in Nat : n > 0 /\ ~(n > 1) => n = 1
        OBVIOUS
      <4> QED BY <4>1, <4>2, <4>3, Zenon
    <3>4. ASSUME NEW t \in Targets, mounts[t] # <<>> PROVE FALSE
      <4>1. t \in Paths /\ t # Staging /\ 1 \in Index(t)
        BY <1>1, <3>4, NodeServiceAssumption DEF Paths, TypeOK, Index
      <4>2. \E j \in Index(Staging) : mounts[Staging][j].dev = mounts[t][1].dev
        BY <1>1, <2>5, <4>1, Zenon DEF Through, TypeOK
      <4>3. mounts[t][1].dev = d
        BY <3>1, <3>3, <4>2 DEF Index
      <4>4. <<t, 1>> \in getDevMounts(d) /\ <<Staging, 1>> \in getDevMounts(d)
        BY <1>1, <3>1, <4>1, <4>3, DevMounts, Zenon
      <4> QED BY <2>5, <4>1, <4>4, Zenon DEF Several
    <3>5. /\ owed' = owed /\ call'[s].step = "unmount"
          /\ call'[s].op = call[s].op /\ call'[s].path = call[s].path
      BY <1>1, <2>5, GotoCall, Zenon DEF NoDevice
    <3>6. Steps(call[s])' /\ Knows(call[s])'
      BY <2>1, <2>2, <3>3, <3>4, <3>5, Zenon DEF Steps, Knows
    <3>7. created' \subseteq owed \cap Targets
      BY <1>1, <2>2, Zenon DEF Owed, NothingForgotten, TypeOK
    <3> QED BY <2>1, <2>2, <2>5, <3>6, <3>7, QuietGoto, Zenon DEF NoDevice
  <2> QED BY <1>2, <2>3, <2>4, <2>5, Zenon DEF NodeUnstageVolume
<1>3. CASE UnstageUnmount(s)
  <2>1. call[s] # Idle /\ call[s].op = "unstage" /\ call[s].step = "unmount"
    BY <1>3, Running, Zenon DEF UnstageUnmount
  <2>2. /\ Kept /\ created' = created /\ fs' \in {"none", "some"} /\ faults' \in 0..MaxFaults
        /\ UNCHANGED diskVars
    BY <1>1, <1>3, FaultBound, Zenon DEF UnstageUnmount, TypeOK, Kept
  <2>3. CASE mounts' = mounts /\ Return(s, FALSE)
    BY <2>1, <2>2, <2>3, QuietReturn, Zenon
  <2>4. CASE mounts[Staging] # <<>> /\ Unmount(Staging) /\ Return(s, TRUE)
    <3>1. /\ call[s].path = Staging /\ Len(mounts[Staging]) = 1
          /\ \A t \in Targets : mounts[t] = <<>>
      BY <1>1, <2>1, Zenon DEF Steps, Knows, Idle
    <3>2. /\ Layered' /\ Known' /\ Through' /\ (device \in {NoDevice, attached})'
          /\ mounts' \in [Paths -> Seq(Entry)]
          /\ \A q \in Paths : mounts'[q] # <<>> => mounts[q] # <<>>
          /\ mounts'[Staging] = <<>>
      BY <1>1, <2>2, <2>4, <3>1, UnmountKeeps, Zenon
    <3>3. /\ call' \in [Slots -> Call] /\ call'[s] = Idle
          /\ \A r \in Slots \ {s} : call'[r] = call[r]
          /\ owed' = owed \/ owed' = owed \ {Staging}
          /\ ready' = ready
      BY <1>1, <2>1, <2>4, <3>1, ReturnCall, Zenon
    <3>4. TypeOK'
      BY <1>1, <2>2, <3>2, <3>3, Zenon DEF TypeOK, Call, Entry, Kept, diskVars, envVars
    <3>5. Owed'
      <4>1. \A q \in Paths : mounts'[q] # <<>> => q \in owed'
        BY <1>1, <3>2, <3>3, Zenon DEF Owed, NothingForgotten
      <4>2. Staging \notin created /\ created \subseteq owed
        BY <1>1, NodeServiceAssumption, Zenon DEF TypeOK, Owed, NothingForgotten
      <4>3. \A t \in Targets : mounts'[t] = <<>>
        BY <3>1, <3>2, Zenon DEF Paths
      <4> QED BY <2>2, <3>3, <4>1, <4>2, <4>3, Zenon DEF Owed, NothingForgotten
    <3>6. Steps(call[s])' /\ Knows(call[s])'
      BY <3>3, IdleCall, Zenon
    <3>7. OneCall' /\ \A r \in Slots : Steps(call[r])' /\ Knows(call[r])'
      BY <2>1, <3>3, <3>6, OneSlot, Zenon
    <3> QED BY <3>2, <3>4, <3>5, <3>7, Zenon DEF IInv
  <2> QED BY <1>3, <2>3, <2>4, Zenon DEF UnstageUnmount
<1> QED BY <1>2, <1>3, Zenon

-----------------------------------------------------------------------------
(* Publishing, and every step. *)

(* NodePublishVolume keeps the invariant: when it binds, the disk it found *)
(* is the topmost mount of the staging path and not mounted to the target. *)
LEMMA PublishIInv ==
    ASSUME IInv, NEW s \in Slots,
           NodePublishVolume(s) \/ publishMountVol(s) \/ publishBlockVol(s) \/ PublishBind(s)
    PROVE  IInv'
<1>1. /\ TypeOK /\ Known /\ Layered /\ Through /\ Owed
      /\ Steps(call[s]) /\ Knows(call[s]) /\ Staging \in Paths
  BY Zenon DEF IInv, Paths
<1>2. /\ attached \in Nat /\ device \in Nat /\ call[s].dev \in Nat
      /\ call[s].mode \in {"rw", "ro"} /\ created \subseteq owed \cap Targets
  BY <1>1 DEF TypeOK, Owed, NothingForgotten
<1>3. CASE NodePublishVolume(s)
  <2>1. call[s] # Idle /\ call[s].op = "publish"
    BY <1>3, Running, Zenon DEF NodePublishVolume
  <2>2. call[s].path \in Targets /\ call[s].path \in owed
    BY <1>1, <2>1, Zenon DEF Steps, Knows, Idle
  <2>3. /\ Kept /\ mounts' = mounts /\ fs' = fs /\ faults' = faults
        /\ fs' \in {"none", "some"} /\ faults' \in 0..MaxFaults
    BY <1>1, <1>3, Zenon DEF NodePublishVolume, TypeOK
  <2>4. CASE created' = created /\ Return(s, FALSE)
    BY <2>1, <2>3, <2>4, QuietReturn, Zenon
  <2>5. CASE /\ created' = created \cup {call[s].path} /\ Return(s, FALSE)
             /\ access = "block"
    <3>1. /\ call' \in [Slots -> Call] /\ call'[s] = Idle /\ owed' = owed /\ ready' = ready
          /\ \A r \in Slots \ {s} : call'[r] = call[r]
      BY <1>1, <2>5, ReturnCall, Zenon
    <3>2. TypeOK'
      BY <1>1, <2>2, <2>3, <2>5, <3>1, Zenon DEF TypeOK, Call, Kept, diskVars, envVars
    <3>3. Layered' /\ Known' /\ Through' /\ (device \in {NoDevice, attached})'
      BY <2>3, SameMounts, Zenon DEF Kept
    <3>4. Owed'
      BY <1>1, <2>2, <2>3, <2>5, <3>1, Zenon DEF Owed, NothingForgotten
    <3>5. Steps(call[s])' /\ Knows(call[s])'
      BY <3>1, IdleCall, Zenon
    <3>6. OneCall' /\ \A r \in Slots : Steps(call[r])' /\ Knows(call[r])'
      BY <2>1, <3>1, <3>5, OneSlot, Zenon
    <3> QED BY <3>2, <3>3, <3>4, <3>6, Zenon DEF IInv
  <2>6. CASE /\ device # NoDevice /\ created' = created \cup {call[s].path}
             /\ ~(access = "block" /\ call[s].mode = "ro") /\ Goto(s, "look", device)
    <3>1. device = attached /\ 0 < device
      BY <1>2, <2>6 DEF IInv, NoDevice
    <3>2. /\ owed' = owed /\ call'[s].step = "look" /\ call'[s].dev = device
          /\ call'[s].op = "publish" /\ call'[s].path = call[s].path
          /\ call'[s].mode = call[s].mode
      BY <1>1, <1>2, <2>1, <2>6, GotoCall, Zenon
    <3>3. \A p \in Paths : Below(p, device + 1)
      BY <1>1, <1>2, <3>1, Entries DEF Below, Known
    <3>4. (\A p \in Paths : Below(p, device + 1))'
      BY <2>3, <3>3, Zenon DEF Below, Index, Kept, diskVars
    <3>5. access' = access /\ attached' = attached /\ device' = device
      BY <2>3, Zenon DEF Kept, diskVars
    <3>6. Steps(call[s])'
      BY <2>2, <3>2, Zenon DEF Steps
    <3>7. Knows(call[s])'
      BY <1>2, <2>2, <2>6, <3>1, <3>2, <3>4, <3>5 DEF Knows
    <3>8. created \subseteq created' /\ created' \subseteq owed \cap Targets
      BY <1>2, <2>2, <2>6, Zenon
    <3> QED BY <1>2, <2>1, <2>3, <2>6, <3>6, <3>7, <3>8, QuietGoto, Zenon
  <2> QED BY <1>3, <2>4, <2>5, <2>6, Zenon DEF NodePublishVolume
<1>4. CASE publishMountVol(s) \/ publishBlockVol(s)
  <2> DEFINE c == call[s]
             all == getDevMounts(c.dev)
             here == {e \in all : e[1] = c.path}
  <2>1. call[s] # Idle /\ c.op = "publish" /\ c.step = "look"
    BY <1>4, Running, Zenon DEF publishMountVol, publishBlockVol
  <2>2. /\ c.path \in Targets /\ c.path \in owed /\ c.path \in created
        /\ c.path \in Paths /\ c.path # Staging
        /\ 0 < c.dev /\ c.dev <= attached
        /\ access = "block" => c.mode = "rw"
        /\ \A p \in Paths : Below(p, c.dev + 1)
    BY <1>1, <2>1, NodeServiceAssumption, Zenon DEF Steps, Knows, Idle, Paths
  <2>3. /\ Kept /\ mounts' = mounts /\ created' = created /\ fs' = fs /\ faults' = faults
        /\ fs' \in {"none", "some"} /\ faults' \in 0..MaxFaults
        /\ access' = access /\ attached' = attached /\ device' = device
    BY <1>1, <1>4, Zenon DEF publishMountVol, publishBlockVol, nodeVars, TypeOK, Kept, diskVars
  <2>4. ASSUME NEW ok \in BOOLEAN, Return(s, ok) PROVE IInv'
    BY <2>1, <2>3, <2>4, QuietReturn, Zenon
  <2>5. ASSUME Goto(s, "bind", c.dev), Below(c.path, c.dev),
               access = "mount" => mounts[Staging] # <<>> /\ Top(Staging) = c.dev
        PROVE  IInv'
    <3>1. /\ owed' = owed /\ call'[s].step = "bind" /\ call'[s].dev = c.dev
          /\ call'[s].op = "publish" /\ call'[s].path = c.path
          /\ call'[s].mode = c.mode
      BY <1>1, <1>2, <2>1, <2>5, GotoCall, Zenon
    <3>2. /\ (\A p \in Paths : Below(p, call[s].dev + 1))'
          /\ Below(call[s].path, call[s].dev)'
          /\ (access = "mount" => mounts[Staging] # <<>> /\ Top(Staging) = call[s].dev)'
      BY <2>2, <2>3, <2>5, <3>1, Zenon DEF Below, Index, Top
    <3>3. Steps(call[s])' /\ Knows(call[s])'
      BY <2>2, <2>3, <3>1, <3>2, Zenon DEF Steps, Knows
    <3> QED BY <1>2, <2>1, <2>3, <2>5, <3>3, QuietGoto, Zenon
  <2>6. ASSUME \A e \in all : e[1] # c.path PROVE Below(c.path, c.dev)
    <3> SUFFICES ASSUME NEW i \in Index(c.path) PROVE mounts[c.path][i].dev < c.dev
      BY Zenon DEF Below
    <3>1. mounts[c.path][i].dev < c.dev + 1 /\ mounts[c.path][i].dev \in Nat
      BY <1>1, <2>2, Entries, Zenon DEF Below
    <3>2. mounts[c.path][i].dev # c.dev
      <4>1. <<c.path, i>>[1] = c.path
        BY Zenon
      <4> QED BY <1>1, <2>2, <2>6, <4>1, DevMounts, Zenon
    <3> QED BY <1>2, <3>1, <3>2
  <2>7. CASE access = "block" /\ all = {} /\ Goto(s, "bind", c.dev)
    BY <2>5, <2>6, <2>7, Zenon
  <2>8. CASE /\ access = "mount" /\ all # {} /\ ~(Several(all) /\ here # {})
             /\ Goto(s, "bind", c.dev)
    <3>1. \E j \in Index(Staging) : mounts[Staging][j].dev = c.dev
      <4>1. PICK e \in all : TRUE
        BY <2>8, Zenon
      <4>2. e[1] \in Paths /\ e[2] \in Index(e[1]) /\ mounts[e[1]][e[2]].dev = c.dev
        BY <1>1, <4>1, DevMounts, Zenon
      <4>3. CASE e[1] = Staging
        BY <4>2, <4>3, Zenon
      <4>4. CASE e[1] \in Targets
        BY <1>1, <2>8, <4>2, <4>4, ZenonT(30) DEF Through
      <4> QED BY <4>2, <4>3, <4>4, Zenon DEF Paths
    <3>2. PICK j \in Index(Staging) : mounts[Staging][j].dev = c.dev
      BY <3>1, Zenon
    <3>3. mounts[Staging] # <<>> /\ Top(Staging) = c.dev
      <4>1. /\ Len(mounts[Staging]) \in Nat /\ j \in Nat /\ 0 < j /\ j <= Len(mounts[Staging])
            /\ Len(mounts[Staging]) \in Index(Staging)
        BY <1>1, <3>2, Entries DEF Index
      <4>2. mounts[Staging] # <<>>
        BY <4>1
      <4>3. /\ mounts[Staging][Len(mounts[Staging])].dev < c.dev + 1
            /\ mounts[Staging][Len(mounts[Staging])].dev \in Nat
        BY <1>1, <2>2, <4>1, Entries, Zenon DEF Below
      <4>4. j < Len(mounts[Staging]) => c.dev < mounts[Staging][Len(mounts[Staging])].dev
        BY <1>1, <3>2, <4>1, Zenon DEF Layered
      <4>5. j = Len(mounts[Staging])
        BY <1>2, <4>1, <4>3, <4>4
      <4> QED BY <3>2, <4>2, <4>5, Zenon DEF Top
    <3>4. \A e \in all : e[1] # c.path
      <4> SUFFICES ASSUME NEW e \in all, e[1] = c.path PROVE FALSE
        BY Zenon
      <4>1. <<Staging, j>> \in all /\ <<Staging, j>>[1] = Staging
        BY <1>1, <3>2, DevMounts, Zenon
      <4>2. e # <<Staging, j>>
        BY <2>2, <4>1, Zenon
      <4>3. Several(all)
        BY <4>1, <4>2, Zenon DEF Several
      <4> QED BY <2>8, <4>3, Zenon
    <3> QED BY <2>5, <2>6, <2>8, <3>3, <3>4, Zenon
  <2>9. \/ \E ok \in BOOLEAN : Return(s, ok)
        \/ access = "block" /\ all = {} /\ Goto(s, "bind", c.dev)
        \/ /\ access = "mount" /\ all # {} /\ ~(Several(all) /\ here # {})
           /\ Goto(s, "bind", c.dev)
    BY <1>4, Zenon DEF publishMountVol, publishBlockVol
  <2> QED BY <2>4, <2>7, <2>8, <2>9, Zenon
<1>5. CASE PublishBind(s)
  <2> DEFINE c == call[s]
  <2>1. call[s] # Idle /\ c.op = "publish" /\ c.step = "bind"
    BY <1>5, Running, Zenon DEF PublishBind
  <2>2. /\ c.path \in Targets /\ c.path \in owed /\ c.path \in created
        /\ c.path \in Paths /\ c.path # Staging
        /\ 0 < c.dev /\ c.dev <= attached
        /\ access = "block" => c.mode = "rw"
        /\ Below(c.path, c.dev)
        /\ access = "mount" => mounts[Staging] # <<>> /\ Top(Staging) = c.dev
    BY <1>1, <2>1, NodeServiceAssumption, Zenon DEF Steps, Knows, Idle, Paths
  <2>3. Kept /\ created' = created /\ fs' \in {"none", "some"} /\ faults' \in 0..MaxFaults
    BY <1>1, <1>5, FaultBound, Zenon DEF PublishBind, TypeOK
  <2>4. CASE mounts' = mounts /\ Return(s, FALSE)
    BY <2>1, <2>3, <2>4, QuietReturn, Zenon
  <2>5. CASE Mount(c.path, c.dev, c.mode) /\ Return(s, TRUE)
    <3>1. access = "mount" => \E j \in Index(Staging) : mounts[Staging][j].dev = c.dev
      <4>1. mounts[Staging] # <<>> => Len(mounts[Staging]) \in Index(Staging)
        BY <1>1, Entries DEF Index
      <4> QED BY <2>2, <4>1, Zenon DEF Top
    <3> QED BY <1>2, <2>1, <2>2, <2>3, <2>5, <3>1, MountStep, Zenon
  <2> QED BY <1>5, <2>2, <2>4, <2>5, Zenon DEF PublishBind
<1> QED BY <1>3, <1>4, <1>5, Zenon

(* NodeUnpublishVolume keeps the invariant. *)
LEMMA UnpublishIInv ==
    ASSUME IInv, NEW s \in Slots,
           NodeUnpublishVolume(s) \/ UnpublishUnmount(s) \/ UnpublishRemove(s)
    PROVE  IInv'
<1> DEFINE t == call[s].path
<1>1. /\ TypeOK /\ Owed /\ Steps(call[s]) /\ Knows(call[s]) /\ fs \in {"none", "some"}
      /\ created \subseteq owed \cap Targets
  BY Zenon DEF IInv, TypeOK, Owed, NothingForgotten
<1>2. call[s] # Idle /\ call[s].op = "unpublish"
  BY Running, Zenon DEF NodeUnpublishVolume, UnpublishUnmount, UnpublishRemove
<1>3. t \in Targets /\ t \in Paths /\ t # Staging
  BY <1>1, <1>2, NodeServiceAssumption, Zenon DEF Steps, Paths, Idle
<1>4. Kept /\ UNCHANGED diskVars /\ fs' \in {"none", "some"} /\ faults' \in 0..MaxFaults
  BY <1>1, FaultBound, Zenon DEF NodeUnpublishVolume, UnpublishUnmount, UnpublishRemove,
     nodeVars, Kept
<1>5. ASSUME NEW step \in {"unmount", "remove"}, Goto(s, step, NoDevice)
      PROVE  Steps(call[s])' /\ Knows(call[s])'
  <2>1. call'[s].step = step /\ call'[s].op = "unpublish" /\ call'[s].path = t
    BY <1>1, <1>2, <1>5, GotoCall, Zenon DEF NoDevice
  <2> QED BY <1>3, <2>1, Zenon DEF Steps, Knows
<1>6. CASE NodeUnpublishVolume(s)
  <2>1. mounts' = mounts /\ created' = created
    BY <1>6, Zenon DEF NodeUnpublishVolume, nodeVars
  <2>2. t \notin created => mounts[t] = <<>>
    BY <1>1, <1>3, Zenon DEF Owed
  <2>3. CASE t \notin created /\ Return(s, TRUE)
    BY <1>2, <1>4, <2>1, <2>2, <2>3, QuietReturn, Zenon
  <2>4. CASE Return(s, FALSE)
    BY <1>2, <1>4, <2>1, <2>4, QuietReturn, Zenon
  <2>5. ASSUME NEW step \in {"unmount", "remove"}, Goto(s, step, NoDevice) PROVE IInv'
    BY <1>1, <1>2, <1>4, <1>5, <2>1, <2>5, QuietGoto, Zenon DEF NoDevice
  <2> QED BY <1>6, <2>3, <2>4, <2>5, Zenon DEF NodeUnpublishVolume
<1>7. CASE UnpublishUnmount(s)
  <2>1. created' = created
    BY <1>7, Zenon DEF UnpublishUnmount
  <2>2. CASE mounts' = mounts /\ Return(s, FALSE)
    BY <1>2, <1>4, <2>1, <2>2, QuietReturn, Zenon
  <2>3. CASE mounts[t] # <<>> /\ Unmount(t) /\ Goto(s, "remove", NoDevice)
    <3>1. /\ Layered' /\ Known' /\ Through' /\ (device \in {NoDevice, attached})'
          /\ mounts' \in [Paths -> Seq(Entry)]
          /\ \A q \in Paths : mounts'[q] # <<>> => mounts[q] # <<>>
      BY <1>3, <1>4, <2>3, UnmountKeeps, Zenon
    <3>2. /\ call' \in [Slots -> Call] /\ owed' = owed /\ ready' = ready
          /\ \A r \in Slots \ {s} : call'[r] = call[r]
      BY <1>1, <2>3, GotoCall, Zenon DEF NoDevice
    <3>3. TypeOK'
      BY <1>1, <1>4, <2>1, <3>1, <3>2, Zenon DEF TypeOK, Call, Entry, Kept, diskVars, envVars
    <3>4. Owed'
      BY <1>1, <2>1, <3>1, <3>2, Zenon DEF Owed, NothingForgotten, Paths
    <3>5. OneCall' /\ \A r \in Slots : Steps(call[r])' /\ Knows(call[r])'
      BY <1>2, <1>5, <2>3, <3>2, OneSlot, Zenon
    <3> QED BY <3>1, <3>3, <3>4, <3>5, Zenon DEF IInv
  <2> QED BY <1>7, <2>2, <2>3, Zenon DEF UnpublishUnmount
<1>8. CASE UnpublishRemove(s)
  <2>1. mounts' = mounts
    BY <1>8, Zenon DEF UnpublishRemove
  <2>2. CASE created' = created /\ Return(s, FALSE)
    BY <1>2, <1>4, <2>1, <2>2, QuietReturn, Zenon
  <2>3. CASE mounts[t] = <<>> /\ created' = created \ {t} /\ Return(s, TRUE)
    <3>1. /\ call' \in [Slots -> Call] /\ call'[s] = Idle /\ ready' = ready
          /\ \A r \in Slots \ {s} : call'[r] = call[r]
          /\ owed' = owed \/ owed' = owed \ {t}
      BY <1>1, <1>2, <2>3, ReturnCall, Zenon
    <3>2. TypeOK'
      BY <1>1, <1>4, <2>1, <2>3, <3>1, Zenon DEF TypeOK, Call, Kept, diskVars, envVars
    <3>3. Layered' /\ Known' /\ Through' /\ (device \in {NoDevice, attached})'
      BY <1>4, <2>1, SameMounts, Zenon
    <3>4. Owed'
      BY <1>1, <2>1, <2>3, <3>1, Zenon DEF Owed, NothingForgotten
    <3>5. Steps(call[s])' /\ Knows(call[s])'
      BY <3>1, IdleCall, Zenon
    <3>6. OneCall' /\ \A r \in Slots : Steps(call[r])' /\ Knows(call[r])'
      BY <1>2, <3>1, <3>5, OneSlot, Zenon
    <3> QED BY <3>2, <3>3, <3>4, <3>6, Zenon DEF IInv
  <2> QED BY <1>8, <2>2, <2>3, Zenon DEF UnpublishRemove
<1> QED BY <1>6, <1>7, <1>8, Zenon

(* A call that fails before it changes anything keeps the invariant. *)
LEMMA LookFailsIInv ==
    ASSUME IInv, NEW s \in Slots, LookFails(s)
    PROVE  IInv'
<1>1. TypeOK /\ call[s] # Idle
  BY DEF IInv, LookFails, Idle
<1>2. /\ Kept /\ mounts' = mounts /\ created' = created /\ Return(s, FALSE)
      /\ fs' \in {"none", "some"} /\ faults' \in 0..MaxFaults
  BY <1>1, FaultBound, Zenon DEF LookFails, nodeVars, TypeOK
<1> QED BY <1>1, <1>2, QuietReturn, Zenon

-----------------------------------------------------------------------------
(* The kubelet starts a call only when none runs. *)
LEMMA KubeletIInv ==
    ASSUME IInv, NEW s \in Slots, NEW p \in Paths, KubeletCalls(s, p)
    PROVE  IInv'
<1>1. TypeOK /\ Owed /\ \A r \in Slots : call[r] = Idle
  BY Zenon DEF IInv, KubeletCalls, SerialVolAccess
<1>2. PICK op \in {"stage", "publish", "unpublish", "unstage"}, m \in {"rw", "ro"} :
        /\ Begin(s, op, p, m)
        /\ op \in {"stage", "unstage"} => p = Staging
        /\ op \in {"publish", "unpublish"} => p \in Targets
        /\ \/ op \in {"stage", "publish"} /\ owed' = owed \cup {p} /\ ready' = ready
           \/ op \in {"unstage", "unpublish"} /\ ready' = ready \ {p} /\ owed' = owed
  <2>1. mode \in {"rw", "ro"} /\ \A t \in Targets : pods[t] # "none" => pods[t] \in {"rw", "ro"}
    BY <1>1, Zenon DEF TypeOK
  <2>2. p # Staging => p \in Targets
    BY Zenon DEF Paths
  <2> QED BY <2>1, <2>2, Zenon DEF KubeletCalls, CallUp, CallDown
<1> DEFINE c == [op |-> op, step |-> "start", path |-> p, mode |-> m,
                 dev |-> NoDevice, waiting |-> "yes"]
<1>3. c \in Call
  BY Zenon DEF Call, NoDevice
<1>4. call \in [Slots -> Call] /\ call' = [call EXCEPT ![s] = c]
  BY <1>1, <1>2, Zenon DEF TypeOK, Call, Begin
<1>5. /\ UNCHANGED <<diskVars, nodeVars, envVars, faults>> /\ mounts' = mounts
      /\ created' = created /\ UNCHANGED diskVars
  BY <1>2, Zenon DEF Begin, nodeVars
<1>6. call' \in [Slots -> Call] /\ call'[s] = c /\ \A r \in Slots \ {s} : call'[r] = Idle
  BY <1>1, <1>3, <1>4, Zenon
<1>7. TypeOK'
  <2>1. owed' \in SUBSET Paths /\ ready' \in SUBSET Paths
    BY <1>1, <1>2, Zenon DEF TypeOK
  <2> QED BY <1>1, <1>5, <1>6, <2>1, Zenon DEF TypeOK, Call, diskVars, nodeVars, envVars
<1>8. Layered' /\ Known' /\ Through' /\ (device \in {NoDevice, attached})'
  BY <1>5, SameMounts, Zenon
<1>9. Owed'
  BY <1>1, <1>2, <1>5, Zenon DEF Owed, NothingForgotten
<1>10. OneCall'
  BY <1>6, Zenon DEF OneCall
<1>11. Steps(call[s])' /\ Knows(call[s])'
  <2>1. /\ call'[s].op = op /\ call'[s].step = "start" /\ call'[s].path = p
        /\ op \in {"stage", "publish"} => p \in owed'
    BY <1>2, <1>6
  <2> QED BY <1>2, <2>1, Zenon DEF Steps, Knows
<1>12. \A r \in Slots \ {s} : Steps(call[r])' /\ Knows(call[r])'
  BY <1>6, IdleCall, Zenon
<1> QED BY <1>7, <1>8, <1>9, <1>10, <1>11, <1>12, Zenon DEF IInv

(* Timeouts, crashes and reboots keep the invariant. *)
LEMMA FaultIInv ==
    ASSUME IInv, Crash \/ Reboot \/ \E s \in Slots : Timeout(s)
    PROVE  IInv'
<1>1. TypeOK /\ Owed /\ Known /\ Layered /\ Through /\ OneCall
  BY Zenon DEF IInv
<1>2. faults' \in 0..MaxFaults
  BY <1>1, FaultBound, Zenon DEF Crash, Reboot, Timeout
<1>3. ASSUME call' = [s \in Slots |-> Idle]
      PROVE  /\ OneCall' /\ call' \in [Slots -> Call]
             /\ \A s \in Slots : Steps(call[s])' /\ Knows(call[s])'
  <2>1. call' \in [Slots -> Call]
    BY <1>3, Zenon DEF Call, Idle, NoDevice
  <2>2. \A s \in Slots : call'[s] = Idle /\ call'[s].op = "none"
    BY <1>3, Zenon DEF Idle
  <2> QED BY <2>1, <2>2, Zenon DEF OneCall, Steps, Knows
<1>4. CASE Crash
  <2>1. TypeOK'
    BY <1>1, <1>2, <1>3, <1>4, Zenon
       DEF Crash, TypeOK, Call, diskVars, nodeVars, kubeletVars, envVars
  <2>2. Layered' /\ Known' /\ Through' /\ (device \in {NoDevice, attached})'
    BY <1>4, SameMounts, Zenon DEF Crash, nodeVars
  <2>3. Owed'
    BY <1>1, <1>4, Zenon DEF Crash, Owed, NothingForgotten, nodeVars, kubeletVars
  <2> QED BY <1>3, <1>4, <2>1, <2>2, <2>3, Zenon DEF Crash, IInv
<1>5. CASE Reboot
  <2>1. \A p \in Paths : mounts'[p] = <<>>
    BY <1>5, Zenon DEF Reboot
  <2>2. mounts' \in [Paths -> Seq(Entry)] /\ \A p \in Paths : Index(p)' = {}
    <3>1. <<>> \in Seq(Entry) /\ Len(<<>>) = 0
      OBVIOUS
    <3>2. mounts' \in [Paths -> Seq(Entry)]
      BY <1>5, <3>1, Zenon DEF Reboot
    <3> QED BY <2>1, <3>1, <3>2 DEF Index
  <2>3. TypeOK'
    BY <1>1, <1>2, <1>3, <1>5, <2>2, Zenon DEF Reboot, TypeOK, Call, Entry, diskVars, envVars
  <2>4. Layered' /\ Known'
    BY <2>2, Zenon DEF Layered, Known
  <2>5. Through'
    BY <2>1, <2>2, Zenon DEF Through, Paths
  <2>6. Owed'
    BY <1>1, <1>5, <2>1, Zenon DEF Reboot, Owed, NothingForgotten, Paths
  <2>7. (device \in {NoDevice, attached})'
    BY <1>5, Zenon DEF Reboot, diskVars, IInv
  <2> QED BY <1>3, <1>5, <2>3, <2>4, <2>5, <2>6, <2>7, Zenon DEF Reboot, IInv
<1>6. ASSUME NEW s \in Slots, Timeout(s) PROVE IInv'
  <2>1. call \in [Slots -> Call] /\ call[s] \in Call
    BY <1>1, Zenon DEF TypeOK, Call
  <2>2. call' = [call EXCEPT ![s].waiting = "no"]
    BY <1>6, Zenon DEF Timeout
  <2>3. /\ call' \in [Slots -> Call] /\ \A r \in Slots \ {s} : call'[r] = call[r]
        /\ call'[s].op = call[s].op /\ call'[s].step = call[s].step
        /\ call'[s].path = call[s].path /\ call'[s].dev = call[s].dev
        /\ call'[s].mode = call[s].mode
    BY <2>1, <2>2, Zenon DEF Call
  <2>4. /\ UNCHANGED <<diskVars, nodeVars, kubeletVars, envVars>> /\ UNCHANGED diskVars
        /\ mounts' = mounts /\ created' = created /\ owed' = owed
        /\ access' = access /\ attached' = attached
    BY <1>6, Zenon DEF Timeout, nodeVars, kubeletVars, diskVars
  <2>5. TypeOK'
    BY <1>1, <1>2, <2>3, <2>4, Zenon DEF TypeOK, Call, diskVars, nodeVars, kubeletVars, envVars
  <2>6. Layered' /\ Known' /\ Through' /\ (device \in {NoDevice, attached})'
    BY <2>4, SameMounts, Zenon
  <2>7. Owed'
    BY <1>1, <2>4, Zenon DEF Owed, NothingForgotten
  <2>8. call[s] # Idle
    BY <1>6 DEF Timeout, Idle
  <2>9. Steps(call[s]) /\ Knows(call[s])
    BY Zenon DEF IInv
  <2>10. Steps(call[s])'
    BY <2>3, <2>8, <2>9, Zenon DEF Steps
  <2>11. Knows(call[s])'
    BY <2>3, <2>4, <2>9, Zenon DEF Knows, Below, Index, Top
  <2>12. OneCall' /\ \A r \in Slots : Steps(call[r])' /\ Knows(call[r])'
    BY <2>3, <2>8, <2>10, <2>11, OneSlot, Zenon
  <2> QED BY <2>5, <2>6, <2>7, <2>12, Zenon DEF IInv
<1> QED BY <1>4, <1>5, <1>6, Zenon

(* So do pods that come and go and a disk that is attached or detached. *)
LEMMA EnvIInv ==
    ASSUME IInv, \/ Attach \/ Detach
                 \/ \E t \in Targets : RemovePod(t) \/ \E m \in {"rw", "ro"} : AddPod(t, m)
                 \/ UNCHANGED vars
    PROVE  IInv'
<1>1. TypeOK /\ Owed /\ Known /\ Layered /\ Through /\ OneCall
  BY Zenon DEF IInv
<1>2. /\ mounts' = mounts /\ created' = created /\ owed' = owed /\ call' = call
      /\ access' = access /\ mode' = mode /\ fs' = fs /\ faults' = faults
  BY Zenon DEF Attach, Detach, RemovePod, AddPod, vars, diskVars, nodeVars, kubeletVars
<1>3. /\ attached' \in Nat /\ attached <= attached'
      /\ device' \in {NoDevice, attached'} /\ device' \in 0..attached'
  BY <1>1 DEF Attach, Detach, RemovePod, AddPod, vars, diskVars, IInv, TypeOK, NoDevice
<1>4. /\ pods' \in [Targets -> {"none", "rw", "ro"}] /\ ready' \in SUBSET Paths
      /\ changes' \in 0..MaxChanges
  BY <1>1, NodeServiceAssumption
     DEF Attach, Detach, RemovePod, AddPod, Change, vars, diskVars, kubeletVars, envVars, TypeOK
<1>5. TypeOK'
  BY <1>1, <1>2, <1>3, <1>4, Zenon DEF TypeOK
<1>6. Layered' /\ Through' /\ OneCall'
  BY <1>1, <1>2, Zenon DEF Layered, Through, OneCall, Index
<1>7. Known'
  <2>1. attached \in Nat
    BY <1>1, Zenon DEF TypeOK
  <2> QED BY <1>1, <1>2, <1>3, <2>1, Entries DEF Known, Index
<1>8. Owed'
  BY <1>1, <1>2, Zenon DEF Owed, NothingForgotten
<1>9. ASSUME NEW s \in Slots PROVE Steps(call[s])' /\ Knows(call[s])'
  <2>1. Steps(call[s]) /\ Knows(call[s]) /\ call[s].dev \in Nat /\ attached \in Nat
    BY <1>1, Zenon DEF IInv, TypeOK
  <2>2. Steps(call[s])'
    BY <1>2, <2>1, Zenon DEF Steps
  <2>3. call[s].dev <= attached => call[s].dev <= attached'
    BY <1>3, <2>1
  <2>4. Knows(call[s])'
    BY <1>2, <2>1, <2>3, Zenon DEF Knows, Below, Index, Top
  <2> QED BY <2>2, <2>4, Zenon
<1> QED BY <1>3, <1>5, <1>6, <1>7, <1>8, <1>9, Zenon DEF IInv

(* Nothing is mounted and no call runs at the start. *)
LEMMA InitIInv == Init => IInv
<1> SUFFICES ASSUME Init PROVE IInv
  BY Zenon
<1>1. /\ \A p \in Paths : mounts[p] = <<>>
      /\ \A s \in Slots : call[s] = Idle /\ call[s].op = "none"
  BY Zenon DEF Init, Idle
<1>2. mounts \in [Paths -> Seq(Entry)] /\ \A p \in Paths : Index(p) = {}
  <2>1. <<>> \in Seq(Entry) /\ Len(<<>>) = 0
    OBVIOUS
  <2> QED BY <1>1, <2>1 DEF Init, Index
<1>3. call \in [Slots -> Call]
  BY Zenon DEF Init, Call, Idle, NoDevice
<1>4. TypeOK
  BY <1>2, <1>3, NodeServiceAssumption DEF Init, TypeOK, Call, Entry, NoDevice
<1>5. Layered /\ Known
  BY <1>2, Zenon DEF Layered, Known
<1>6. Through
  BY <1>1, <1>2, Zenon DEF Through, Paths
<1>7. Owed /\ OneCall
  BY <1>1, Zenon DEF Init, Owed, NothingForgotten, OneCall, Paths
<1>8. \A s \in Slots : Steps(call[s]) /\ Knows(call[s])
  BY <1>1, Zenon DEF Steps, Knows
<1> QED BY <1>4, <1>5, <1>6, <1>7, <1>8, Zenon DEF Init, IInv

(* Every step keeps the invariant. *)
LEMMA NextIInv == IInv /\ [Next]_vars => IInv'
<1> SUFFICES ASSUME IInv, [Next]_vars PROVE IInv'
  BY Zenon
<1>1. ASSUME NEW s \in Slots, HandlerNext(s) PROVE IInv'
  BY <1>1, StageIInv, UnstageIInv, PublishIInv, UnpublishIInv, LookFailsIInv, Zenon DEF HandlerNext
<1>2. ASSUME NEW s \in Slots, NEW p \in Paths, KubeletCalls(s, p) PROVE IInv'
  BY <1>2, KubeletIInv, Zenon
<1> QED BY <1>1, <1>2, FaultIInv, EnvIInv, Zenon DEF Next

-----------------------------------------------------------------------------
(* The theorems. *)

(* What a publish call that succeeds leaves behind. *)
LEMMA PublishAnswers ==
    ASSUME IInv, NEW s \in Slots, call[s].op = "publish", [Next]_vars,
           call[s].path \in ready' \ ready
    PROVE  LET m == mounts'[call[s].path]
           IN  /\ m # <<>> /\ m[Len(m)].dev = call[s].dev
               /\ m[Len(m)].dev # NoDevice /\ m[Len(m)].mode = call[s].mode
<1> DEFINE c == call[s]
<1>1. /\ TypeOK /\ Layered /\ Known /\ Steps(c) /\ Knows(c) /\ Staging \in Paths
      /\ c.dev \in Nat /\ c.mode \in {"rw", "ro"}
  BY Zenon DEF IInv, Paths, TypeOK
<1>2. c # Idle /\ \A r \in Slots : r # s => call[r] = Idle
  BY DEF IInv, OneCall, Idle
<1>3. c.path \in Targets /\ c.path \in Paths
  BY <1>1, <1>2, Zenon DEF Steps, Paths
<1>4. ready' # ready
  BY Zenon
<1>5. ASSUME NEW i \in Index(c.path), mounts'[c.path] = mounts[c.path],
             mounts[c.path][i].dev = c.dev, mounts[c.path][i].mode = c.mode,
             c.step = "look"
      PROVE  LET m == mounts'[c.path]
             IN  /\ m # <<>> /\ m[Len(m)].dev = c.dev
                 /\ m[Len(m)].dev # NoDevice /\ m[Len(m)].mode = c.mode
  <2>1. /\ Len(mounts[c.path]) \in Nat /\ i \in Nat /\ 0 < i /\ i <= Len(mounts[c.path])
        /\ Len(mounts[c.path]) \in Index(c.path)
    BY <1>1, <1>3, <1>5, Entries DEF Index
  <2>2. /\ mounts[c.path][Len(mounts[c.path])].dev < c.dev + 1
        /\ mounts[c.path][Len(mounts[c.path])].dev \in Nat /\ 0 < c.dev
    BY <1>1, <1>3, <1>5, <2>1, Entries, Zenon DEF Knows, Below
  <2>3. i < Len(mounts[c.path]) => c.dev < mounts[c.path][Len(mounts[c.path])].dev
    BY <1>1, <1>3, <1>5, <2>1, Zenon DEF Layered
  <2>4. i = Len(mounts[c.path])
    BY <1>1, <2>1, <2>2, <2>3
  <2>5. mounts[c.path] # <<>>
    BY <2>1
  <2> QED BY <1>5, <2>2, <2>4, <2>5 DEF NoDevice
<1>6. CASE publishMountVol(s) \/ publishBlockVol(s)
  <2>1. c.step = "look" /\ mounts' = mounts
    BY <1>6, Zenon DEF publishMountVol, publishBlockVol, Runs, nodeVars
  <2> DEFINE all == getDevMounts(c.dev)
             here == {e \in all : e[1] = c.path}
  <2>2. CASE /\ Several(all) /\ here # {} /\ access = "mount"
             /\ Return(s, \E e \in here : mounts[c.path][e[2]].mode = c.mode)
    <3>1. \E e \in here : mounts[c.path][e[2]].mode = c.mode
      BY <1>4, <2>2, Zenon DEF Return
    <3>2. PICK e \in here : mounts[c.path][e[2]].mode = c.mode
      BY <3>1, Zenon
    <3>3. e[2] \in Index(c.path) /\ mounts[c.path][e[2]].dev = c.dev
      BY <1>1, <3>2, DevMounts
    <3> QED BY <1>5, <2>1, <3>2, <3>3, Zenon
  <2>3. CASE /\ all # {} /\ access = "block"
             /\ Return(s, ~Several(all) /\ \A e \in all : e[1] = c.path)
    <3>1. \A e \in all : e[1] = c.path
      BY <1>4, <2>3, Zenon DEF Return
    <3>2. PICK e \in all : e[1] = c.path
      BY <2>3, <3>1, Zenon
    <3>3. e[2] \in Index(c.path) /\ mounts[c.path][e[2]].dev = c.dev
      BY <1>1, <3>2, DevMounts
    <3>4. mounts[c.path][e[2]].mode = "rw" /\ c.mode = "rw"
      BY <1>1, <1>3, <2>1, <2>3, <3>3, Zenon DEF Known, Knows
    <3> QED BY <1>5, <2>1, <3>3, <3>4, Zenon
  <2>4. CASE Return(s, FALSE)
    BY <1>4, <2>4, Zenon DEF Return
  <2>5. CASE Goto(s, "bind", c.dev)
    BY <1>4, <2>5, Zenon DEF Goto, kubeletVars
  <2> QED BY <1>6, <2>2, <2>3, <2>4, <2>5, Zenon DEF publishMountVol, publishBlockVol
<1>7. CASE PublishBind(s)
  <2>1. CASE Mount(c.path, c.dev, c.mode)
    <3>1. /\ Len(mounts'[c.path]) = Len(mounts[c.path]) + 1 /\ mounts'[c.path] # <<>>
          /\ mounts'[c.path][Len(mounts[c.path]) + 1] = [dev |-> c.dev, mode |-> c.mode]
      BY <1>1, <1>3, <2>1, MountAdds, Zenon
    <3>2. 0 < c.dev
      BY <1>1, <1>7, Zenon DEF PublishBind, Runs, Knows
    <3> QED BY <3>1, <3>2 DEF NoDevice
  <2>2. CASE Return(s, FALSE)
    BY <1>4, <2>2, Zenon DEF Return
  <2>3. access = "mount" => Top(Staging) = c.dev
    BY <1>1, <1>7, Zenon DEF PublishBind, Runs, Knows
  <2> QED BY <1>7, <2>1, <2>2, <2>3, Zenon DEF PublishBind
<1>8. ASSUME NEW r \in Slots, HandlerNext(r)
      PROVE  publishMountVol(s) \/ publishBlockVol(s) \/ PublishBind(s)
  <2>1. r = s
    <3>1. CASE LookFails(r)
      BY <1>2, <3>1 DEF LookFails, Idle
    <3>2. CASE \E op \in {"stage", "unstage", "publish", "unpublish"},
                  step \in {"start", "mount", "unmount", "look", "bind", "remove"} :
                      Runs(r, op, step)
      BY <1>2, <3>2 DEF Runs, Idle
    <3>3. CASE NodeStageVolume(r) \/ StageMount(r) \/ NodeUnstageVolume(r) \/ UnstageUnmount(r)
      BY <3>2, <3>3, Zenon DEF NodeStageVolume, StageMount, NodeUnstageVolume, UnstageUnmount
    <3>4. CASE \/ NodePublishVolume(r) \/ publishMountVol(r) \/ publishBlockVol(r)
               \/ PublishBind(r)
      BY <3>2, <3>4, Zenon DEF NodePublishVolume, publishMountVol, publishBlockVol, PublishBind
    <3>5. CASE NodeUnpublishVolume(r) \/ UnpublishUnmount(r) \/ UnpublishRemove(r)
      BY <3>2, <3>5, Zenon DEF NodeUnpublishVolume, UnpublishUnmount, UnpublishRemove
    <3> QED BY <1>8, <3>1, <3>3, <3>4, <3>5, Zenon DEF HandlerNext
  <2>2. CASE NodePublishVolume(s)
    BY <1>4, <2>2, Zenon DEF NodePublishVolume, Return, Goto, kubeletVars
  <2>3. CASE LookFails(s)
    BY <1>4, <2>3, Zenon DEF LookFails, Return
  <2> QED BY <1>8, <2>1, <2>2, <2>3, Zenon DEF HandlerNext, NodeStageVolume, StageMount,
             NodeUnstageVolume, UnstageUnmount, NodeUnpublishVolume, UnpublishUnmount,
             UnpublishRemove, Runs
<1>9. ASSUME NEW r \in Slots, NEW p \in Paths, KubeletCalls(r, p) PROVE FALSE
  BY <1>2, <1>9, Zenon DEF KubeletCalls, SerialVolAccess
<1>10. CASE \/ Crash \/ Reboot \/ Attach \/ Detach \/ UNCHANGED vars
            \/ \E r \in Slots : Timeout(r)
            \/ \E t \in Targets : RemovePod(t) \/ \E m \in {"rw", "ro"} : AddPod(t, m)
  <2>1. ready' \subseteq ready
    BY <1>10, Zenon DEF Crash, Reboot, Attach, Detach, vars, Timeout, RemovePod, AddPod, kubeletVars
  <2> QED BY <2>1, Zenon
<1> QED BY <1>6, <1>7, <1>8, <1>9, <1>10, Zenon DEF Next

(* Every step of the node service is a step of the volume's life cycle. *)
LEMMA StepImplements ==
    ASSUME IInv, IInv', [Next]_vars
    PROVE  [Lifecycle!Next]_(Lifecycle!vars)
<1> DEFINE staged == IF mounts[Staging] = <<>> THEN "no" ELSE "yes"
           published == {t \in Targets : mounts[t] # <<>>}
<1>1. TypeOK /\ Staging \in Paths /\ Staging \notin Targets /\ Targets \subseteq Paths
  BY NodeServiceAssumption, Zenon DEF IInv, Paths
<1> USE DEF Lifecycle!Next, Lifecycle!vars
<1>2. CASE mounts' = mounts /\ access' = access
  BY <1>2, Zenon
<1>3. ASSUME NEW s \in Slots, StageMount(s) PROVE [Lifecycle!Next]_(Lifecycle!vars)
  <2>1. CASE Mount(Staging, call[s].dev, mode)
    <3>1. /\ access = "mount" /\ call[s].dev \in Nat /\ mode \in {"rw", "ro"}
      BY <1>3, Zenon DEF IInv, Knows, StageMount, Runs, TypeOK
    <3>2. mounts'[Staging] # <<>> /\ \A q \in Paths \ {Staging} : mounts'[q] = mounts[q]
      BY <1>1, <2>1, <3>1, MountAdds, Zenon
    <3>3. published' = published /\ staged' = "yes" /\ access' = access
      BY <1>1, <1>3, <3>2, Zenon DEF StageMount, Kept, diskVars
    <3>4. Lifecycle!Stage
      BY <3>1, <3>3, Zenon DEF Lifecycle!Stage
    <3> QED BY <3>4, Zenon
  <2> QED BY <1>2, <1>3, <2>1, Zenon DEF StageMount, Kept, diskVars
<1>4. ASSUME NEW s \in Slots, UnstageUnmount(s) PROVE [Lifecycle!Next]_(Lifecycle!vars)
  <2>1. CASE mounts[Staging] # <<>> /\ Unmount(Staging)
    <3>1. Len(mounts[Staging]) = 1 /\ \A t \in Targets : mounts[t] = <<>>
      BY <1>4, Zenon DEF IInv, Knows, UnstageUnmount, Runs
    <3>2. mounts'[Staging] = <<>> /\ \A q \in Paths \ {Staging} : mounts'[q] = mounts[q]
      BY <1>1, <2>1, <3>1, UnmountRemoves, Zenon
    <3>3. published = {} /\ published' = published /\ staged' = "no" /\ access' = access
      BY <1>1, <1>4, <3>1, <3>2, Zenon DEF UnstageUnmount, Kept, diskVars
    <3>4. Lifecycle!Unstage
      BY <3>3, Zenon DEF Lifecycle!Unstage
    <3> QED BY <3>4, Zenon
  <2> QED BY <1>2, <1>4, <2>1, Zenon DEF UnstageUnmount, Kept, diskVars
<1>5. ASSUME NEW s \in Slots, PublishBind(s) PROVE [Lifecycle!Next]_(Lifecycle!vars)
  <2>1. PICK t \in Targets : t = call[s].path
    BY <1>5 DEF IInv, Steps, PublishBind, Runs, Idle
  <2>2. /\ call[s].dev \in Nat /\ call[s].mode \in {"rw", "ro"}
        /\ access = "mount" => mounts[Staging] # <<>> /\ Top(Staging) = call[s].dev
    BY <1>5, Zenon DEF IInv, Knows, PublishBind, Runs, TypeOK
  <2>3. CASE Mount(t, call[s].dev, call[s].mode)
    <3>1. mounts'[t] # <<>> /\ \A q \in Paths \ {t} : mounts'[q] = mounts[q]
      <4>1. PICK d \in Nat, m \in {"rw", "ro"} : Mount(t, d, m)
        BY <2>2, <2>3, Zenon DEF Mount
      <4>2. t \in Paths /\ TypeOK
        BY <1>1, Zenon
      <4> QED BY <4>1, <4>2, MountAdds, Zenon
    <3>2. published' = published \cup {t} /\ staged' = staged /\ access' = access
      BY <1>1, <1>5, <2>1, <3>1, Zenon DEF PublishBind, Kept, diskVars
    <3>3. access = "block" \/ staged = "yes"
      BY <1>1, <2>2, Zenon DEF TypeOK
    <3>4. Lifecycle!Publish(t)
      BY <3>2, <3>3, Zenon DEF Lifecycle!Publish
    <3> QED BY <2>1, <3>4, Zenon
  <2> QED BY <1>2, <1>5, <2>1, <2>2, <2>3, Zenon DEF PublishBind, Kept, diskVars
<1>6. ASSUME NEW s \in Slots, UnpublishUnmount(s) PROVE [Lifecycle!Next]_(Lifecycle!vars)
  <2>1. PICK t \in Targets : t = call[s].path
    BY <1>6 DEF IInv, Steps, UnpublishUnmount, Runs, Idle
  <2>2. CASE mounts[t] # <<>> /\ Unmount(t)
    <3>1. \A q \in Paths \ {t} : mounts'[q] = mounts[q]
      BY <1>1, <2>1, <2>2, UnmountRemoves, Zenon
    <3>2. staged' = staged /\ access' = access
      BY <1>1, <1>6, <2>1, <3>1, Zenon DEF UnpublishUnmount, Kept, diskVars
    <3>3. CASE mounts'[t] = <<>>
      <4>1. published' = published \ {t}
        BY <1>1, <2>1, <3>1, <3>3, Zenon
      <4>2. Lifecycle!Unpublish(t)
        BY <3>2, <4>1, Zenon DEF Lifecycle!Unpublish
      <4> QED BY <2>1, <4>2, Zenon
    <3>4. CASE mounts'[t] # <<>>
      <4>1. published' = published
        BY <1>1, <2>1, <2>2, <3>1, <3>4, Zenon
      <4> QED BY <3>2, <4>1, Zenon
    <3> QED BY <3>3, <3>4, Zenon
  <2> QED BY <1>2, <1>6, <2>1, <2>2, Zenon DEF UnpublishUnmount, Kept, diskVars
<1>7. CASE Reboot
  <2>1. staged' = "no" /\ published' = {} /\ access' = access
    BY <1>1, <1>7, Zenon DEF Reboot, diskVars
  <2>2. Lifecycle!Reboot
    BY <2>1, Zenon DEF Lifecycle!Reboot
  <2> QED BY <2>2, Zenon
<1>8. ASSUME NEW s \in Slots, HandlerNext(s) PROVE [Lifecycle!Next]_(Lifecycle!vars)
  <2>1. CASE \/ NodeStageVolume(s) \/ NodeUnstageVolume(s) \/ NodePublishVolume(s)
             \/ publishMountVol(s) \/ publishBlockVol(s) \/ NodeUnpublishVolume(s)
             \/ UnpublishRemove(s) \/ LookFails(s)
    BY <1>2, <2>1, Zenon DEF NodeStageVolume, NodeUnstageVolume, NodePublishVolume, publishMountVol,
       publishBlockVol, NodeUnpublishVolume, UnpublishRemove, LookFails, Kept, nodeVars, diskVars
  <2> QED BY <1>3, <1>4, <1>5, <1>6, <1>8, <2>1, Zenon DEF HandlerNext
<1>9. CASE \/ Crash \/ Attach \/ Detach \/ UNCHANGED vars
           \/ \E s \in Slots : Timeout(s) \/ \E p \in Paths : KubeletCalls(s, p)
           \/ \E t \in Targets : RemovePod(t) \/ \E m \in {"rw", "ro"} : AddPod(t, m)
  <2>1. mounts' = mounts /\ access' = access
    BY <1>9, Zenon DEF Crash, Attach, Detach, vars, Timeout, KubeletCalls, CallUp, CallDown, Begin,
       RemovePod, AddPod, nodeVars, diskVars
  <2> QED BY <1>2, <2>1, Zenon
<1> QED BY <1>7, <1>8, <1>9, Zenon DEF Next

-----------------------------------------------------------------------------
(* The inductive invariant holds in every state the service reaches. *)
LEMMA Invariance == Spec => []IInv
BY InitIInv, NextIInv, PTL DEF Spec

(* The variables have their types. *)
THEOREM NodeServiceTypeOK == Spec => []TypeOK
BY Invariance, PTL DEF IInv

(* For any number of targets, attachments and failures, every mount and    *)
(* every target NodeStageVolume and NodePublishVolume made is one the      *)
(* kubelet knows it has to undo.                                           *)
THEOREM NodeServiceForgetsNothing == Spec => []NothingForgotten
BY Invariance, PTL DEF IInv, Owed

(* A NodePublishVolume call that succeeds leaves the disk that was         *)
(* attached when it began on top of the target, in the mode asked for.     *)
THEOREM NodeServicePublishes == Spec => PublishedAsAsked
<1>1. ASSUME IInv, [Next]_vars
      PROVE  [\A s \in Slots :
                 /\ call[s].op = "publish" /\ call[s].waiting = "yes" /\ call[s] # call'[s]
                 /\ call[s].path \in ready' \ ready
                 => LET m == mounts'[call[s].path]
                    IN  /\ m # <<>> /\ m[Len(m)].dev = call[s].dev
                        /\ m[Len(m)].dev # NoDevice /\ m[Len(m)].mode = call[s].mode]_vars
  BY <1>1, PublishAnswers, Zenon
<1> QED BY <1>1, Invariance, PTL DEF Spec, PublishedAsAsked

(* The node service implements the life cycle of a volume: a mounted       *)
(* volume is published only while it is staged, and not unstaged while it  *)
(* is published.                                                           *)
THEOREM NodeServiceImplements == Spec => Implements
<1>1. Init => Lifecycle!Init
  <2> SUFFICES ASSUME Init PROVE Lifecycle!Init
    BY Zenon
  <2>1. \A p \in Paths : mounts[p] = <<>>
    BY Zenon DEF Init
  <2> QED BY <2>1, Zenon DEF Init, Lifecycle!Init, Paths
<1>2. IInv /\ IInv' /\ [Next]_vars => [Lifecycle!Next]_(Lifecycle!vars)
  BY StepImplements, Zenon
<1> QED BY <1>1, <1>2, Invariance, PTL DEF Spec, Implements, Lifecycle!Spec
==============================================================================
