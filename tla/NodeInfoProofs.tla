---------------------------- MODULE NodeInfoProofs ----------------------------
(***************************************************************************)
(* Proofs about NodeGetInfo (module NodeInfo), for every number of calls,  *)
(* of failures and for all nodes: the configuration a node gets is sound,  *)
(* only overlapping calls can panic, and calls that do not overlap leave   *)
(* nothing behind and answer.                                              *)
(***************************************************************************)
EXTENDS NodeInfo, TLAPS

Pcs == {"idle", "config", "load", "store", "connect", "uuid", "visit", "find", "tags",
        "read", "restout", "unregister", "range", "logout", "clear", "delete", "done"}

(* A call here has not registered its object yet. *)
Early == {"idle", "config", "load", "store"}

(* Both segments, or none. *)
Whole(l) == (l.zone = "") = (l.region = "")

Topo == cfg.cfg.zone # "" /\ cfg.cfg.region # ""

(* What a call at which nothing goes wrong answers. *)
Answer == [ok |-> TRUE, labels |-> IF Topo THEN labels ELSE NoTopology]

-----------------------------------------------------------------------------
(* The inductive invariant *)

Fixed == /\ setup \in DOMAIN Setups /\ labels = NodeLabels(S.inv, "vm") /\ Whole(labels)
         /\ ConfigSound

Shapes ==
    /\ pc \in [Calls -> Pcs]
    /\ host = [c \in Calls |-> host[c]]
    /\ todo \in [Calls -> SUBSET Calls]
    /\ vc \in [Calls -> Calls \cup {None}]
    /\ vm \in [Calls -> Calls \cup {None}]
    /\ answer \in [Calls -> [ok : BOOLEAN, labels : {NoTopology, labels}]]
    /\ client \in [Calls -> {"nil", "live", "ended"}]
    /\ faults \in 0..MaxFaults

(* The registry holds objects under their own hosts, of calls that have    *)
(* registered: their host does not change any more.                        *)
RegistryInv ==
    \A h \in DOMAIN registry : /\ registry[h] \in Calls
                               /\ host[registry[h]] = h
                               /\ pc[registry[h]] \notin Early

(* Of two calls that run both have been overlapped. *)
OverlapInv == \A c, d \in Running : c # d => c \in overlap

(* A call that runs alone holds an object with a client wherever it uses it. *)
LoneInv == \A c \in Running : c \notin overlap /\ pc[c] \in {"find", "logout"} =>
                                  client[vc[c]] # "nil"

(* Nothing is registered, and nobody is logged in. *)
Empty == registry = << >> /\ \A d \in Calls : client[d] # "live"

(* Only the object of c is registered, and only c is logged in. *)
Owns(c) == /\ DOMAIN registry = {host[c]} /\ registry[host[c]] = c
           /\ \A d \in Calls : d # c => client[d] # "live"

(* Where the call c stands when no calls have overlapped. *)
Alone(c) ==
    /\ pc[c] \in {"config", "load", "store"} => Empty
    /\ pc[c] \in {"connect", "uuid", "visit", "find", "tags", "read", "restout",
                  "unregister", "logout", "clear", "delete"} => Owns(c)
    /\ pc[c] = "visit" => todo[c] \subseteq {c}
    /\ pc[c] = "find" => todo[c] = {} /\ vc[c] = c
    /\ pc[c] = "range" => \/ todo[c] = {c} /\ Owns(c)
                          \/ todo[c] = {} /\ Empty
    /\ pc[c] \in {"logout", "clear", "delete"} => todo[c] = {} /\ vc[c] = c
    /\ pc[c] \in {"clear", "delete"} => client[c] # "live"

CleanInv == overlap = {} /\ ~ stuck => /\ Running = {} => Empty
                                       /\ \A c \in Running : Alone(c)

(* How far a call c at which nothing failed has come. *)
OnTrack(c) ==
    /\ pc[c] \in {"idle", "config"} => answer[c] = NoAnswer
    /\ pc[c] \in {"load", "store", "connect", "uuid", "visit", "find", "tags",
                  "read"} =>
          Topo /\ host[c] \in DOMAIN cfg.cfg.vcs
    /\ pc[c] \in {"idle", "config", "load", "store", "connect", "uuid"} => c \notin converted
    /\ pc[c] \in {"visit", "find"} /\ c \in converted => S.vms[host[c]] # S.uuid
    /\ pc[c] = "visit" /\ todo[c] = {} => c \notin converted /\ S.vms[host[c]] # S.uuid
    /\ pc[c] = "find" => client[c] = "live"
    /\ pc[c] \in {"tags", "read"} => vm[c] = c
    /\ pc[c] = "read" => c \in rest
    /\ pc[c] \in {"restout", "unregister", "range", "logout", "clear", "delete", "done"} =>
          answer[c] = Answer

TrackInv == overlap = {} /\ ~ stuck /\ Usable =>
                \A c \in Calls \ struck : OnTrack(c)

IInv == /\ Fixed /\ Shapes /\ RegistryInv /\ OverlapInv /\ LoneInv /\ NoLonePanic
        /\ CleanInv /\ TrackInv

-----------------------------------------------------------------------------
(* The UUID *)

(* Sequences of bytes. *)
LEMMA SeqElement ==
    ASSUME NEW a \in Seq(Nat), NEW i \in 1..Len(a)
    PROVE  a[i] \in Nat
  OBVIOUS

LEMMA ConcatSeq ==
    ASSUME NEW a \in Seq(Nat), NEW b \in Seq(Nat)
    PROVE  a \o b \in Seq(Nat) /\ Len(a \o b) = Len(a) + Len(b)
  OBVIOUS

(* convertUUID turns a UUID into its little-endian form. *)
LEMMA ConvertSwaps ==
    ASSUME NEW u \in Seq(Nat), Len(u) = 16
    PROVE  convertUUID(u) = Swapped(u)
  <1> DEFINE head == <<u[4], u[3], u[2], u[1], u[6], u[5], u[8], u[7]>>
             tail == SubSeq(u, 9, 16)
  <1>1. DOMAIN u = 1..16 /\ \A i \in 1..16 : u[i] \in Nat
    <2>1. DOMAIN u = 1..Len(u)
      OBVIOUS
    <2>2. \A i \in 1..Len(u) : u[i] \in Nat
      BY SeqElement, Zenon
    <2> QED
      BY <2>1, <2>2, Zenon
  <1>2. head \in Seq(Nat) /\ Len(head) = 8
    BY <1>1, SMT
  <1>3. tail \in Seq(Nat) /\ Len(tail) = 8
    BY <1>1, SMT
  <1>4. convertUUID(u) = head \o tail
    BY Zenon DEF convertUUID
  <1>5. \A i \in 1..16 : convertUUID(u)[i] = Swapped(u)[i]
    <2> SUFFICES ASSUME NEW i \in 1..16 PROVE convertUUID(u)[i] = Swapped(u)[i]
      OBVIOUS
    <2> DEFINE k == IF i <= 4 THEN 5 - i
                    ELSE IF i <= 6 THEN 11 - i
                    ELSE IF i <= 8 THEN 15 - i ELSE i
    <2>1. Swapped(u)[i] = u[k]
      BY <1>1, SMT DEF Swapped
    <2>2. convertUUID(u)[i] = u[k]
      BY SMT DEF convertUUID
    <2> QED
      BY <2>1, <2>2, Zenon
  <1>6. convertUUID(u) \in Seq(Nat) /\ DOMAIN convertUUID(u) = 1..16
    <2> HIDE DEF head, tail
    <2>1. head \o tail \in Seq(Nat) /\ Len(head \o tail) = Len(head) + Len(tail)
      BY <1>2, <1>3, ConcatSeq, Zenon
    <2>3. Len(head \o tail) = 16
      BY <1>2, <1>3, <2>1, SMT
    <2>2. DOMAIN (head \o tail) = 1..16
      <3>1. DOMAIN (head \o tail) = 1..Len(head \o tail)
        BY <2>1, SMT
      <3> QED
        BY <2>3, <3>1, Zenon
    <2> QED
      BY <1>4, <2>1, <2>2, Zenon
  <1>7. Swapped(u) = [i \in 1..16 |-> Swapped(u)[i]]
    BY <1>1, SMT DEF Swapped
  <1>8. convertUUID(u) = [i \in 1..16 |-> convertUUID(u)[i]]
    BY <1>6, SMT
  <1> QED
    BY <1>5, <1>7, <1>8, Zenon

-----------------------------------------------------------------------------
(* A step of one call *)

(* What every step of the call c leaves alone. *)
Moved(c) ==
    /\ pc[c] \notin {"idle", "done"}
    /\ pc' = [pc EXCEPT ![c] = pc'[c]] /\ pc'[c] # "idle"
    /\ UNCHANGED <<setup, cfg, labels, overlap, crashed>>
    /\ struck \subseteq struck' /\ struck' \subseteq struck \cup {c}
    /\ stuck => stuck'
    /\ \A d \in Calls : d # c => /\ answer'[d] = answer[d]
                                 /\ d \in converted' <=> d \in converted

(* What a step must keep for the call that takes it. *)
LoneKept(c)  == pc'[c] \in {"find", "logout"} => c \in overlap \/ client'[vc'[c]] # "nil"
CleanKept(c) == Alone(c) /\ ~ stuck' => IF pc'[c] = "done" THEN Empty' ELSE Alone(c)'
TrackKept(c) == Alone(c) /\ ~ stuck' /\ Usable /\ c \notin struck' /\ OnTrack(c) => OnTrack(c)'

(* Calls other than c stay where they are. *)
LEMMA MovedPcs ==
    ASSUME IInv, NEW c \in Calls, Moved(c)
    PROVE  /\ \A d \in Calls : d # c => pc'[d] = pc[d]
           /\ Running' \subseteq Running /\ c \in Running
           /\ c \in Running' <=> pc'[c] \notin {"idle", "done"}
           /\ overlap = {} => Running = {c}
  <1>1. pc \in [Calls -> Pcs]
    BY Zenon DEF IInv, Shapes
  <1>2. \A d \in Calls : d # c => pc'[d] = pc[d]
    BY <1>1, SMT DEF Moved
  <1>3. c \in Running
    BY Zenon DEF Moved, Running
  <1>4. Running' \subseteq Running
    BY <1>2, <1>3, Zenon DEF Running
  <1>5. c \in Running' <=> pc'[c] \notin {"idle", "done"}
    BY Zenon DEF Running
  <1>6. overlap = {} => Running = {c}
    BY <1>3, Zenon DEF IInv, OverlapInv
  <1> QED
    BY <1>2, <1>3, <1>4, <1>5, <1>6, Zenon

(* The node and its configuration do not change. *)
LEMMA FixedKept ==
    ASSUME Fixed, UNCHANGED <<setup, cfg, labels>>
    PROVE  Fixed'
  <1>1. setup' \in DOMAIN Setups /\ Whole(labels') /\ labels' = NodeLabels(S.inv, "vm")'
    BY Zenon DEF Fixed, S
  <1>2. ConfigSound'
    BY Zenon DEF Fixed, ConfigSound, S
  <1> QED
    BY <1>1, <1>2, Zenon DEF Fixed

(* Such a step keeps the invariant, if it keeps it for the call itself.    *)
LEMMA MovedInv ==
    ASSUME IInv, NEW c \in Calls, Moved(c), Shapes', RegistryInv',
           LoneKept(c), CleanKept(c), TrackKept(c)
    PROVE  IInv'
  <1>1. Fixed'
    BY FixedKept, Zenon DEF IInv, Moved
  <1> USE MovedPcs
  <1>2. OverlapInv' /\ NoLonePanic'
    BY Zenon DEF IInv, OverlapInv, NoLonePanic, Moved
  <1>3. LoneInv'
    <2> SUFFICES ASSUME NEW d \in Running', d \notin overlap, pc'[d] \in {"find", "logout"}
                 PROVE  client'[vc'[d]] # "nil"
      BY Zenon DEF LoneInv, Moved
    <2>1. d = c
      BY Zenon DEF IInv, OverlapInv
    <2> QED
      BY <2>1, Zenon DEF LoneKept
  <1>4. CleanInv'
    <2> SUFFICES ASSUME overlap = {}, ~ stuck'
                 PROVE  (Running' = {} => Empty') /\ \A d \in Running' : Alone(d)'
      BY Zenon DEF CleanInv, Moved
    <2>1. Alone(c) /\ Running = {c}
      BY Zenon DEF IInv, CleanInv, Moved
    <2>2. IF pc'[c] = "done" THEN Empty' ELSE Alone(c)'
      BY <2>1, Zenon DEF CleanKept
    <2>3. CASE pc'[c] = "done"
      BY <2>1, <2>2, <2>3, Zenon
    <2>4. CASE pc'[c] # "done"
      <3>1. \A d \in Running' : Alone(d)'
        BY <2>1, <2>2, <2>4, Zenon
      <3>2. Running' # {}
        BY <2>4, Zenon DEF Moved
      <3> QED
        BY <3>1, <3>2, Zenon
    <2> QED
      BY <2>3, <2>4
  <1>5. TrackInv'
    <2> SUFFICES ASSUME overlap = {}, ~ stuck', Usable, NEW d \in Calls, d \notin struck'
                 PROVE  OnTrack(d)'
      BY Zenon DEF TrackInv, Moved, Usable, S
    <2>1. Alone(c) /\ Running = {c} /\ OnTrack(d)
      BY Zenon DEF IInv, CleanInv, TrackInv, Moved
    <2>2. CASE d = c
      BY <2>1, <2>2, Zenon DEF TrackKept
    <2>3. CASE d # c
      <3>1. pc'[d] = pc[d] /\ pc[d] \in {"idle", "done"}
        BY <2>1, <2>3, Zenon DEF Running
      <3>2. answer'[d] = answer[d] /\ (d \in converted' <=> d \in converted)
        BY <2>3, Zenon DEF Moved
      <3>3. Answer' = Answer
        BY Zenon DEF Moved, Answer, Topo
      <3> QED
        BY <2>1, <3>1, <3>2, <3>3, Zenon DEF OnTrack
    <2> QED
      BY <2>2, <2>3
  <1> QED
    BY <1>1, <1>2, <1>3, <1>4, <1>5, Zenon DEF IInv

(* The registry invariant, for a step that leaves the registry alone. *)
LEMMA RegistryKept ==
    ASSUME IInv, NEW c \in Calls, Moved(c), UNCHANGED <<host, registry>>,
           pc[c] \in Early \/ pc'[c] \notin Early
    PROVE  RegistryInv'
  <1> SUFFICES ASSUME NEW h \in DOMAIN registry
               PROVE  /\ registry[h] \in Calls /\ host[registry[h]] = h
                      /\ pc'[registry[h]] \notin Early
    BY Zenon DEF RegistryInv
  <1>1. PICK o : o = registry[h]
    OBVIOUS
  <1>2. o \in Calls /\ host[o] = h /\ pc[o] \notin Early
    BY <1>1, Zenon DEF IInv, RegistryInv
  <1>3. pc'[o] \notin Early
    BY <1>2, MovedPcs, Zenon
  <1> QED
    BY <1>1, <1>2, <1>3, Zenon

(* What is registered are objects, only that of c if it runs alone. *)
LEMMA RegisteredTypes ==
    ASSUME IInv
    PROVE  Registered \subseteq Calls /\ \A c \in Calls : Owns(c) => Registered = {c}
  <1>1. Registered \subseteq Calls
    BY Zenon DEF IInv, RegistryInv, Registered
  <1>2. ASSUME NEW c \in Calls, Owns(c) PROVE Registered = {c}
    BY <1>2, SMT DEF Registered, Owns
  <1> QED
    BY <1>1, <1>2, Zenon

-----------------------------------------------------------------------------
(* The actions, up to the search *)

LEMMA GetConfigInv ==
    ASSUME IInv, NEW c \in Calls, GetConfig(c)
    PROVE  IInv'
  <1> USE DEF At, Goto
  <1> DEFINE Plain == [ok |-> TRUE, labels |-> NoTopology]
  <1>0. Shapes /\ RegistryInv
    BY Zenon DEF IInv
  <1>1. /\ pc[c] = "config"
        /\ UNCHANGED <<setup, cfg, labels, todo, vc, converted, vm, registry, client, overlap,
                       stuck, crashed>>
        /\ struck \subseteq struck' /\ struck' \subseteq struck \cup {c}
    BY Zenon DEF GetConfig, fixed, search, history, Fault
  <1>2. pc' = [pc EXCEPT ![c] = "done"] \/ pc' = [pc EXCEPT ![c] = "load"]
    BY Zenon DEF GetConfig
  <1>3. host' = host \/ \E h : host' = [host EXCEPT ![c] = h]
    BY Zenon DEF GetConfig
  <1>4. answer' = answer \/ answer' = [answer EXCEPT ![c] = Plain]
    BY Zenon DEF GetConfig
  <1>5. \/ faults' = faults
        \/ faults < MaxFaults /\ faults' = faults + 1
    BY Zenon DEF GetConfig, history, Fault
  <1>6. Shapes'
    <2>1. pc' \in [Calls -> Pcs]
      BY <1>0, <1>2, SMT DEF Shapes, Pcs
    <2>2. host' = [d \in Calls |-> host'[d]]
      BY <1>0, <1>3, SMT DEF Shapes
    <2>3. answer' \in [Calls -> [ok : BOOLEAN, labels : {NoTopology, labels}]]
      <3> DEFINE A == [ok : BOOLEAN, labels : {NoTopology, labels}]
      <3>1. Plain \in A
        BY SMT
      <3> HIDE DEF A, Plain
      <3> QED
        BY <1>0, <1>4, <3>1, SMT DEF Shapes, A
    <2>4. faults' \in 0..MaxFaults
      BY <1>0, <1>5, NodeInfoAssumption, SMT DEF Shapes
    <2> QED
      BY <1>0, <1>1, <2>1, <2>2, <2>3, <2>4, Zenon DEF Shapes
  <1>7. Moved(c)
    <2>1. \A d \in Calls : d # c => answer'[d] = answer[d]
      BY <1>0, <1>4, SMT DEF Shapes
    <2>2. pc' = [pc EXCEPT ![c] = pc'[c]] /\ pc'[c] # "idle"
      BY <1>0, <1>2, SMT DEF Shapes
    <2> QED
      BY <1>1, <2>1, <2>2, Zenon DEF Moved
  <1>8. RegistryInv'
    <2> SUFFICES ASSUME NEW h \in DOMAIN registry
                 PROVE  /\ registry[h] \in Calls /\ host'[registry[h]] = h
                        /\ pc'[registry[h]] \notin Early
      BY <1>1, Zenon DEF RegistryInv
    <2>1. PICK o : o = registry[h]
      OBVIOUS
    <2>2. o \in Calls /\ host[o] = h /\ pc[o] \notin Early
      BY <1>0, <2>1, Zenon DEF RegistryInv
    <2>3. o # c
      BY <1>1, <2>2, Zenon DEF Early
    <2>4. host'[o] = host[o] /\ pc'[o] = pc[o]
      BY <1>0, <1>2, <1>3, <2>2, <2>3, SMT DEF Shapes
    <2> QED
      BY <2>1, <2>2, <2>4, Zenon
  <1>9. pc'[c] \in {"load", "done"}
    BY <1>0, <1>2, SMT DEF Shapes
  <1>10. LoneKept(c)
    BY <1>9, Zenon DEF LoneKept
  <1>11. CleanKept(c)
    BY <1>1, <1>9, Zenon DEF CleanKept, Alone, Empty
  <1>12. TrackKept(c)
    <2> SUFFICES ASSUME Usable, c \notin struck', OnTrack(c)
                 PROVE  OnTrack(c)'
      BY Zenon DEF TrackKept
    <2>1. c \notin converted'
      BY <1>1, Zenon DEF OnTrack
    <2>2. Topo' = Topo /\ Answer' = Answer
      BY <1>1, Zenon DEF Topo, Answer
    <2>3. \/ ~ Topo /\ answer' = [answer EXCEPT ![c] = Plain]
                    /\ pc' = [pc EXCEPT ![c] = "done"]
          \/ Topo /\ (\E h \in DOMAIN cfg.cfg.vcs : host' = [host EXCEPT ![c] = h])
                  /\ pc' = [pc EXCEPT ![c] = "load"]
      BY Zenon DEF GetConfig, Usable, Topo, Fault
    <2>4. CASE ~ Topo /\ answer' = [answer EXCEPT ![c] = Plain]
                      /\ pc' = [pc EXCEPT ![c] = "done"]
      <3>1. answer'[c] = Plain /\ pc'[c] = "done"
        BY <1>0, <2>4, SMT DEF Shapes
      <3>2. Plain = Answer'
        BY <2>2, <2>4, Zenon DEF Answer
      <3> QED
        BY <3>1, <3>2, Zenon DEF OnTrack
    <2>5. CASE Topo /\ (\E h \in DOMAIN cfg.cfg.vcs : host' = [host EXCEPT ![c] = h])
                    /\ pc' = [pc EXCEPT ![c] = "load"]
      <3>1. host'[c] \in DOMAIN cfg.cfg.vcs /\ pc'[c] = "load"
        BY <1>0, <2>5, SMT DEF Shapes
      <3> QED
        BY <1>1, <2>1, <2>2, <2>5, <3>1, Zenon DEF OnTrack
    <2> QED
      BY <2>3, <2>4, <2>5, Zenon
  <1> QED
    BY <1>6, <1>7, <1>8, <1>10, <1>11, <1>12, MovedInv

LEMMA RegisterLoadInv ==
    ASSUME IInv, NEW c \in Calls, RegisterLoad(c)
    PROVE  IInv'
  <1> USE DEF At, Goto
  <1>0. Shapes
    BY Zenon DEF IInv
  <1>1. /\ pc[c] = "load" /\ pc'[c] \in {"store", "done"} /\ pc' = [pc EXCEPT ![c] = pc'[c]]
        /\ host[c] \notin DOMAIN registry => pc'[c] = "store"
        /\ pc' \in [Calls -> Pcs]
    BY <1>0, SMT DEF RegisterLoad, Shapes, Pcs
  <1>2. UNCHANGED <<setup, cfg, labels, host, todo, vc, converted, vm, answer, registry,
                    client, overlap, struck, stuck, crashed, faults>>
    BY Zenon DEF RegisterLoad, fixed, search, history
  <1>3. Shapes'
    BY <1>0, <1>1, <1>2, Zenon DEF Shapes
  <1>4. Moved(c)
    BY <1>1, <1>2, Zenon DEF Moved
  <1>5. RegistryInv'
    BY <1>1, <1>2, <1>4, RegistryKept, Zenon DEF Early
  <1>6. LoneKept(c)
    BY <1>1, Zenon DEF LoneKept
  <1>7. Alone(c) => pc'[c] = "store"
    <2>1. Alone(c) => DOMAIN registry = {}
      BY <1>1, SMT DEF Alone, Empty
    <2> QED
      BY <1>1, <2>1, Zenon
  <1>8. CleanKept(c)
    BY <1>1, <1>2, <1>7, Zenon DEF CleanKept, Alone, Empty
  <1>9. TrackKept(c)
    BY <1>1, <1>2, <1>7, Zenon DEF TrackKept, OnTrack, Topo
  <1> QED
    BY <1>3, <1>4, <1>5, <1>6, <1>8, <1>9, MovedInv

LEMMA RegisterStoreInv ==
    ASSUME IInv, NEW c \in Calls, RegisterStore(c)
    PROVE  IInv'
  <1> USE DEF At, Goto
  <1>0. Shapes /\ RegistryInv
    BY Zenon DEF IInv
  <1>1. /\ pc[c] = "store" /\ pc'[c] = "connect" /\ pc' = [pc EXCEPT ![c] = pc'[c]]
        /\ pc' \in [Calls -> Pcs]
    BY <1>0, SMT DEF RegisterStore, Shapes, Pcs
  <1>2. UNCHANGED <<setup, cfg, labels, host, todo, vc, converted, vm, answer, client,
                    overlap, struck, stuck, crashed, faults>>
    BY Zenon DEF RegisterStore, fixed, search, history
  <1>3. Shapes'
    BY <1>0, <1>1, <1>2, Zenon DEF Shapes
  <1>4. Moved(c)
    BY <1>1, <1>2, Zenon DEF Moved
  <1>5. /\ DOMAIN registry' = DOMAIN registry \cup {host[c]} /\ registry'[host[c]] = c
        /\ \A h \in DOMAIN registry : h # host[c] => registry'[h] = registry[h]
    BY SMT DEF RegisterStore, Override
  <1>6. RegistryInv'
    <2> SUFFICES ASSUME NEW h \in DOMAIN registry'
                 PROVE  /\ registry'[h] \in Calls /\ host[registry'[h]] = h
                        /\ pc'[registry'[h]] \notin Early
      BY <1>2, Zenon DEF RegistryInv
    <2>1. CASE h = host[c]
      BY <1>1, <1>5, <2>1, Zenon DEF Early
    <2>2. CASE h # host[c]
      <3>1. PICK o : o = registry[h]
        OBVIOUS
      <3>2. o \in Calls /\ host[o] = h /\ pc[o] \notin Early /\ registry'[h] = o
        BY <1>0, <1>5, <2>2, <3>1, Zenon DEF RegistryInv
      <3>3. pc'[o] \notin Early
        BY <1>1, <1>4, <3>2, MovedPcs, Zenon DEF Early
      <3> QED
        BY <3>2, <3>3, Zenon
    <2> QED
      BY <2>1, <2>2
  <1>7. LoneKept(c)
    BY <1>1, Zenon DEF LoneKept
  <1>8. CleanKept(c)
    <2> SUFFICES ASSUME Empty PROVE Owns(c)'
      BY <1>1, Zenon DEF CleanKept, Alone
    <2>1. DOMAIN registry = {}
      BY SMT DEF Empty
    <2> QED
      BY <1>2, <1>5, <2>1, Zenon DEF Empty, Owns
  <1>9. TrackKept(c)
    BY <1>1, <1>2, Zenon DEF TrackKept, OnTrack, Topo
  <1> QED
    BY <1>3, <1>4, <1>6, <1>7, <1>8, <1>9, MovedInv

(* The search of c misses the VM. *)
Missed(c) == struck' = struck \cup {c} /\ UNCHANGED <<overlap, stuck, crashed, faults>>

(* A failure is counted, and seen by the call. *)
LEMMA HistoryMoves ==
    ASSUME IInv, NEW c \in Calls, UNCHANGED history \/ Fault(c) \/ Missed(c)
    PROVE  /\ UNCHANGED <<overlap, stuck, crashed>>
           /\ struck \subseteq struck' /\ struck' \subseteq struck \cup {c}
           /\ faults' \in 0..MaxFaults
           /\ Fault(c) \/ Missed(c) => c \in struck'
  <1>1. /\ UNCHANGED <<overlap, stuck, crashed>>
        /\ struck \subseteq struck' /\ struck' \subseteq struck \cup {c}
        /\ Fault(c) \/ Missed(c) => c \in struck'
    BY Zenon DEF history, Fault, Missed
  <1>2. \/ faults' = faults
        \/ faults < MaxFaults /\ faults' = faults + 1
    BY Zenon DEF history, Fault, Missed
  <1>3. faults \in 0..MaxFaults
    BY Zenon DEF IInv, Shapes
  <1>4. faults' \in 0..MaxFaults
    BY <1>2, <1>3, NodeInfoAssumption, SMT
  <1> QED
    BY <1>1, <1>4, Zenon

(* Connecting an object leaves the others alone. *)
LEMMA ClientMoves ==
    ASSUME IInv, NEW o \in Calls, Connected(o) \/ NotConnected(o)
    PROVE  /\ client' \in [Calls -> {"nil", "live", "ended"}]
           /\ \A d \in Calls : d # o => client'[d] = client[d]
           /\ Connected(o) => client'[o] = "live"
  <1>1. client \in [Calls -> {"nil", "live", "ended"}]
    BY Zenon DEF IInv, Shapes
  <1> QED
    BY <1>1, SMT DEF Connected, NotConnected

LEMMA ConnectInv ==
    ASSUME IInv, NEW c \in Calls, Connect(c)
    PROVE  IInv'
  <1> USE DEF At, Goto
  <1>0. Shapes
    BY Zenon DEF IInv
  <1>1. /\ UNCHANGED history \/ Fault(c)
        /\ Connected(c) \/ NotConnected(c)
        /\ pc[c] = "connect"
        /\ pc' = [pc EXCEPT ![c] = "uuid"] \/ pc' = [pc EXCEPT ![c] = "unregister"]
        /\ UNCHANGED <<setup, cfg, labels, host, todo, vc, converted, vm, answer, registry>>
    BY Zenon DEF Connect, ConnectFails, fixed, search
  <1>2. /\ pc'[c] \in {"uuid", "unregister"} /\ pc' = [pc EXCEPT ![c] = pc'[c]]
        /\ pc' \in [Calls -> Pcs]
    BY <1>0, <1>1, SMT DEF Shapes, Pcs
  <1> USE HistoryMoves, ClientMoves
  <1>3. Shapes'
    BY <1>0, <1>1, <1>2, Zenon DEF Shapes
  <1>4. Moved(c)
    BY <1>1, <1>2, Zenon DEF Moved
  <1>5. RegistryInv'
    BY <1>1, <1>2, <1>4, RegistryKept, Zenon DEF Early
  <1>6. LoneKept(c)
    BY <1>2, Zenon DEF LoneKept
  <1>7. CleanKept(c)
    <2> SUFFICES ASSUME Owns(c) PROVE Owns(c)'
      BY <1>1, <1>2, Zenon DEF CleanKept, Alone
    <2> QED
      BY <1>1, Zenon DEF Owns
  <1>8. TrackKept(c)
    <2> SUFFICES ASSUME Usable, c \notin struck', OnTrack(c) PROVE OnTrack(c)'
      BY Zenon DEF TrackKept
    <2>1. LogsIn(c)
      BY <1>1, Zenon DEF Usable, OnTrack, LogsIn
    <2>2. pc' = [pc EXCEPT ![c] = "uuid"]
      BY <1>1, <2>1, Zenon DEF Connect, ConnectFails
    <2>3. pc'[c] = "uuid"
      BY <1>0, <2>2, Zenon DEF Shapes
    <2> QED
      BY <1>1, <2>3, Zenon DEF OnTrack, Topo
  <1> QED
    BY <1>3, <1>4, <1>5, <1>6, <1>7, <1>8, MovedInv

-----------------------------------------------------------------------------
(* The search *)

LEMMA BeginSearchMoves ==
    ASSUME IInv, NEW c \in Calls, BeginSearch(c)
    PROVE  /\ pc' \in [Calls -> Pcs] /\ pc' = [pc EXCEPT ![c] = pc'[c]] /\ pc'[c] = "visit"
           /\ todo' \in [Calls -> SUBSET Calls] /\ todo'[c] = Registered
  <1>1. pc \in [Calls -> Pcs] /\ todo \in [Calls -> SUBSET Calls]
    BY Zenon DEF IInv, Shapes
  <1>2. PICK R : R = Registered
    OBVIOUS
  <1>3. R \subseteq Calls
    BY <1>2, RegisteredTypes, Zenon
  <1>4. todo' = [todo EXCEPT ![c] = R] /\ pc' = [pc EXCEPT ![c] = "visit"]
    BY <1>2, Zenon DEF BeginSearch, Goto
  <1>5. todo' \in [Calls -> SUBSET Calls] /\ todo'[c] = R
    BY <1>1, <1>3, <1>4, SMT
  <1>6. pc' \in [Calls -> Pcs] /\ pc' = [pc EXCEPT ![c] = pc'[c]] /\ pc'[c] = "visit"
    BY <1>1, <1>4, SMT DEF Pcs
  <1> QED
    BY <1>2, <1>5, <1>6, Zenon

LEMMA getSystemUUIDInv ==
    ASSUME IInv, NEW c \in Calls, getSystemUUID(c)
    PROVE  IInv'
  <1>0. Shapes
    BY Zenon DEF IInv
  <1>1. /\ UNCHANGED history \/ Fault(c)
        /\ pc[c] = "uuid"
        /\ UNCHANGED <<setup, cfg, labels, host, vc, converted, vm, answer, registry, client>>
        /\ \/ BeginSearch(c)
           \/ Fault(c) /\ pc' = [pc EXCEPT ![c] = "unregister"] /\ todo' = todo
    BY Zenon DEF getSystemUUID, fixed, At, Goto
  <1>2. /\ pc'[c] \in {"visit", "unregister"} /\ pc' = [pc EXCEPT ![c] = pc'[c]]
        /\ pc' \in [Calls -> Pcs] /\ todo' \in [Calls -> SUBSET Calls]
        /\ pc'[c] = "visit" => todo'[c] = Registered
        /\ pc'[c] = "unregister" => Fault(c)
    <2>1. CASE BeginSearch(c)
      BY <2>1, BeginSearchMoves, Zenon
    <2>2. CASE Fault(c) /\ pc' = [pc EXCEPT ![c] = "unregister"] /\ todo' = todo
      <3>1. /\ pc'[c] = "unregister" /\ pc' = [pc EXCEPT ![c] = pc'[c]]
            /\ pc' \in [Calls -> Pcs]
        BY <1>0, <2>2, SMT DEF Shapes, Pcs
      <3> QED
        BY <1>0, <2>2, <3>1, Zenon DEF Shapes
    <2> QED
      BY <1>1, <2>1, <2>2, Zenon
  <1> USE HistoryMoves
  <1>3. Shapes'
    BY <1>0, <1>1, <1>2, Zenon DEF Shapes
  <1>4. Moved(c)
    BY <1>1, <1>2, Zenon DEF Moved
  <1>5. RegistryInv'
    BY <1>1, <1>2, <1>4, RegistryKept, Zenon DEF Early
  <1>6. LoneKept(c)
    BY <1>2, Zenon DEF LoneKept
  <1>7. CleanKept(c)
    <2> SUFFICES ASSUME Owns(c) PROVE Owns(c)' /\ Registered = {c}
      BY <1>1, <1>2, Zenon DEF CleanKept, Alone
    <2> QED
      BY <1>1, RegisteredTypes, Zenon DEF Owns
  <1>8. TrackKept(c)
    <2> SUFFICES ASSUME Alone(c), Usable, c \notin struck', OnTrack(c) PROVE OnTrack(c)'
      BY Zenon DEF TrackKept
    <2>1. pc'[c] = "visit" /\ todo'[c] = {c}
      BY <1>1, <1>2, RegisteredTypes, Zenon DEF Alone
    <2> QED
      BY <1>1, <2>1, Zenon DEF OnTrack, Topo
  <1> QED
    BY <1>3, <1>4, <1>5, <1>6, <1>7, <1>8, MovedInv

(* A search that ends starts again with the converted UUID, or is over. *)
LEMMA SearchEndsMoves ==
    ASSUME IInv, NEW c \in Calls, SearchEnds(c)
    PROVE  /\ pc' \in [Calls -> Pcs] /\ pc' = [pc EXCEPT ![c] = pc'[c]]
           /\ todo' \in [Calls -> SUBSET Calls]
           /\ \A d \in Calls : d # c => (d \in converted' <=> d \in converted)
           /\ \/ pc'[c] = "visit" /\ todo'[c] = Registered /\ c \notin converted
              \/ pc'[c] = "unregister" /\ c \in converted
  <1>1. CASE c \in converted
    <2>1. pc' = [pc EXCEPT ![c] = "unregister"] /\ UNCHANGED <<todo, converted>>
      BY <1>1, Zenon DEF SearchEnds, Goto
    <2>2. pc \in [Calls -> Pcs] /\ todo \in [Calls -> SUBSET Calls]
      BY Zenon DEF IInv, Shapes
    <2>3. pc' \in [Calls -> Pcs] /\ pc' = [pc EXCEPT ![c] = pc'[c]] /\ pc'[c] = "unregister"
      BY <2>1, <2>2, SMT DEF Pcs
    <2> QED
      BY <1>1, <2>1, <2>2, <2>3, Zenon
  <1>2. CASE c \notin converted
    <2>1. BeginSearch(c) /\ converted' = converted \cup {c}
      BY <1>2, Zenon DEF SearchEnds
    <2> QED
      BY <1>2, <2>1, BeginSearchMoves, Zenon
  <1> QED
    BY <1>1, <1>2

LEMMA NotFoundInv ==
    ASSUME IInv, NEW c \in Calls, NotFound(c)
    PROVE  IInv'
  <1>0. Shapes
    BY Zenon DEF IInv
  <1>1. /\ pc[c] = "visit" /\ todo[c] = {} /\ SearchEnds(c) /\ UNCHANGED history
        /\ UNCHANGED <<setup, cfg, labels, host, vc, vm, answer, registry, client>>
    BY Zenon DEF NotFound, fixed, At
  <1> USE HistoryMoves, SearchEndsMoves
  <1>2. Shapes'
    BY <1>0, <1>1, Zenon DEF Shapes
  <1>3. Moved(c)
    BY <1>1, Zenon DEF Moved
  <1>4. RegistryInv'
    BY <1>1, <1>3, RegistryKept, Zenon DEF Early
  <1>5. LoneKept(c)
    BY <1>1, Zenon DEF LoneKept
  <1>6. CleanKept(c)
    <2> SUFFICES ASSUME Owns(c) PROVE Owns(c)' /\ Registered = {c}
      BY <1>1, Zenon DEF CleanKept, Alone
    <2> QED
      BY <1>1, RegisteredTypes, Zenon DEF Owns
  <1>7. TrackKept(c)
    <2> SUFFICES ASSUME Alone(c), Usable, c \notin struck', OnTrack(c) PROVE OnTrack(c)'
      BY Zenon DEF TrackKept
    <2>1. c \notin converted /\ S.vms[host[c]] # S.uuid
      BY <1>1, Zenon DEF OnTrack
    <2>2. pc'[c] = "visit" /\ todo'[c] = {c}
      BY <1>1, <2>1, RegisteredTypes, Zenon DEF Alone
    <2>3. S' = S /\ host' = host /\ cfg' = cfg
      BY <1>1, Zenon DEF S
    <2> QED
      BY <1>1, <2>1, <2>2, <2>3, Zenon DEF OnTrack, Topo
  <1> QED
    BY <1>2, <1>3, <1>4, <1>5, <1>6, <1>7, MovedInv

LEMMA VisitInv ==
    ASSUME IInv, NEW c \in Calls, Visit(c)
    PROVE  IInv'
  <1>0. Shapes
    BY Zenon DEF IInv
  <1>1. /\ pc[c] = "visit"
        /\ UNCHANGED <<setup, cfg, labels, host, vm, answer, registry>>
    BY Zenon DEF Visit, fixed, At
  <1>2. PICK o \in todo[c] :
          \/ /\ Connected(o) /\ pc' = [pc EXCEPT ![c] = "find"]
             /\ todo' = [todo EXCEPT ![c] = @ \ {o}] /\ vc' = [vc EXCEPT ![c] = o]
             /\ UNCHANGED <<converted, history>>
          \/ /\ NotConnected(o) /\ SearchEnds(c) /\ vc' = vc
             /\ \/ Fault(c)
                \/ client[o] # "live" /\ ~ LogsIn(o) /\ UNCHANGED history
    BY Zenon DEF Visit, ConnectFails, Goto
  <1>3. o \in Calls
    BY <1>0, <1>2, Zenon DEF Shapes
  <1> USE HistoryMoves, SearchEndsMoves, ClientMoves
  <1>4. /\ UNCHANGED history \/ Fault(c)
        /\ Connected(o) \/ NotConnected(o)
    BY <1>2, Zenon
  <1>5. CASE /\ Connected(o) /\ pc' = [pc EXCEPT ![c] = "find"]
             /\ todo' = [todo EXCEPT ![c] = @ \ {o}] /\ vc' = [vc EXCEPT ![c] = o]
             /\ UNCHANGED <<converted, history>>
    <2>1. /\ pc' \in [Calls -> Pcs] /\ pc' = [pc EXCEPT ![c] = pc'[c]] /\ pc'[c] = "find"
      BY <1>0, <1>5, SMT DEF Shapes, Pcs
    <2>2. /\ todo' \in [Calls -> SUBSET Calls] /\ todo'[c] = todo[c] \ {o}
          /\ vc' \in [Calls -> Calls \cup {None}] /\ vc'[c] = o
      BY <1>0, <1>3, <1>5, SMT DEF Shapes
    <2>3. Shapes'
      BY <1>0, <1>1, <1>3, <1>4, <2>1, <2>2, Zenon DEF Shapes
    <2>4. Moved(c)
      BY <1>1, <1>4, <1>5, <2>1, Zenon DEF Moved
    <2>5. RegistryInv'
      BY <1>1, <2>1, <2>4, RegistryKept, Zenon DEF Early
    <2>6. client'[o] = "live"
      BY <1>3, <1>5, Zenon
    <2>7. LoneKept(c)
      BY <2>2, <2>6, Zenon DEF LoneKept
    <2>8. CleanKept(c)
      <3> SUFFICES ASSUME Owns(c), todo[c] \subseteq {c}
                   PROVE  Owns(c)' /\ todo'[c] = {} /\ vc'[c] = c
        BY <1>1, <2>1, Zenon DEF CleanKept, Alone
      <3>1. o = c
        BY <1>2, Zenon
      <3> QED
        BY <1>1, <1>3, <1>4, <2>2, <3>1, ZenonT(30) DEF Owns
    <2>9. TrackKept(c)
      <3> SUFFICES ASSUME Alone(c), Usable, c \notin struck', OnTrack(c) PROVE OnTrack(c)'
        BY Zenon DEF TrackKept
      <3>1. o = c
        BY <1>1, <1>2, Zenon DEF Alone
      <3>2. S' = S /\ host' = host /\ cfg' = cfg /\ converted' = converted
        BY <1>1, <1>5, Zenon DEF S
      <3> QED
        BY <1>1, <2>1, <2>6, <3>1, <3>2, Zenon DEF OnTrack, Topo
    <2> QED
      BY <2>3, <2>4, <2>5, <2>7, <2>8, <2>9, MovedInv
  <1>6. CASE /\ NotConnected(o) /\ SearchEnds(c) /\ vc' = vc
             /\ \/ Fault(c)
                \/ client[o] # "live" /\ ~ LogsIn(o) /\ UNCHANGED history
    <2>1. Shapes'
      BY <1>0, <1>1, <1>3, <1>4, <1>6, Zenon DEF Shapes
    <2>2. Moved(c)
      BY <1>1, <1>4, <1>6, Zenon DEF Moved
    <2>3. RegistryInv'
      BY <1>1, <1>6, <2>2, RegistryKept, Zenon DEF Early
    <2>4. LoneKept(c)
      BY <1>6, Zenon DEF LoneKept
    <2>5. CleanKept(c)
      <3> SUFFICES ASSUME Owns(c), todo[c] \subseteq {c} PROVE Owns(c)' /\ Registered = {c}
        BY <1>1, <1>6, Zenon DEF CleanKept, Alone
      <3>1. o = c
        BY <1>2, Zenon
      <3> QED
        BY <1>1, <1>3, <1>4, <3>1, RegisteredTypes, Zenon DEF Owns
    <2>6. TrackKept(c)
      <3> SUFFICES ASSUME Alone(c), Usable, c \notin struck', OnTrack(c) PROVE FALSE
        BY Zenon DEF TrackKept
      <3>1. o = c
        BY <1>1, <1>2, Zenon DEF Alone
      <3>2. LogsIn(c)
        BY <1>1, Zenon DEF Usable, OnTrack, LogsIn
      <3> QED
        BY <1>4, <1>6, <3>1, <3>2, Zenon
    <2> QED
      BY <2>1, <2>2, <2>3, <2>4, <2>5, <2>6, MovedInv
  <1> QED
    BY <1>2, <1>5, <1>6, Zenon

(* The vCenter at which c searches has no datacenters in its settings. *)
NoPath(c) == cfg.cfg.vcs[host[vc[c]]].dcs = ""

LEMMA FindInv ==
    ASSUME IInv, NEW c \in Calls, Find(c)
    PROVE  IInv'
  <1>0. Shapes
    BY Zenon DEF IInv
  <1>1. /\ pc[c] = "find" /\ vc' = [vc EXCEPT ![c] = None]
        /\ UNCHANGED <<setup, cfg, labels, host, answer, registry, client>>
        /\ UNCHANGED history \/ Fault(c) \/ Missed(c)
    <2>1. /\ pc[c] = "find" /\ vc' = [vc EXCEPT ![c] = None]
          /\ UNCHANGED <<setup, cfg, labels, host, answer, registry, client>>
      BY Zenon DEF Find, fixed, At
    <2>2. UNCHANGED history \/ Fault(c) \/ Missed(c)
      BY Zenon DEF Find, history, Missed
    <2> QED
      BY <2>1, <2>2, Zenon
  <1>2. /\ vc' \in [Calls -> Calls \cup {None}]
        /\ vc[c] \in Calls \cup {None}
    BY <1>0, <1>1, SMT DEF Shapes
  <1> USE HistoryMoves, SearchEndsMoves
  <1>3. /\ S' = S /\ Topo' = Topo /\ Answer' = Answer
        /\ Owns(c) => Owns(c)'
    BY <1>1, Zenon DEF S, Topo, Answer, Owns
  <1>4. CASE /\ client[vc[c]] = "live" /\ S.vms[host[vc[c]]] = UUID(c)
             /\ vm' = [vm EXCEPT ![c] = vc[c]] /\ pc' = [pc EXCEPT ![c] = "tags"]
             /\ UNCHANGED <<todo, converted>>
    <2>1. /\ pc' \in [Calls -> Pcs] /\ pc' = [pc EXCEPT ![c] = pc'[c]] /\ pc'[c] = "tags"
      BY <1>0, <1>4, SMT DEF Shapes, Pcs
    <2>2. vm' \in [Calls -> Calls \cup {None}] /\ vm'[c] = vc[c]
      BY <1>0, <1>2, <1>4, SMT DEF Shapes
    <2>3. Shapes'
      BY <1>0, <1>1, <1>2, <1>4, <2>1, <2>2, Zenon DEF Shapes
    <2>4. Moved(c)
      BY <1>1, <1>4, <2>1, Zenon DEF Moved
    <2>5. RegistryInv'
      BY <1>1, <2>1, <2>4, RegistryKept, Zenon DEF Early
    <2>6. LoneKept(c)
      BY <2>1, Zenon DEF LoneKept
    <2>7. CleanKept(c)
      BY <1>1, <1>3, <2>1, Zenon DEF CleanKept, Alone
    <2>8. TrackKept(c)
      <3> SUFFICES ASSUME Alone(c), OnTrack(c) PROVE OnTrack(c)'
        BY Zenon DEF TrackKept
      <3>1. vm'[c] = c
        BY <1>1, <2>2, Zenon DEF Alone
      <3> QED
        BY <1>1, <1>3, <2>1, <3>1, Zenon DEF OnTrack
    <2> QED
      BY <2>3, <2>4, <2>5, <2>6, <2>7, <2>8, MovedInv
  <1>5. CASE /\ client[vc[c]] = "live" /\ (Missed(c) \/ S.vms[host[vc[c]]] # UUID(c))
             /\ pc' = [pc EXCEPT ![c] = "visit"] /\ UNCHANGED <<todo, converted, vm>>
    <2>1. /\ pc' \in [Calls -> Pcs] /\ pc' = [pc EXCEPT ![c] = pc'[c]] /\ pc'[c] = "visit"
      BY <1>0, <1>5, SMT DEF Shapes, Pcs
    <2>2. Shapes'
      BY <1>0, <1>1, <1>2, <1>5, <2>1, Zenon DEF Shapes
    <2>3. Moved(c)
      BY <1>1, <1>5, <2>1, Zenon DEF Moved
    <2>4. RegistryInv'
      BY <1>1, <2>1, <2>3, RegistryKept, Zenon DEF Early
    <2>5. LoneKept(c)
      BY <2>1, Zenon DEF LoneKept
    <2>6. CleanKept(c)
      BY <1>1, <1>3, <1>5, <2>1, Zenon DEF CleanKept, Alone
    <2>7. TrackKept(c)
      <3> SUFFICES ASSUME Alone(c), Usable, c \notin struck', OnTrack(c) PROVE OnTrack(c)'
        BY Zenon DEF TrackKept
      <3>0. S.vms[host[vc[c]]] # UUID(c)
        BY <1>5, Zenon DEF Missed
      <3>1. vc[c] = c /\ Topo /\ host[c] \in DOMAIN cfg.cfg.vcs
        BY <1>1, Zenon DEF Alone, OnTrack
      <3>2. S.vms[host[c]] \in {S.uuid, Swapped(S.uuid)}
        BY <3>1, Zenon DEF Usable
      <3>3. convertUUID(S.uuid) = Swapped(S.uuid)
        BY SetupsAssumption, ConvertSwaps, Zenon DEF IInv, Fixed, S
      <3>4. c \notin converted
        BY <1>1, <3>0, <3>1, <3>2, <3>3, Zenon DEF OnTrack, UUID
      <3>5. S.vms[host[c]] # S.uuid
        BY <3>0, <3>1, <3>4, Zenon DEF UUID
      <3> QED
        BY <1>1, <1>3, <1>5, <2>1, <3>1, <3>4, <3>5, Zenon DEF OnTrack
    <2> QED
      BY <2>2, <2>3, <2>4, <2>5, <2>6, <2>7, MovedInv
  <1>6. CASE /\ SearchEnds(c) /\ vm' = vm
             /\ client[vc[c]] = "ended" \/ NoPath(c) \/ Fault(c)
    <2>1. Shapes'
      BY <1>0, <1>1, <1>2, <1>6, Zenon DEF Shapes
    <2>2. Moved(c)
      BY <1>1, <1>6, Zenon DEF Moved
    <2>3. RegistryInv'
      BY <1>1, <1>6, <2>2, RegistryKept, Zenon DEF Early
    <2>4. LoneKept(c)
      BY <1>6, Zenon DEF LoneKept
    <2>5. CleanKept(c)
      <3> SUFFICES ASSUME Owns(c) PROVE Owns(c)' /\ Registered = {c}
        BY <1>1, <1>6, Zenon DEF CleanKept, Alone
      <3> QED
        BY <1>3, RegisteredTypes, Zenon
    <2>6. TrackKept(c)
      <3> SUFFICES ASSUME Alone(c), Usable, c \notin struck', OnTrack(c) PROVE FALSE
        BY Zenon DEF TrackKept
      <3>1. vc[c] = c /\ host[c] \in DOMAIN cfg.cfg.vcs /\ client[c] = "live"
        BY <1>1, Zenon DEF Alone, OnTrack
      <3>2. ~ NoPath(c)
        BY <3>1, Zenon DEF Usable, NoPath
      <3> QED
        BY <1>1, <1>6, <3>1, <3>2, Zenon
    <2> QED
      BY <2>1, <2>2, <2>3, <2>4, <2>5, <2>6, MovedInv
  <1>7. \/ /\ client[vc[c]] = "live" /\ S.vms[host[vc[c]]] = UUID(c)
           /\ vm' = [vm EXCEPT ![c] = vc[c]] /\ pc' = [pc EXCEPT ![c] = "tags"]
           /\ UNCHANGED <<todo, converted>>
        \/ /\ client[vc[c]] = "live" /\ (Missed(c) \/ S.vms[host[vc[c]]] # UUID(c))
           /\ pc' = [pc EXCEPT ![c] = "visit"] /\ UNCHANGED <<todo, converted, vm>>
        \/ /\ SearchEnds(c) /\ vm' = vm
           /\ client[vc[c]] = "ended" \/ NoPath(c) \/ Fault(c)
    BY Zenon DEF Find, Goto, Missed, NoPath
  <1> QED
    BY <1>4, <1>5, <1>6, <1>7, Zenon

LEMMA GetTagManagerInv ==
    ASSUME IInv, NEW c \in Calls, GetTagManager(c)
    PROVE  IInv'
  <1>0. Shapes
    BY Zenon DEF IInv
  <1>1. /\ pc[c] = "tags"
        /\ pc' = [pc EXCEPT ![c] = "unregister"] \/ pc' = [pc EXCEPT ![c] = "read"]
        /\ UNCHANGED <<setup, cfg, labels, host, todo, vc, converted, vm, answer, registry,
                       client>>
        /\ UNCHANGED history \/ Fault(c)
    BY Zenon DEF GetTagManager, fixed, search, At, Goto
  <1>2. /\ pc' \in [Calls -> Pcs] /\ pc' = [pc EXCEPT ![c] = pc'[c]]
        /\ pc'[c] \in {"unregister", "read"}
    BY <1>0, <1>1, SMT DEF Shapes, Pcs
  <1> USE HistoryMoves
  <1>3. Shapes'
    BY <1>0, <1>1, <1>2, Zenon DEF Shapes
  <1>4. Moved(c)
    BY <1>1, <1>2, Zenon DEF Moved
  <1>5. RegistryInv'
    BY <1>1, <1>2, <1>4, RegistryKept, Zenon DEF Early
  <1>6. LoneKept(c)
    BY <1>2, Zenon DEF LoneKept
  <1>7. CleanKept(c)
    <2> SUFFICES ASSUME Owns(c) PROVE Owns(c)'
      BY <1>1, <1>2, Zenon DEF CleanKept, Alone
    <2> QED
      BY <1>1, Zenon DEF Owns
  <1>8. TrackKept(c)
    <2> SUFFICES ASSUME Alone(c), c \notin struck', OnTrack(c) PROVE OnTrack(c)'
      BY Zenon DEF TrackKept
    <2>1. vm[c] = c /\ host[c] \in DOMAIN registry /\ Topo /\ host[c] \in DOMAIN cfg.cfg.vcs
      BY <1>1, Zenon DEF Alone, Owns, OnTrack
    <2>2. c # None
      BY NodeInfoAssumption, SMT DEF Calls, None
    <2>3. pc' = [pc EXCEPT ![c] = "read"] /\ rest' = rest \cup {c}
      BY <1>1, <2>1, <2>2, Zenon DEF GetTagManager, Goto
    <2>4. pc'[c] = "read" /\ c \in rest'
      BY <1>0, <2>3, Zenon DEF Shapes
    <2> QED
      BY <1>1, <2>1, <2>4, Zenon DEF OnTrack, Topo
  <1> QED
    BY <1>3, <1>4, <1>5, <1>6, <1>7, <1>8, MovedInv

LEMMA ReadTagsInv ==
    ASSUME IInv, NEW c \in Calls, ReadTags(c)
    PROVE  IInv'
  <1> DEFINE Full == [ok |-> TRUE, labels |-> labels]
  <1>0. Shapes
    BY Zenon DEF IInv
  <1>1. /\ pc[c] = "read" /\ pc' = [pc EXCEPT ![c] = "restout"]
        /\ UNCHANGED <<setup, cfg, labels, host, todo, vc, converted, vm, registry, client>>
        /\ UNCHANGED history \/ Fault(c)
        /\ answer' = answer \/ answer' = [answer EXCEPT ![c] = Full]
    BY Zenon DEF ReadTags, fixed, search, At, Goto
  <1>2. /\ pc' \in [Calls -> Pcs] /\ pc' = [pc EXCEPT ![c] = pc'[c]] /\ pc'[c] = "restout"
    BY <1>0, <1>1, SMT DEF Shapes, Pcs
  <1>3. /\ answer' \in [Calls -> [ok : BOOLEAN, labels : {NoTopology, labels}]]
        /\ \A d \in Calls : d # c => answer'[d] = answer[d]
    <2> DEFINE A == [ok : BOOLEAN, labels : {NoTopology, labels}]
    <2>1. Full \in A
      BY SMT
    <2> HIDE DEF A, Full
    <2> QED
      BY <1>0, <1>1, <2>1, SMT DEF Shapes, A
  <1> USE HistoryMoves
  <1>4. Shapes'
    BY <1>0, <1>1, <1>2, <1>3, Zenon DEF Shapes
  <1>5. Moved(c)
    BY <1>1, <1>2, <1>3, Zenon DEF Moved
  <1>6. RegistryInv'
    BY <1>1, <1>2, <1>5, RegistryKept, Zenon DEF Early
  <1>7. LoneKept(c)
    BY <1>2, Zenon DEF LoneKept
  <1>8. CleanKept(c)
    <2> SUFFICES ASSUME Owns(c) PROVE Owns(c)'
      BY <1>1, <1>2, Zenon DEF CleanKept, Alone
    <2> QED
      BY <1>1, Zenon DEF Owns
  <1>9. TrackKept(c)
    <2> SUFFICES ASSUME Alone(c), c \notin struck', OnTrack(c) PROVE answer'[c] = Answer'
      BY <1>2, Zenon DEF TrackKept, OnTrack
    <2>1. vm[c] = c /\ c \in rest /\ Topo
      BY <1>1, Zenon DEF OnTrack
    <2>2. c # None
      BY NodeInfoAssumption, SMT DEF Calls, None
    <2>3. answer' = [answer EXCEPT ![c] = Full]
      BY <2>1, <2>2, Zenon DEF ReadTags
    <2>4. answer'[c] = Full
      BY <1>0, <2>3, Zenon DEF Shapes
    <2>5. Answer' = Full
      BY <1>1, <2>1, Zenon DEF Answer, Topo
    <2> QED
      BY <2>4, <2>5, Zenon
  <1> QED
    BY <1>4, <1>5, <1>6, <1>7, <1>8, <1>9, MovedInv

LEMMA RestLogoutInv ==
    ASSUME IInv, NEW c \in Calls, RestLogout(c)
    PROVE  IInv'
  <1>0. Shapes
    BY Zenon DEF IInv
  <1>1. /\ pc[c] = "restout" /\ pc' = [pc EXCEPT ![c] = "unregister"]
        /\ UNCHANGED <<setup, cfg, labels, host, todo, vc, converted, vm, answer, registry,
                       client, overlap, struck, stuck, crashed>>
        /\ faults' = faults \/ (faults < MaxFaults /\ faults' = faults + 1)
    BY Zenon DEF RestLogout, fixed, search, history, At, Goto
  <1>2. /\ pc' \in [Calls -> Pcs] /\ pc' = [pc EXCEPT ![c] = pc'[c]]
        /\ pc'[c] = "unregister"
    BY <1>0, <1>1, SMT DEF Shapes, Pcs
  <1>3. Shapes'
    <2>1. faults' \in 0..MaxFaults
      BY <1>0, <1>1, NodeInfoAssumption, SMT DEF Shapes
    <2> QED
      BY <1>0, <1>1, <1>2, <2>1, Zenon DEF Shapes
  <1>4. Moved(c)
    BY <1>1, <1>2, Zenon DEF Moved
  <1>5. RegistryInv'
    BY <1>1, <1>2, <1>4, RegistryKept, Zenon DEF Early
  <1>6. LoneKept(c)
    BY <1>2, Zenon DEF LoneKept
  <1>7. CleanKept(c)
    <2> SUFFICES ASSUME Owns(c) PROVE Owns(c)'
      BY <1>1, <1>2, Zenon DEF CleanKept, Alone
    <2> QED
      BY <1>1, Zenon DEF Owns
  <1>8. TrackKept(c)
    BY <1>1, <1>2, Zenon DEF TrackKept, OnTrack, Answer, Topo
  <1> QED
    BY <1>3, <1>4, <1>5, <1>6, <1>7, <1>8, MovedInv

-----------------------------------------------------------------------------
(* Unregistering *)

(* A function updated at a point that need not be in its domain. *)
LEMMA Updated ==
    ASSUME NEW D, NEW T, NEW f \in [D -> T], NEW o, NEW v \in T
    PROVE  /\ [f EXCEPT ![o] = v] \in [D -> T]
           /\ \A d \in D : [f EXCEPT ![o] = v][d] = IF d = o THEN v ELSE f[d]
  BY Zenon

LEMMA UnregisterAllInv ==
    ASSUME IInv, NEW c \in Calls, UnregisterAll(c)
    PROVE  IInv'
  <1>0. Shapes
    BY Zenon DEF IInv
  <1>1. PICK R : R = Registered
    OBVIOUS
  <1>2. R \subseteq Calls /\ (Owns(c) => R = {c})
    BY <1>1, RegisteredTypes, Zenon
  <1>3. /\ pc[c] = "unregister" /\ pc' = [pc EXCEPT ![c] = "range"]
        /\ todo' = [todo EXCEPT ![c] = R]
        /\ vc' = [vc EXCEPT ![c] = None] /\ vm' = [vm EXCEPT ![c] = None]
        /\ converted' = converted \ {c}
        /\ UNCHANGED <<setup, cfg, labels, host, answer, registry, client, history>>
    BY <1>1, Zenon DEF UnregisterAll, fixed, At, Goto
  <1>4. /\ pc' \in [Calls -> Pcs] /\ pc' = [pc EXCEPT ![c] = pc'[c]] /\ pc'[c] = "range"
    BY <1>0, <1>3, SMT DEF Shapes, Pcs
  <1>5. /\ todo' \in [Calls -> SUBSET Calls] /\ todo'[c] = R
        /\ vc' \in [Calls -> Calls \cup {None}] /\ vm' \in [Calls -> Calls \cup {None}]
    BY <1>0, <1>2, <1>3, SMT DEF Shapes
  <1> USE HistoryMoves
  <1>6. Shapes'
    BY <1>0, <1>3, <1>4, <1>5, Zenon DEF Shapes
  <1>7. Moved(c)
    BY <1>3, <1>4, Zenon DEF Moved
  <1>8. RegistryInv'
    BY <1>3, <1>4, <1>7, RegistryKept, Zenon DEF Early
  <1>9. LoneKept(c)
    BY <1>4, Zenon DEF LoneKept
  <1>10. CleanKept(c)
    <2> SUFFICES ASSUME Owns(c) PROVE Owns(c)' /\ todo'[c] = {c}
      BY <1>3, <1>4, Zenon DEF CleanKept, Alone
    <2> QED
      BY <1>2, <1>3, <1>5, Zenon DEF Owns
  <1>11. TrackKept(c)
    BY <1>3, <1>4, Zenon DEF TrackKept, OnTrack, Answer, Topo
  <1> QED
    BY <1>6, <1>7, <1>8, <1>9, <1>10, <1>11, MovedInv

LEMMA UnregisterNextInv ==
    ASSUME IInv, NEW c \in Calls, UnregisterNext(c)
    PROVE  IInv'
  <1> USE DEF At, Goto
  <1>0. Shapes /\ RegistryInv
    BY Zenon DEF IInv
  <1>1. /\ pc[c] = "range"
        /\ UNCHANGED <<setup, cfg, labels, host, converted, vm, answer, registry, client,
                       history>>
    BY Zenon DEF UnregisterNext, fixed
  <1> USE HistoryMoves
  <1>2. /\ Owns(c) => Owns(c)'
        /\ Empty => Empty'
        /\ Answer' = Answer
    BY <1>1, Zenon DEF Owns, Empty, Answer, Topo
  <1>3. ASSUME pc' \in [Calls -> Pcs], pc' = [pc EXCEPT ![c] = pc'[c]],
               pc'[c] \in {"done", "delete", "logout"},
               todo' \in [Calls -> SUBSET Calls], vc' \in [Calls -> Calls \cup {None}],
               LoneKept(c), CleanKept(c)
        PROVE  IInv'
    <2>1. Shapes'
      BY <1>0, <1>1, <1>3, Zenon DEF Shapes
    <2>2. Moved(c)
      BY <1>1, <1>3, Zenon DEF Moved
    <2>3. RegistryInv'
      BY <1>1, <1>3, <2>2, RegistryKept, Zenon DEF Early
    <2>4. TrackKept(c)
      BY <1>1, <1>2, <1>3, Zenon DEF TrackKept, OnTrack
    <2> QED
      BY <1>3, <2>1, <2>2, <2>3, <2>4, MovedInv
  <1>4. CASE /\ pc' = [pc EXCEPT ![c] = "done"] /\ vc' = vc
             /\ \/ todo[c] = {} /\ todo' = todo
                \/ /\ \E o \in todo[c] : host[o] \notin DOMAIN registry
                   /\ todo' = [todo EXCEPT ![c] = {}]
    <2>1. /\ pc' \in [Calls -> Pcs] /\ pc' = [pc EXCEPT ![c] = pc'[c]] /\ pc'[c] = "done"
      BY <1>0, <1>4, SMT DEF Shapes, Pcs
    <2>2. todo' \in [Calls -> SUBSET Calls] /\ vc' \in [Calls -> Calls \cup {None}]
      BY <1>0, <1>4, SMT DEF Shapes
    <2>3. LoneKept(c)
      BY <2>1, Zenon DEF LoneKept
    <2>4. CleanKept(c)
      <3> SUFFICES ASSUME \/ todo[c] = {c} /\ Owns(c)
                          \/ todo[c] = {} /\ Empty
                   PROVE  Empty'
        BY <1>1, <2>1, Zenon DEF CleanKept, Alone
      <3>1. CASE todo[c] = {c} /\ Owns(c)
        BY <1>4, <3>1, Zenon DEF Owns
      <3> QED
        BY <1>2, <3>1, Zenon
    <2> QED
      BY <1>3, <2>1, <2>2, <2>3, <2>4, Zenon
  <1>5. ASSUME NEW o \in todo[c], host[o] \in DOMAIN registry,
               NEW held, held = registry[host[o]],
               vc' = [vc EXCEPT ![c] = held], todo' = [todo EXCEPT ![c] = @ \ {o}],
               pc' = [pc EXCEPT ![c] = IF client[held] = "nil" THEN "delete" ELSE "logout"]
        PROVE  IInv'
    <2>1. held \in Calls
      BY <1>0, <1>5, Zenon DEF RegistryInv
    <2>2. /\ pc' \in [Calls -> Pcs] /\ pc' = [pc EXCEPT ![c] = pc'[c]]
          /\ pc'[c] = IF client[held] = "nil" THEN "delete" ELSE "logout"
      BY <1>0, <1>5, SMT DEF Shapes, Pcs
    <2>3. /\ todo' \in [Calls -> SUBSET Calls] /\ vc' \in [Calls -> Calls \cup {None}]
          /\ todo'[c] = todo[c] \ {o} /\ vc'[c] = held
      BY <1>0, <1>5, <2>1, SMT DEF Shapes
    <2>4. LoneKept(c)
      BY <1>1, <2>2, <2>3, Zenon DEF LoneKept
    <2>5. CleanKept(c)
      <3> SUFFICES ASSUME \/ todo[c] = {c} /\ Owns(c)
                          \/ todo[c] = {} /\ Empty
                   PROVE  Alone(c)'
        BY <1>1, <2>2, Zenon DEF CleanKept, Alone
      <3>1. todo[c] = {c} /\ Owns(c) /\ o = c
        BY <1>5, Zenon
      <3>2. held = c /\ todo'[c] = {} /\ vc'[c] = c
        BY <1>5, <2>3, <3>1, Zenon DEF Owns
      <3>3. pc'[c] = "delete" => client'[c] # "live"
        BY <1>1, <2>2, <3>2, Zenon
      <3>4. pc'[c] \in {"delete", "logout"}
        BY <2>2, Zenon
      <3> QED
        BY <1>2, <3>1, <3>2, <3>3, <3>4, Zenon DEF Alone
    <2>6. pc'[c] \in {"done", "delete", "logout"}
      BY <2>2, Zenon
    <2> QED
      BY <1>3, <2>2, <2>3, <2>4, <2>5, <2>6, Zenon
  <1> QED
    BY <1>4, <1>5, Zenon DEF UnregisterNext

LEMMA LogoutInv ==
    ASSUME IInv, NEW c \in Calls, Logout(c)
    PROVE  IInv'
  <1>0. Shapes
    BY Zenon DEF IInv
  <1>1. /\ pc[c] = "logout"
        /\ UNCHANGED <<setup, cfg, labels, host, vc, converted, answer, registry, overlap,
                       struck, crashed>>
        /\ Answer' = Answer
    BY Zenon DEF Logout, fixed, history, At, Answer, Topo
  <1>2. PICK o : o = vc[c]
    OBVIOUS
  <1>3. CASE /\ pc' = [pc EXCEPT ![c] = "clear"] /\ client' = [client EXCEPT ![o] = "ended"]
             /\ vm' = [d \in Calls |-> IF vm[d] = o THEN None ELSE vm[d]]
             /\ UNCHANGED <<todo, history>>
    <2>1. /\ pc' \in [Calls -> Pcs] /\ pc' = [pc EXCEPT ![c] = pc'[c]] /\ pc'[c] = "clear"
      BY <1>0, <1>3, SMT DEF Shapes, Pcs
    <2>2. /\ client' \in [Calls -> {"nil", "live", "ended"}]
          /\ \A d \in Calls : client'[d] = IF d = o THEN "ended" ELSE client[d]
      <3>1. /\ client \in [Calls -> {"nil", "live", "ended"}]
            /\ client' = [client EXCEPT ![o] = "ended"]
        BY <1>0, <1>3, Zenon DEF Shapes
      <3> QED
        BY <3>1, Updated, Zenon
    <2>3. vm' \in [Calls -> Calls \cup {None}]
      BY <1>0, <1>3, SMT DEF Shapes
    <2> USE HistoryMoves
    <2>4. Shapes'
      BY <1>0, <1>1, <1>3, <2>1, <2>2, <2>3, Zenon DEF Shapes
    <2>5. Moved(c)
      BY <1>1, <1>3, <2>1, Zenon DEF Moved
    <2>6. RegistryInv'
      BY <1>1, <2>1, <2>5, RegistryKept, Zenon DEF Early
    <2>7. LoneKept(c)
      BY <2>1, Zenon DEF LoneKept
    <2>8. CleanKept(c)
      <3> SUFFICES ASSUME Owns(c), todo[c] = {}, vc[c] = c
                   PROVE  Owns(c)' /\ client'[c] # "live"
        BY <1>1, <1>3, <2>1, Zenon DEF CleanKept, Alone
      <3> QED
        BY <1>1, <1>2, <2>2, Zenon DEF Owns
    <2>9. TrackKept(c)
      BY <1>1, <2>1, Zenon DEF TrackKept, OnTrack
    <2> QED
      BY <2>4, <2>5, <2>6, <2>7, <2>8, <2>9, MovedInv
  <1>4. CASE /\ client[o] = "ended" \/ faults < MaxFaults
             /\ pc' = [pc EXCEPT ![c] = "done"] /\ stuck' = TRUE
             /\ todo' = [todo EXCEPT ![c] = {}]
             /\ faults' = IF client[o] = "ended" THEN faults ELSE faults + 1
             /\ UNCHANGED <<client, vm>>
    <2>1. /\ pc' \in [Calls -> Pcs] /\ pc' = [pc EXCEPT ![c] = pc'[c]] /\ pc'[c] = "done"
      BY <1>0, <1>4, SMT DEF Shapes, Pcs
    <2>2. todo' \in [Calls -> SUBSET Calls] /\ faults' \in 0..MaxFaults
      BY <1>0, <1>4, NodeInfoAssumption, SMT DEF Shapes
    <2>3. Shapes'
      BY <1>0, <1>1, <1>4, <2>1, <2>2, Zenon DEF Shapes
    <2>4. Moved(c)
      BY <1>1, <1>4, <2>1, Zenon DEF Moved
    <2>5. RegistryInv'
      BY <1>1, <2>1, <2>4, RegistryKept, Zenon DEF Early
    <2>6. LoneKept(c) /\ CleanKept(c) /\ TrackKept(c)
      BY <1>4, <2>1, Zenon DEF LoneKept, CleanKept, TrackKept
    <2> QED
      BY <2>3, <2>4, <2>5, <2>6, MovedInv
  <1> QED
    BY <1>2, <1>3, <1>4, Zenon DEF Logout, Goto

LEMMA ClearInv ==
    ASSUME IInv, NEW c \in Calls, Clear(c)
    PROVE  IInv'
  <1>0. Shapes
    BY Zenon DEF IInv
  <1>1. /\ pc[c] = "clear" /\ pc' = [pc EXCEPT ![c] = "delete"]
        /\ client' = [client EXCEPT ![vc[c]] = "nil"]
        /\ UNCHANGED <<setup, cfg, labels, host, todo, vc, converted, vm, answer, registry,
                       history>>
    BY Zenon DEF Clear, fixed, search, At, Goto
  <1>2. /\ pc' \in [Calls -> Pcs] /\ pc' = [pc EXCEPT ![c] = pc'[c]] /\ pc'[c] = "delete"
    BY <1>0, <1>1, SMT DEF Shapes, Pcs
  <1>3. /\ client' \in [Calls -> {"nil", "live", "ended"}]
        /\ \A d \in Calls : client'[d] = IF d = vc[c] THEN "nil" ELSE client[d]
    <2>1. client \in [Calls -> {"nil", "live", "ended"}]
      BY <1>0, Zenon DEF Shapes
    <2> QED
      BY <1>1, <2>1, Updated, Zenon
  <1> USE HistoryMoves
  <1>4. Shapes'
    BY <1>0, <1>1, <1>2, <1>3, Zenon DEF Shapes
  <1>5. Moved(c)
    BY <1>1, <1>2, Zenon DEF Moved
  <1>6. RegistryInv'
    BY <1>1, <1>2, <1>5, RegistryKept, Zenon DEF Early
  <1>7. LoneKept(c)
    BY <1>2, Zenon DEF LoneKept
  <1>8. CleanKept(c)
    <2> SUFFICES ASSUME Owns(c), todo[c] = {}, vc[c] = c, client[c] # "live"
                 PROVE  Owns(c)' /\ client'[c] # "live"
      BY <1>1, <1>2, Zenon DEF CleanKept, Alone
    <2> QED
      BY <1>1, <1>3, Zenon DEF Owns
  <1>9. TrackKept(c)
    BY <1>1, <1>2, Zenon DEF TrackKept, OnTrack, Answer, Topo
  <1> QED
    BY <1>4, <1>5, <1>6, <1>7, <1>8, <1>9, MovedInv

LEMMA DeleteInv ==
    ASSUME IInv, NEW c \in Calls, Delete(c)
    PROVE  IInv'
  <1>0. Shapes /\ RegistryInv
    BY Zenon DEF IInv
  <1>1. /\ pc[c] = "delete" /\ pc' = [pc EXCEPT ![c] = "range"]
        /\ registry' = [h \in DOMAIN registry \ {host[vc[c]]} |-> registry[h]]
        /\ vc' = [vc EXCEPT ![c] = None]
        /\ UNCHANGED <<setup, cfg, labels, host, todo, converted, vm, answer, client, history>>
    BY Zenon DEF Delete, fixed, At, Goto
  <1>2. /\ pc' \in [Calls -> Pcs] /\ pc' = [pc EXCEPT ![c] = pc'[c]] /\ pc'[c] = "range"
        /\ vc' \in [Calls -> Calls \cup {None}]
    BY <1>0, <1>1, SMT DEF Shapes, Pcs
  <1> USE HistoryMoves
  <1>3. Shapes'
    BY <1>0, <1>1, <1>2, Zenon DEF Shapes
  <1>4. Moved(c)
    BY <1>1, <1>2, Zenon DEF Moved
  <1>5. RegistryInv'
    <2> SUFFICES ASSUME NEW h \in DOMAIN registry'
                 PROVE  /\ registry'[h] \in Calls /\ host[registry'[h]] = h
                        /\ pc'[registry'[h]] \notin Early
      BY <1>1, Zenon DEF RegistryInv
    <2>1. h \in DOMAIN registry /\ registry'[h] = registry[h]
      BY <1>1, SMT
    <2>2. PICK o : o = registry[h]
      OBVIOUS
    <2>3. o \in Calls /\ host[o] = h /\ pc[o] \notin Early
      BY <1>0, <2>1, <2>2, Zenon DEF RegistryInv
    <2>4. pc'[o] \notin Early
      BY <1>2, <1>4, <2>3, MovedPcs, Zenon DEF Early
    <2> QED
      BY <2>1, <2>2, <2>3, <2>4, Zenon
  <1>6. LoneKept(c)
    BY <1>2, Zenon DEF LoneKept
  <1>7. CleanKept(c)
    <2> SUFFICES ASSUME Owns(c), todo[c] = {}, vc[c] = c, client[c] # "live"
                 PROVE  Empty'
      BY <1>1, <1>2, Zenon DEF CleanKept, Alone
    <2>1. DOMAIN registry \ {host[vc[c]]} = {}
      BY Zenon DEF Owns
    <2>2. PICK D : D = DOMAIN registry \ {host[vc[c]]}
      OBVIOUS
    <2>3. registry' = [h \in D |-> registry[h]] /\ D = {}
      BY <1>1, <2>1, <2>2, Zenon
    <2>4. registry' = << >>
      BY <2>3
    <2>5. \A d \in Calls : client'[d] # "live"
      BY <1>1, Zenon DEF Owns
    <2> QED
      BY <2>4, <2>5, Zenon DEF Empty
  <1>8. TrackKept(c)
    BY <1>1, <1>2, Zenon DEF TrackKept, OnTrack, Answer, Topo
  <1> QED
    BY <1>3, <1>4, <1>5, <1>6, <1>7, <1>8, MovedInv

-----------------------------------------------------------------------------
(* A panic, and a new call *)

LEMMA UseNilInv ==
    ASSUME IInv, NEW c \in Calls, UseNil(c)
    PROVE  IInv'
  <1>0. Shapes
    BY Zenon DEF IInv
  <1>1. /\ pc' = [d \in Calls |-> IF d \in Running THEN "done" ELSE pc[d]]
        /\ registry' = << >> /\ client' = [d \in Calls |-> "nil"]
        /\ todo' = [d \in Calls |-> {}] /\ vc' = [d \in Calls |-> None]
        /\ vm' = [d \in Calls |-> None]
        /\ crashed' = Running
        /\ UNCHANGED <<setup, cfg, labels, host, answer, overlap, struck, faults>>
    BY Zenon DEF UseNil, Panic, fixed
  <1>2. c \in Running /\ c \in overlap /\ Running \subseteq overlap
    <2>1. c \in Running
      BY Zenon DEF UseNil, Running
    <2>2. c \in overlap
      BY <2>1, Zenon DEF IInv, LoneInv, UseNil
    <2> QED
      BY <2>1, <2>2, Zenon DEF IInv, OverlapInv
  <1>3. Shapes'
    <2>1. pc' \in [Calls -> Pcs]
      BY <1>0, <1>1, SMT DEF Shapes, Pcs
    <2>2. /\ client' \in [Calls -> {"nil", "live", "ended"}]
          /\ todo' \in [Calls -> SUBSET Calls]
          /\ vc' \in [Calls -> Calls \cup {None}] /\ vm' \in [Calls -> Calls \cup {None}]
      BY <1>1, SMT
    <2> QED
      BY <1>0, <1>1, <2>1, <2>2, Zenon DEF Shapes
  <1>4. Running' = {}
    BY <1>1, Zenon DEF Running
  <1>5. DOMAIN registry' = {}
    BY <1>1, SMT
  <1>6. Fixed'
    BY <1>1, FixedKept, Zenon DEF IInv
  <1>7. RegistryInv' /\ OverlapInv' /\ LoneInv'
    BY <1>4, <1>5, Zenon DEF RegistryInv, OverlapInv, LoneInv
  <1>8. NoLonePanic'
    BY <1>1, <1>2, Zenon DEF NoLonePanic
  <1>9. CleanInv' /\ TrackInv'
    BY <1>1, <1>2, Zenon DEF CleanInv, TrackInv
  <1> QED
    BY <1>3, <1>6, <1>7, <1>8, <1>9, Zenon DEF IInv

LEMMA CallInv ==
    ASSUME IInv, NEW c \in Calls, Call(c)
    PROVE  IInv'
  <1>0. Shapes /\ RegistryInv
    BY Zenon DEF IInv
  <1>1. /\ pc[c] = "idle" /\ pc' = [pc EXCEPT ![c] = "config"]
        /\ overlap' = IF Running = {} THEN overlap ELSE overlap \cup Running \cup {c}
        /\ UNCHANGED <<setup, cfg, labels, host, todo, vc, converted, vm, answer, registry,
                       client, struck, stuck, crashed, faults>>
    BY Zenon DEF Call, fixed, search, At, Goto
  <1>2. /\ pc' \in [Calls -> Pcs] /\ pc'[c] = "config"
        /\ \A d \in Calls : d # c => pc'[d] = pc[d]
    BY <1>0, <1>1, SMT DEF Shapes, Pcs
  <1>3. Running' = Running \cup {c} /\ c \notin Running
    BY <1>1, <1>2, Zenon DEF Running
  <1>4. Fixed' /\ Shapes'
    BY <1>0, <1>1, <1>2, FixedKept, Zenon DEF IInv, Shapes
  <1>5. RegistryInv'
    <2> SUFFICES ASSUME NEW h \in DOMAIN registry
                 PROVE  /\ registry[h] \in Calls /\ host[registry[h]] = h
                        /\ pc'[registry[h]] \notin Early
      BY <1>1, Zenon DEF RegistryInv
    <2>1. PICK o : o = registry[h]
      OBVIOUS
    <2>2. o \in Calls /\ host[o] = h /\ pc[o] \notin Early
      BY <1>0, <2>1, Zenon DEF RegistryInv
    <2>3. o # c
      BY <1>1, <2>2, Zenon DEF Early
    <2> QED
      BY <1>2, <2>1, <2>2, <2>3, Zenon
  <1>6. OverlapInv'
    BY <1>1, <1>3, Zenon DEF IInv, OverlapInv
  <1>7. LoneInv'
    BY <1>1, <1>2, <1>3, Zenon DEF LoneInv
  <1>8. NoLonePanic'
    BY <1>1, Zenon DEF IInv, NoLonePanic
  <1>9. overlap' = {} => Running = {} /\ overlap = {}
    BY <1>1, Zenon
  <1>10. CleanInv'
    <2> SUFFICES ASSUME overlap' = {}, ~ stuck
                 PROVE  (Running' = {} => Empty') /\ \A d \in Running' : Alone(d)'
      BY <1>1, Zenon DEF CleanInv
    <2>1. Empty
      BY <1>9, Zenon DEF IInv, CleanInv
    <2>2. Empty'
      BY <1>1, <2>1, Zenon DEF Empty
    <2>3. Alone(c)'
      BY <1>2, <2>2, Zenon DEF Alone
    <2> QED
      BY <1>3, <1>9, <2>2, <2>3, Zenon
  <1>11. TrackInv'
    <2> SUFFICES ASSUME overlap' = {}, ~ stuck, Usable, NEW d \in Calls, d \notin struck
                 PROVE  OnTrack(d)'
      BY <1>1, Zenon DEF TrackInv, Usable, S
    <2>1. OnTrack(d)
      BY <1>9, Zenon DEF IInv, TrackInv
    <2>2. Answer' = Answer /\ answer' = answer /\ converted' = converted
      BY <1>1, Zenon DEF Answer, Topo
    <2>3. CASE d = c
      BY <1>1, <1>2, <2>1, <2>2, <2>3, Zenon DEF OnTrack
    <2>4. CASE d # c
      <3>1. pc'[d] = pc[d] /\ pc[d] \in {"idle", "done"}
        BY <1>2, <1>9, <2>4, Zenon DEF Running
      <3> QED
        BY <2>1, <2>2, <3>1, Zenon DEF OnTrack
    <2> QED
      BY <2>3, <2>4
  <1> QED
    BY <1>4, <1>5, <1>6, <1>7, <1>8, <1>10, <1>11, Zenon DEF IInv

-----------------------------------------------------------------------------
(* Every step *)

LEMMA NextIInv == IInv /\ [Next]_vars => IInv'
  <1> SUFFICES ASSUME IInv, [Next]_vars PROVE IInv'
    OBVIOUS
  <1>1. ASSUME NEW c \in Calls, Call(c) \/ Steps(c) PROVE IInv'
    BY <1>1, CallInv, GetConfigInv, RegisterLoadInv, RegisterStoreInv, ConnectInv,
       getSystemUUIDInv, NotFoundInv, VisitInv, FindInv, GetTagManagerInv, ReadTagsInv,
       RestLogoutInv, UnregisterAllInv, UnregisterNextInv, LogoutInv, ClearInv, DeleteInv,
       UseNilInv, Zenon DEF Steps
  <1>2. CASE UNCHANGED vars
    <2>1. /\ UNCHANGED <<setup, cfg, labels, pc, host, todo, vc, converted, vm, answer,
                         registry, client, rest, lost, overlap, struck, stuck, crashed, faults>>
      BY <1>2, Zenon DEF vars, fixed, search, sessions, history
    <2>2. Fixed'
      BY <2>1, FixedKept, Zenon DEF IInv
    <2>3. Shapes' /\ RegistryInv' /\ OverlapInv' /\ LoneInv' /\ NoLonePanic'
      BY <2>1, Zenon DEF IInv, Shapes, RegistryInv, OverlapInv, LoneInv, NoLonePanic, Running
    <2>4. CleanInv'
      <3>1. Running' = Running /\ (Empty => Empty')
        BY <2>1, Zenon DEF Running, Empty
      <3>2. ASSUME NEW c \in Calls PROVE Alone(c) => Alone(c)'
        BY <2>1, <3>1, Zenon DEF Alone, Owns
      <3>3. Running \subseteq Calls
        BY Zenon DEF Running
      <3> QED
        BY <2>1, <3>1, <3>2, <3>3, Zenon DEF IInv, CleanInv
    <2>5. TrackInv'
      BY <2>1, Zenon DEF IInv, TrackInv, OnTrack, Usable, S, Answer, Topo
    <2> QED
      BY <2>2, <2>3, <2>4, <2>5, Zenon DEF IInv
  <1> QED
    BY <1>1, <1>2, Zenon DEF Next

(* No step changes the node or its configuration. *)
LEMMA FixedStep ==
    ASSUME Next \/ UNCHANGED vars
    PROVE  UNCHANGED <<setup, cfg, labels>>
  BY ZenonT(30) DEF Next, Steps, vars, fixed, Call, GetConfig, RegisterLoad, RegisterStore, Connect,
     getSystemUUID, NotFound, Visit, Find, GetTagManager, ReadTags, RestLogout, UnregisterAll,
     UnregisterNext, Logout, Clear, Delete, UseNil, Panic

-----------------------------------------------------------------------------
(* The sessions that no client holds *)

SessionsInv ==
    /\ rest \subseteq Calls /\ lost \subseteq Calls
    /\ \A c \in rest : pc[c] \in {"read", "restout"}
    /\ overlap = {} /\ faults = 0 => lost = {}

(* What a step of c that is not a panic does to them. *)
Shifts(c) ==
    /\ \E l : /\ pc' = [pc EXCEPT ![c] = l]
              /\ \/ rest' = rest /\ pc[c] \notin {"read", "restout"}
                 \/ rest' \in {rest, rest \cup {c}} /\ l \in {"read", "restout"}
                 \/ rest' = rest \ {c}
    /\ overlap \subseteq overlap'
    /\ \/ lost' = lost /\ faults' \in {faults, faults + 1}
       \/ lost' = lost \cup {c} /\ faults' = faults + 1

LEMMA ShiftsInv ==
    ASSUME IInv, SessionsInv, NEW c \in Calls, Shifts(c)
    PROVE  SessionsInv'
  <1>1. pc \in [Calls -> Pcs] /\ faults \in 0..MaxFaults
    BY Zenon DEF IInv, Shapes
  <1>2. rest' \subseteq Calls /\ lost' \subseteq Calls
    BY Zenon DEF SessionsInv, Shifts
  <1>3. \A d \in rest' : pc'[d] \in {"read", "restout"}
    BY <1>1, SMT DEF SessionsInv, Shifts
  <1>4. overlap' = {} => overlap = {}
    BY Zenon DEF Shifts
  <1>5. faults' = 0 => faults = 0 /\ lost' = lost
    BY <1>1, NodeInfoAssumption, SMT DEF Shifts
  <1> QED
    BY <1>2, <1>3, <1>4, <1>5, Zenon DEF SessionsInv

LEMMA NextSessionsInv == IInv /\ SessionsInv /\ [Next]_vars => SessionsInv'
  <1> SUFFICES ASSUME IInv, SessionsInv, [Next]_vars PROVE SessionsInv'
    OBVIOUS
  <1>1. CASE UNCHANGED vars
    BY <1>1, Zenon DEF SessionsInv, vars, sessions, history
  <1>2. ASSUME NEW c \in Calls, Call(c) \/ Steps(c) PROVE SessionsInv'
    <2> USE DEF sessions, history, Fault, Shifts, At, Goto
    <2>1. CASE Call(c)
      BY <2>1, ShiftsInv, Zenon DEF Call
    <2>2. CASE GetConfig(c)
      BY <2>2, ShiftsInv, Zenon DEF GetConfig
    <2>3. CASE RegisterLoad(c) \/ RegisterStore(c)
      BY <2>3, ShiftsInv, Zenon DEF RegisterLoad, RegisterStore
    <2>4. CASE Connect(c)
      BY <2>4, ShiftsInv, Zenon DEF Connect, ConnectFails
    <2>5. SearchEnds(c) \/ BeginSearch(c) => \E l : pc' = [pc EXCEPT ![c] = l]
      BY Zenon DEF SearchEnds, BeginSearch
    <2>6. CASE getSystemUUID(c)
      BY <2>5, <2>6, ShiftsInv, Zenon DEF getSystemUUID
    <2>7. CASE NotFound(c)
      BY <2>5, <2>7, ShiftsInv, Zenon DEF NotFound
    <2>8. CASE Visit(c)
      BY <2>5, <2>8, ShiftsInv, Zenon DEF Visit, ConnectFails
    <2>9. CASE Find(c)
      BY <2>5, <2>9, ShiftsInv, Zenon DEF Find
    <2>10. CASE GetTagManager(c)
      BY <2>10, ShiftsInv, Zenon DEF GetTagManager
    <2>11. CASE ReadTags(c)
      BY <2>11, ShiftsInv, Zenon DEF ReadTags
    <2>12. CASE RestLogout(c)
      BY <2>12, ShiftsInv, Zenon DEF RestLogout
    <2>13. CASE UnregisterAll(c)
      BY <2>13, ShiftsInv, Zenon DEF UnregisterAll
    <2>14. CASE UnregisterNext(c)
      BY <2>14, ShiftsInv, Zenon DEF UnregisterNext
    <2>15. CASE Logout(c)
      BY <2>15, ShiftsInv, Zenon DEF Logout
    <2>16. CASE Clear(c) \/ Delete(c)
      BY <2>16, ShiftsInv, Zenon DEF Clear, Delete
    <2>17. CASE UseNil(c)
      <3>1. c \in Running
        BY <2>17, Zenon DEF UseNil, Running
      <3>2. c \in overlap
        BY <2>17, <3>1, Zenon DEF IInv, LoneInv, UseNil
      <3>3. /\ rest' = {} /\ overlap' = overlap
            /\ lost' = lost \cup rest \cup {d \in Calls : client[d] = "live"}
        BY <2>17, Zenon DEF UseNil, Panic
      <3> QED
        BY <3>2, <3>3, Zenon DEF SessionsInv
    <2> QED
      BY <1>2, <2>1, <2>2, <2>3, <2>4, <2>6, <2>7, <2>8, <2>9, <2>10, <2>11, <2>12, <2>13,
         <2>14, <2>15, <2>16, <2>17, Zenon DEF Steps
  <1> QED
    BY <1>1, <1>2, Zenon DEF Next

-----------------------------------------------------------------------------
(* The configuration and the labels *)

INSTANCE TopologyProofs

(* The vCenter that the variable i names, if none after it does, has the   *)
(* password that the first variable j for that id gives it.                *)
LEMMA EnvironmentFirst ==
    ASSUME NEW g, NEW env, DOMAIN env \subseteq Nat,
           NEW h, NEW i \in Naming(env), env[i].value = h,
           \A k \in Naming(env) : env[k].value = h => k <= i,
           NEW j \in Pairs(env), env[j].key = <<"VCENTER", env[i].key[2], "PASSWORD">>,
           \A k \in Pairs(env) : env[k].key = env[j].key => j <= k
    PROVE  /\ h \in DOMAIN VirtualCenters(g, env)
           /\ VirtualCenters(g, env)[h].password = env[j].value
  <1> DEFINE id    == env[i].key[2]
             named == {env[k].value : k \in Naming(env)}
             last(x) == env[Max({k \in Naming(env) : env[k].value = x})].key[2]
  <1>1. Pairs(env) \subseteq Nat /\ Naming(env) \subseteq Nat
    BY Zenon DEF Pairs, Naming
  <1>2. Max({k \in Naming(env) : env[k].value = h}) = i
    <2> DEFINE A == {k \in Naming(env) : env[k].value = h}
    <2>1. A \subseteq Nat /\ i \in A /\ \A k \in A : k <= i
      BY <1>1, Zenon
    <2> HIDE DEF A
    <2>2. Max(A) = i
      BY <2>1, MaxIs, Zenon
    <2> QED
      BY <2>2 DEF A
  <1>3. last(h) = id
    BY <1>2, Zenon
  <1>4. getEnvKeyValue(env, <<"VCENTER", id, "PASSWORD">>, g.password) = env[j].value
    <2> DEFINE A == {k \in Pairs(env) : env[k].key = <<"VCENTER", id, "PASSWORD">>}
    <2>1. A \subseteq Nat /\ j \in A /\ \A k \in A : j <= k
      BY <1>1, Zenon
    <2>2. getEnvKeyValue(env, <<"VCENTER", id, "PASSWORD">>, g.password)
             = IF A = {} THEN g.password ELSE env[Min(A)].value
      BY Zenon DEF getEnvKeyValue
    <2> HIDE DEF A
    <2>3. Min(A) = j /\ A # {}
      BY <2>1, MinIs, Zenon
    <2> QED
      BY <2>2, <2>3, Zenon
  <1>5. FromId(g, env, id).password = env[j].value
    BY <1>4, SMT DEF FromId
  <1>6. h \in named
    BY Zenon
  <1>7. VirtualCenters(g, env)
          = Override([x \in named |-> FromId(g, env, last(x))],
                     Override(g.vcs, FromGlobals(g)))
    BY Zenon DEF VirtualCenters
  <1> HIDE DEF named, last
  <1>8. /\ h \in DOMAIN VirtualCenters(g, env)
        /\ VirtualCenters(g, env)[h] = FromId(g, env, last(h))
    BY <1>6, <1>7, Zenon DEF Override
  <1> QED
    BY <1>3, <1>5, <1>8, Zenon

(* A configuration that validateConfig accepts is complete, and keeps the  *)
(* passwords it was given.                                                 *)
LEMMA ValidIsSound ==
    ASSUME NEW g, {"vcs", "port"} \subseteq DOMAIN g, validateConfig(g).ok,
           NEW h \in DOMAIN validateConfig(g).cfg.vcs
    PROVE  LET got == validateConfig(g).cfg.vcs[h]
           IN  /\ h # "" /\ "" \notin {got.user, got.password, got.port}
               /\ g.vcs[h].password # "" => got.password = g.vcs[h].password
  <1> DEFINE port == Or(g.port, DefaultVCenterPort)
             entry(x) == [user     |-> Or(g.vcs[x].user, g.user),
                          password |-> Or(g.vcs[x].password, g.password),
                          port     |-> Or(g.vcs[x].port, port),
                          insecure |-> g.vcs[x].insecure \/ g.insecure,
                          dcs      |-> Or(g.vcs[x].dcs, g.dcs)]
             vcs == [x \in DOMAIN g.vcs |-> entry(x)]
             ok  == /\ vcs # << >>
                    /\ \A x \in DOMAIN vcs : x # "" /\ vcs[x].user # "" /\ vcs[x].password # ""
             out == [g EXCEPT !.port = port, !.vcs = vcs]
  <1>1. validateConfig(g) = [ok |-> ok, cfg |-> out]
    BY Zenon DEF validateConfig
  <1>2. port # ""
    BY Zenon DEF Or, DefaultVCenterPort
  <1>3. entry(h).port # ""
    <2>1. Or(g.vcs[h].port, port) # ""
      BY <1>2, Zenon DEF Or
    <2> HIDE DEF port
    <2> QED
      BY <2>1, Zenon
  <1>4. g.vcs[h].password # "" => entry(h).password = g.vcs[h].password
    BY Zenon DEF Or
  <1> HIDE DEF port, entry
  <1>5. ok
    <2> HIDE DEF ok, out
    <2> QED
      BY <1>1
  <1>6. validateConfig(g).cfg = out
    <2> HIDE DEF ok, out
    <2> QED
      BY <1>1
  <1>7. out.vcs = vcs
    <2> HIDE DEF vcs
    <2> QED
      BY SMT
  <1>8. h \in DOMAIN vcs /\ validateConfig(g).cfg.vcs[h] = entry(h) /\ vcs[h] = entry(h)
    BY <1>6, <1>7, Zenon
  <1>9. h # "" /\ entry(h).user # "" /\ entry(h).password # ""
    BY <1>5, <1>8, Zenon
  <1> QED
    BY <1>3, <1>4, <1>8, <1>9, Zenon

(* What GetCnsconfig returns is sound. *)
LEMMA InitConfig ==
    ASSUME Init
    PROVE  ConfigSound
  <1> DEFINE file == S.file
             env  == S.env
             g    == Globals(file, env)
             full == [g EXCEPT !.vcs = VirtualCenters(g, env)]
  <1>1. cfg = validateConfig(full)
    BY Zenon DEF Init, S, GetCnsconfig, FromEnv
  <1>2. DOMAIN env \subseteq Nat /\ {"vcs", "port"} \subseteq DOMAIN file
    <2>1. DOMAIN env \subseteq Nat /\ DOMAIN file = DOMAIN EmptyConfig
      BY SetupsAssumption, Zenon DEF Init, S
    <2>2. {"vcs", "port"} \subseteq DOMAIN EmptyConfig
      BY SMT DEF EmptyConfig
    <2> QED
      BY <2>1, <2>2, Zenon
  <1>3. DOMAIN g = DOMAIN file
    <2> HIDE DEF file, env
    <2> QED
      BY Zenon DEF Globals
  <1> HIDE DEF g, file, env
  <1>4. {"vcs", "port"} \subseteq DOMAIN full /\ full.vcs = VirtualCenters(g, env)
    BY <1>2, <1>3, SMT
  <1> HIDE DEF full
  <1>5. SUFFICES ASSUME cfg.ok, NEW h \in DOMAIN cfg.cfg.vcs
                 PROVE  Sound(h, cfg.cfg.vcs[h], env)
    BY Zenon DEF ConfigSound, env
  <1>6. LET got == cfg.cfg.vcs[h]
        IN  /\ h # "" /\ "" \notin {got.user, got.password, got.port}
            /\ full.vcs[h].password # "" => got.password = full.vcs[h].password
    BY <1>1, <1>4, <1>5, ValidIsSound, Zenon
  <1>7. ASSUME NEW i \in Naming(env), env[i].value = h,
               NEW j \in Pairs(env),
               env[j].key = <<"VCENTER", env[i].key[2], "PASSWORD">>,
               \A k \in Naming(env) : env[k].value = h => k <= i,
               \A k \in Pairs(env) : env[k].key = env[j].key => j <= k
        PROVE  VirtualCenters(g, env)[h].password = env[j].value
    BY <1>2, <1>7, EnvironmentFirst
  <1>8. ASSUME NEW i \in {k \in Naming(env) : env[k].value = h},
               NEW j \in {k \in Pairs(env) :
                           env[k].key = <<"VCENTER", env[i].key[2], "PASSWORD">>},
               \A k \in {l \in Naming(env) : env[l].value = h} : k <= i,
               \A k \in {l \in Pairs(env) :
                           env[l].key = <<"VCENTER", env[i].key[2], "PASSWORD">>} : j <= k,
               env[j].value # ""
        PROVE  cfg.cfg.vcs[h].password = env[j].value
    <2>1. \A k \in Naming(env) : env[k].value = h => k <= i
      BY <1>8, Zenon
    <2>2. \A k \in Pairs(env) : env[k].key = env[j].key => j <= k
      BY <1>8, Zenon
    <2>3. VirtualCenters(g, env)[h].password = env[j].value
      BY <1>7, <2>1, <2>2, Zenon
    <2> QED
      BY <1>4, <1>6, <1>8, <2>3, Zenon
  <1> QED
    BY <1>6, <1>8, Zenon DEF Sound

(* The labels of a node are whole. *)
LEMMA LabelsWhole ==
    ASSUME NEW inv, NEW n
    PROVE  Whole(NodeLabels(inv, n))
  <1>1. PICK zr : zr = GetZoneRegion(inv, n)
    OBVIOUS
  <1>2. NodeLabels(inv, n) = IF zr.zone # "" /\ zr.region # "" THEN zr ELSE NoTopology
    BY <1>1, Zenon DEF NodeLabels
  <1>3. CASE zr.zone # "" /\ zr.region # ""
    BY <1>2, <1>3, Zenon DEF Whole
  <1>4. CASE ~ (zr.zone # "" /\ zr.region # "")
    <2>1. NodeLabels(inv, n) = NoTopology
      BY <1>2, <1>4, Zenon
    <2>2. NoTopology.zone = "" /\ NoTopology.region = ""
      BY Zenon DEF NoTopology
    <2> QED
      BY <2>1, <2>2, Zenon DEF Whole
  <1> QED
    BY <1>3, <1>4

-----------------------------------------------------------------------------
(* All behaviours *)

LEMMA InitInv == Init => IInv
  <1> SUFFICES ASSUME Init PROVE IInv
    OBVIOUS
  <1>0. /\ pc = [c \in Calls |-> "idle"] /\ host = [c \in Calls |-> ""]
        /\ todo = [c \in Calls |-> {}] /\ vc = [c \in Calls |-> None]
        /\ converted = {} /\ vm = [c \in Calls |-> None]
        /\ answer = [c \in Calls |-> NoAnswer] /\ registry = << >>
        /\ client = [c \in Calls |-> "nil"] /\ crashed = {} /\ faults = 0
    BY Zenon DEF Init
  <1>1. Running = {} /\ DOMAIN registry = {} /\ \A c \in Calls : client[c] # "live"
    <2>1. Running = {} /\ \A c \in Calls : client[c] # "live"
      BY <1>0, Zenon DEF Running
    <2>2. registry = << >>
      BY <1>0, Zenon
    <2>3. DOMAIN registry = {}
      BY <2>2, SMT
    <2> QED
      BY <2>1, <2>3, Zenon
  <1>2. Fixed
    BY InitConfig, LabelsWhole, Zenon DEF Init, Fixed, S
  <1>3. Shapes
    <2>1. /\ pc \in [Calls -> Pcs] /\ todo \in [Calls -> SUBSET Calls]
          /\ vc \in [Calls -> Calls \cup {None}] /\ vm \in [Calls -> Calls \cup {None}]
          /\ client \in [Calls -> {"nil", "live", "ended"}]
      BY <1>0, Zenon DEF Pcs
    <2>2. host = [c \in Calls |-> host[c]]
      <3>1. \A c \in Calls : host[c] = ""
        BY <1>0, Zenon
      <3> QED
        BY <1>0, <3>1, Zenon
    <2>3. faults \in 0..MaxFaults
      <3>1. faults = 0
        BY <1>0, Zenon
      <3> QED
        BY <3>1, NodeInfoAssumption, SMT
    <2>4. answer \in [Calls -> [ok : BOOLEAN, labels : {NoTopology, labels}]]
      <3>1. NoAnswer \in [ok : BOOLEAN, labels : {NoTopology, labels}]
        BY SMT DEF NoAnswer
      <3> QED
        BY <1>0, <3>1, Zenon
    <2> QED
      BY <2>1, <2>2, <2>3, <2>4, Zenon DEF Shapes
  <1>4. RegistryInv /\ OverlapInv /\ LoneInv
    BY <1>1, Zenon DEF RegistryInv, OverlapInv, LoneInv
  <1>5. NoLonePanic
    BY <1>0, Zenon DEF NoLonePanic
  <1>6. CleanInv
    BY <1>0, <1>1, Zenon DEF CleanInv, Empty
  <1>7. TrackInv
    <2> SUFFICES ASSUME NEW c \in Calls PROVE OnTrack(c)
      BY Zenon DEF TrackInv
    <2>1. pc[c] = "idle" /\ answer[c] = NoAnswer /\ c \notin converted
      BY <1>0, Zenon
    <2> QED
      BY <2>1, Zenon DEF OnTrack
  <1> QED
    BY <1>2, <1>3, <1>4, <1>5, <1>6, <1>7, Zenon DEF IInv

LEMMA AlwaysIInv == Spec => []IInv
  BY InitInv, NextIInv, PTL DEF Spec

LEMMA AlwaysSessionsInv == Spec => []SessionsInv
  <1>1. Init => SessionsInv
    BY Zenon DEF Init, SessionsInv
  <1> QED
    BY <1>1, NextSessionsInv, AlwaysIInv, PTL DEF Spec

(* The registry holds the objects of calls under their own hosts, and an   *)
(* answer has a zone and a region or neither.                              *)
THEOREM NodeInfoTypes == Spec => []TypeOK
  <1>1. IInv /\ SessionsInv => TypeOK
    <2> SUFFICES ASSUME IInv, SessionsInv PROVE TypeOK
      OBVIOUS
    <2>1. Shapes /\ RegistryInv /\ Whole(labels)
      BY Zenon DEF IInv, Fixed
    <2>2. ASSUME NEW c \in Calls
          PROVE  /\ todo[c] \subseteq Calls
                 /\ vc[c] \in Calls \cup {None} /\ vm[c] \in Calls \cup {None}
      BY <2>1, SMT DEF Shapes
    <2>3. ASSUME NEW c \in Calls
          PROVE  (answer[c].labels.zone = "") = (answer[c].labels.region = "")
      <3>1. answer[c] \in [ok : BOOLEAN, labels : {NoTopology, labels}]
        BY <2>1, Zenon DEF Shapes
      <3>2. answer[c].labels \in {NoTopology, labels}
        BY <3>1, SMT
      <3>3. NoTopology.zone = "" /\ NoTopology.region = ""
        BY Zenon DEF NoTopology
      <3>4. Whole(answer[c].labels)
        BY <2>1, <3>2, <3>3, Zenon DEF Whole
      <3> QED
        BY <3>4, Zenon DEF Whole
    <2> QED
      BY <2>1, <2>2, <2>3, Zenon DEF TypeOK, SessionsInv, Shapes, RegistryInv, Pcs
  <1> QED
    BY <1>1, AlwaysIInv, AlwaysSessionsInv, PTL

(* Whatever the file and the environment say, the settings GetCnsconfig    *)
(* accepts have a user, a password and a port for every host, and a        *)
(* password without an = sign that the environment has for the id of a     *)
(* vCenter is the one it gets.                                             *)
THEOREM ConfigAlwaysSound == Spec => []ConfigSound
  <1>1. IInv => ConfigSound
    BY Zenon DEF IInv, Fixed
  <1> QED
    BY <1>1, AlwaysIInv, PTL

(* A nil client is used only in a call that another one has overlapped.    *)
THEOREM LoneCallsNeverPanic == Spec => []NoLonePanic
  <1>1. IInv => NoLonePanic
    BY Zenon DEF IInv
  <1> QED
    BY <1>1, AlwaysIInv, PTL

(* No call leaves its REST session open.  Calls that do not overlap leave  *)
(* no client logged in and no registered vCenter, however they end, unless *)
(* a logout fails; and the sessions that no client holds come from         *)
(* failures, of a login's answer or of a REST logout.                      *)
THEOREM NothingEverLeft == Spec => []NothingLeft
  <1>1. IInv /\ SessionsInv => NothingLeft
    <2> SUFFICES ASSUME IInv, SessionsInv, Running = {} PROVE NothingLeft
      BY Zenon DEF NothingLeft
    <2>1. rest = {}
      BY Zenon DEF SessionsInv, Running
    <2> QED
      BY <2>1, Zenon DEF IInv, CleanInv, SessionsInv, NothingLeft, Empty
  <1> QED
    BY <1>1, AlwaysIInv, AlwaysSessionsInv, PTL

(* The answer has the nearest tags, both or none. *)
LEMMA AnswerExpected ==
    ASSUME Fixed
    PROVE  Answer = [ok |-> TRUE, labels |-> Expected]
  <1> DEFINE zone   == NearestTag(S.inv, "vm", "zone")
             region == NearestTag(S.inv, "vm", "region")
  <1>1. GetZoneRegion(S.inv, "vm") = [zone |-> zone, region |-> region]
    BY SetupsAssumption, ZoneRegionNearest, Zenon DEF Fixed, S
  <1>2. labels = IF zone # "" /\ region # "" THEN [zone |-> zone, region |-> region]
                 ELSE NoTopology
    <2>1. PICK z, y : z = zone /\ y = region
      BY Zenon
    <2>2. [zone |-> z, region |-> y].zone = z /\ [zone |-> z, region |-> y].region = y
      BY Zenon
    <2> HIDE DEF zone, region
    <2> QED
      BY <1>1, <2>1, <2>2, Zenon DEF Fixed, NodeLabels
  <1>3. Expected = IF Topo THEN labels ELSE NoTopology
    BY <1>2, Zenon DEF Expected, Topo
  <1> QED
    BY <1>3, Zenon DEF Answer

(* A call at which nothing failed and whose search did not miss the VM, if *)
(* no calls have overlapped and the configuration is good and names the    *)
(* datacenters, answers with the tags nearest to its VM: it looks for the  *)
(* VM under the right form of its UUID, reads the right tags, and neither  *)
(* its deferred cleanup nor a failing REST logout takes the answer.        *)
THEOREM LoneCallsAnswer == Spec => LoneCallAnswers
  <1> DEFINE A == \A c \in Calls :
                     pc[c] # "done" /\ pc'[c] = "done" /\ Usable
                     /\ overlap' = {} /\ c \notin struck' /\ ~ stuck' =>
                         answer'[c] = [ok |-> TRUE, labels |-> Expected]
  <1>1. IInv /\ [Next]_vars /\ IInv' => [A]_vars
    <2> SUFFICES ASSUME IInv, IInv', Next \/ UNCHANGED vars, NEW c \in Calls, pc'[c] = "done",
                        Usable, overlap' = {}, c \notin struck', ~ stuck'
                 PROVE  answer'[c] = [ok |-> TRUE, labels |-> Expected]
      BY Zenon
    <2>1. UNCHANGED <<setup, cfg, labels>>
      BY FixedStep
    <2>2. Usable' /\ Answer' = Answer
      BY <2>1, Zenon DEF Usable, S, Answer, Topo
    <2>3. OnTrack(c)'
      BY <2>2, Zenon DEF IInv, TrackInv
    <2>4. Answer = [ok |-> TRUE, labels |-> Expected]
      BY AnswerExpected, Zenon DEF IInv
    <2> QED
      BY <2>2, <2>3, <2>4, Zenon DEF OnTrack
  <1> QED
    BY <1>1, AlwaysIInv, PTL DEF Spec, LoneCallAnswers
===============================================================================
