------------------------------ MODULE NodeProofs ------------------------------
(***************************************************************************)
(* Theorems about package node.  The node cache, for every set of UUIDs    *)
(* and names: its two maps stay inverses of each other, and it implements  *)
(* NodeBindings.  The node manager, for every set of nodes and callers and *)
(* every number of changes and failures: its types, the lookups that       *)
(* panic, and what GetAllNodes returns.                                    *)
(***************************************************************************)
EXTENDS NodeCache, NodeManager, TLAPS

-----------------------------------------------------------------------------
(* The node cache. *)

(* Lower-casing yields a spelling the maps are defined on, and lower-casing *)
(* twice changes nothing.                                                   *)
LEMMA NormalizeFacts ==
    ASSUME NEW s \in Spellings
    PROVE  /\ normalizeUUID(s) \in Spellings
           /\ normalizeUUID(normalizeUUID(s)) = normalizeUUID(s)
           /\ normalizeUUID(s) \in UUIDs \X {"lower"}
BY Zenon DEF normalizeUUID, Spellings

(* The maps are inverses of each other and hold lower-case keys only: the  *)
(* form in which each method is shown to preserve CacheInv.                *)
MapsInverse == \A s \in Spellings, n \in Names :
                   uuidsToNames[s] = n <=> namesToUUIDs[n] = s

LowerCase == \A s \in Spellings, n \in Names :
                   uuidsToNames[s] = n => s = normalizeUUID(s)

(* CacheInv implies that the maps are inverses with lower-case keys. *)
LEMMA InvGives == CacheInv => CacheTypeOK /\ MapsInverse /\ LowerCase
BY DEF CacheInv, LookupsAgree, KeysNormalized, MapsInverse, LowerCase,
       LoadNodeNameByUUID, LoadNodeUUIDByName

(* And the converse. *)
LEMMA InvFrom == CacheTypeOK /\ MapsInverse /\ LowerCase => CacheInv
<1> SUFFICES ASSUME CacheTypeOK, MapsInverse, LowerCase PROVE CacheInv
  BY Zenon
<1>1. LookupsAgree
  BY NormalizeFacts, Zenon DEF LookupsAgree, LoadNodeNameByUUID, LoadNodeUUIDByName, MapsInverse
<1>2. KeysNormalized
  BY Zenon DEF KeysNormalized, MapsInverse, LowerCase
<1>3. QED
  BY <1>1, <1>2, Zenon DEF CacheInv

(* Both maps are empty at the start. *)
LEMMA CacheInitInv == CacheInit => CacheInv
<1> SUFFICES ASSUME CacheInit PROVE CacheInv
  BY Zenon
<1>1. CacheTypeOK
  BY Zenon DEF CacheInit, CacheTypeOK
<1>2. MapsInverse /\ LowerCase
  BY CacheAssumption, Zenon DEF CacheInit, MapsInverse, LowerCase
<1>3. QED
  BY <1>1, <1>2, InvFrom, Zenon

(* A step that leaves both maps alone keeps the invariant. *)
LEMMA SameMapsInv ==
    ASSUME CacheInv, UNCHANGED <<uuidsToNames, namesToUUIDs>>,
           err' \in {"nil", "ErrNodeNotFound", "ErrNodeAlreadyExists"}
    PROVE  CacheInv'
<1>1. CacheTypeOK'
  BY InvGives, Zenon DEF CacheTypeOK
<1>2. MapsInverse' /\ LowerCase'
  BY InvGives, Zenon DEF MapsInverse, LowerCase
<1>3. QED
  BY <1>1, <1>2, InvFrom, PTL

(* Removing a bound pair keeps the invariant. *)
LEMMA RemoveInv ==
    ASSUME CacheInv, NEW u \in Spellings, NEW n \in Names,
           uuidsToNames[u] = n, Remove(u, n)
    PROVE  CacheInv'
<1>1. CacheTypeOK'
  BY InvGives, Zenon DEF CacheTypeOK, Remove
<1>2. MapsInverse' /\ LowerCase'
  BY CacheAssumption, InvGives DEF CacheTypeOK, MapsInverse, LowerCase, Remove
<1>3. QED
  BY <1>1, <1>2, InvFrom, PTL

(* Storing a node keeps the invariant: the entries that the new pair       *)
(* displaces are removed from both maps.                                   *)
LEMMA CacheStoreInv ==
    ASSUME CacheInv, NEW s \in Spellings, NEW n \in Names, Store(s, n)
    PROVE  CacheInv'
<1> DEFINE u == normalizeUUID(s)
<1>0. u \in Spellings /\ u = normalizeUUID(u)
  BY NormalizeFacts, Zenon
<1>1. CASE Fail("ErrNodeAlreadyExists")
  BY <1>1, SameMapsInv, Zenon DEF Fail
<1>2. CASE ~Fail("ErrNodeAlreadyExists")
  <2>1. /\ uuidsToNames' = [k \in Spellings |->
                               IF k = u THEN n
                               ELSE IF k = namesToUUIDs[n] THEN NoName
                               ELSE uuidsToNames[k]]
        /\ namesToUUIDs' = [m \in Names |->
                               IF m = n THEN u
                               ELSE IF m = uuidsToNames[u] THEN NoUUID
                               ELSE namesToUUIDs[m]]
        /\ err' = "nil"
    BY <1>2, Zenon DEF Store
  <2> HIDE DEF u
  <2>2. CacheTypeOK'
    BY <2>1, <1>0, InvGives, Zenon DEF CacheTypeOK
  <2>3. LowerCase'
    BY <2>1, <1>0, CacheAssumption, InvGives, Zenon DEF LowerCase
  <2>4. MapsInverse'
    BY <2>1, <1>0, CacheAssumption, InvGives DEF MapsInverse, CacheTypeOK
  <2>5. QED
    BY <2>2, <2>3, <2>4, InvFrom, PTL
<1>3. QED
  BY <1>1, <1>2, Zenon

(* Deleting by either key removes a bound pair, or nothing. *)
LEMMA DeleteByUUIDInv ==
    ASSUME CacheInv, NEW s \in Spellings, DeleteNodeByUUID(s)
    PROVE  CacheInv'
<1> DEFINE u == normalizeUUID(s)
<1>1. u \in Spellings
  BY NormalizeFacts, Zenon
<1>2. CASE Fail("ErrNodeNotFound")
  BY <1>2, SameMapsInv, Zenon DEF Fail
<1>3. CASE uuidsToNames[u] # NoName /\ Remove(u, uuidsToNames[u])
  BY <1>1, <1>3, InvGives, RemoveInv, Zenon DEF CacheTypeOK
<1>4. QED
  BY <1>2, <1>3, Zenon DEF DeleteNodeByUUID

(* As above, for the method that starts from the name. *)
LEMMA DeleteByNameInv ==
    ASSUME CacheInv, NEW n \in Names, DeleteNodeByName(n)
    PROVE  CacheInv'
<1>1. CASE Fail("ErrNodeNotFound")
  BY <1>1, SameMapsInv, Zenon DEF Fail
<1>2. CASE namesToUUIDs[n] # NoUUID /\ Remove(namesToUUIDs[n], n)
  <2>1. namesToUUIDs[n] \in Spellings /\ uuidsToNames[namesToUUIDs[n]] = n
    BY <1>2, InvGives, Zenon DEF CacheTypeOK, MapsInverse
  <2>2. QED
    BY <1>2, <2>1, RemoveInv, Zenon
<1>3. QED
  BY <1>1, <1>2, Zenon DEF DeleteNodeByName

(* Whatever methods run, in whatever order, the invariant holds. *)
THEOREM CacheInvariant == CacheSpec => []CacheInv
<1>1. CacheInv /\ [CacheNext]_cacheVars => CacheInv'
  <2> SUFFICES ASSUME CacheInv, [CacheNext]_cacheVars PROVE CacheInv'
    BY Zenon
  <2>1. CASE UNCHANGED cacheVars
    BY <2>1, SameMapsInv, InvGives, Zenon DEF cacheVars, CacheTypeOK
  <2>2. CASE CacheNext
    BY <2>2, CacheStoreInv, DeleteByUUIDInv, DeleteByNameInv, Zenon DEF CacheNext
  <2>3. QED
    BY <2>1, <2>2, Zenon
<1>2. QED
  BY CacheInitInv, <1>1, PTL DEF CacheSpec

(* The lookups by UUID and by name agree in every reachable state of the   *)
(* cache: no node is known under two names or two UUIDs.                   *)
THEOREM LookupsAlwaysAgree == CacheSpec => []LookupsAgree
<1>1. CacheInv => LookupsAgree
  BY Zenon DEF CacheInv
<1>2. QED
  BY CacheInvariant, <1>1, PTL

(* The cache's types are right in every reachable state. *)
THEOREM CacheTypes == CacheSpec => []CacheTypeOK
<1>1. CacheInv => CacheTypeOK
  BY Zenon DEF CacheInv
<1>2. QED
  BY CacheInvariant, <1>1, PTL

(* No UUID is ever stored in a spelling that a lookup would miss. *)
THEOREM KeysAlwaysNormalized == CacheSpec => []KeysNormalized
<1>1. CacheInv => KeysNormalized
  BY Zenon DEF CacheInv
<1>2. QED
  BY CacheInvariant, <1>1, PTL

(* Removing a bound pair removes exactly that binding. *)
LEMMA RemoveUnbinds ==
    ASSUME CacheInv, NEW u \in Spellings, NEW n \in Names,
           uuidsToNames[u] = n, Remove(u, n)
    PROVE  <<u, n>> \in Entries /\ Entries' = Entries \ {<<u, n>>}
<1>1. <<u, n>> \in Entries
  BY Zenon DEF Entries
<1>2. \A k \in Spellings, m \in Names :
          uuidsToNames'[k] = m <=> uuidsToNames[k] = m /\ <<k, m>> # <<u, n>>
  BY CacheAssumption, InvGives, Zenon DEF CacheTypeOK, Remove
<1>3. QED
  BY <1>1, <1>2 DEF Entries

(* A Store that succeeds replaces what its UUID and its name were bound to. *)
LEMMA StoreBinds ==
    ASSUME CacheInv, NEW s \in Spellings, NEW n \in Names, Store(s, n),
           ~Fail("ErrNodeAlreadyExists")
    PROVE  Entries' = {b \in Entries : b[1] # normalizeUUID(s) /\ b[2] # n}
                          \cup {<<normalizeUUID(s), n>>}
<1> DEFINE u == normalizeUUID(s)
<1>1. u \in Spellings
  BY NormalizeFacts, Zenon
<1>2. uuidsToNames' = [k \in Spellings |->
                               IF k = u THEN n
                               ELSE IF k = namesToUUIDs[n] THEN NoName
                               ELSE uuidsToNames[k]]
  BY Zenon DEF Store
<1> HIDE DEF u
<1>3. \A k \in Spellings, m \in Names :
          uuidsToNames'[k] = m <=> \/ k = u /\ m = n
                                   \/ uuidsToNames[k] = m /\ k # u /\ m # n
  BY <1>1, <1>2, CacheAssumption, InvGives, Zenon DEF CacheTypeOK, MapsInverse
<1>4. QED
  BY <1>1, <1>3 DEF Entries, u

(* A Store that succeeds meets one known node at most: it is a Bind or a   *)
(* Rebind of the abstract specification, or stores what is there.          *)
LEMMA StoreSimulates ==
    ASSUME CacheInv, NEW s \in Spellings, NEW n \in Names, Store(s, n),
           ~Fail("ErrNodeAlreadyExists")
    PROVE  [Abstract!Next]_Entries
<1> DEFINE u == normalizeUUID(s)
<1>1. u \in Spellings /\ u \in UUIDs \X {"lower"}
  BY NormalizeFacts, Zenon
<1>2. ~Conflict(u, n)
  BY Zenon DEF Store
<1>3. Entries' = {b \in Entries : b[1] # u /\ b[2] # n} \cup {<<u, n>>}
  BY StoreBinds, Zenon
<1>4. CacheTypeOK /\ MapsInverse
  BY InvGives, Zenon
<1> HIDE DEF u
<1>5. CASE uuidsToNames[u] = NoName
  <2>1. \A b \in Entries : b[1] # u
    BY <1>5, CacheAssumption, Zenon DEF Entries
  <2>2. {b \in Entries : b[1] # u /\ b[2] # n} = {b \in Entries : b[2] # n}
    BY <2>1, Zenon
  <2>3. Abstract!Rebind(u, n)
    BY <1>3, <2>1, <2>2, Zenon DEF Abstract!Rebind, Abstract!FreeUUID
  <2> QED
    BY <1>1, <2>3, Zenon DEF Abstract!Next
<1>6. CASE namesToUUIDs[n] = NoUUID
  <2>1. \A k \in Spellings : uuidsToNames[k] # n
    BY <1>4, <1>6, CacheAssumption, ZenonT(30) DEF MapsInverse
  <2>2. \A b \in Entries : b[2] # n
    <3> SUFFICES ASSUME NEW b \in Entries, b[2] = n PROVE FALSE
      BY Zenon
    <3>1. b \in Spellings \X Names /\ uuidsToNames[b[1]] = b[2]
      BY Zenon DEF Entries
    <3>2. b[1] \in Spellings
      BY <3>1
    <3> QED
      BY <2>1, <3>1, <3>2, Zenon
  <2>3. {b \in Entries : b[1] # u /\ b[2] # n} = {b \in Entries : b[1] # u}
    BY <2>2, Zenon
  <2>4. Abstract!Bind(u, n)
    BY <1>3, <2>2, <2>3, Zenon DEF Abstract!Bind, Abstract!FreeName
  <2> QED
    BY <1>1, <2>4, Zenon DEF Abstract!Next
<1>7. CASE namesToUUIDs[n] = u
  <2>1. \A k \in Spellings, m \in Names : uuidsToNames[k] = m =>
            \/ k = u /\ m = n
            \/ k # u /\ m # n
    BY <1>1, <1>4, <1>7, Zenon DEF MapsInverse
  <2>2. uuidsToNames[u] = n
    BY <1>1, <1>4, <1>7, ZenonT(30) DEF MapsInverse
  <2>3. \A b \in Entries : b = <<u, n>> \/ (b[1] # u /\ b[2] # n)
    BY <2>1 DEF Entries
  <2>4. <<u, n>> \in Entries
    BY <1>1, <2>2, Zenon DEF Entries
  <2> QED
    BY <1>3, <2>3, <2>4, Zenon
<1> QED
  BY <1>2, <1>5, <1>6, <1>7, Zenon DEF Conflict

(* The cache implements the set of bindings: its initial state is empty,   *)
(* and every method is a Bind, a Rebind, an Unbind or leaves the bindings  *)
(* alone.                                                                  *)
THEOREM CacheImplementsBindings == CacheSpec => Implements
<1>1. CacheInit => Abstract!Init
  BY CacheAssumption, Zenon DEF CacheInit, Abstract!Init, Entries
<1>2. ASSUME CacheInv, [CacheNext]_cacheVars
      PROVE  [Abstract!Next]_Entries
  <2>1. CASE UNCHANGED uuidsToNames
    BY <2>1, Zenon DEF Entries
  <2>2. ASSUME NEW s \in Spellings, NEW n \in Names, Store(s, n)
        PROVE  [Abstract!Next]_Entries
    <3>1. CASE Fail("ErrNodeAlreadyExists")
      BY <2>1, <3>1, Zenon DEF Fail
    <3>2. CASE ~Fail("ErrNodeAlreadyExists")
      BY <1>2, <2>2, <3>2, StoreSimulates, Zenon
    <3>3. QED
      BY <3>1, <3>2, Zenon
  <2>3. ASSUME NEW u \in Spellings, NEW n \in Names, uuidsToNames[u] = n,
               Remove(u, n)
        PROVE  [Abstract!Next]_Entries
    BY <1>2, <2>3, RemoveUnbinds, Zenon DEF Abstract!Next, Abstract!Unbind
  <2>4. ASSUME NEW s \in Spellings, DeleteNodeByUUID(s)
        PROVE  [Abstract!Next]_Entries
    BY <1>2, <2>1, <2>3, <2>4, NormalizeFacts, InvGives, Zenon
       DEF DeleteNodeByUUID, Fail, CacheTypeOK
  <2>5. ASSUME NEW n \in Names, DeleteNodeByName(n)
        PROVE  [Abstract!Next]_Entries
    <3>1. CASE Fail("ErrNodeNotFound")
      BY <2>1, <3>1, Zenon DEF Fail
    <3>2. CASE namesToUUIDs[n] # NoUUID /\ Remove(namesToUUIDs[n], n)
      <4>1. namesToUUIDs[n] \in Spellings /\ uuidsToNames[namesToUUIDs[n]] = n
        BY <1>2, <3>2, InvGives, Zenon DEF CacheTypeOK, MapsInverse
      <4>2. QED
        BY <3>2, <4>1, <2>3, Zenon
    <3>3. QED
      BY <2>5, <3>1, <3>2, Zenon DEF DeleteNodeByName
  <2>6. QED
    BY <1>2, <2>1, <2>2, <2>4, <2>5, Zenon DEF CacheNext, cacheVars
<1>3. QED
  BY <1>1, <1>2, CacheInvariant, PTL DEF CacheSpec, Implements, Abstract!Spec

-----------------------------------------------------------------------------
(* The node manager. *)

Pcs   == {"idle", "query", "store", "load", "discover", "reload", "names", "resolved", "vms"}
Named == {"query", "store", "load", "discover", "reload", "resolved"}
Event == [type : {"add", "delete"}, name : Names, uuid : IDs]
Known == IDs \cup {NoNode}

Callback == [pc : {"idle", "discover", "deleteName", "deleteVM"},
             name : Names \cup {NoNode}, uuid : Known]
Request  == [pc : Pcs, name : Names \cup {NoNode}, uuid : Known]

(* The shapes of the state. *)
Shapes == /\ nodes \in [Names -> Known] /\ events \in Seq(Event)
          /\ nodeNameToUUID \in [Names -> Known] /\ nodeVMs \in SUBSET UUIDs
          /\ informer \in Callback /\ req \in [Callers -> Request]
          /\ todo \in [Callers -> SUBSET (Names \cup UUIDs)]
          /\ vms \in [Callers -> SUBSET UUIDs] /\ stayed \in [Callers -> SUBSET UUIDs]
          /\ last \in [Names -> UUIDs \cup {NoNode}]
          /\ process \in {"up", "panicked"}

(* A callback, or a request for a node, has a name and a UUID.  The UUID   *)
(* of a request about to load the VM it discovered is a key of the map, or *)
(* was removed from it.                                                    *)
CallbackOK   == informer.pc # "idle" => informer.name \in Names /\ informer.uuid \in IDs
RequestOK(r) == /\ r.pc \in Named => r.name \in Names /\ r.uuid \in IDs
                /\ r.pc = "reload" => r.uuid \in nodeVMs \cup removed

(* A VM that has stayed is in the map; and in the second loop of           *)
(* GetAllNodes it is in the result or still to be visited.                 *)
StayedOK(c) == /\ stayed[c] \subseteq nodeVMs
               /\ req[c].pc = "vms" => stayed[c] \subseteq vms[c] \cup todo[c]

IInv == /\ Shapes /\ CallbackOK /\ NoNilVM
        /\ \A c \in Callers : RequestOK(req[c]) /\ StayedOK(c)

-----------------------------------------------------------------------------
LEMMA IdleTypes == Idle \in Callback /\ Idle \in Request /\ Idle.pc = "idle"
BY DEF Idle, Callback, Request, Known, Pcs

LEMMA InitIInv == Init => IInv
<1> SUFFICES ASSUME Init PROVE IInv
  OBVIOUS
<1>1. Shapes
  <2>1. events \in Seq(Event)
    BY DEF Init
  <2>2. /\ nodes \in [Names -> Known] /\ nodeNameToUUID \in [Names -> Known]
        /\ last \in [Names -> UUIDs \cup {NoNode}] /\ nodeVMs \in SUBSET UUIDs
    BY Zenon DEF Init, Known
  <2>3. /\ todo \in [Callers -> SUBSET (Names \cup UUIDs)]
        /\ vms \in [Callers -> SUBSET UUIDs] /\ stayed \in [Callers -> SUBSET UUIDs]
    BY DEF Init
  <2>4. informer \in Callback /\ req \in [Callers -> Request] /\ process = "up"
    BY IdleTypes, Zenon DEF Init
  <2> QED
    BY <2>1, <2>2, <2>3, <2>4, Zenon DEF Shapes
<1>2. \A c \in Callers : req[c].pc = "idle" /\ stayed[c] = {}
  BY IdleTypes, Zenon DEF Init
<1>3. \A c \in Callers : RequestOK(req[c]) /\ StayedOK(c)
  BY <1>2 DEF RequestOK, StayedOK, Named
<1>4. CallbackOK /\ NoNilVM
  BY IdleTypes DEF Init, CallbackOK, NoNilVM
<1> QED
  BY <1>1, <1>3, <1>4, Zenon DEF IInv

(* The cluster changes: the maps and the requests do not. *)
LEMMA ClusterInv ==
    ASSUME IInv, NEW n \in Names,
           \/ DeleteNode(n)
           \/ \E id \in IDs : AddNode(n, id)
           \/ \E id \in UUIDs : SetProviderID(n, id)
    PROVE  IInv'
<1>1. /\ UNCHANGED <<nodeNameToUUID, nodeVMs, informer, req, todo, vms, last, stayed>>
      /\ UNCHANGED <<removed, process>>
  BY Zenon DEF DeleteNode, AddNode, SetProviderID
<1>2. nodes' \in [Names -> Known]
  <2>1. PICK id \in Known : nodes' = [nodes EXCEPT ![n] = id]
    BY Zenon DEF DeleteNode, AddNode, SetProviderID, Known, IDs
  <2> QED
    BY <2>1, Zenon DEF IInv, Shapes
<1>3. events' \in Seq(Event)
  <2>1. CASE UNCHANGED events
    BY <2>1, Zenon DEF IInv, Shapes
  <2>2. CASE \E e \in Event : events' = Append(events, e)
    BY <2>2 DEF IInv, Shapes
  <2>3. CASE DeleteNode(n)
    <3>1. nodes[n] \in IDs
      BY <2>3, Zenon DEF DeleteNode, IInv, Shapes, Known
    <3>2. [type |-> "delete", name |-> n, uuid |-> nodes[n]] \in Event
      BY <3>1 DEF Event
    <3> QED
      BY <2>2, <2>3, <3>2, Zenon DEF DeleteNode
  <2>4. CASE \E id \in IDs : AddNode(n, id)
    <3>1. \A id \in IDs : [type |-> "add", name |-> n, uuid |-> id] \in Event
      BY DEF Event
    <3> QED
      BY <2>2, <2>4, <3>1, Zenon DEF AddNode
  <2> QED
    BY <2>1, <2>3, <2>4, Zenon DEF SetProviderID
<1>4. Shapes'
  BY <1>1, <1>2, <1>3, Zenon DEF IInv, Shapes
<1> QED
  BY <1>1, <1>4, Zenon DEF IInv, CallbackOK, NoNilVM, RequestOK, StayedOK

-----------------------------------------------------------------------------
(* The informer's callbacks. *)

(* The map of VMs grows, or loses a VM that is recorded as removed. *)
LEMMA CallbackInv ==
    ASSUME IInv, process = "up", UNCHANGED <<nodes, req, todo, vms, last, process>>,
           events' \in Seq(Event), nodeNameToUUID' \in [Names -> Known],
           informer' \in Callback, CallbackOK', nodeVMs' \in SUBSET UUIDs,
           nodeVMs \cup removed \subseteq nodeVMs' \cup removed',
           stayed' \in [Callers -> SUBSET UUIDs],
           \A c \in Callers : stayed'[c] \subseteq stayed[c] /\ stayed'[c] \subseteq nodeVMs'
    PROVE  IInv'
<1>1. Shapes'
  BY Zenon DEF IInv, Shapes
<1>2. NoNilVM'
  BY DEF NoNilVM
<1>3. ASSUME NEW c \in Callers PROVE RequestOK(req[c])' /\ StayedOK(c)'
  <2>1. RequestOK(req[c]) /\ StayedOK(c)
    BY Zenon DEF IInv
  <2>2. RequestOK(req[c])'
    BY <2>1, Zenon DEF RequestOK
  <2>3. StayedOK(c)'
    BY <2>1, Zenon DEF StayedOK
  <2> QED
    BY <2>2, <2>3, Zenon
<1> QED
  BY <1>1, <1>2, <1>3, Zenon DEF IInv

LEMMA InformerInv ==
    ASSUME IInv, InformerNext
    PROVE  IInv'
<1>0. /\ process = "up" /\ UNCHANGED <<nodes, req, todo, vms, last, process>>
      /\ Shapes /\ events \in Seq(Event) /\ informer \in Callback
      /\ nodeNameToUUID \in [Names -> Known] /\ nodeVMs \in SUBSET UUIDs
      /\ stayed \in [Callers -> SUBSET UUIDs]
      /\ \A c \in Callers : stayed[c] \subseteq nodeVMs
  BY Zenon DEF InformerNext, RegisterNode, RegisterDiscovers, UnregisterNode, UnregisterName,
               UnregisterVM, At, RequestsUnchanged, envVars, IInv, Shapes, StayedOK
<1>1. events # <<>> => /\ Head(events) \in Event /\ Tail(events) \in Seq(Event)
                       /\ Head(events).name \in Names /\ Head(events).uuid \in IDs
  <2>1. events # <<>> => Head(events) \in Event /\ Tail(events) \in Seq(Event)
    BY <1>0
  <2>2. \A e \in Event : e.name \in Names /\ e.uuid \in IDs
    BY DEF Event
  <2> QED
    BY <2>1, <2>2, Zenon
<1>2. CASE RegisterNode
  <2>1. /\ events # <<>> /\ events' = Tail(events) /\ UNCHANGED <<nodeVMs, removed, stayed>>
        /\ nodeNameToUUID' = [nodeNameToUUID EXCEPT ![Head(events).name] = Head(events).uuid]
        /\ informer' = [pc |-> "discover", name |-> Head(events).name,
                        uuid |-> Head(events).uuid]
    BY <1>2, Zenon DEF RegisterNode, RequestsUnchanged, envVars
  <2>2. nodeNameToUUID' \in [Names -> Known]
    BY <1>0, <1>1, <2>1, Zenon DEF Known
  <2>3. \A n \in Names, u \in IDs :
          LET i == [pc |-> "discover", name |-> n, uuid |-> u]
          IN  i \in Callback /\ i.name = n /\ i.uuid = u
    BY DEF Callback, Known
  <2>4. informer' \in Callback /\ CallbackOK'
    BY <1>1, <2>1, <2>3, Zenon DEF CallbackOK
  <2> QED
    BY <1>0, <1>1, <2>1, <2>2, <2>4, CallbackInv, Zenon
<1>3. CASE RegisterDiscovers
  <2>1. /\ informer' = Idle /\ UNCHANGED <<events, nodeNameToUUID, removed, stayed>>
        /\ informer.pc = "discover"
        /\ \/ nodeVMs' = nodeVMs
           \/ informer.uuid # NoID /\ nodeVMs' = nodeVMs \cup {informer.uuid}
    BY <1>3, Zenon DEF RegisterDiscovers, RequestsUnchanged, envVars, At
  <2>2. informer.uuid \in IDs
    BY <2>1, Zenon DEF IInv, CallbackOK
  <2>3. nodeVMs' \in SUBSET UUIDs /\ nodeVMs \subseteq nodeVMs'
    BY <1>0, <2>1, <2>2, Zenon DEF IDs
  <2>4. informer' \in Callback /\ CallbackOK'
    BY <2>1, IdleTypes, Zenon DEF CallbackOK
  <2> QED
    BY <1>0, <2>1, <2>3, <2>4, CallbackInv, Zenon
<1>4. CASE UnregisterNode
  <2>1. /\ events # <<>> /\ events' = Tail(events)
        /\ UNCHANGED <<nodeNameToUUID, nodeVMs, removed, stayed>>
        /\ \/ informer' = Idle
           \/ /\ nodeNameToUUID[Head(events).name] # NoNode
              /\ informer' = [pc |-> "deleteName", name |-> Head(events).name,
                              uuid |-> nodeNameToUUID[Head(events).name]]
    BY <1>4, Zenon DEF UnregisterNode, RequestsUnchanged, envVars
  <2>2. \A n \in Names, u \in IDs :
          LET i == [pc |-> "deleteName", name |-> n, uuid |-> u]
          IN  i \in Callback /\ i.name = n /\ i.uuid = u
    BY DEF Callback, Known
  <2>3. nodeNameToUUID[Head(events).name] \in Known
    BY <1>0, <1>1, <2>1, Zenon
  <2>4. informer' \in Callback /\ CallbackOK'
    <3>1. CASE informer' = Idle
      BY <3>1, IdleTypes, Zenon DEF CallbackOK
    <3>2. CASE informer' # Idle
      <4>1. nodeNameToUUID[Head(events).name] \in IDs
        BY <2>1, <2>3, <3>2, Zenon DEF Known
      <4>2. informer' = [pc |-> "deleteName", name |-> Head(events).name,
                         uuid |-> nodeNameToUUID[Head(events).name]]
        BY <2>1, <3>2, Zenon
      <4>3. /\ informer' \in Callback /\ informer'.name = Head(events).name
            /\ informer'.uuid = nodeNameToUUID[Head(events).name]
        BY <1>1, <2>1, <2>2, <4>1, <4>2
      <4> QED
        BY <1>1, <2>1, <4>1, <4>3, Zenon DEF CallbackOK
    <3> QED
      BY <3>1, <3>2, Zenon
  <2> QED
    BY <1>0, <1>1, <2>1, <2>4, CallbackInv, Zenon
<1>5. CASE UnregisterName
  <2>1. /\ informer.pc = "deleteName" /\ UNCHANGED <<events, nodeVMs, removed, stayed>>
        /\ nodeNameToUUID' = [nodeNameToUUID EXCEPT ![informer.name] = NoNode]
        /\ informer' = [informer EXCEPT !.pc = "deleteVM"]
    BY <1>5, Zenon DEF UnregisterName, RequestsUnchanged, envVars, At
  <2>2. nodeNameToUUID' \in [Names -> Known]
    BY <1>0, <2>1, Zenon DEF Known
  <2>3. informer' \in Callback /\ informer'.name = informer.name /\ informer'.uuid = informer.uuid
    BY <1>0, <2>1 DEF Callback
  <2>4. CallbackOK'
    BY <2>1, <2>3, Zenon DEF IInv, CallbackOK
  <2> QED
    BY <1>0, <2>1, <2>2, <2>3, <2>4, CallbackInv, Zenon
<1>6. CASE UnregisterVM
  <2>1. /\ informer' = Idle /\ UNCHANGED <<events, nodeNameToUUID>>
        /\ nodeVMs' = nodeVMs \ {informer.uuid} /\ removed' = removed \cup {informer.uuid}
        /\ stayed' = [c \in Callers |-> stayed[c] \ {informer.uuid}]
    BY <1>6, Zenon DEF UnregisterVM
  <2>2. informer' \in Callback /\ CallbackOK'
    BY <2>1, IdleTypes, Zenon DEF CallbackOK
  <2>3. /\ nodeVMs' \in SUBSET UUIDs
        /\ nodeVMs \cup removed \subseteq nodeVMs' \cup removed'
    BY <1>0, <2>1, Zenon
  <2>4. /\ stayed' \in [Callers -> SUBSET UUIDs]
        /\ \A c \in Callers : stayed'[c] \subseteq stayed[c] /\ stayed'[c] \subseteq nodeVMs'
    BY <1>0, <2>1
  <2> QED
    BY <1>0, <2>1, <2>2, <2>3, <2>4, CallbackInv, Zenon
<1> QED
  BY <1>2, <1>3, <1>4, <1>5, <1>6, Zenon DEF InformerNext

-----------------------------------------------------------------------------
(* The requests.  A request changes its own part of the state, and adds to *)
(* the maps.                                                               *)
LEMMA RequestInv ==
    ASSUME IInv, process = "up", UNCHANGED process, NEW c \in Callers, InformerUnchanged,
           NEW r \in Request, req' = [req EXCEPT ![c] = r], RequestOK(r)',
           nodeNameToUUID' \in [Names -> Known],
           nodeVMs' \in SUBSET UUIDs, nodeVMs \subseteq nodeVMs',
           last' \in [Names -> UUIDs \cup {NoNode}],
           todo' \in [Callers -> SUBSET (Names \cup UUIDs)],
           vms' \in [Callers -> SUBSET UUIDs], stayed' \in [Callers -> SUBSET UUIDs],
           \A d \in Callers \ {c} :
               todo'[d] = todo[d] /\ vms'[d] = vms[d] /\ stayed'[d] = stayed[d],
           stayed'[c] \subseteq nodeVMs',
           r.pc = "vms" => stayed'[c] \subseteq vms'[c] \cup todo'[c]
    PROVE  IInv'
<1>1. /\ req' \in [Callers -> Request] /\ req'[c] = r
      /\ \A d \in Callers \ {c} : req'[d] = req[d]
  BY Zenon DEF IInv, Shapes
<1>2. UNCHANGED <<nodes, events, informer, removed>>
  BY Zenon DEF InformerUnchanged, envVars
<1>3. Shapes'
  BY <1>1, <1>2, Zenon DEF IInv, Shapes
<1>4. CallbackOK' /\ NoNilVM'
  <2>1. process' # "panicked"
    OBVIOUS
  <2> QED
    BY <1>2, <2>1, Zenon DEF IInv, CallbackOK, NoNilVM
<1>5. RequestOK(req[c])' /\ StayedOK(c)'
  BY <1>1, Zenon DEF RequestOK, StayedOK
<1>6. ASSUME NEW d \in Callers \ {c} PROVE RequestOK(req[d])' /\ StayedOK(d)'
  <2>1. RequestOK(req[d]) /\ StayedOK(d)
    BY Zenon DEF IInv
  <2> QED
    BY <1>1, <1>2, <2>1, Zenon DEF RequestOK, StayedOK
<1> QED
  BY <1>3, <1>4, <1>5, <1>6, Zenon DEF IInv

(* A lookup leaves the listings alone. *)
LEMMA LookupInv ==
    ASSUME IInv, process = "up", NEW c \in Callers, InformerUnchanged,
           NEW r \in Request, req' = [req EXCEPT ![c] = r], RequestOK(r)', r.pc # "vms",
           nodeNameToUUID' \in [Names -> Known],
           nodeVMs' \in SUBSET UUIDs, nodeVMs \subseteq nodeVMs',
           last' \in [Names -> UUIDs \cup {NoNode}],
           UNCHANGED <<todo, vms, stayed, process>>
    PROVE  IInv'
<1>1. stayed'[c] \subseteq nodeVMs'
  BY Zenon DEF IInv, StayedOK
<1>2. /\ todo' \in [Callers -> SUBSET (Names \cup UUIDs)]
      /\ vms' \in [Callers -> SUBSET UUIDs] /\ stayed' \in [Callers -> SUBSET UUIDs]
  BY Zenon DEF IInv, Shapes
<1> QED
  BY <1>1, <1>2, RequestInv, Zenon

(* The request is answered. *)
LEMMA AnswerInv ==
    ASSUME IInv, process = "up", NEW c \in Callers, InformerUnchanged,
           req[c].pc \in Named, NEW vm \in UUIDs \cup {NoNode}, Answer(c, vm),
           UNCHANGED <<nodeNameToUUID, nodeVMs, todo, vms, stayed, process>>
    PROVE  IInv'
<1>1. req[c].name \in Names
  BY Zenon DEF IInv, RequestOK
<1>2. last' \in [Names -> UUIDs \cup {NoNode}]
  BY <1>1, Zenon DEF Answer, IInv, Shapes
<1>3. RequestOK(Idle)' /\ Idle.pc # "vms"
  BY IdleTypes DEF RequestOK, Named
<1>4. req' = [req EXCEPT ![c] = Idle]
  BY Zenon DEF Answer
<1>5. /\ nodeNameToUUID' \in [Names -> Known] /\ nodeVMs' \in SUBSET UUIDs
      /\ nodeVMs \subseteq nodeVMs'
  BY Zenon DEF IInv, Shapes
<1> QED
  BY <1>2, <1>3, <1>4, <1>5, IdleTypes, LookupInv, Zenon

(* The request goes on, with the same node and UUID. *)
LEMMA GotoTypes ==
    ASSUME IInv, NEW c \in Callers, NEW l \in Pcs, ReqGoto(c, l)
    PROVE  \E r \in Request : /\ req' = [req EXCEPT ![c] = r]
                              /\ r.pc = l /\ r.name = req[c].name /\ r.uuid = req[c].uuid
<1>1. req[c] \in Request /\ req \in [Callers -> Request]
  BY Zenon DEF IInv, Shapes
<1>2. PICK r : r = [req[c] EXCEPT !.pc = l]
  OBVIOUS
<1>3. req' = [req EXCEPT ![c] = r]
  BY <1>1, <1>2 DEF ReqGoto
<1>4. r \in Request /\ r.pc = l /\ r.name = req[c].name /\ r.uuid = req[c].uuid
  BY <1>1, <1>2 DEF Request
<1> QED
  BY <1>3, <1>4, Zenon

LEMMA PcTypes == {"load", "discover", "reload", "vms"} \subseteq Pcs
BY DEF Pcs

(* GetNodeByName and GetNode. *)
LEMMA ByNameInv ==
    ASSUME IInv, NEW c \in Callers, NEW n \in Names, GetNodeByName(c, n)
    PROVE  IInv'
<1> DEFINE u == nodeNameToUUID[n]
           r == [pc |-> IF u = NoID THEN "query" ELSE "load", name |-> n, uuid |-> u]
<1>1. /\ process = "up" /\ req[c].pc = "idle" /\ InformerUnchanged
      /\ UNCHANGED <<nodeNameToUUID, nodeVMs, todo, vms, stayed, process>>
  BY Zenon DEF GetNodeByName, ReqAt
<1>2. /\ nodeNameToUUID' \in [Names -> Known] /\ nodeVMs' \in SUBSET UUIDs
      /\ nodeVMs \subseteq nodeVMs' /\ u \in Known
      /\ last \in [Names -> UUIDs \cup {NoNode}] /\ req \in [Callers -> Request]
  BY <1>1, Zenon DEF IInv, Shapes
<1>3. CASE u = NoNode /\ last' = [last EXCEPT ![n] = NoNode] /\ UNCHANGED req
  <2>1. last' \in [Names -> UUIDs \cup {NoNode}]
    BY <1>2, <1>3, Zenon
  <2>2. PICK q : q = req[c]
    OBVIOUS
  <2>3. q \in Request /\ req' = [req EXCEPT ![c] = q] /\ q.pc = "idle"
    BY <1>1, <1>2, <1>3, <2>2, Zenon
  <2>4. RequestOK(q)' /\ q.pc # "vms"
    BY <2>3 DEF RequestOK, Named
  <2> QED
    BY <1>1, <1>2, <2>1, <2>3, <2>4, LookupInv, Zenon
<1>4. CASE u # NoNode /\ UNCHANGED last /\ req' = [req EXCEPT ![c] = r]
  <2>1. u \in IDs
    BY <1>2, <1>4, Zenon DEF Known
  <2>2. PICK q : q = r
    OBVIOUS
  <2>3. q \in Request /\ q.pc \in {"query", "load"} /\ q.name = n /\ q.uuid = u
    BY <2>1, <2>2 DEF Request, Known, Pcs
  <2>4. RequestOK(q)' /\ q.pc # "vms" /\ req' = [req EXCEPT ![c] = q]
    BY <1>4, <2>1, <2>2, <2>3, Zenon DEF RequestOK
  <2> QED
    BY <1>1, <1>2, <1>4, <2>3, <2>4, LookupInv, Zenon
<1> QED
  BY <1>3, <1>4, Zenon DEF GetNodeByName

LEMMA VMUUIDInv ==
    ASSUME IInv, NEW c \in Callers, GetNodeVMUUID(c)
    PROVE  IInv'
<1> DEFINE id == nodes[req[c].name]
<1>1. /\ process = "up" /\ req[c].pc = "query" /\ InformerUnchanged
      /\ UNCHANGED <<nodeNameToUUID, nodeVMs, todo, vms, stayed, process>>
  BY Zenon DEF GetNodeVMUUID, ReqAt
<1>2. /\ nodeNameToUUID' \in [Names -> Known] /\ nodeVMs' \in SUBSET UUIDs
      /\ nodeVMs \subseteq nodeVMs' /\ req[c] \in Request /\ req \in [Callers -> Request]
      /\ req[c].name \in Names /\ id \in Known
  BY <1>1 DEF IInv, Shapes, RequestOK, Named
<1>3. CASE Answer(c, NoNode)
  BY <1>1, <1>3, AnswerInv, Zenon DEF Named
<1>4. CASE id # NoNode /\ req' = [req EXCEPT ![c].pc = "store", ![c].uuid = id] /\ UNCHANGED last
  <2>1. id \in IDs
    BY <1>2, <1>4, Zenon DEF Known
  <2>2. PICK i \in IDs : i = id
    BY <2>1, Zenon
  <2>3. PICK r : r = [req[c] EXCEPT !.pc = "store", !.uuid = i]
    OBVIOUS
  <2>4. r \in Request /\ r.pc = "store" /\ r.name = req[c].name /\ r.uuid = i
    BY <1>2, <2>3 DEF Request, Pcs, Known
  <2> HIDE DEF id
  <2>5. req' = [req EXCEPT ![c] = r]
    BY <1>2, <1>4, <2>2, <2>3
  <2>6. RequestOK(r)' /\ r.pc # "vms"
    BY <1>2, <2>4, Zenon DEF RequestOK
  <2>7. last' \in [Names -> UUIDs \cup {NoNode}]
    BY <1>4, Zenon DEF IInv, Shapes
  <2> QED
    BY <1>1, <1>2, <2>4, <2>5, <2>6, <2>7, LookupInv, Zenon
<1> QED
  BY <1>3, <1>4, Zenon DEF GetNodeVMUUID

LEMMA StoreInv ==
    ASSUME IInv, NEW c \in Callers, StoreUUID(c)
    PROVE  IInv'
<1>1. /\ process = "up" /\ req[c].pc = "store" /\ InformerUnchanged /\ ReqGoto(c, "load")
      /\ nodeNameToUUID' = [nodeNameToUUID EXCEPT ![req[c].name] = req[c].uuid]
      /\ UNCHANGED <<nodeVMs, todo, vms, last, stayed, process>>
  BY Zenon DEF StoreUUID, ReqAt
<1>2. req[c].name \in Names /\ req[c].uuid \in IDs
  BY <1>1 DEF IInv, RequestOK, Named
<1>3. PICK r \in Request : /\ req' = [req EXCEPT ![c] = r] /\ r.pc = "load"
                           /\ r.name = req[c].name /\ r.uuid = req[c].uuid
  BY <1>1, GotoTypes, PcTypes
<1>4. RequestOK(r)' /\ r.pc # "vms"
  BY <1>2, <1>3, Zenon DEF RequestOK
<1>5. /\ nodeNameToUUID' \in [Names -> Known] /\ nodeVMs' \in SUBSET UUIDs
      /\ nodeVMs \subseteq nodeVMs' /\ last' \in [Names -> UUIDs \cup {NoNode}]
  BY <1>1, <1>2, Zenon DEF IInv, Shapes, Known
<1> QED
  BY <1>1, <1>3, <1>4, <1>5, LookupInv, Zenon

LEMMA LoadInv ==
    ASSUME IInv, NEW c \in Callers, LoadVM(c)
    PROVE  IInv'
<1>1. /\ process = "up" /\ req[c].pc = "load" /\ InformerUnchanged
      /\ UNCHANGED <<nodeNameToUUID, nodeVMs, todo, vms, stayed, process>>
  BY Zenon DEF LoadVM, ReqAt
<1>2. /\ req[c].name \in Names /\ req[c].uuid \in IDs /\ req[c].pc \in Named
      /\ nodeVMs \in SUBSET UUIDs
  BY <1>1 DEF IInv, Shapes, RequestOK, Named
<1>3. CASE req[c].uuid \in nodeVMs /\ Answer(c, req[c].uuid)
  <2>1. PICK vm \in UUIDs : vm = req[c].uuid
    BY <1>2, <1>3, Zenon
  <2> QED
    BY <1>1, <1>2, <1>3, <2>1, AnswerInv, Zenon
<1>4. CASE Answer(c, NoNode)
  BY <1>1, <1>2, <1>4, AnswerInv, Zenon
<1>5. CASE ReqGoto(c, "discover") /\ UNCHANGED last
  <2>1. PICK r \in Request : /\ req' = [req EXCEPT ![c] = r] /\ r.pc = "discover"
                             /\ r.name = req[c].name /\ r.uuid = req[c].uuid
    BY <1>5, GotoTypes, PcTypes
  <2>2. RequestOK(r)' /\ r.pc # "vms"
    BY <1>2, <2>1, Zenon DEF RequestOK
  <2>3. /\ nodeNameToUUID' \in [Names -> Known] /\ nodeVMs' \in SUBSET UUIDs
        /\ nodeVMs \subseteq nodeVMs' /\ last' \in [Names -> UUIDs \cup {NoNode}]
    BY <1>1, <1>5, Zenon DEF IInv, Shapes
  <2> QED
    BY <1>1, <2>1, <2>2, <2>3, LookupInv, Zenon
<1> QED
  BY <1>3, <1>4, <1>5, Zenon DEF LoadVM

(* The VM discovered is in the map: the request may load it. *)
LEMMA DiscoverInv ==
    ASSUME IInv, NEW c \in Callers, DiscoverNode(c)
    PROVE  IInv'
<1>1. /\ process = "up" /\ req[c].pc = "discover" /\ InformerUnchanged
      /\ UNCHANGED <<nodeNameToUUID, todo, vms, stayed, process>>
  BY Zenon DEF DiscoverNode, ReqAt
<1>2. /\ req[c].name \in Names /\ req[c].uuid \in IDs /\ req[c].pc \in Named
      /\ nodeVMs \in SUBSET UUIDs
  BY <1>1 DEF IInv, Shapes, RequestOK, Named
<1>3. CASE Answer(c, NoNode) /\ UNCHANGED nodeVMs
  BY <1>1, <1>2, <1>3, AnswerInv, Zenon
<1>4. CASE /\ req[c].uuid # NoID /\ nodeVMs' = nodeVMs \cup {req[c].uuid}
           /\ ReqGoto(c, "reload") /\ UNCHANGED last
  <2>1. PICK r \in Request : /\ req' = [req EXCEPT ![c] = r] /\ r.pc = "reload"
                             /\ r.name = req[c].name /\ r.uuid = req[c].uuid
    BY <1>4, GotoTypes, PcTypes
  <2>2. RequestOK(r)' /\ r.pc # "vms"
    BY <1>2, <1>4, <2>1, Zenon DEF RequestOK
  <2>3. /\ nodeNameToUUID' \in [Names -> Known] /\ nodeVMs' \in SUBSET UUIDs
        /\ nodeVMs \subseteq nodeVMs' /\ last' \in [Names -> UUIDs \cup {NoNode}]
    BY <1>1, <1>2, <1>4, Zenon DEF IInv, Shapes, IDs
  <2> QED
    BY <1>1, <2>1, <2>2, <2>3, LookupInv, Zenon
<1> QED
  BY <1>3, <1>4, Zenon DEF DiscoverNode

(* The panic: the VM was in the map, so it has been removed. *)
LEMMA ReloadInv ==
    ASSUME IInv, NEW c \in Callers, ReloadVM(c)
    PROVE  IInv'
<1>1. /\ process = "up" /\ req[c].pc = "reload" /\ InformerUnchanged
      /\ UNCHANGED <<nodeNameToUUID, nodeVMs, todo, vms, stayed>>
  BY Zenon DEF ReloadVM, ReqAt
<1>2. /\ req[c].pc \in Named /\ nodeVMs \in SUBSET UUIDs
      /\ req[c].uuid \in nodeVMs \cup removed
  BY <1>1 DEF IInv, Shapes, RequestOK, Named
<1>3. CASE req[c].uuid \in nodeVMs /\ Answer(c, req[c].uuid) /\ UNCHANGED process
  <2>1. PICK vm \in UUIDs : vm = req[c].uuid
    BY <1>2, <1>3, Zenon
  <2> QED
    BY <1>1, <1>2, <1>3, <2>1, AnswerInv, Zenon
<1>4. CASE req[c].uuid \notin nodeVMs /\ process' = "panicked" /\ UNCHANGED <<req, last>>
  <2>1. UNCHANGED <<nodes, events, informer, removed>>
    BY <1>1, Zenon DEF InformerUnchanged, envVars
  <2>2. NoNilVM'
    BY <1>1, <1>2, <1>4, <2>1, Zenon DEF NoNilVM
  <2>3. Shapes'
    BY <1>1, <1>4, <2>1, Zenon DEF IInv, Shapes
  <2> QED
    BY <1>1, <1>4, <2>1, <2>2, <2>3, Zenon DEF IInv, CallbackOK, RequestOK, StayedOK
<1> QED
  BY <1>3, <1>4, Zenon DEF ReloadVM

-----------------------------------------------------------------------------
(* GetAllNodes.  One caller's listing changes. *)
LEMMA ListingTypes ==
    ASSUME IInv, NEW c \in Callers, NEW T \in SUBSET (Names \cup UUIDs),
           NEW V \in SUBSET UUIDs, NEW S \in SUBSET UUIDs,
           todo' = [todo EXCEPT ![c] = T], vms' = [vms EXCEPT ![c] = V],
           stayed' = [stayed EXCEPT ![c] = S]
    PROVE  /\ todo' \in [Callers -> SUBSET (Names \cup UUIDs)]
           /\ vms' \in [Callers -> SUBSET UUIDs] /\ stayed' \in [Callers -> SUBSET UUIDs]
           /\ todo'[c] = T /\ vms'[c] = V /\ stayed'[c] = S
           /\ \A d \in Callers \ {c} :
                 todo'[d] = todo[d] /\ vms'[d] = vms[d] /\ stayed'[d] = stayed[d]
<1>1. /\ todo \in [Callers -> SUBSET (Names \cup UUIDs)]
      /\ vms \in [Callers -> SUBSET UUIDs] /\ stayed \in [Callers -> SUBSET UUIDs]
  BY Zenon DEF IInv, Shapes
<1>2. /\ todo' \in [Callers -> SUBSET (Names \cup UUIDs)] /\ todo'[c] = T
      /\ \A d \in Callers \ {c} : todo'[d] = todo[d]
  BY <1>1, Zenon
<1>3. /\ vms' \in [Callers -> SUBSET UUIDs] /\ vms'[c] = V
      /\ \A d \in Callers \ {c} : vms'[d] = vms[d]
  BY <1>1, Zenon
<1>4. /\ stayed' \in [Callers -> SUBSET UUIDs] /\ stayed'[c] = S
      /\ \A d \in Callers \ {c} : stayed'[d] = stayed[d]
  BY <1>1, Zenon
<1> QED
  BY <1>2, <1>3, <1>4, Zenon

(* A step of a listing, which stores no VM. *)
LEMMA ListInv ==
    ASSUME IInv, process = "up", NEW c \in Callers, InformerUnchanged,
           UNCHANGED <<nodeNameToUUID, nodeVMs, last, process>>,
           NEW r \in Request, req' = [req EXCEPT ![c] = r], RequestOK(r)',
           NEW T \in SUBSET (Names \cup UUIDs), NEW V \in SUBSET UUIDs, NEW S \in SUBSET UUIDs,
           todo' = [todo EXCEPT ![c] = T], vms' = [vms EXCEPT ![c] = V],
           stayed' = [stayed EXCEPT ![c] = S],
           S \subseteq nodeVMs, r.pc = "vms" => S \subseteq V \cup T
    PROVE  IInv'
<1>1. /\ nodeNameToUUID' \in [Names -> Known] /\ nodeVMs' \in SUBSET UUIDs
      /\ nodeVMs \subseteq nodeVMs' /\ last' \in [Names -> UUIDs \cup {NoNode}]
  BY Zenon DEF IInv, Shapes
<1>2. /\ todo' \in [Callers -> SUBSET (Names \cup UUIDs)]
      /\ vms' \in [Callers -> SUBSET UUIDs] /\ stayed' \in [Callers -> SUBSET UUIDs]
      /\ todo'[c] = T /\ vms'[c] = V /\ stayed'[c] = S
      /\ \A d \in Callers \ {c} :
            todo'[d] = todo[d] /\ vms'[d] = vms[d] /\ stayed'[d] = stayed[d]
  BY ListingTypes, Zenon
<1> QED
  BY <1>1, <1>2, RequestInv, Zenon

(* What is not assigned is assigned its own value. *)
LEMMA Same ==
    ASSUME IInv, NEW c \in Callers
    PROVE  /\ req = [req EXCEPT ![c] = req[c]] /\ req[c] \in Request
           /\ todo = [todo EXCEPT ![c] = todo[c]] /\ todo[c] \in SUBSET (Names \cup UUIDs)
           /\ vms = [vms EXCEPT ![c] = vms[c]] /\ vms[c] \in SUBSET UUIDs
           /\ stayed = [stayed EXCEPT ![c] = stayed[c]] /\ stayed[c] \in SUBSET UUIDs
           /\ stayed[c] \subseteq nodeVMs /\ nodeVMs \in SUBSET UUIDs
           /\ req[c].pc = "vms" => stayed[c] \subseteq vms[c] \cup todo[c]
           /\ RequestOK(req[c])
<1>1. /\ req \in [Callers -> Request] /\ todo \in [Callers -> SUBSET (Names \cup UUIDs)]
      /\ vms \in [Callers -> SUBSET UUIDs] /\ stayed \in [Callers -> SUBSET UUIDs]
      /\ nodeVMs \in SUBSET UUIDs
  BY Zenon DEF IInv, Shapes
<1>2. RequestOK(req[c]) /\ StayedOK(c)
  BY Zenon DEF IInv
<1>3. req = [req EXCEPT ![c] = req[c]] /\ todo = [todo EXCEPT ![c] = todo[c]]
  BY <1>1, Zenon
<1>4. vms = [vms EXCEPT ![c] = vms[c]] /\ stayed = [stayed EXCEPT ![c] = stayed[c]]
  BY <1>1, Zenon
<1> QED
  BY <1>1, <1>2, <1>3, <1>4, Zenon DEF StayedOK

(* A step that changes only what the listing has still to visit. *)
LEMMA TodoInv ==
    ASSUME IInv, process = "up", NEW c \in Callers, InformerUnchanged,
           UNCHANGED <<nodeNameToUUID, nodeVMs, vms, last, stayed, process>>,
           NEW r \in Request, req' = [req EXCEPT ![c] = r], RequestOK(r)',
           NEW T \in SUBSET (Names \cup UUIDs), todo' = [todo EXCEPT ![c] = T],
           r.pc = "vms" => stayed[c] \subseteq vms[c] \cup T
    PROVE  IInv'
<1>1. /\ nodeNameToUUID' \in [Names -> Known] /\ nodeVMs' \in SUBSET UUIDs
      /\ nodeVMs \subseteq nodeVMs' /\ last' \in [Names -> UUIDs \cup {NoNode}]
      /\ vms' \in [Callers -> SUBSET UUIDs] /\ stayed' \in [Callers -> SUBSET UUIDs]
  BY Zenon DEF IInv, Shapes
<1>2. /\ todo' \in [Callers -> SUBSET (Names \cup UUIDs)] /\ todo'[c] = T
      /\ \A d \in Callers \ {c} : todo'[d] = todo[d]
  BY Zenon DEF IInv, Shapes
<1>3. \A d \in Callers \ {c} :
          todo'[d] = todo[d] /\ vms'[d] = vms[d] /\ stayed'[d] = stayed[d]
  BY <1>2, Zenon
<1>4. stayed'[c] \subseteq nodeVMs' /\ (r.pc = "vms" => stayed'[c] \subseteq vms'[c] \cup todo'[c])
  BY <1>2, Same, Zenon
<1> QED
  BY <1>1, <1>2, <1>3, <1>4, RequestInv, Zenon

LEMMA AllNodesInv ==
    ASSUME IInv, NEW c \in Callers, GetAllNodes(c)
    PROVE  IInv'
<1>1. /\ process = "up" /\ InformerUnchanged
      /\ UNCHANGED <<nodeNameToUUID, nodeVMs, vms, last, process>>
      /\ req' = [req EXCEPT ![c].pc = "names"]
  BY Zenon DEF GetAllNodes, ReqAt
<1>2. PICK r : r = [req[c] EXCEPT !.pc = "names"]
  OBVIOUS
<1>3. r \in Request /\ r.pc = "names"
  BY <1>2, Same DEF Request, Pcs
<1>4. req' = [req EXCEPT ![c] = r]
  BY <1>1, <1>2 DEF IInv, Shapes
<1>5. RequestOK(r)' /\ r.pc # "vms"
  BY <1>3 DEF RequestOK, Named
<1>6. PICK T \in SUBSET (Names \cup UUIDs) : todo' = [todo EXCEPT ![c] = T]
  BY Zenon DEF GetAllNodes
<1>7. PICK S \in SUBSET UUIDs : S = nodeVMs
  BY Same, Zenon
<1>8. PICK V \in SUBSET UUIDs : V = vms[c]
  BY Same, Zenon
<1>9. stayed' = [stayed EXCEPT ![c] = S] /\ vms' = [vms EXCEPT ![c] = V] /\ S \subseteq nodeVMs
  BY <1>1, <1>7, <1>8, Same, Zenon DEF GetAllNodes
<1> QED
  BY <1>1, <1>3, <1>4, <1>5, <1>6, <1>7, <1>8, <1>9, ListInv, Zenon

LEMMA ResolveInv ==
    ASSUME IInv, NEW c \in Callers, NEW n \in Names, ResolveName(c, n)
    PROVE  IInv'
<1>1. /\ process = "up" /\ InformerUnchanged /\ req[c].pc = "names"
      /\ UNCHANGED <<nodeNameToUUID, nodeVMs, vms, last, stayed, process>>
  BY Zenon DEF ResolveName, ReqAt
<1>2. PICK T \in SUBSET (Names \cup UUIDs) : todo' = [todo EXCEPT ![c] = T]
  <2>1. todo' = [todo EXCEPT ![c] = @ \ {n}] \/ todo' = [todo EXCEPT ![c] = {}]
    BY Zenon DEF ResolveName
  <2> QED
    BY <2>1, Same, Zenon
<1>3. PICK r \in Request : /\ req' = [req EXCEPT ![c] = r] /\ r.pc # "vms"
                           /\ r.pc \in Named => /\ r.name \in Names /\ r.uuid \in IDs
                                                /\ r.pc # "reload"
  <2>1. CASE UNCHANGED req
    <3>1. PICK r : r = req[c]
      OBVIOUS
    <3>2. r \in Request /\ req' = [req EXCEPT ![c] = r] /\ r.pc = "names"
      BY <1>1, <2>1, <3>1, Same, Zenon
    <3> QED
      BY <3>2 DEF Named
  <2>2. CASE /\ nodes[n] \in UUIDs
             /\ req' = [req EXCEPT ![c] = [pc |-> "resolved", name |-> n, uuid |-> nodes[n]]]
    <3>1. PICK u \in UUIDs : u = nodes[n]
      BY <2>2, Zenon
    <3>2. PICK r : r = [pc |-> "resolved", name |-> n, uuid |-> u]
      OBVIOUS
    <3>3. r \in Request /\ r.pc = "resolved" /\ r.name = n /\ r.uuid = u
      BY <3>2 DEF Request, Pcs, Known, IDs
    <3> QED
      BY <2>2, <3>1, <3>2, <3>3, Zenon DEF IDs
  <2> QED
    BY <2>1, <2>2, Zenon DEF ResolveName
<1>4. RequestOK(r)'
  <2>1. "reload" \in Named
    BY Zenon DEF Named
  <2> QED
    BY <1>3, <2>1, Zenon DEF RequestOK
<1> QED
  BY <1>1, <1>2, <1>3, <1>4, TodoInv, Zenon

LEMMA StoreResolvedInv ==
    ASSUME IInv, NEW c \in Callers, StoreResolved(c)
    PROVE  IInv'
<1>1. /\ process = "up" /\ InformerUnchanged /\ req[c].pc = "resolved"
      /\ UNCHANGED <<nodeVMs, todo, vms, last, stayed, process>>
      /\ nodeNameToUUID' = [nodeNameToUUID EXCEPT ![req[c].name] = req[c].uuid]
      /\ req' = [req EXCEPT ![c] = [Idle EXCEPT !.pc = "names"]]
  BY Zenon DEF StoreResolved, ReqAt
<1>2. req[c].name \in Names /\ req[c].uuid \in IDs
  BY <1>1, Same DEF RequestOK, Named
<1>3. /\ nodeNameToUUID' \in [Names -> Known] /\ nodeVMs' \in SUBSET UUIDs
      /\ nodeVMs \subseteq nodeVMs' /\ last' \in [Names -> UUIDs \cup {NoNode}]
  BY <1>1, <1>2, Zenon DEF IInv, Shapes, Known
<1>4. PICK r : r = [Idle EXCEPT !.pc = "names"]
  OBVIOUS
<1>5. r \in Request /\ r.pc = "names"
  BY <1>4, IdleTypes DEF Request, Pcs
<1>6. RequestOK(r)' /\ r.pc # "vms"
  BY <1>5 DEF RequestOK, Named
<1> QED
  BY <1>1, <1>3, <1>4, <1>5, <1>6, LookupInv

LEMMA RangeInv ==
    ASSUME IInv, NEW c \in Callers, RangeVMs(c)
    PROVE  IInv'
<1>1. /\ process = "up" /\ InformerUnchanged /\ ReqGoto(c, "vms")
      /\ UNCHANGED <<nodeNameToUUID, nodeVMs, vms, last, stayed, process>>
      /\ todo' = [todo EXCEPT ![c] = nodeVMs]
  BY Zenon DEF RangeVMs, ReqAt
<1>2. PICK r \in Request : req' = [req EXCEPT ![c] = r] /\ r.pc = "vms"
  BY <1>1, GotoTypes, PcTypes
<1>3. RequestOK(r)'
  BY <1>2 DEF RequestOK, Named
<1>4. PICK T \in SUBSET (Names \cup UUIDs) : T = nodeVMs
  BY Same, Zenon
<1>5. todo' = [todo EXCEPT ![c] = T] /\ stayed[c] \subseteq vms[c] \cup T
  BY <1>1, <1>4, Same, Zenon
<1> QED
  BY <1>1, <1>2, <1>3, <1>4, <1>5, TodoInv, Zenon

(* The listing ends, with a result or an error. *)
LEMMA ForgetInv ==
    ASSUME IInv, process = "up", NEW c \in Callers, InformerUnchanged, Forget(c),
           UNCHANGED <<nodeNameToUUID, nodeVMs, last, process>>
    PROVE  IInv'
<1>1. RequestOK(Idle)' /\ Idle.pc # "vms"
  BY IdleTypes DEF RequestOK, Named
<1>2. /\ req' = [req EXCEPT ![c] = Idle] /\ todo' = [todo EXCEPT ![c] = {}]
      /\ vms' = [vms EXCEPT ![c] = {}] /\ stayed' = [stayed EXCEPT ![c] = {}]
  BY Zenon DEF Forget
<1>3. {} \in SUBSET (Names \cup UUIDs) /\ {} \in SUBSET UUIDs /\ {} \subseteq nodeVMs
  BY Zenon
<1> QED
  BY <1>1, <1>2, <1>3, IdleTypes, ListInv, Zenon

(* A VM that has stayed is in the map when it is visited, and so is taken. *)
LEMMA RenewInv ==
    ASSUME IInv, NEW c \in Callers, NEW u \in UUIDs, RenewVM(c, u)
    PROVE  IInv'
<1>1. /\ process = "up" /\ InformerUnchanged /\ req[c].pc = "vms"
      /\ UNCHANGED <<nodeNameToUUID, nodeVMs, last, process>>
  BY Zenon DEF RenewVM, ReqAt
<1>2. CASE Forget(c)
  BY <1>1, <1>2, ForgetInv, Zenon
<1>3. CASE /\ todo' = [todo EXCEPT ![c] = @ \ {u}]
           /\ vms' = IF u \in nodeVMs THEN [vms EXCEPT ![c] = @ \cup {u}] ELSE vms
           /\ UNCHANGED <<req, stayed>>
  <2>1. PICK T : T = todo[c] \ {u}
    OBVIOUS
  <2>2. PICK V : V = IF u \in nodeVMs THEN vms[c] \cup {u} ELSE vms[c]
    OBVIOUS
  <2>3. PICK S, r : S = stayed[c] /\ r = req[c]
    OBVIOUS
  <2>4. /\ todo' = [todo EXCEPT ![c] = T] /\ T \in SUBSET (Names \cup UUIDs)
    BY <1>3, <2>1, Same, Zenon
  <2>5. vms' = [vms EXCEPT ![c] = V] /\ V \in SUBSET UUIDs
    <3>1. CASE u \in nodeVMs
      BY <1>3, <2>2, <3>1, Same, Zenon
    <3>2. CASE u \notin nodeVMs
      BY <1>3, <2>2, <3>2, Same, Zenon
    <3> QED
      BY <3>1, <3>2, Zenon
  <2>6. /\ stayed' = [stayed EXCEPT ![c] = S] /\ S \in SUBSET UUIDs /\ S \subseteq nodeVMs
        /\ req' = [req EXCEPT ![c] = r] /\ r \in Request /\ r.pc = "vms"
    BY <1>1, <1>3, <2>3, Same, Zenon
  <2>7. RequestOK(r)'
    BY <2>6 DEF RequestOK, Named
  <2>8. S \subseteq V \cup T
    <3>1. stayed[c] \subseteq vms[c] \cup todo[c] /\ stayed[c] \subseteq nodeVMs
      BY <1>1, Same, Zenon
    <3> QED
      BY <2>1, <2>2, <2>3, <3>1
  <2> QED
    BY <1>1, <2>4, <2>5, <2>6, <2>7, <2>8, ListInv
<1> QED
  BY <1>2, <1>3, Zenon DEF RenewVM

-----------------------------------------------------------------------------
LEMMA NextIInv == IInv /\ [Next]_vars => IInv'
<1> SUFFICES ASSUME IInv, [Next]_vars PROVE IInv'
  OBVIOUS
<1>1. CASE \E c \in Callers : RequestNext(c)
  <2>1. PICK c \in Callers : RequestNext(c)
    BY <1>1, Zenon
  <2>2. CASE ReturnVMs(c)
    BY <2>2, ForgetInv, Zenon DEF ReturnVMs, ReqAt
  <2> QED
    BY <2>1, <2>2, ByNameInv, ResolveInv, VMUUIDInv, StoreInv, LoadInv, DiscoverInv,
       ReloadInv, AllNodesInv, StoreResolvedInv, RangeInv, RenewInv, Zenon DEF RequestNext
<1>2. CASE UNCHANGED vars
  <2>1. /\ UNCHANGED <<nodes, events, nodeNameToUUID, nodeVMs, informer, req, todo, vms>>
        /\ UNCHANGED <<last, stayed, removed, process>>
    BY <1>2, Zenon DEF vars
  <2>2. Shapes'
    BY <2>1, Zenon DEF IInv, Shapes
  <2> QED
    BY <2>1, <2>2, Zenon DEF IInv, CallbackOK, NoNilVM, RequestOK, StayedOK
<1> QED
  BY <1>1, <1>2, ClusterInv, InformerInv, Zenon DEF Next

(* Types, for every set of nodes, VMs and callers: in particular a VM is   *)
(* stored, and returned, only under a UUID, never the empty one.           *)
THEOREM NodeManagerTypes == Spec => []TypeOK
<1>1. IInv => TypeOK
  <2> SUFFICES ASSUME IInv PROVE TypeOK
    OBVIOUS
  <2>1. informer.pc \in {"idle", "discover", "deleteName", "deleteVM"}
    BY DEF IInv, Shapes, Callback
  <2>2. \A c \in Callers : req[c].pc \in Pcs
    BY DEF IInv, Shapes, Request
  <2>3. \A c \in Callers : vms[c] \subseteq UUIDs /\ stayed[c] \subseteq UUIDs
    BY Zenon DEF IInv, Shapes
  <2> QED
    BY <2>1, <2>2, <2>3, Zenon DEF TypeOK, IInv, Shapes, Event, Known, Pcs
<1> QED
  BY <1>1, InitIInv, NextIInv, PTL DEF Spec

(* For every set of nodes, VMs and callers, and any interleaving: GetNode  *)
(* meets a nil VM only if UnregisterNode has removed the VM that it had    *)
(* discovered.                                                             *)
THEOREM OnlyRemovalsPanic == Spec => []NoNilVM
<1>1. IInv => NoNilVM
  BY DEF IInv
<1> QED
  BY <1>1, InitIInv, NextIInv, PTL DEF Spec

(* For every set of nodes, VMs and callers, and any interleaving:          *)
(* GetAllNodes returns every VM that was known when it began and was not   *)
(* removed since.                                                          *)
THEOREM ListingsComplete == Spec => AllNodesReturned
<1>1. IInv => [\A c \in Callers : ReturnVMs(c) => stayed[c] \subseteq vms[c]]_vars
  <2> SUFFICES ASSUME IInv, NEW c \in Callers, ReturnVMs(c)
               PROVE  stayed[c] \subseteq vms[c]
    BY Zenon
  <2>1. req[c].pc = "vms" /\ todo[c] = {}
    BY Zenon DEF ReturnVMs, ReqAt
  <2> QED
    BY <2>1, Same
<1> QED
  BY <1>1, InitIInv, NextIInv, PTL DEF Spec, AllNodesReturned
===============================================================================
