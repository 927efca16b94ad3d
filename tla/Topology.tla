------------------------------- MODULE Topology -------------------------------
(***************************************************************************)
(* Zones, regions and shared datastores: what the controller and the node  *)
(* plugin compute from the vSphere inventory (virtualmachine.go and        *)
(* csi/service/cns/nodes.go).                                              *)
(*                                                                         *)
(* An inventory inv gives each node VM its ancestors, from the root folder *)
(* to the host (inv.path[n]), each ancestor the tags attached to it        *)
(* (inv.tags[o], a sequence of [category, name]) and each VM the           *)
(* datastores its host can access (inv.access[n]).  A topology is a record *)
(* [zone, region] in which "" stands for a missing segment.                *)
(***************************************************************************)
EXTENDS Naturals, Sequences, FiniteSets, FiniteSetsExt, Functions

Topologies == [zone : STRING, region : STRING]
NoTopology == [zone |-> "", region |-> ""]

(* What vCenter guarantees: a tag has a name. *)
TagSet == [category : STRING, name : STRING \ {""}]
Inventory(inv, n) == /\ inv.path[n] \in Seq(DOMAIN inv.tags)
                     /\ \A o \in DOMAIN inv.tags : inv.tags[o] \in Seq(TagSet)

(* All tags of the ancestors of n, the host's first. *)
TagsUpwards(inv, n) ==
    LET path == inv.path[n]
        from[i \in 0..Len(path)] ==
            IF i = 0 THEN << >> ELSE inv.tags[path[i]] \o from[i - 1]
    IN  from[Len(path)]

(* A later tag overrides an earlier one. *)
ReadTagLast(zr, tag) ==
    [zone   |-> IF tag.category = "zone" THEN tag.name ELSE zr.zone,
     region |-> IF tag.category = "region" THEN tag.name ELSE zr.region]

(* One round of the loop over tags: only the first tag of a category counts. *)
ReadTag(zr, tag) ==
    [zone   |-> IF tag.category = "zone" /\ zr.zone = "" THEN tag.name ELSE zr.zone,
     region |-> IF tag.category = "region" /\ zr.region = "" THEN tag.name ELSE zr.region]

GetZoneRegion(inv, n) ==
    LET tags == TagsUpwards(inv, n)
        read[i \in 0..Len(tags)] ==
            IF i = 0 THEN NoTopology ELSE LET zr == read[i - 1] IN ReadTag(zr, tags[i])
    IN  read[Len(tags)]

(* Only the zone is compared. *)
IsInZone(inv, n, t) == LET vm == GetZoneRegion(inv, n) IN vm.zone # "" /\ vm.zone = t.zone

IsInZoneRegion(inv, n, t) ==
    LET vm == GetZoneRegion(inv, n)
    IN  \/ t.region = "" /\ t.zone # "" /\ vm.zone = t.zone
        \/ t.zone = "" /\ t.region # "" /\ vm.region = t.region
        \/ vm.zone # "" /\ vm.region # "" /\ vm = t

(* One segment is enough. *)
NodeLabelsAny(inv, n) == GetZoneRegion(inv, n)

(* The labels NodeGetInfo reports for the node: both segments or none. *)
NodeLabels(inv, n) ==
    LET vm == GetZoneRegion(inv, n)
    IN  IF vm.zone # "" /\ vm.region # "" THEN vm ELSE NoTopology

(* A node with these labels satisfies a volume's accessible topology.      *)
Matches(labels, t) == /\ t.zone \in {"", labels.zone}
                      /\ t.region \in {"", labels.region}

-----------------------------------------------------------------------------
(* GetSharedDatastoresForVMs intersects node by node, and fails as soon as *)
(* nothing is left.  The order of the nodes is that of a Go map: FoldSet   *)
(* takes one, on which the result does not depend.  A result is [ds, err]. *)
Found(ds) == [ds |-> ds, err |-> FALSE]
Failed    == [ds |-> {}, err |-> TRUE]
With(r, map) == [ds |-> r.ds, err |-> r.err, map |-> map]

Intersect(r, access) ==
    LET ds == IF r.ds = {} THEN access ELSE r.ds \cap access
    IN  IF r.err \/ ds = {} THEN Failed ELSE Found(ds)

GetSharedDatastoresForVMs(inv, vms) ==
    FoldSet(LAMBDA vm, r : Intersect(r, inv.access[vm]), Found({}), vms)

(* The nodes that a topology selects. *)
getNodesInZoneRegion(inv, nodes, t) == {n \in nodes : IsInZoneRegion(inv, n, t)}

(* Every datastore is recorded for every topology of the list. *)
sharedDatastoresUnsorted(inv, nodes, topologyArr) ==
    LET shared == {GetSharedDatastoresForVMs(inv, getNodesInZoneRegion(inv, nodes, t)) :
                     t \in Range(topologyArr)}
        ds == UNION {r.ds : r \in shared}
    IN  IF \E r \in shared : r.err
        THEN With(Failed, << >>)
        ELSE With(Found(ds), [d \in ds |-> Range(topologyArr)])

(* Shared datastores per topology of the list, and for each datastore the  *)
(* topologies it was found for; an error for one of them ends the search.  *)
getSharedDatastoresInTopology(inv, nodes, topologyArr) ==
    LET shared == [t \in Range(topologyArr) |->
                     GetSharedDatastoresForVMs(inv, getNodesInZoneRegion(inv, nodes, t))]
        ds == UNION {shared[t].ds : t \in DOMAIN shared}
    IN  IF \E t \in DOMAIN shared : shared[t].err
        THEN With(Failed, << >>)
        ELSE With(Found(ds), [d \in ds |-> {t \in DOMAIN shared : d \in shared[t].ds}])

(* Requisite topologies count only if the preferred ones gave no datastore. *)
GetSharedDatastoresInTopology(inv, nodes, req) ==
    LET preferred == getSharedDatastoresInTopology(inv, nodes, req.preferred)
    IN  IF nodes = {} THEN With(Failed, << >>)
        ELSE IF preferred.err \/ preferred.ds # {} THEN preferred
        ELSE getSharedDatastoresInTopology(inv, nodes, req.requisite)

GetSharedDatastoresInK8SCluster(inv, nodes) ==
    IF nodes = {} THEN Failed ELSE GetSharedDatastoresForVMs(inv, nodes)

-----------------------------------------------------------------------------
(* For properties: the first tag of a category on an object, and the one   *)
(* on the nearest ancestor of n that has one; "" if there is none.         *)
FirstTag(tags, category) ==
    LET those == {i \in DOMAIN tags : tags[i].category = category}
    IN  IF those = {} THEN "" ELSE tags[Min(those)].name

NearestTag(inv, n, category) ==
    LET tag(i) == FirstTag(inv.tags[inv.path[n][i]], category)
        tagged == {i \in DOMAIN inv.path[n] : tag(i) # ""}
    IN  IF tagged = {} THEN "" ELSE tag(Max(tagged))

(* The datastores that all of the nodes ns can access. *)
Common(inv, ns) ==
    {d \in UNION {inv.access[n] : n \in ns} : \A n \in ns : d \in inv.access[n]}
===============================================================================
