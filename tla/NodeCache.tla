------------------------------ MODULE NodeCache ------------------------------
(***************************************************************************)
(* The node cache (pkg/common/cns-lib/node/cache.go): two maps between the *)
(* UUIDs and the names of the cluster's nodes.  One mutex guards both, so  *)
(* every method is one atomic step.                                        *)
(*                                                                         *)
(* A UUID reaches the cache in some spelling <<uuid, case>>, which         *)
(* normalizeUUID lower-cases.  NoUUID and NoName mark absent keys.         *)
(***************************************************************************)
EXTENDS NodeKeys

CONSTANTS NoUUID, NoName

Spellings == UUIDs \X {"lower", "mixed"}

ASSUME CacheAssumption == NoName \notin Names /\ NoUUID \notin Spellings

VARIABLES uuidsToNames,     \* spelling -> name, NoName where absent
          namesToUUIDs,     \* name -> spelling, NoUUID where absent
          err               \* what the last method that changes the maps returned

cacheVars == <<uuidsToNames, namesToUUIDs, err>>

normalizeUUID(s) == <<s[1], "lower">>

LoadNodeNameByUUID(s) == uuidsToNames[normalizeUUID(s)]

LoadNodeUUIDByName(n) == namesToUUIDs[n]

(* The entries Range offers to its callback. *)
Entries == {e \in Spellings \X Names : uuidsToNames[e[1]] = e[2]}

CacheInit == /\ uuidsToNames = [s \in Spellings |-> NoName]
             /\ namesToUUIDs = [n \in Names |-> NoUUID]
             /\ err = "nil"

Fail(e) == err' = e /\ UNCHANGED <<uuidsToNames, namesToUUIDs>>

-----------------------------------------------------------------------------

(* Store that leaves the previous name of the UUID and UUID of the name. *)
StoreKeepingOld(s, n) ==
    LET u == normalizeUUID(s)
    IN  /\ uuidsToNames' = [uuidsToNames EXCEPT ![u] = n]
        /\ namesToUUIDs' = [namesToUUIDs EXCEPT ![n] = u]
        /\ err' = "nil"

(* Store that checks for no conflict. *)
StoreMerging(s, n) ==
    LET u == normalizeUUID(s)
    IN  /\ uuidsToNames' = [k \in Spellings |->
                              IF k = u THEN n
                              ELSE IF k = namesToUUIDs[n] THEN NoName
                              ELSE uuidsToNames[k]]
        /\ namesToUUIDs' = [m \in Names |->
                              IF m = n THEN u
                              ELSE IF m = uuidsToNames[u] THEN NoUUID
                              ELSE namesToUUIDs[m]]
        /\ err' = "nil"

(* Both keys are known and do not belong together. *)
Conflict(u, n) == /\ uuidsToNames[u] # NoName
                  /\ namesToUUIDs[n] # NoUUID
                  /\ namesToUUIDs[n] # u

(* Otherwise the node replaces whatever its UUID and its name were bound to. *)
Store(s, n) ==
    LET u == normalizeUUID(s)
    IN  \/ Conflict(u, n) /\ Fail("ErrNodeAlreadyExists")
        \/ /\ ~Conflict(u, n)
           /\ uuidsToNames' = [k \in Spellings |->
                                 IF k = u THEN n
                                 ELSE IF k = namesToUUIDs[n] THEN NoName
                                 ELSE uuidsToNames[k]]
           /\ namesToUUIDs' = [m \in Names |->
                                 IF m = n THEN u
                                 ELSE IF m = uuidsToNames[u] THEN NoUUID
                                 ELSE namesToUUIDs[m]]
           /\ err' = "nil"

Remove(u, n) == /\ uuidsToNames' = [uuidsToNames EXCEPT ![u] = NoName]
                /\ namesToUUIDs' = [namesToUUIDs EXCEPT ![n] = NoUUID]
                /\ err' = "nil"

DeleteNodeByUUID(s) ==
    LET u == normalizeUUID(s)
    IN  \/ uuidsToNames[u] = NoName /\ Fail("ErrNodeNotFound")
        \/ uuidsToNames[u] # NoName /\ Remove(u, uuidsToNames[u])

DeleteNodeByName(n) ==
    \/ namesToUUIDs[n] = NoUUID /\ Fail("ErrNodeNotFound")
    \/ namesToUUIDs[n] # NoUUID /\ Remove(namesToUUIDs[n], n)

CacheNext == \/ \E s \in Spellings, n \in Names : Store(s, n)
             \/ \E s \in Spellings : DeleteNodeByUUID(s)
             \/ \E n \in Names : DeleteNodeByName(n)

CacheSpec == CacheInit /\ [][CacheNext]_cacheVars

-----------------------------------------------------------------------------

(* Every name and UUID a map holds is one the methods were given. *)
CacheTypeOK == /\ uuidsToNames \in [Spellings -> Names \cup {NoName}]
               /\ namesToUUIDs \in [Names -> Spellings \cup {NoUUID}]
               /\ err \in {"nil", "ErrNodeNotFound", "ErrNodeAlreadyExists"}

(* The two maps are inverses of each other, in every spelling of a UUID:   *)
(* LoadNodeNameByUUID finds a node exactly when LoadNodeUUIDByName finds   *)
(* the same one, so no node is known under two names or two UUIDs.         *)
LookupsAgree ==
    \A s \in Spellings, n \in Names :
        LoadNodeNameByUUID(s) = n <=> LoadNodeUUIDByName(n) = normalizeUUID(s)

(* Only lower-case keys are stored, else a lookup would miss them. *)
KeysNormalized ==
    \A s \in Spellings, n \in Names :
        uuidsToNames[s] = n \/ namesToUUIDs[n] = s => s = normalizeUUID(s)

(* The inductive invariant. *)
CacheInv == CacheTypeOK /\ LookupsAgree /\ KeysNormalized

(* The cache implements a set of bindings of which each method changes one *)
(* node's at most: Store never makes two known nodes one.                  *)
Abstract == INSTANCE NodeBindings
                WITH UUIDs <- UUIDs \X {"lower"}, bindings <- Entries

Implements == Abstract!Spec
=============================================================================
