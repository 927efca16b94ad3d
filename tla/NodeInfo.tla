------------------------------- MODULE NodeInfo -------------------------------
(***************************************************************************)
(* NodeGetInfo (csi/service/node.go) and the registry of vCenters          *)
(* (virtualcentermanager.go).  A call reads the configuration, registers   *)
(* the vCenter, connects, finds the node's VM by its UUID, reads the tags  *)
(* above it and, when it returns, unregisters all vCenters.  Nothing keeps *)
(* two calls apart: kubelet may call again while a call it gave up on      *)
(* still runs, and they share the registry.                                *)
(*                                                                         *)
(* A VirtualCenter object is named by the call that made it.  Its client   *)
(* is "nil", "live", or "ended" once its session was logged out.  The      *)
(* search for the VM is module VMSearch; here it visits the registered     *)
(* vCenters one by one.  Using a nil client panics and ends the process.   *)
(***************************************************************************)
EXTENDS Config, Topology

CONSTANTS MaxCalls,         \* bound: calls of NodeGetInfo
          MaxFaults,        \* bound: failures of vCenter and of the node
          Setups            \* the nodes considered: configuration file, environment,
                            \* UUIDs, inventory, the accounts of the vCenters, and
                            \* the bounds calls and overlap on the calls, and on
                            \* those that run at a time

ASSUME NodeInfoAssumption == MaxCalls \in Nat /\ MaxFaults \in Nat

(* A file is read into a whole configuration; the environment is a list;   *)
(* a UUID has 16 bytes; tags have names.                                   *)
ASSUME SetupsAssumption ==
    \A s \in DOMAIN Setups : /\ DOMAIN Setups[s].file = DOMAIN EmptyConfig
                             /\ DOMAIN Setups[s].env \subseteq Nat
                             /\ Setups[s].uuid \in Seq(Nat) /\ Len(Setups[s].uuid) = 16
                             /\ Inventory(Setups[s].inv, "vm")

Calls == 1..MaxCalls
None  == 0

VARIABLES setup,            \* the node, fixed
          cfg,              \* what GetCnsconfig returns there, fixed
          labels,           \* the labels its tags give it, fixed
          pc,               \* of each call
          host,             \* the vCenter a call chose
          todo,             \* the objects its search has not visited
          vc,               \* the object its search, or its unregistering, is at;
                            \* the locals are reset once they are dead
          converted,        \* calls that look for the converted UUID
          vm,               \* the object whose client found its VM; None when that
                            \* session has ended
          answer,           \* what a call returned
          registry,         \* virtualCenters
          client,           \* the client of each object
          rest,             \* calls with an open REST session, which reads the tags
          lost,             \* calls with a session that nobody will end: the answer to
                            \* its login was lost, or its logout failed unnoticed
          overlap,          \* history: calls during which another one ran
          struck,           \* history: calls during which something failed, or whose
                            \* search missed the VM
          stuck,            \* history: a logout failed
          crashed,          \* history: the calls that ran at the last panic
          faults

fixed    == <<setup, cfg, labels>>
search   == <<todo, vc, converted, vm>>
sessions == <<rest, lost>>
history  == <<overlap, struck, stuck, crashed, faults>>
vars     == <<fixed, pc, host, search, answer, registry, client, sessions, history>>

NoAnswer == [ok |-> FALSE, labels |-> NoTopology]

Init == /\ setup \in DOMAIN Setups
        /\ cfg = GetCnsconfig(Setups[setup].file, Setups[setup].env)
        /\ labels = NodeLabels(Setups[setup].inv, "vm")
        /\ pc = [c \in Calls |-> "idle"]
        /\ host = [c \in Calls |-> ""]
        /\ todo = [c \in Calls |-> {}] /\ vc = [c \in Calls |-> None]
        /\ converted = {} /\ vm = [c \in Calls |-> None]
        /\ answer = [c \in Calls |-> NoAnswer]
        /\ registry = << >>
        /\ client = [c \in Calls |-> "nil"]
        /\ rest = {} /\ lost = {}
        /\ overlap = {} /\ struck = {} /\ stuck = FALSE
        /\ crashed = {} /\ faults = 0

S == Setups[setup]
At(c, l)   == pc[c] = l
Goto(c, l) == pc' = [pc EXCEPT ![c] = l]
Running    == {c \in Calls : pc[c] \notin {"idle", "done"}}

(* A failure, which the call c sees. *)
Fault(c) == /\ faults < MaxFaults /\ faults' = faults + 1
            /\ struck' = struck \cup {c}
            /\ UNCHANGED <<overlap, stuck, crashed>>

-----------------------------------------------------------------------------
(* A nil client is used: the process ends, and its calls with it. *)
Panic ==
    /\ pc' = [c \in Calls |-> IF c \in Running THEN "done" ELSE pc[c]]
    /\ registry' = << >> /\ client' = [c \in Calls |-> "nil"]
    /\ todo' = [c \in Calls |-> {}] /\ vc' = [c \in Calls |-> None]
    /\ converted' = {} /\ vm' = [c \in Calls |-> None]
    /\ lost' = lost \cup rest \cup {c \in Calls : client[c] = "live"} /\ rest' = {}
    /\ stuck' = FALSE /\ crashed' = Running
    /\ UNCHANGED <<fixed, host, answer, overlap, struck, faults>>

(* Kubelet calls. *)
Call(c) ==
    /\ At(c, "idle") /\ \A d \in Calls : d < c => ~ At(d, "idle")
    /\ c <= S.calls /\ Cardinality(Running) < S.overlap
    /\ Goto(c, "config")
    /\ overlap' = IF Running = {} THEN overlap ELSE overlap \cup Running \cup {c}
    /\ UNCHANGED <<fixed, host, search, answer, sessions, registry, client, struck, stuck,
                   crashed, faults>>

(* The configuration; without categories there is nothing else to do. *)
GetConfig(c) ==
    LET topology == cfg.cfg.zone # "" /\ cfg.cfg.region # ""
        usable   == GetVirtualCenterConfig(cfg.cfg)
    IN
    /\ At(c, "config")
    /\ \/ /\ cfg.ok /\ ~ topology
          /\ answer' = [answer EXCEPT ![c] = [ok |-> TRUE, labels |-> NoTopology]]
          /\ Goto(c, "done") /\ UNCHANGED <<host, history>>
       \/ /\ cfg.ok /\ topology
          /\ \E h \in usable : host' = [host EXCEPT ![c] = h]
          /\ Goto(c, "load") /\ UNCHANGED <<answer, history>>
       \/ /\ (~ cfg.ok \/ (topology /\ usable # DOMAIN cfg.cfg.vcs))
          /\ Goto(c, "done") /\ UNCHANGED <<host, answer, history>>
       \/ Goto(c, "done") /\ Fault(c) /\ UNCHANGED <<host, answer>>
    /\ UNCHANGED <<fixed, search, registry, client, sessions>>

(* RegisterVirtualCenter: Load, then Store. *)
RegisterLoad(c) ==
    /\ At(c, "load")
    /\ Goto(c, IF host[c] \in DOMAIN registry THEN "done" ELSE "store")
    /\ UNCHANGED <<fixed, host, search, answer, sessions, registry, client, history>>

RegisterStore(c) ==
    /\ At(c, "store") /\ Goto(c, "connect")
    /\ registry' = Override([h \in {host[c]} |-> c], registry)
    /\ UNCHANGED <<fixed, host, search, answer, sessions, client, history>>

(* Connect the object o: a live session is kept; else a login, which needs *)
(* the right account.                                                      *)
LogsIn(o) == /\ host[o] \in DOMAIN S.accounts
             /\ S.accounts[host[o]] = [user     |-> cfg.cfg.vcs[host[o]].user,
                                       password |-> cfg.cfg.vcs[host[o]].password]

Connected(o)    == /\ client[o] = "live" \/ LogsIn(o)
                   /\ client' = [client EXCEPT ![o] = "live"]
NotConnected(o) == client' = [client EXCEPT ![o] = IF @ = "live" THEN @ ELSE "nil"]

(* Connecting o fails; vCenter may have logged the call in all the same,   *)
(* and only the answer was lost.                                           *)
ConnectFails(c, o) ==
    /\ Fault(c) /\ NotConnected(o)
    /\ \/ UNCHANGED lost
       \/ client[o] # "live" /\ LogsIn(o) /\ lost' = lost \cup {c}

(* The call returns when it cannot connect, and unregisters. *)
Connect(c) ==
    /\ At(c, "connect")
    /\ \/ Connected(c) /\ Goto(c, "uuid") /\ UNCHANGED <<lost, history>>
       \/ /\ client[c] # "live" /\ ~ LogsIn(c) /\ NotConnected(c)
          /\ Goto(c, "unregister") /\ UNCHANGED <<lost, history>>
       \/ ConnectFails(c, c) /\ Goto(c, "unregister")
    /\ UNCHANGED <<fixed, host, search, answer, registry, rest>>

-----------------------------------------------------------------------------
(* The search for the VM *)

Registered == {registry[h] : h \in DOMAIN registry}

(* GetVirtualMachineByUUID begins: the vCenters registered now. *)
BeginSearch(c) == todo' = [todo EXCEPT ![c] = Registered] /\ Goto(c, "visit")

getSystemUUID(c) ==
    /\ At(c, "uuid")
    /\ \/ BeginSearch(c) /\ UNCHANGED history
       \/ Fault(c) /\ Goto(c, "unregister") /\ UNCHANGED todo
    /\ UNCHANGED <<fixed, host, vc, converted, vm, answer, sessions, registry, client>>

(* The first two groups of the UUID are turned round, the third is not. *)
convertTwoGroups(uuid) ==
    <<uuid[4], uuid[3], uuid[2], uuid[1], uuid[6], uuid[5]>> \o SubSeq(uuid, 7, Len(uuid))

(* The bytes of the first three groups of the UUID are turned round. *)
convertUUID(uuid) ==
    <<uuid[4], uuid[3], uuid[2], uuid[1], uuid[6], uuid[5], uuid[8], uuid[7]>>
        \o SubSeq(uuid, 9, Len(uuid))

UUID(c) == IF c \in converted THEN convertUUID(S.uuid) ELSE S.uuid

(* It is searched for again whenever it is not found. *)
SearchForEver(c) == BeginSearch(c) /\ converted' = converted \cup {c}

(* Not found, or an error: the converted UUID is tried next. *)
SearchEnds(c) ==
    IF c \in converted
    THEN Goto(c, "unregister") /\ UNCHANGED <<todo, converted>>
    ELSE BeginSearch(c) /\ converted' = converted \cup {c}

NotFound(c) ==
    /\ At(c, "visit") /\ todo[c] = {}
    /\ SearchEnds(c)
    /\ UNCHANGED <<fixed, host, vc, vm, answer, sessions, registry, client, history>>

(* asyncGetAllDatacenters: Connect, *)
Visit(c) ==
    /\ At(c, "visit")
    /\ \E o \in todo[c] :
          \/ /\ Connected(o) /\ Goto(c, "find")
             /\ todo' = [todo EXCEPT ![c] = @ \ {o}] /\ vc' = [vc EXCEPT ![c] = o]
             /\ UNCHANGED <<converted, lost, history>>
          \/ /\ client[o] # "live" /\ ~ LogsIn(o)
             /\ NotConnected(o) /\ SearchEnds(c) /\ UNCHANGED <<vc, lost, history>>
          \/ ConnectFails(c, o) /\ SearchEnds(c) /\ UNCHANGED vc
    /\ UNCHANGED <<fixed, host, vm, answer, registry, rest>>

(* then GetDatacenters and the search in them, with vc.Client.  The        *)
(* workers may miss a VM that is there (see VMSearch); a vCenter without   *)
(* datacenters in its settings is asked for the one at the empty path,     *)
(* which may fail.                                                         *)
Find(c) ==
    LET o     == vc[c]
        there == S.vms[host[o]] = UUID(c)
    IN  /\ At(c, "find") /\ client[o] # "nil"
        /\ \/ /\ client[o] = "live" /\ there
              /\ vm' = [vm EXCEPT ![c] = o] /\ Goto(c, "tags")
              /\ UNCHANGED <<todo, converted, history>>
           \/ /\ client[o] = "live"
              /\ struck' = IF there THEN struck \cup {c} ELSE struck
              /\ Goto(c, "visit")
              /\ UNCHANGED <<todo, converted, vm, overlap, stuck, crashed, faults>>
           \/ /\ client[o] = "ended" \/ cfg.cfg.vcs[host[o]].dcs = ""
              /\ SearchEnds(c) /\ UNCHANGED <<vm, history>>
           \/ Fault(c) /\ SearchEnds(c) /\ UNCHANGED vm
        /\ vc' = [vc EXCEPT ![c] = None]
        /\ UNCHANGED <<fixed, host, answer, sessions, registry, client>>

(* GetTagManager looks the vCenter up in the registry (whose answer is     *)
(* left open once the VM's session has ended) and logs in for REST.  An    *)
(* error of the login is only logged.                                      *)
GetTagManager(c) ==
    LET found == vm[c] # None /\ host[vm[c]] \in DOMAIN registry
    IN  /\ At(c, "tags")
        /\ \/ ~ found /\ Goto(c, "unregister") /\ UNCHANGED <<sessions, history>>
           \/ /\ found \/ vm[c] = None
              /\ Goto(c, "read")
              /\ \/ rest' = rest \cup {c} /\ UNCHANGED <<lost, history>>
                 \/ Fault(c) /\ lost' \in {lost, lost \cup {c}} /\ UNCHANGED rest
        /\ UNCHANGED <<fixed, host, search, answer, registry, client>>

(* GetZoneRegion, with the client that found the VM and the REST session; *)
ReadTags(c) ==
    LET works == vm[c] # None /\ c \in rest
    IN  /\ At(c, "read") /\ Goto(c, "restout")
        /\ \/ /\ works
              /\ answer' = [answer EXCEPT ![c] = [ok |-> TRUE, labels |-> labels]]
              /\ UNCHANGED history
           \/ ~ works /\ UNCHANGED <<answer, history>>
           \/ Fault(c) /\ UNCHANGED answer
        /\ UNCHANGED <<fixed, host, search, registry, client, sessions>>

(* then the deferred tagManager.Logout, whose error nobody looks at.       *)
RestLogout(c) ==
    /\ At(c, "restout") /\ Goto(c, "unregister")
    /\ rest' = rest \ {c}
    /\ \/ UNCHANGED <<lost, history>>
       \/ /\ c \in rest /\ lost' = lost \cup {c}
          /\ faults < MaxFaults /\ faults' = faults + 1
          /\ UNCHANGED <<overlap, struck, stuck, crashed>>
    /\ UNCHANGED <<fixed, host, search, answer, registry, client>>

-----------------------------------------------------------------------------
(* UnregisterAllVirtualCenters, deferred *)

UnregisterAll(c) ==
    /\ At(c, "unregister") /\ Goto(c, "range")
    /\ todo' = [todo EXCEPT ![c] = Registered]
    /\ vc' = [vc EXCEPT ![c] = None] /\ vm' = [vm EXCEPT ![c] = None]
    /\ converted' = converted \ {c}
    /\ UNCHANGED <<fixed, host, answer, sessions, registry, client, history>>

(* Disconnect logs out without a look at the client. *)
UnregisterUnchecked(c) ==
    /\ At(c, "range")
    /\ \/ /\ todo[c] = {}
          /\ Goto(c, "done") /\ UNCHANGED <<todo, vc>>
       \/ \E o \in todo[c] :
             /\ Goto(c, "logout")
             /\ todo' = [todo EXCEPT ![c] = @ \ {o}] /\ vc' = [vc EXCEPT ![c] = o]
    /\ UNCHANGED <<fixed, host, converted, vm, answer, sessions, registry, client, history>>

(* UnregisterVirtualCenter, for each host found; a host that has gone      *)
(* meanwhile is an error, which ends the loop.                             *)
UnregisterNext(c) ==
    /\ At(c, "range")
    /\ \/ /\ todo[c] = {}
          /\ Goto(c, "done") /\ UNCHANGED <<todo, vc>>
       \/ /\ \E o \in todo[c] : host[o] \notin DOMAIN registry
          /\ Goto(c, "done") /\ todo' = [todo EXCEPT ![c] = {}] /\ UNCHANGED vc
       \/ \E o \in todo[c] :
             /\ host[o] \in DOMAIN registry
             /\ LET held == registry[host[o]]
                IN  /\ vc' = [vc EXCEPT ![c] = held]
                    /\ Goto(c, IF client[held] = "nil" THEN "delete" ELSE "logout")
             /\ todo' = [todo EXCEPT ![c] = @ \ {o}]
    /\ UNCHANGED <<fixed, host, converted, vm, answer, sessions, registry, client, history>>

(* The session is forgotten and not logged out. *)
NoLogout(c) ==
    /\ At(c, "logout") /\ Goto(c, "delete")
    /\ UNCHANGED <<fixed, host, search, answer, sessions, registry, client, history>>

(* Disconnect: Logout.  A session that has ended already may be refused.   *)
Logout(c) ==
    LET o == vc[c]
    IN  /\ At(c, "logout") /\ client[o] # "nil"
        /\ \/ /\ Goto(c, "clear")
              /\ client' = [client EXCEPT ![o] = "ended"]
              /\ vm' = [d \in Calls |-> IF vm[d] = o THEN None ELSE vm[d]]
              /\ UNCHANGED <<todo, history>>
           \/ /\ client[o] = "ended" \/ faults < MaxFaults
              /\ Goto(c, "done") /\ stuck' = TRUE /\ todo' = [todo EXCEPT ![c] = {}]
              /\ faults' = IF client[o] = "ended" THEN faults ELSE faults + 1
              /\ UNCHANGED <<client, vm, overlap, struck, crashed>>
        /\ UNCHANGED <<fixed, host, vc, converted, answer, sessions, registry>>

Clear(c) ==
    /\ At(c, "clear") /\ Goto(c, "delete")
    /\ client' = [client EXCEPT ![vc[c]] = "nil"]
    /\ UNCHANGED <<fixed, host, search, answer, sessions, registry, history>>

Delete(c) ==
    /\ At(c, "delete") /\ Goto(c, "range")
    /\ registry' = [h \in DOMAIN registry \ {host[vc[c]]} |-> registry[h]]
    /\ vc' = [vc EXCEPT ![c] = None]
    /\ UNCHANGED <<fixed, host, todo, converted, vm, answer, sessions, client, history>>

UseNil(c) == pc[c] \in {"find", "logout"} /\ client[vc[c]] = "nil" /\ Panic

-----------------------------------------------------------------------------
Steps(c) == \/ GetConfig(c) \/ RegisterLoad(c) \/ RegisterStore(c) \/ Connect(c)
            \/ getSystemUUID(c) \/ NotFound(c) \/ Visit(c) \/ Find(c) \/ GetTagManager(c)
            \/ ReadTags(c) \/ RestLogout(c)
            \/ UnregisterAll(c) \/ UnregisterNext(c) \/ Logout(c) \/ Clear(c) \/ Delete(c)
            \/ UseNil(c)

Next == \E c \in Calls : Call(c) \/ Steps(c)

(* A handler that runs goes on. *)
Fairness == \A c \in Calls : WF_vars(Steps(c))

Spec == Init /\ [][Next]_vars /\ Fairness

-----------------------------------------------------------------------------
(* Types.  The registry holds an object under its own host, and a call     *)
(* answers with a zone and a region or with neither.                       *)
TypeOK == /\ pc \in [Calls -> {"idle", "config", "load", "store", "connect", "uuid", "visit",
                              "find", "tags", "read", "restout", "unregister", "range",
                              "logout", "clear", "delete", "done"}]
          /\ client \in [Calls -> {"nil", "live", "ended"}]
          /\ \A h \in DOMAIN registry : registry[h] \in Calls /\ host[registry[h]] = h
          /\ \A c \in Calls : /\ todo[c] \subseteq Calls
                             /\ vc[c] \in Calls \cup {None} /\ vm[c] \in Calls \cup {None}
                             /\ (answer[c].labels.zone = "") = (answer[c].labels.region = "")
          /\ rest \subseteq Calls /\ lost \subseteq Calls /\ faults \in 0..MaxFaults

(* The settings got of the host h are complete; and of the variables that  *)
(* name h the last counts: if VCENTER_<id>_PASSWORD is set for its id, to  *)
(* a value without an = sign, then the first one of that name is the       *)
(* password in got.                                                        *)
Sound(h, got, env) ==
    LET named  == {i \in Naming(env) : env[i].value = h}
        set(i) == {j \in Pairs(env) :
                     env[j].key = <<"VCENTER", env[i].key[2], "PASSWORD">>}
    IN  /\ h # "" /\ "" \notin {got.user, got.password, got.port}
        /\ \A i \in named : \A j \in set(i) :
              /\ \A k \in named : k <= i
              /\ \A k \in set(i) : j <= k
              /\ env[j].value # ""
              => got.password = env[j].value

(* GetCnsconfig accepts only a configuration that gives every host in it a *)
(* user, a password and a port; and a password that the environment has    *)
(* for the id of a vCenter, if it has no = sign, goes before the one in    *)
(* the file.  It says nothing of the other settings, nor of hosts that are *)
(* none: the variable of the port names one.                               *)
ConfigSound ==
    cfg.ok => \A h \in DOMAIN cfg.cfg.vcs : Sound(h, cfg.cfg.vcs[h], S.env)

(* When no call runs, no REST session is open, whatever happened.  Calls   *)
(* that did not overlap have left no vCenter registered, which would make  *)
(* RegisterVirtualCenter refuse every later call, and no client logged in, *)
(* however they ended, unless UnregisterAllVirtualCenters failed to log    *)
(* out.  Failures can leave sessions that no client knows of (lost): where *)
(* the answer to a login or a REST logout failed.  Without a failure there *)
(* is none.                                                                *)
NothingLeft ==
    Running = {} =>
        /\ rest = {}
        /\ overlap = {} /\ ~ stuck =>
              registry = << >> /\ \A c \in Calls : client[c] # "live"
        /\ overlap = {} /\ faults = 0 => lost = {}

(* Only a call that another one overlapped can meet a client that is nil.  *)
NoLonePanic == crashed \subseteq overlap

(* The little-endian form of a UUID: its fields of 4, 2 and 2 bytes reversed. *)
Swapped(uuid) ==
    [i \in DOMAIN uuid |-> uuid[IF i <= 4 THEN 5 - i
                                ELSE IF i <= 6 THEN 11 - i
                                ELSE IF i <= 8 THEN 15 - i ELSE i]]

(* Every vCenter the configuration names has datacenters in its settings,  *)
(* and knows the account and, in those datacenters, the VM.                *)
Usable == /\ cfg.ok
          /\ GetVirtualCenterConfig(cfg.cfg) = DOMAIN cfg.cfg.vcs
          /\ \A h \in DOMAIN cfg.cfg.vcs :
                /\ cfg.cfg.vcs[h].dcs # ""
                /\ h \in DOMAIN S.accounts
                /\ S.accounts[h] = [user     |-> cfg.cfg.vcs[h].user,
                                    password |-> cfg.cfg.vcs[h].password]
                /\ S.vms[h] \in {S.uuid, Swapped(S.uuid)}

Expected ==
    LET zone   == NearestTag(S.inv, "vm", "zone")
        region == NearestTag(S.inv, "vm", "region")
    IN  IF "" \in {zone, region, cfg.cfg.zone, cfg.cfg.region} THEN NoTopology
        ELSE [zone |-> zone, region |-> region]

(* A call answers with the tags that are nearest to the VM, both or none,  *)
(* if the configuration is good and names the datacenters, no calls have   *)
(* run at the same time, nothing fails and no logout has failed, and its   *)
(* search does not miss the VM, as it may without any failure.  The error  *)
(* of a REST logout does not take the answer away.                         *)
LoneCallAnswers ==
    [][\A c \in Calls :
         pc[c] # "done" /\ pc'[c] = "done" /\ Usable
         /\ overlap' = {} /\ c \notin struck' /\ ~ stuck' =>
             answer'[c] = [ok |-> TRUE, labels |-> Expected]]_vars

(* Every call returns. *)
CallsEnd == \A c \in Calls : pc[c] # "idle" ~> pc[c] = "done"
===============================================================================
