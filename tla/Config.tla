-------------------------------- MODULE Config --------------------------------
(***************************************************************************)
(* The driver's configuration (pkg/common/config/config.go) and the        *)
(* vCenter chosen from it (vsphere/utils.go).                              *)
(*                                                                         *)
(* A configuration has the global settings and, in vcs, the settings of    *)
(* each vCenter host; "" is a setting that is not given.  The environment  *)
(* is a sequence of [key, value], in the order of os.Environ.  A key is    *)
(* the tuple of its parts: <<"VSPHERE_USER">>; <<"VSPHERE_VCENTER", id>>   *)
(* for a key with that prefix; <<"VCENTER", id, "USERNAME">>.              *)
(***************************************************************************)
EXTENDS Naturals, Sequences, FiniteSets, FiniteSetsExt

CONSTANTS WithEquals,       \* the values with an = sign in them
          Numbers           \* the values that strconv.Atoi accepts

DefaultVCenterPort == "443"
EmptyConfig == [ip |-> "", port |-> "", user |-> "", password |-> "", dcs |-> "",
                insecure |-> FALSE, zone |-> "", region |-> "", vcs |-> << >>]

Or(v, default) == IF v = "" THEN default ELSE v

(* The entries of f, and those of g for the keys that f does not have.     *)
Override(f, g) == [k \in DOMAIN f \cup DOMAIN g |-> IF k \in DOMAIN f THEN f[k] ELSE g[k]]

(* os.Getenv *)
Getenv(env, key) ==
    LET at == {i \in DOMAIN env : env[i].key = key}
    IN  IF at = {} THEN "" ELSE env[Min(at)].value

(* The pairs that strings.Split(e, "=") cuts in two: no others are seen by *)
(* getEnvKeyValue and by the loop of FromEnv.                              *)
Pairs(env) == {i \in DOMAIN env : env[i].value \notin WithEquals}

getEnvKeyValue(env, key, default) ==
    LET at == {i \in Pairs(env) : env[i].key = key}
    IN  IF at = {} THEN default ELSE env[Min(at)].value

(* The global settings: a variable that is set overrides the file. *)
Globals(cfg, env) ==
    LET insecure == Getenv(env, <<"VSPHERE_INSECURE">>)
    IN  [cfg EXCEPT !.ip       = Or(Getenv(env, <<"VSPHERE_VCENTER">>), @),
                    !.port     = Or(Getenv(env, <<"VSPHERE_VCENTER", "PORT">>), @),
                    !.user     = Or(Getenv(env, <<"VSPHERE_USER">>), @),
                    !.password = Or(Getenv(env, <<"VSPHERE_PASSWORD">>), @),
                    !.dcs      = Or(Getenv(env, <<"VSPHERE_DATACENTER">>), @),
                    !.insecure = IF insecure \in {"true", "false"} THEN insecure = "true" ELSE @,
                    !.region   = Or(Getenv(env, <<"VSPHERE_LABEL_REGION">>), @),
                    !.zone     = Or(Getenv(env, <<"VSPHERE_LABEL_ZONE">>), @)]

(* The variables that name a vCenter: every one with the prefix            *)
(* VSPHERE_VCENTER_, that of the port included.                            *)
Naming(env) == {i \in Pairs(env) : /\ Len(env[i].key) = 2
                                   /\ env[i].key[1] = "VSPHERE_VCENTER"
                                   /\ env[i].value # ""}

(* The settings of the vCenter that a variable names.  INSECURE is read    *)
(* only when it is not set, hence never.                                   *)
FromId(cfg, env, id) ==
    [user     |-> getEnvKeyValue(env, <<"VCENTER", id, "USERNAME">>, cfg.user),
     password |-> getEnvKeyValue(env, <<"VCENTER", id, "PASSWORD">>, cfg.password),
     port     |-> getEnvKeyValue(env, <<"VCENTER", id, "PORT">>, cfg.port),
     insecure |-> FALSE,
     dcs      |-> getEnvKeyValue(env, <<"VCENTER", id, "DATACENTERS">>, cfg.dcs)]

(* The vCenter of VSPHERE_VCENTER, unless it has settings already. *)
FromGlobals(cfg) ==
    IF cfg.ip = "" THEN << >>
    ELSE [h \in {cfg.ip} |->
            [user |-> cfg.user, password |-> cfg.password, port |-> cfg.port,
             insecure |-> cfg.insecure, dcs |-> cfg.dcs]]

(* A vCenter of the file keeps its settings. *)
FileWins(cfg, env) ==
    LET last(h) == env[Max({i \in Naming(env) : env[i].value = h})].key[2]
        named   == {env[i].value : i \in Naming(env)}
    IN  Override(cfg.vcs,
                 Override([h \in named |-> FromId(cfg, env, last(h))], FromGlobals(cfg)))

(* The vCenters: the last variable that names a host counts, then the file. *)
VirtualCenters(cfg, env) ==
    LET last(h) == env[Max({i \in Naming(env) : env[i].value = h})].key[2]
        named   == {env[i].value : i \in Naming(env)}
    IN  Override([h \in named |-> FromId(cfg, env, last(h))],
                 Override(cfg.vcs, FromGlobals(cfg)))

(* validateConfig: global values stand in for what a vCenter lacks.        *)
validateConfig(cfg) ==
    LET port == Or(cfg.port, DefaultVCenterPort)
        vcs  == [h \in DOMAIN cfg.vcs |->
                   LET vc == cfg.vcs[h]
                   IN  [user     |-> Or(vc.user, cfg.user),
                        password |-> Or(vc.password, cfg.password),
                        port     |-> Or(vc.port, port),
                        insecure |-> vc.insecure \/ cfg.insecure,
                        dcs      |-> Or(vc.dcs, cfg.dcs)]]
    IN  [ok  |-> /\ vcs # << >>
                 /\ \A h \in DOMAIN vcs : h # "" /\ vcs[h].user # "" /\ vcs[h].password # "",
         cfg |-> [cfg EXCEPT !.port = port, !.vcs = vcs]]

FromEnv(cfg, env) ==
    LET g == Globals(cfg, env)
    IN  validateConfig([g EXCEPT !.vcs = VirtualCenters(g, env)])

(* A file that does not exist stands for an empty one. *)
GetCnsconfig(file, env) == FromEnv(file, env)

(* GetVirtualCenterConfig takes any host of the map, and needs its port to *)
(* be a number.                                                            *)
GetVirtualCenterConfig(cfg) == {h \in DOMAIN cfg.vcs : cfg.vcs[h].port \in Numbers}
===============================================================================
