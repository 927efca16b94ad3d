----------------------------- MODULE VirtualCenter -----------------------------
(***************************************************************************)
(* The connection to a vCenter (pkg/common/cns-lib/vsphere): the govmomi   *)
(* client, and the PBM and CNS clients made from it.  A client is the      *)
(* session it uses.  Callers run concurrently: clientMutex serialises      *)
(* connect, and everything before and after it runs without a lock.        *)
(*                                                                         *)
(* A caller wants the bare client ("vim": Renew, asyncGetAllDatacenters),  *)
(* the CNS client ("cns": every call of the volume manager) or the PBM     *)
(* client ("pbm": storage policies).  A password is its version.  Using a  *)
(* nil client panics, which ends the process.                              *)
(***************************************************************************)
EXTENDS Naturals

CONSTANTS Callers,
          NoCaller,         \* holder of a free mutex
          MaxFaults,        \* bound: failures of the network and of files
          MaxExpiries,      \* bound: sessions that end
          MaxRotations      \* bound: changes of the password

ASSUME VCAssumption == /\ NoCaller \notin Callers
                       /\ MaxFaults \in Nat /\ MaxExpiries \in Nat /\ MaxRotations \in Nat

NoSession == 0          \* a nil client
Subs  == {"pbm", "cns"}
Kinds == Subs \cup {"vim"}

VARIABLES client,       \* vc.Client
          sub,          \* vc.PbmClient and vc.CnsClient
          password,     \* vc.Config.Username and Password
          mutex,        \* clientMutex
          pc, kind,     \* of each caller
          fresh,        \* callers whose connect found no client
          retried,      \* callers whose Connect has fetched the credentials
          local,        \* caller's vcenterconfig, or the client a sub client is made from;
                        \* fresh and local are reset once they have been read
          process,
          live,         \* the sessions vCenter honours
          lost,         \* history: sessions whose login seemed to fail
          sessions,     \* sessions so far
          accepted,     \* the password of the account
          secret,       \* the password in the secret
          faults, expiries

procVars == <<client, sub, password, mutex, pc, kind, fresh, retried, local, process>>
envVars  == <<live, lost, sessions, accepted, secret, faults, expiries>>
vars     == <<procVars, envVars>>

Init == /\ client = NoSession /\ sub = [k \in Subs |-> NoSession]
        /\ password = 0 /\ accepted = 0 /\ secret = 0
        /\ mutex = NoCaller
        /\ pc = [c \in Callers |-> "idle"]
        /\ kind = [c \in Callers |-> "vim"]
        /\ fresh = {}
        /\ retried = {}
        /\ local = [c \in Callers |-> 0]
        /\ process = "up"
        /\ live = {} /\ lost = {} /\ sessions = 0
        /\ faults = 0 /\ expiries = 0

Fault   == faults < MaxFaults /\ faults' = faults + 1
At(c, l)   == pc[c] = l /\ process = "up"
Goto(c, l) == pc' = [pc EXCEPT ![c] = l]

-----------------------------------------------------------------------------
(* connect *)

Start(c) ==
    /\ At(c, "idle") /\ Goto(c, "lock")
    /\ \E k \in Kinds : kind' = [kind EXCEPT ![c] = k]
    /\ retried' = retried \ {c}
    /\ UNCHANGED <<client, sub, password, mutex, fresh, local, process, envVars>>

(* connect without the mutex. *)
NoLock(c) ==
    /\ At(c, "lock") /\ Goto(c, "check") /\ mutex' = c
    /\ UNCHANGED <<client, sub, password, kind, fresh, retried, local, process, envVars>>

Lock(c) ==
    /\ At(c, "lock") /\ mutex = NoCaller
    /\ mutex' = c /\ Goto(c, "check")
    /\ UNCHANGED <<client, sub, password, kind, fresh, retried, local, process, envVars>>

(* connect returns and releases the mutex. *)
Return(c, l) == mutex' = NoCaller /\ Goto(c, l)

(* What follows a successful Connect. *)
Connected(c) == IF kind[c] = "vim" THEN "use" ELSE "nilcheck"

(* connect that drops an ended session's client before it logs in. *)
CheckAndDrop(c) ==
    /\ At(c, "check")
    /\ \/ client \notin live /\ client' = NoSession /\ Goto(c, "login") /\ UNCHANGED mutex
       \/ client \in live /\ Return(c, Connected(c)) /\ UNCHANGED client
    /\ fresh' = IF client = NoSession THEN fresh \cup {c} ELSE fresh \ {c}
    /\ UNCHANGED <<sub, password, kind, retried, local, process, envVars>>

(* The client logs in if there is none or if its session has ended. *)
Check(c) ==
    /\ At(c, "check")
    /\ \/ /\ client = NoSession
          /\ fresh' = fresh \cup {c}
          /\ Goto(c, "login") /\ UNCHANGED <<mutex, faults>>
       \/ /\ client # NoSession /\ client \notin live
          /\ fresh' = fresh \ {c}
          /\ Goto(c, "login") /\ UNCHANGED <<mutex, faults>>
       \/ client \in live /\ Return(c, Connected(c)) /\ UNCHANGED <<fresh, faults>>
       \/ client # NoSession /\ Fault /\ Return(c, "idle") /\ UNCHANGED fresh
    /\ UNCHANGED <<client, sub, password, kind, retried, local, process,
                   live, lost, sessions, accepted, secret, expiries>>

(* newClient: a login that fails leaves vc.Client nil; one that seems to   *)
(* fail may have made a session.  If it only was the first client of the   *)
(* VirtualCenter, or so it seems, connect returns at once.                 *)
Login(c) ==
    LET s == sessions + 1
    IN  /\ At(c, "login")
        /\ \/ /\ password = accepted
              /\ client' = s /\ live' = live \cup {s} /\ sessions' = s
              /\ \/ c \in fresh /\ Return(c, Connected(c))
                 \/ c \notin fresh /\ Goto(c, "pbm") /\ UNCHANGED mutex
              /\ UNCHANGED <<lost, faults>>
           \/ /\ password # accepted
              /\ client' = NoSession
              /\ Return(c, IF c \in retried THEN "idle" ELSE "fetch")
              /\ UNCHANGED <<live, lost, sessions, faults>>
           \/ /\ Fault
              /\ client' = NoSession /\ Return(c, "idle")
              /\ \/ UNCHANGED <<live, lost, sessions>>
                 \/ /\ password = accepted
                    /\ live' = live \cup {s} /\ lost' = lost \cup {s} /\ sessions' = s
        /\ fresh' = fresh \ {c}
        /\ UNCHANGED <<sub, password, kind, retried, local, process,
                       accepted, secret, expiries>>

(* The CNS client is left as it is. *)
RecreatePbm(c, k) ==
    /\ At(c, k)
    /\ \/ /\ k = "pbm" /\ Goto(c, "cns") /\ UNCHANGED mutex
          /\ sub' = IF sub[k] = NoSession THEN sub ELSE [sub EXCEPT ![k] = client]
       \/ k = "cns" /\ Return(c, Connected(c)) /\ UNCHANGED sub
    /\ UNCHANGED <<client, password, kind, fresh, retried, local, process, envVars>>

(* After a login that replaced an ended session, the PBM client and then   *)
(* the CNS client are made anew, if there were any.                        *)
Recreate(c, k) ==
    /\ At(c, k)
    /\ \/ /\ sub' = IF sub[k] = NoSession THEN sub ELSE [sub EXCEPT ![k] = client]
          /\ \/ k = "pbm" /\ Goto(c, "cns") /\ UNCHANGED mutex
             \/ k = "cns" /\ Return(c, Connected(c))
          /\ UNCHANGED faults
       \/ /\ sub[k] # NoSession /\ Fault
          /\ sub' = [sub EXCEPT ![k] = NoSession]
          /\ Return(c, "idle")
    /\ UNCHANGED <<client, password, kind, fresh, retried, local, process,
                   live, lost, sessions, accepted, secret, expiries>>

-----------------------------------------------------------------------------
(* Connect: after invalid credentials the secret is read and connect tried *)
(* again, once.                                                            *)

(* Reads the credentials it has, not the secret. *)
CachedConfig(c) ==
    /\ At(c, "fetch") /\ Goto(c, "update")
    /\ local' = [local EXCEPT ![c] = password]
    /\ UNCHANGED <<client, sub, password, mutex, kind, fresh, retried, process, envVars>>

GetCnsconfig(c) ==
    /\ At(c, "fetch")
    /\ \/ /\ local' = [local EXCEPT ![c] = secret]
          /\ Goto(c, "update") /\ UNCHANGED faults
       \/ Fault /\ Goto(c, "idle") /\ UNCHANGED local
    /\ UNCHANGED <<client, sub, password, mutex, kind, fresh, retried, process,
                   live, lost, sessions, accepted, secret, expiries>>

UpdateCredentials(c) ==
    /\ At(c, "update") /\ Goto(c, "lock")
    /\ password' = local[c]
    /\ retried' = retried \cup {c}
    /\ local' = [local EXCEPT ![c] = 0]
    /\ UNCHANGED <<client, sub, mutex, kind, fresh, process, envVars>>

-----------------------------------------------------------------------------
(* ConnectCNS and ConnectPbm after Connect, and the use of the client: all *)
(* without the mutex.                                                      *)

Panic == process' = "panicked"

(* The sub client is there, or is going to be made from the client that is *)
(* read now.                                                               *)
NilCheck(c) ==
    /\ At(c, "nilcheck")
    /\ \/ sub[kind[c]] # NoSession /\ Goto(c, "use") /\ UNCHANGED <<local, process>>
       \/ /\ sub[kind[c]] = NoSession /\ client # NoSession
          /\ local' = [local EXCEPT ![c] = client]
          /\ Goto(c, "make") /\ UNCHANGED process
       \/ sub[kind[c]] = NoSession /\ client = NoSession /\ Panic /\ UNCHANGED <<pc, local>>
    /\ UNCHANGED <<client, sub, password, mutex, kind, fresh, retried, envVars>>

Make(c) ==
    /\ At(c, "make")
    /\ \/ /\ sub' = [sub EXCEPT ![kind[c]] = local[c]]
          /\ Goto(c, "use") /\ UNCHANGED faults
       \/ /\ Fault
          /\ sub' = [sub EXCEPT ![kind[c]] = NoSession]
          /\ Goto(c, "idle")
    /\ local' = [local EXCEPT ![c] = 0]
    /\ UNCHANGED <<client, password, mutex, kind, fresh, retried, process,
                   live, lost, sessions, accepted, secret, expiries>>

Used(c) == IF kind[c] = "vim" THEN client ELSE sub[kind[c]]

(* The call itself; with an ended session it returns an error. *)
Use(c) ==
    /\ At(c, "use")
    /\ \/ Used(c) = NoSession /\ Panic /\ UNCHANGED pc
       \/ Used(c) # NoSession /\ Goto(c, "idle") /\ UNCHANGED process
    /\ UNCHANGED <<client, sub, password, mutex, kind, fresh, retried, local, envVars>>

-----------------------------------------------------------------------------
(* vCenter and its administrator. *)

Expire(s) ==
    /\ s \in live /\ expiries < MaxExpiries
    /\ live' = live \ {s} /\ expiries' = expiries + 1
    /\ UNCHANGED <<procVars, lost, sessions, accepted, secret, faults>>

Rotate ==
    /\ accepted < MaxRotations /\ accepted' = accepted + 1
    /\ UNCHANGED <<procVars, live, lost, sessions, secret, faults, expiries>>

UpdateSecret ==
    /\ secret # accepted /\ secret' = accepted
    /\ UNCHANGED <<procVars, live, lost, sessions, accepted, faults, expiries>>

CallerNext(c) == \/ Start(c) \/ Lock(c) \/ Check(c) \/ Login(c)
                 \/ \E k \in Subs : Recreate(c, k)
                 \/ GetCnsconfig(c) \/ UpdateCredentials(c)
                 \/ NilCheck(c) \/ Make(c) \/ Use(c)

Next == \/ \E c \in Callers : CallerNext(c)
        \/ \E s \in live : Expire(s)
        \/ Rotate \/ UpdateSecret

(* Operations keep coming (the ticker of full sync alone sees to that) and *)
(* goroutines run; the administrator stores the new password.              *)
Fairness == /\ \A c \in Callers : WF_vars(CallerNext(c))
            /\ WF_vars(UpdateSecret)

Spec == Init /\ [][Next]_vars

LiveSpec == Spec /\ Fairness

-----------------------------------------------------------------------------

(* The types of the variables; every client is nil or has logged in. *)
TypeOK == /\ sessions \in Nat
          /\ client \in 0..sessions /\ sub \in [Subs -> 0..sessions]
          /\ password \in Nat /\ accepted \in Nat /\ secret \in Nat
          /\ mutex \in Callers \cup {NoCaller}
          /\ pc \in [Callers -> {"idle", "lock", "check", "login", "pbm", "cns",
                                 "fetch", "update", "nilcheck", "make", "use"}]
          /\ kind \in [Callers -> Kinds]
          /\ fresh \in SUBSET Callers /\ retried \in SUBSET Callers
          /\ local \in [Callers -> Nat]
          /\ process \in {"up", "panicked"}
          /\ live \in SUBSET (1..sessions) /\ lost \in SUBSET (1..sessions)
          /\ faults \in 0..MaxFaults /\ expiries \in 0..MaxExpiries

(* However many callers connect at once, the process keeps one session:    *)
(* each session that vCenter honours is the client's, or was made by a     *)
(* login whose answer was lost.                                            *)
OneSession == live \subseteq {client} \cup lost

(* What makes OneSession inductive: connect runs under the mutex, and logs *)
(* in only after it saw that the client's session has ended.               *)
InConnect(c) == pc[c] \in {"check", "login", "pbm", "cns"}

ConnectInv == /\ OneSession
              /\ \A c \in Callers : InConnect(c) => mutex = c
              /\ \A c \in Callers : pc[c] = "login" => client \notin live
              /\ \A c \in Callers : pc[c] = "make" => local[c] <= sessions

(* ConnectCNS and ConnectPbm read vc.Client, vc.CnsClient and vc.PbmClient *)
(* without the mutex; as long as no login or file access has failed, none  *)
(* of them is nil when it is used, whenever sessions end.                  *)
NoNilClient == faults = 0 /\ accepted = 0 => process = "up"

(* What makes NoNilClient inductive: without a failed login the client     *)
(* stays once there is one, and so does a sub client.                      *)
ClientInv ==
    faults = 0 /\ accepted = 0 =>
        /\ process = "up" /\ password = 0 /\ secret = 0
        /\ \A c \in Callers :
              /\ pc[c] \notin {"fetch", "update"}
              /\ pc[c] \in {"pbm", "cns", "nilcheck", "make", "use"} => client # NoSession
              /\ pc[c] = "make" => local[c] # NoSession
              /\ pc[c] = "use" /\ kind[c] \in Subs => sub[kind[c]] # NoSession

(* After any failure, expiry or change of the password the process is      *)
(* connected again, unless it panicked.                                    *)
ConnectionRecovers == []<>(process = "panicked" \/ client \in live)

(* virtualcenter.go: "Recreate CNSClient If created using timed out VC     *)
(* Client", and the same of the PBM client: none keeps an ended session    *)
(* for good.  It takes that nothing fails, that the password stays, and    *)
(* that no session ends between ConnectCNS's or ConnectPbm's look at       *)
(* vc.Client and their store of the client made from it.                   *)
SubClientsRecreated ==
    [](faults = 0 /\ accepted = 0 /\ \A c \in Callers : pc[c] = "make" => local[c] \in live)
    => []<>(\A k \in Subs : sub[k] # NoSession => sub[k] \in live)
=============================================================================
