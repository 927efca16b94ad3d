-------------------------- MODULE VirtualCenterProofs --------------------------
(***************************************************************************)
(* Proofs about the connection to a vCenter, for any number of callers and *)
(* any number of failures, expiries and changes of the password.           *)
(***************************************************************************)
EXTENDS VirtualCenter, TLAPS

IInv == TypeOK /\ ConnectInv

(* A fresh VirtualCenter has no client and no session. *)
LEMMA InitIInv == Init => IInv
BY VCAssumption DEF Init, IInv, TypeOK, ConnectInv, OneSession, InConnect, NoSession,
   Subs, Kinds

(* connect, from the lock to its return, keeps the invariant. *)
LEMMA ConnectIInv ==
    ASSUME IInv, NEW c \in Callers,
           Lock(c) \/ Check(c) \/ Login(c) \/ (\E k \in Subs : Recreate(c, k))
    PROVE  IInv'
<1> USE VCAssumption DEF IInv, TypeOK, ConnectInv, OneSession, InConnect, NoSession,
        Subs, Kinds, At, Goto, Fault, Return, Connected, envVars
<1>1. CASE Lock(c)
  BY <1>1, Zenon DEF Lock
<1>2. CASE Check(c)
  BY <1>2 DEF Check
<1>3. CASE Login(c)
  <2>1. mutex = c /\ live \subseteq lost
    BY <1>3, Zenon DEF Login
  <2>2. TypeOK'
    <3>1. /\ sessions' \in Nat /\ sessions <= sessions'
          /\ client' \in 0..sessions' /\ sub' \in [Subs -> 0..sessions']
      BY <1>3 DEF Login
    <3>2. live' \in SUBSET (1..sessions') /\ lost' \in SUBSET (1..sessions')
      <4>1. \/ sessions' = sessions /\ live' = live /\ lost' = lost
            \/ /\ sessions' = sessions + 1
               /\ live' = live \cup {sessions + 1}
               /\ lost' = lost \/ lost' = lost \cup {sessions + 1}
        BY <1>3, Zenon DEF Login
      <4>2. \A x \in 1..sessions : x \in 1..(sessions + 1)
        OBVIOUS
      <4>3. sessions + 1 \in 1..(sessions + 1)
        OBVIOUS
      <4> QED BY <4>1, <4>2, <4>3, Zenon
    <3>3. /\ pc' \in [Callers -> {"idle", "lock", "check", "login", "pbm", "cns",
                                  "fetch", "update", "nilcheck", "make", "use"}]
          /\ mutex' \in Callers \cup {NoCaller} /\ fresh' \in SUBSET Callers
          /\ faults' \in 0..MaxFaults
      BY <1>3 DEF Login
    <3> QED BY <1>3, <3>1, <3>2, <3>3, Zenon DEF Login
  <2>3. OneSession'
    BY <1>3, <2>1, Zenon DEF Login
  <2>4. /\ \A d \in Callers : pc'[d] = "login" => d = c /\ pc'[c] # "login"
        /\ \A d \in Callers : InConnect(d)' => mutex' = d
    BY <1>3, <2>1, Zenon DEF Login
  <2>5. \A d \in Callers : pc'[d] = "make" => local'[d] <= sessions'
    BY <1>3 DEF Login
  <2> QED BY <2>2, <2>3, <2>4, <2>5, Zenon
<1>4. ASSUME NEW k \in Subs, Recreate(c, k) PROVE IInv'
  BY <1>4 DEF Recreate
<1> QED BY <1>1, <1>2, <1>3, <1>4, Zenon

(* So do the steps outside the mutex. *)
LEMMA UnlockedIInv ==
    ASSUME IInv, NEW c \in Callers,
           \/ Start(c) \/ GetCnsconfig(c) \/ UpdateCredentials(c)
           \/ NilCheck(c) \/ Make(c) \/ Use(c)
    PROVE  IInv'
<1> USE VCAssumption DEF IInv, TypeOK, ConnectInv, OneSession, InConnect, NoSession,
        Subs, Kinds, At, Goto, Fault, Panic, envVars
<1>1. CASE Start(c)
  BY <1>1, Zenon DEF Start
<1>2. CASE GetCnsconfig(c)
  BY <1>2 DEF GetCnsconfig
<1>3. CASE UpdateCredentials(c)
  BY <1>3, Zenon DEF UpdateCredentials
<1>4. CASE NilCheck(c)
  BY <1>4 DEF NilCheck
<1>5. CASE Make(c)
  BY <1>5 DEF Make
<1>6. CASE Use(c)
  BY <1>6, Zenon DEF Use
<1> QED BY <1>1, <1>2, <1>3, <1>4, <1>5, <1>6, Zenon

(* And the steps of vCenter and its administrator. *)
LEMMA EnvIInv ==
    ASSUME IInv, (\E s \in live : Expire(s)) \/ Rotate \/ UpdateSecret
    PROVE  IInv'
<1> USE VCAssumption DEF IInv, TypeOK, ConnectInv, OneSession, InConnect, procVars
<1>1. ASSUME NEW s \in live, Expire(s) PROVE IInv'
  BY <1>1 DEF Expire
<1>2. CASE Rotate
  BY <1>2 DEF Rotate
<1>3. CASE UpdateSecret
  BY <1>3, Zenon DEF UpdateSecret
<1> QED BY <1>1, <1>2, <1>3, Zenon

(* Every step keeps the invariant. *)
LEMMA NextIInv == IInv /\ [Next]_vars => IInv'
<1> SUFFICES ASSUME IInv, [Next]_vars PROVE IInv'
  BY Zenon
<1>1. CASE UNCHANGED vars
  BY <1>1, Zenon DEF vars, procVars, envVars, IInv, TypeOK, ConnectInv, OneSession, InConnect
<1>2. ASSUME NEW c \in Callers, CallerNext(c) PROVE IInv'
  BY <1>2, ConnectIInv, UnlockedIInv, Zenon DEF CallerNext
<1>3. CASE (\E s \in live : Expire(s)) \/ Rotate \/ UpdateSecret
  BY <1>3, EnvIInv, Zenon
<1> QED BY <1>1, <1>2, <1>3, Zenon DEF Next

(* However the callers of connect interleave, and whatever fails, the      *)
(* process holds one live session, besides those whose login seemed to     *)
(* fail.                                                                   *)
THEOREM SingleSession == Spec => []OneSession
<1>1. IInv => OneSession
  BY Zenon DEF IInv, ConnectInv
<1> QED BY <1>1, InitIInv, NextIInv, PTL DEF Spec

(* Every client is nil or a session that was made. *)
THEOREM ConnectionTypes == Spec => []TypeOK
<1>1. IInv => TypeOK
  BY Zenon DEF IInv
<1> QED BY <1>1, InitIInv, NextIInv, PTL DEF Spec

(* connect keeps ClientInv. *)
LEMMA ConnectClientInv ==
    ASSUME IInv, ClientInv, NEW c \in Callers,
           Lock(c) \/ Check(c) \/ Login(c) \/ (\E k \in Subs : Recreate(c, k))
    PROVE  ClientInv'
<1> USE DEF IInv, TypeOK, ClientInv, NoSession, Subs, Kinds, At, Goto, Fault, Return,
        Connected, envVars
<1>1. CASE Lock(c)
  BY <1>1, Zenon DEF Lock
<1>2. CASE Check(c)
  BY <1>2 DEF Check
<1>3. CASE Login(c)
  BY <1>3 DEF Login
<1>4. ASSUME NEW k \in Subs, Recreate(c, k) PROVE ClientInv'
  BY <1>4 DEF Recreate
<1> QED BY <1>1, <1>2, <1>3, <1>4, Zenon

(* So do the steps outside the mutex, where the clients are used. *)
LEMMA UnlockedClientInv ==
    ASSUME IInv, ClientInv, NEW c \in Callers,
           \/ Start(c) \/ GetCnsconfig(c) \/ UpdateCredentials(c)
           \/ NilCheck(c) \/ Make(c) \/ Use(c)
    PROVE  ClientInv'
<1> USE DEF IInv, TypeOK, ClientInv, NoSession, Subs, Kinds, At, Goto, Fault, Panic,
        Used, envVars
<1>1. CASE Start(c)
  BY <1>1, Zenon DEF Start
<1>2. CASE GetCnsconfig(c)
  BY <1>2 DEF GetCnsconfig
<1>3. CASE UpdateCredentials(c)
  BY <1>3, Zenon DEF UpdateCredentials
<1>4. CASE NilCheck(c)
  BY <1>4, Zenon DEF NilCheck
<1>5. CASE Make(c)
  BY <1>5 DEF Make
<1>6. CASE Use(c)
  BY <1>6, Zenon DEF Use
<1> QED BY <1>1, <1>2, <1>3, <1>4, <1>5, <1>6, Zenon

(* Every step keeps ClientInv; one that fails, or a change of the password, *)
(* ends its premise for good.                                               *)
LEMMA NextClientInv == IInv /\ ClientInv /\ [Next]_vars => ClientInv'
<1> SUFFICES ASSUME IInv, ClientInv, [Next]_vars PROVE ClientInv'
  BY Zenon
<1>1. CASE UNCHANGED vars
  BY <1>1, Zenon DEF vars, procVars, envVars, ClientInv
<1>2. ASSUME NEW c \in Callers, CallerNext(c) PROVE ClientInv'
  BY <1>2, ConnectClientInv, UnlockedClientInv, Zenon DEF CallerNext
<1>3. ASSUME NEW s \in live, Expire(s) PROVE ClientInv'
  BY <1>3, Zenon DEF Expire, ClientInv, procVars
<1>4. CASE Rotate
  BY <1>4 DEF Rotate, ClientInv, procVars, IInv, TypeOK
<1>5. CASE UpdateSecret
  BY <1>5, Zenon DEF UpdateSecret, ClientInv, procVars
<1> QED BY <1>1, <1>2, <1>3, <1>4, <1>5, Zenon DEF Next

(* ConnectCNS and ConnectPbm, which read the clients without the mutex, and *)
(* the calls that follow never meet a nil client, unless a login or a file  *)
(* access has failed or the password was changed.                           *)
THEOREM ClientsNotNil == Spec => []NoNilClient
<1>1. Init => ClientInv
  BY Zenon DEF Init, ClientInv
<1>2. ClientInv => NoNilClient
  BY Zenon DEF ClientInv, NoNilClient
<1> QED BY <1>1, <1>2, InitIInv, NextIInv, NextClientInv, PTL DEF Spec
=============================================================================
