------------------------------- MODULE VMSearch -------------------------------
(***************************************************************************)
(* The search for a VM by its UUID: GetVirtualMachineByUUID                *)
(* (pkg/common/cns-lib/vsphere/virtualmachine.go) with a pool of workers,  *)
(* and asyncGetAllDatacenters (datacenter.go), which sends them the        *)
(* datacenters of all vCenters over a buffered channel, and its error over *)
(* another.  A worker's select takes any case that is ready; receiving     *)
(* from a closed and empty channel is always ready.                        *)
(*                                                                         *)
(* The order in which vCenters and datacenters are visited is left open.   *)
(***************************************************************************)
EXTENDS Naturals, Sequences, FiniteSets

CONSTANTS Workers,
          VCs,              \* vCenters
          DCs,              \* vCenter -> its datacenters
          Home,             \* the datacenter of the VM, or NoDC
          NoDC,
          BufferSize,       \* of dcsChan
          MaxFaults         \* bound: calls to a vCenter that fail

ASSUME SearchAssumption == /\ NoDC \notin UNION {DCs[v] : v \in VCs}
                           /\ BufferSize \in Nat /\ MaxFaults \in Nat

VARIABLES producer,         \* where asyncGetAllDatacenters is
          vcs, dcs,         \* vCenters, and datacenters of the current one, to visit
          dcsChan,          \* the buffer of the channel
          dcsClosed,        \* "open" or "closed"
          errChan, errClosed,
          cancelled,        \* the context: "no" or "yes"
          worker,           \* worker -> "select", "search" or "done"
          dc,               \* worker -> the datacenter it searches
          nodeVM, poolErr,  \* "nil", or set
          result,           \* what the search returned; "none" before
          faults

chanVars == <<dcsChan, dcsClosed, errChan, errClosed>>
prodVars == <<producer, vcs, dcs>>
poolVars == <<worker, dc, nodeVM, poolErr>>
vars == <<prodVars, chanVars, poolVars, cancelled, result, faults>>

AllDCs == UNION {DCs[v] : v \in VCs}

Init == /\ producer = "vc" /\ vcs = VCs /\ dcs = {}
        /\ dcsChan = <<>> /\ dcsClosed = "open"
        /\ errChan = <<>> /\ errClosed = "open"
        /\ cancelled = "no"
        /\ worker = [w \in Workers |-> "select"]
        /\ dc = [w \in Workers |-> NoDC]
        /\ nodeVM = "nil" /\ poolErr = "nil" /\ result = "none"
        /\ faults = 0

Fault == faults < MaxFaults /\ faults' = faults + 1

-----------------------------------------------------------------------------
(* asyncGetAllDatacenters.  errChan holds one error, and one is sent at    *)
(* most, so that sending it never blocks.                                  *)

(* A sender that goes on with the next vCenter after an error. *)
SendErrorGoOn(e) == errChan' = Append(errChan, e) /\ producer' = "vc"

SendError(e) == errChan' = Append(errChan, e) /\ producer' = "closeErr"

(* The next vCenter: look at the context. *)
NextVC ==
    /\ producer = "vc"
    /\ \/ vcs = {} /\ producer' = "closeErr" /\ UNCHANGED errChan
       \/ vcs # {} /\ cancelled = "yes" /\ SendError("Canceled")
       \/ vcs # {} /\ cancelled = "no" /\ producer' = "connect" /\ UNCHANGED errChan
    /\ UNCHANGED <<vcs, dcs, dcsChan, dcsClosed, errClosed, poolVars, cancelled, result,
                   faults>>

(* Connect and GetDatacenters; both may also fail because the context was  *)
(* cancelled meanwhile, with an error that wraps Canceled.                 *)
ListDCs ==
    /\ producer = "connect"
    /\ \/ /\ \E v \in vcs : vcs' = vcs \ {v} /\ dcs' = DCs[v]
          /\ producer' = "dc" /\ UNCHANGED <<errChan, faults>>
       \/ cancelled = "yes" /\ SendError("err") /\ UNCHANGED <<vcs, dcs, faults>>
       \/ Fault /\ SendError("err") /\ UNCHANGED <<vcs, dcs>>
    /\ UNCHANGED <<dcsChan, dcsClosed, errClosed, poolVars, cancelled, result>>

(* The next datacenter: look at the context. *)
NextDC ==
    /\ producer = "dc"
    /\ \/ dcs = {} /\ producer' = "vc" /\ UNCHANGED errChan
       \/ dcs # {} /\ cancelled = "yes" /\ SendError("Canceled")
       \/ dcs # {} /\ cancelled = "no" /\ producer' = "send" /\ UNCHANGED errChan
    /\ UNCHANGED <<vcs, dcs, dcsChan, dcsClosed, errClosed, poolVars, cancelled, result,
                   faults>>

(* The send blocks while the buffer is full. *)
SendDC ==
    /\ producer = "send" /\ Len(dcsChan) < BufferSize
    /\ \E d \in dcs : dcs' = dcs \ {d} /\ dcsChan' = Append(dcsChan, d)
    /\ producer' = "dc"
    /\ UNCHANGED <<vcs, dcsClosed, errChan, errClosed, poolVars, cancelled, result, faults>>

(* The deferred calls run in reverse order: errChan is closed first. *)
CloseErr ==
    /\ producer = "closeErr"
    /\ errClosed' = "closed" /\ producer' = "closeDcs"
    /\ UNCHANGED <<vcs, dcs, dcsChan, dcsClosed, errChan, poolVars, cancelled, result,
                   faults>>

CloseDcs ==
    /\ producer = "closeDcs"
    /\ dcsClosed' = "closed" /\ producer' = "done"
    /\ UNCHANGED <<vcs, dcs, dcsChan, errChan, errClosed, poolVars, cancelled, result,
                   faults>>

ProducerNext == NextVC \/ ListDCs \/ NextDC \/ SendDC \/ CloseErr \/ CloseDcs

-----------------------------------------------------------------------------
(* The workers. *)

Exit(w) == worker' = [worker EXCEPT ![w] = "done"]

(* case err, ok := <-errChan *)
ReceiveError(w) ==
    /\ worker[w] = "select"
    /\ \/ /\ errChan # <<>>
          /\ errChan' = Tail(errChan)
          /\ poolErr' = IF Head(errChan) = "Canceled" THEN poolErr ELSE "err"
       \/ errChan = <<>> /\ errClosed = "closed" /\ UNCHANGED <<errChan, poolErr>>
    /\ Exit(w)
    /\ UNCHANGED <<prodVars, dcsChan, dcsClosed, errClosed, dc, nodeVM, cancelled, result,
                   faults>>

(* case dc, ok := <-dcsChan *)
ReceiveDC(w) ==
    /\ worker[w] = "select"
    /\ \/ /\ dcsChan # <<>>
          /\ dc' = [dc EXCEPT ![w] = Head(dcsChan)]
          /\ dcsChan' = Tail(dcsChan)
          /\ worker' = [worker EXCEPT ![w] = "search"]
       \/ dcsChan = <<>> /\ dcsClosed = "closed" /\ Exit(w) /\ UNCHANGED <<dc, dcsChan>>
    /\ UNCHANGED <<prodVars, dcsClosed, errChan, errClosed, nodeVM, poolErr, cancelled,
                   result, faults>>

(* A worker that searches its datacenter again until it finds the VM. *)
SearchAgain(w) ==
    /\ worker[w] = "search"
    /\ IF dc[w] = Home THEN nodeVM' = "vm" /\ cancelled' = "yes" /\ Exit(w)
                       ELSE UNCHANGED <<nodeVM, cancelled, worker>>
    /\ UNCHANGED <<prodVars, chanVars, dc, poolErr, result, faults>>

(* The search of a datacenter: the VM, or ErrVMNotFound and the worker     *)
(* goes on, or another error.                                              *)
SearchDC(w) ==
    /\ worker[w] = "search"
    /\ \/ /\ dc[w] = Home /\ nodeVM' = "vm" /\ cancelled' = "yes" /\ Exit(w)
          /\ UNCHANGED <<poolErr, faults>>
       \/ /\ dc[w] # Home /\ worker' = [worker EXCEPT ![w] = "select"]
          /\ UNCHANGED <<nodeVM, poolErr, cancelled, faults>>
       \/ /\ Fault /\ poolErr' = "err" /\ cancelled' = "yes" /\ Exit(w)
          /\ UNCHANGED nodeVM
    /\ dc' = [dc EXCEPT ![w] = NoDC]
    /\ UNCHANGED <<prodVars, chanVars, result>>

WorkerNext(w) == ReceiveError(w) \/ ReceiveDC(w) \/ SearchDC(w)

(* A return that waits for one worker only. *)
ReturnEarly ==
    /\ result = "none" /\ \E w \in Workers : worker[w] = "done"
    /\ result' = IF nodeVM # "nil" THEN "vm"
                 ELSE IF poolErr # "nil" THEN "err" ELSE "ErrVMNotFound"
    /\ cancelled' = "yes"
    /\ UNCHANGED <<prodVars, chanVars, poolVars, faults>>

(* wg.Wait() returns; the deferred cancel runs too. *)
ReturnVM ==
    /\ result = "none" /\ \A w \in Workers : worker[w] = "done"
    /\ result' = IF nodeVM # "nil" THEN "vm"
                 ELSE IF poolErr # "nil" THEN "err" ELSE "ErrVMNotFound"
    /\ cancelled' = "yes"
    /\ UNCHANGED <<prodVars, chanVars, poolVars, faults>>

(* The sender does not look at the context while it waits to send a        *)
(* datacenter: if the workers have left, and the buffer is full, it waits  *)
(* for ever.                                                               *)
Blocked == /\ producer = "send" /\ Len(dcsChan) = BufferSize
           /\ \A w \in Workers : worker[w] = "done"

(* The search is over and no goroutine will do anything any more. *)
Finished == result # "none" /\ (producer = "done" \/ Blocked) /\ UNCHANGED vars

Next == \/ ProducerNext
        \/ \E w \in Workers : WorkerNext(w)
        \/ ReturnVM \/ Finished

Fairness == /\ WF_vars(ProducerNext) /\ WF_vars(ReturnVM)
            /\ \A w \in Workers : WF_vars(WorkerNext(w))

Spec == Init /\ [][Next]_vars

LiveSpec == Spec /\ Fairness

-----------------------------------------------------------------------------

(* The types of the variables; the buffers keep their capacities. *)
TypeOK == /\ producer \in {"vc", "connect", "dc", "send", "closeErr", "closeDcs", "done"}
          /\ vcs \in SUBSET VCs /\ dcs \in SUBSET AllDCs
          /\ dcsChan \in Seq(AllDCs) /\ Len(dcsChan) <= BufferSize
          /\ errChan \in Seq({"err", "Canceled"}) /\ Len(errChan) <= 1
          /\ dcsClosed \in {"open", "closed"} /\ errClosed \in {"open", "closed"}
          /\ cancelled \in {"no", "yes"}
          /\ worker \in [Workers -> {"select", "search", "done"}]
          /\ dc \in [Workers -> AllDCs \cup {NoDC}]
          /\ nodeVM \in {"nil", "vm"} /\ poolErr \in {"nil", "err"}
          /\ result \in {"none", "vm", "err", "ErrVMNotFound"}

(* "The error chan returns a single error if one occurs": an error is the  *)
(* last thing the sender sends, and it is sent into an empty buffer, so    *)
(* that a sender with an error never waits for workers that have left.     *)
SingleError == errChan # <<>> => /\ Len(errChan) = 1
                                 /\ producer \in {"closeErr", "closeDcs", "done"}

(* A VM that any worker found is what the search returns, whatever errors  *)
(* the others met, and no worker finds one later.                          *)
FoundIsReturned == result \notin {"none", "vm"} => nodeVM = "nil"

(* The search returns, whatever fails, and the sender's goroutine ends,    *)
(* with one exception: every worker has left, with the VM or an error of   *)
(* its own, while datacenters fill the buffer and one more is to be sent.  *)
(* The context that they cancelled does not free the sender then.          *)
SearchEnds == <>[](result # "none" /\ (producer = "done" \/ Blocked))

-----------------------------------------------------------------------------
(* What comments say of the code, and the code does not do. *)

(* virtualmachine.go: "GetVirtualMachineByUUID returns virtual machine     *)
(* given its UUID in entire VC": it reports ErrVMNotFound only if no       *)
(* datacenter has the VM.                                                  *)
NotFoundMeansAbsent == result = "ErrVMNotFound" => Home \notin AllDCs
=============================================================================
