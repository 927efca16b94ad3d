---------------------------- MODULE VMSearchProofs ----------------------------
(***************************************************************************)
(* Theorems about the search for a VM, for every number of workers, every  *)
(* inventory, buffer size and number of failures.                          *)
(***************************************************************************)
EXTENDS VMSearch, TLAPS

(* The sender has not sent an error while it visits vCenters: so one fits. *)
Sending == producer \in {"vc", "connect", "dc", "send"}

(* A search that has returned waited for its workers; a worker searches a  *)
(* datacenter that it was sent; the VM was found where it is.              *)
IInv == /\ TypeOK /\ FoundIsReturned
        /\ Sending => errChan = <<>>
        /\ result # "none" => \A w \in Workers : worker[w] = "done"
        /\ \A w \in Workers : worker[w] = "search" => dc[w] \in AllDCs
        /\ nodeVM = "vm" => Home \in AllDCs
        /\ result = "vm" => nodeVM = "vm"

LEMMA InitIInv == Init => IInv
<1> SUFFICES ASSUME Init PROVE IInv
  OBVIOUS
<1>1. <<>> \in Seq(AllDCs) /\ <<>> \in Seq({"err", "Canceled"}) /\ Len(<<>>) = 0
  OBVIOUS
<1>2. 0 <= BufferSize /\ 0 <= 1
  BY SearchAssumption
<1>3. TypeOK
  BY <1>1, <1>2 DEF Init, TypeOK
<1> QED
  BY <1>3 DEF Init, IInv, FoundIsReturned, Sending

(* An error is put into the empty channel. *)
LEMMA SendErrorTypes ==
    ASSUME IInv, Sending, NEW e \in {"err", "Canceled"}, SendError(e)
    PROVE  /\ errChan' \in Seq({"err", "Canceled"}) /\ Len(errChan') <= 1
           /\ producer' = "closeErr"
<1>1. errChan = <<>>
  BY Zenon DEF IInv
<1> QED
  BY <1>1 DEF SendError

(* What the sender does. *)
LEMMA ProducerInv ==
    ASSUME IInv, ProducerNext
    PROVE  IInv'
<1>1. UNCHANGED <<poolVars, cancelled, result>>
  BY Zenon DEF ProducerNext, NextVC, ListDCs, NextDC, SendDC, CloseErr, CloseDcs
<1>2. /\ errChan' \in Seq({"err", "Canceled"}) /\ Len(errChan') <= 1
      /\ Sending' => errChan' = <<>>
      /\ producer' \in {"vc", "connect", "dc", "send", "closeErr", "closeDcs", "done"}
  <2>1. CASE UNCHANGED errChan
    BY <2>1 DEF ProducerNext, NextVC, ListDCs, NextDC, SendDC, CloseErr, CloseDcs, SendError,
                IInv, TypeOK, Sending
  <2>2. CASE Sending /\ (SendError("err") \/ SendError("Canceled"))
    <3>1. /\ errChan' \in Seq({"err", "Canceled"}) /\ Len(errChan') <= 1
          /\ producer' = "closeErr"
      BY <2>2, SendErrorTypes, Zenon
    <3> QED
      BY <3>1, Zenon DEF Sending
  <2> QED
    BY <2>1, <2>2, Zenon DEF ProducerNext, NextVC, ListDCs, NextDC, SendDC, CloseErr,
                             CloseDcs, Sending
<1>3. vcs' \in SUBSET VCs /\ dcs' \in SUBSET AllDCs
  BY Zenon DEF ProducerNext, NextVC, ListDCs, NextDC, SendDC, CloseErr, CloseDcs, IInv,
               TypeOK, AllDCs
<1>4. dcsChan' \in Seq(AllDCs) /\ Len(dcsChan') <= BufferSize
  <2>1. CASE UNCHANGED dcsChan
    BY <2>1, Zenon DEF IInv, TypeOK
  <2>2. CASE SendDC
    <3>1. PICK d \in AllDCs : dcsChan' = Append(dcsChan, d)
      BY <2>2, Zenon DEF SendDC, IInv, TypeOK
    <3>2. /\ dcsChan \in Seq(AllDCs) /\ Len(dcsChan) < BufferSize
      BY <2>2, Zenon DEF SendDC, IInv, TypeOK
    <3> QED
      BY <3>1, <3>2, SearchAssumption
  <2> QED
    BY <2>1, <2>2, Zenon DEF ProducerNext, NextVC, ListDCs, NextDC, CloseErr, CloseDcs
<1>5. dcsClosed' \in {"open", "closed"} /\ errClosed' \in {"open", "closed"}
  BY Zenon DEF ProducerNext, NextVC, ListDCs, NextDC, SendDC, CloseErr, CloseDcs, IInv, TypeOK
<1>6. TypeOK'
  BY <1>1, <1>2, <1>3, <1>4, <1>5, Zenon DEF IInv, TypeOK, poolVars
<1> QED
  BY <1>1, <1>2, <1>6, Zenon DEF IInv, FoundIsReturned, poolVars

(* What a worker does: the search has not returned while it runs. *)
LEMMA WorkerInv ==
    ASSUME IInv, NEW w \in Workers, WorkerNext(w)
    PROVE  IInv'
<1>1. UNCHANGED <<prodVars, dcsClosed, errClosed, result>> /\ worker[w] # "done"
  BY Zenon DEF WorkerNext, ReceiveError, ReceiveDC, SearchDC, chanVars
<1>2. result = "none"
  BY <1>1, Zenon DEF IInv
<1>3. /\ errChan' \in Seq({"err", "Canceled"}) /\ Len(errChan') <= 1
      /\ Sending' => errChan' = <<>>
  <2>1. CASE UNCHANGED errChan
    BY <1>1, <2>1, Zenon DEF IInv, TypeOK, Sending, prodVars
  <2>2. CASE errChan # <<>> /\ errChan' = Tail(errChan)
    <3>1. ~ Sending /\ ~ Sending'
      BY <1>1, <2>2, Zenon DEF IInv, Sending, prodVars
    <3>2. errChan \in Seq({"err", "Canceled"}) /\ Len(errChan) <= 1
      BY Zenon DEF IInv, TypeOK
    <3> QED
      BY <2>2, <3>1, <3>2
  <2> QED
    BY <2>1, <2>2, Zenon DEF WorkerNext, ReceiveError, ReceiveDC, SearchDC, chanVars
<1>4. /\ dcsChan' \in Seq(AllDCs) /\ Len(dcsChan') <= BufferSize
      /\ dcsChan # <<>> => Head(dcsChan) \in AllDCs
  <2>1. dcsChan \in Seq(AllDCs) /\ Len(dcsChan) <= BufferSize
    BY Zenon DEF IInv, TypeOK
  <2>2. CASE dcsChan # <<>>
    <3>1. Head(dcsChan) \in AllDCs
      BY <2>1, <2>2
    <3>2. Tail(dcsChan) \in Seq(AllDCs) /\ Len(Tail(dcsChan)) <= BufferSize
      BY <2>1, <2>2, SearchAssumption
    <3>3. dcsChan' = dcsChan \/ dcsChan' = Tail(dcsChan)
      BY Zenon DEF WorkerNext, ReceiveError, ReceiveDC, SearchDC, chanVars
    <3> QED
      BY <2>1, <3>1, <3>2, <3>3, Zenon
  <2>3. CASE dcsChan = <<>>
    BY <2>1, <2>3, Zenon DEF WorkerNext, ReceiveError, ReceiveDC, SearchDC, chanVars
  <2> QED
    BY <2>2, <2>3, Zenon
<1>5. PICK s \in {"select", "search", "done"} : worker' = [worker EXCEPT ![w] = s]
  BY Zenon DEF WorkerNext, ReceiveError, ReceiveDC, SearchDC, Exit
<1>6. PICK d \in AllDCs \cup {NoDC} : dc' = [dc EXCEPT ![w] = d] \/ dc' = dc
  BY <1>4, Zenon DEF WorkerNext, ReceiveError, ReceiveDC, SearchDC
<1>7. /\ worker' \in [Workers -> {"select", "search", "done"}]
      /\ dc' \in [Workers -> AllDCs \cup {NoDC}]
      /\ \A v \in Workers : v # w => worker'[v] = worker[v] /\ dc'[v] = dc[v]
  BY <1>5, <1>6 DEF IInv, TypeOK
<1>8. worker'[w] = "search" => dc'[w] \in AllDCs
  <2>1. CASE ReceiveError(w) \/ SearchDC(w)
    <3>1. worker' = [worker EXCEPT ![w] = "done"] \/ worker' = [worker EXCEPT ![w] = "select"]
      BY <2>1, Zenon DEF ReceiveError, SearchDC, Exit
    <3> QED
      BY <3>1 DEF IInv, TypeOK
  <2>2. CASE ReceiveDC(w)
    <3>1. \/ worker' = [worker EXCEPT ![w] = "done"]
          \/ dcsChan # <<>> /\ dc' = [dc EXCEPT ![w] = Head(dcsChan)]
      BY <2>2, Zenon DEF ReceiveDC, Exit
    <3> QED
      BY <1>4, <3>1 DEF IInv, TypeOK
  <2> QED
    BY <2>1, <2>2, Zenon DEF WorkerNext
<1>9. /\ nodeVM' \in {"nil", "vm"} /\ poolErr' \in {"nil", "err"} /\ cancelled' \in {"no", "yes"}
      /\ nodeVM' = "vm" => Home \in AllDCs
  BY Zenon DEF WorkerNext, ReceiveError, ReceiveDC, SearchDC, IInv, TypeOK
<1>10. TypeOK'
  BY <1>1, <1>3, <1>4, <1>7, <1>9, Zenon DEF IInv, TypeOK, prodVars
<1>11. \A v \in Workers : worker'[v] = "search" => dc'[v] \in AllDCs
  BY <1>7, <1>8, Zenon DEF IInv
<1> QED
  BY <1>1, <1>2, <1>3, <1>9, <1>10, <1>11, Zenon DEF IInv, FoundIsReturned

(* The return: the workers are done, and what they found is known. *)
LEMMA ReturnInv ==
    ASSUME IInv, ReturnVM
    PROVE  IInv'
<1>1. /\ UNCHANGED <<prodVars, chanVars, poolVars>> /\ cancelled' = "yes"
      /\ \A w \in Workers : worker[w] = "done"
      /\ result' = IF nodeVM # "nil" THEN "vm"
                   ELSE IF poolErr # "nil" THEN "err" ELSE "ErrVMNotFound"
  BY Zenon DEF ReturnVM
<1>2. /\ result' \in {"vm", "err", "ErrVMNotFound"}
      /\ result' = "vm" => nodeVM = "vm"
      /\ result' # "vm" => nodeVM = "nil"
  BY <1>1 DEF IInv, TypeOK
<1>3. TypeOK'
  BY <1>1, <1>2, Zenon DEF IInv, TypeOK, prodVars, chanVars, poolVars
<1>4. UNCHANGED <<producer, errChan, worker, dc, nodeVM>>
  BY <1>1, Zenon DEF prodVars, chanVars, poolVars
<1>5. FoundIsReturned' /\ (Sending' => errChan' = <<>>)
  BY <1>2, <1>4, Zenon DEF IInv, FoundIsReturned, Sending
<1> QED
  BY <1>1, <1>2, <1>3, <1>4, <1>5, Zenon DEF IInv

LEMMA NextIInv == IInv /\ [Next]_vars => IInv'
<1> SUFFICES ASSUME IInv, [Next]_vars PROVE IInv'
  OBVIOUS
<1>1. CASE UNCHANGED vars
  <2>1. /\ UNCHANGED <<producer, vcs, dcs, dcsChan, dcsClosed, errChan, errClosed>>
        /\ UNCHANGED <<worker, dc, nodeVM, poolErr, cancelled, result>>
    BY <1>1, Zenon DEF vars, prodVars, chanVars, poolVars
  <2>2. TypeOK'
    BY <2>1, Zenon DEF IInv, TypeOK
  <2> QED
    BY <2>1, <2>2, Zenon DEF IInv, FoundIsReturned, Sending
<1> QED
  BY <1>1, ProducerInv, WorkerInv, ReturnInv, Zenon DEF Next, Finished

(* Types, for every number of workers, inventory, buffer size and number   *)
(* of failures; the buffers keep their capacities.                         *)
THEOREM SearchTypes == Spec => []TypeOK
<1>1. IInv => TypeOK
  BY DEF IInv
<1> QED
  BY <1>1, InitIInv, NextIInv, PTL DEF Spec

(* For every number of workers, inventory, buffer size and number of       *)
(* failures: the sender sends one error at most, as the last thing, so     *)
(* that it cannot block on errChan when the workers have left.             *)
THEOREM ErrorsAreSingle == Spec => []SingleError
<1>1. ASSUME IInv PROVE SingleError
  <2>1. /\ errChan \in Seq({"err", "Canceled"}) /\ Len(errChan) <= 1
        /\ producer \in {"vc", "connect", "dc", "send", "closeErr", "closeDcs", "done"}
        /\ Sending => errChan = <<>>
    BY <1>1, Zenon DEF IInv, TypeOK
  <2>2. errChan # <<>> => Len(errChan) = 1
    BY <2>1
  <2> QED
    BY <2>1, <2>2, Zenon DEF SingleError, Sending
<1> QED
  BY <1>1, InitIInv, NextIInv, PTL DEF Spec

(* For every number of workers, inventory, buffer size and number of       *)
(* failures: if some worker found the VM, no error of another one and no   *)
(* ErrVMNotFound is returned in its place.                                 *)
THEOREM FoundAlwaysReturned == Spec => []FoundIsReturned
<1>1. IInv => FoundIsReturned
  BY DEF IInv
<1> QED
  BY <1>1, InitIInv, NextIInv, PTL DEF Spec

(* GetVirtualMachineByUUID returns a VM only if a datacenter of some       *)
(* vCenter has it.                                                         *)
THEOREM ReturnedIsThere == Spec => [](result = "vm" => Home \in AllDCs)
<1>1. IInv => (result = "vm" => Home \in AllDCs)
  BY DEF IInv
<1> QED
  BY <1>1, InitIInv, NextIInv, PTL DEF Spec
===============================================================================
