---------------------------- MODULE VmLifecycle ----------------------------
(***************************************************************************)
(* Creation and destruction of x86 VMs (vm/VmManager.cpp, by way of        *)
(* utils/RuntimeInterface.cpp) over the pool that carries destruction out. *)
(*                                                                         *)
(* A destruction looks the VM up, reads its state, looks it up again and   *)
(* submits a task to the pool, which unregisters the VM some time later:   *)
(* five critical sections, between which other callers, the VM and the     *)
(* workers go on.  The pool's clients are the threads that call, its tasks *)
(* are calls of destroy_vm.  mVM, whose stop() submits a task without a    *)
(* look-up and whose id may be registered again, is not part of this, and  *)
(* neither is what register_vm and unregister_vm do to the scheduler and,  *)
(* in the same critical sections, to the VM's pending interrupts           *)
(* (VmInterrupts).                                                         *)
(***************************************************************************)
EXTENDS ThreadPool

CONSTANTS
  MaxVms,  \* bound: ids handed out
  VmOf     \* bound: the calls of destroy_vm, as the VM each task destroys

VMs == 1..MaxVms

ASSUME LifecycleAssumption == MaxVms \in Nat /\ VmOf \in [Tasks -> VMs]

VARIABLES
  vms_,         \* VmManager's table, in which unregister_vm erases
  next_vm_id,   \* the counter in createX86VM
  caller        \* what each thread is doing in VmManager or RuntimeInterface

poolVars == vars
tableVars == <<vms_, next_vm_id, caller>>
lifecycleVars == <<poolVars, tableVars>>

CallerIdle == [pc |-> "idle", vm |-> 0]

LifecycleTypeOK ==
  /\ vms_ \subseteq VMs
  /\ next_vm_id \in 1..(MaxVms + 1)
  /\ caller \in [Clients -> {CallerIdle} \cup
                            [pc : {"register", "find", "submit"}, vm : VMs]]

LifecycleInit ==
  /\ Init
  /\ vms_ = {}
  /\ next_vm_id = 1
  /\ caller = [c \in Clients |-> CallerIdle]

\* A call of this thread is over; submit's last steps are in the pool.
Free(c) == caller[c] = CallerIdle /\ client[c] = ClientIdle

Goes(c, pc, v) == caller' = [caller EXCEPT ![c] = [pc |-> pc, vm |-> v]]

\* a bug to notice: the call is over, but the VM it was about is kept
ReturnsUncleared(c) == caller' = [caller EXCEPT ![c].pc = "idle"]

Returns(c) == caller' = [caller EXCEPT ![c] = CallerIdle]

NewId == next_vm_id

\* next_vm_id.fetch_add(1), and the VM's construction
CreateX86VM(c) ==
  /\ Free(c) /\ NewId \in VMs
  /\ next_vm_id' = NewId + 1
  /\ Goes(c, "register", NewId)
  /\ UNCHANGED <<poolVars, vms_>>

RegisterVm(c) ==
  /\ caller[c].pc = "register"
  /\ vms_' = vms_ \cup {caller[c].vm}
  /\ Returns(c)
  /\ UNCHANGED <<poolVars, next_vm_id>>

\* An id that was handed out taken for a VM in the table.
HandedOut(v) == v < next_vm_id

get_vm(v) == v \in vms_

\* RuntimeInterface::destroyVM finds the VM and reads its state, without a lock.  A VM
\* that is not there or runs is refused; whether it runs is left open, as it may be
\* started or stopped at any time, before and after.
FindVm(c, v) ==
  /\ Free(c) /\ get_vm(v)
  /\ Goes(c, "find", v)
  /\ UNCHANGED <<poolVars, vms_, next_vm_id>>

\* VmManager::destroyVM looks again.
FindAgain(c) ==
  /\ caller[c].pc = "find"
  /\ IF get_vm(caller[c].vm) THEN Goes(c, "submit", caller[c].vm) ELSE Returns(c)
  /\ UNCHANGED <<poolVars, vms_, next_vm_id>>

\* destroy_vm: the rest of submit, which may refuse, follows in the pool.
DestroyVm(c) ==
  /\ caller[c].pc = "submit"
  /\ \E t \in unsubmitted : VmOf[t] = caller[c].vm /\ Submit(c, t)
  /\ Returns(c)
  /\ UNCHANGED <<vms_, next_vm_id>>

\* The task: unregister_vm, one critical section under vm_mtx_.
Unregister(w) ==
  /\ WorkerRun(w)
  /\ vms_' = vms_ \ {VmOf[task[w]]}
  /\ UNCHANGED <<next_vm_id, caller>>

\* The pool's steps but the task itself.
WorkerOutside(w) ==
  /\ \/ WorkerLock(w) \/ WorkerWait(w) \/ WorkerSleep(w) \/ WorkerExit(w)
     \/ WorkerTake(w) \/ WorkerDone(w)
  /\ UNCHANGED tableVars

Spurious(w) == WorkerSpurious(w) /\ UNCHANGED tableVars

Submitting(c) == Client(c) /\ UNCHANGED tableVars

ShuttingDown(s) == (ShutdownBegin(s) \/ Shutdown(s)) /\ UNCHANGED tableVars

LifecycleNext ==
  \/ \E c \in Clients : \/ CreateX86VM(c) \/ RegisterVm(c)
                        \/ FindAgain(c) \/ DestroyVm(c) \/ Submitting(c)
                        \/ \E v \in VMs : FindVm(c, v)
  \/ \E w \in Workers : Unregister(w) \/ WorkerOutside(w) \/ Spurious(w)
  \/ \E s \in Closers : ShuttingDown(s)

\* The workers run and submit comes to its end, as in ThreadPool.  Nobody has to
\* create or destroy a VM, and a shutdown may stop anywhere.
LifecycleFairness ==
  /\ \A w \in Workers : /\ WF_lifecycleVars(Unregister(w) \/ WorkerOutside(w))
                        /\ SF_lifecycleVars(WorkerLock(w) /\ UNCHANGED tableVars)
  /\ \A c \in Clients : WF_lifecycleVars(Submitting(c))

LifecycleSpec == LifecycleInit /\ [][LifecycleNext]_lifecycleVars /\ LifecycleFairness

-----------------------------------------------------------------------------

\* The VMs whose creation is over.
Created ==
  {v \in VMs : v < next_vm_id /\ \A c \in Clients : caller[c] # [pc |-> "register", vm |-> v]}

\* The table holds the VMs that were created and whose destruction has not
\* run, exactly: no race of two callers of destroyVM over one VM, of a
\* destruction with a creation or with the pool's shutdown takes another VM
\* out, or puts one back whose task ran too early.
TableIsExact == vms_ = Created \ {VmOf[t] : t \in finished}

-----------------------------------------------------------------------------
(* What makes TableIsExact inductive *)

Offered == Tasks \ unsubmitted

\* Whatever the pool holds, runs or has run was submitted.
InHand ==
  /\ finished \subseteq Offered
  /\ Elements(tasks_) \subseteq Offered
  /\ \A w \in Workers : at[w] = "run" => task[w] \in Offered
  /\ \A c \in Clients : client[c].pc # "idle" => client[c].task \in Offered

\* An id is handed out to one caller.
IdsDiffer ==
  \A c \in Clients : caller[c].pc = "register" =>
    /\ caller[c].vm < next_vm_id
    /\ \A d \in Clients \ {c} : caller[d].pc = "register" => caller[d].vm # caller[c].vm

\* Only VMs whose creation is over are destroyed.
KnownVms ==
  /\ \A c \in Clients : caller[c].pc \in {"find", "submit"} => caller[c].vm \in Created
  /\ \A t \in Offered : VmOf[t] \in Created

TableInv == LifecycleTypeOK /\ InHand /\ IdsDiffer /\ KnownVms /\ TableIsExact
=============================================================================
