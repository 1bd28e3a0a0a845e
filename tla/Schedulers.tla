----------------------------- MODULE Schedulers -----------------------------
(***************************************************************************)
(* The scheduler in use (vm/SchedulerManager.cpp): one of the four behind  *)
(* the interface of SchedulerBase.  SchedulerManager constructs a          *)
(* QuotaScheduler; the others are constructed, filled with register_vm and *)
(* then passed to set_scheduler.  set_scheduler starts the new scheduler   *)
(* and does not return, as it locks scheduler_switch_mtx_ a second time in *)
(* get_current_scheduler_name, so there is no second switch: a behaviour   *)
(* here is that of one scheduler from its construction on.                 *)
(*                                                                         *)
(* Variables of the same name stand for the same member of the scheduler   *)
(* in use; those of the other schedulers keep their initial value.         *)
(***************************************************************************)
EXTENDS SchedulerBase

CONSTANT Kinds  \* the schedulers one of which is put to use

ASSUME KindsAssumption == Kinds \subseteq {"Quota", "CFS", "EDF", "Hybrid"}

VARIABLES
  current_scheduler_,
  ready_queue_, vm_refs_, vruntime, quota, runnable,                    \* Quota
  run_queue_, it, raced,                                                \* CFS
  edf_queue_, edf_task_map_, cfs_queue_, cfs_task_map_, vm_priorities_, \* EDF, Hybrid
  now,
  vm_task_map_, blocked, running_, loop, picked                         \* shared

Quota  == INSTANCE QuotaScheduler
CFS    == INSTANCE CFS_Scheduler
EDF    == INSTANCE EDF_Scheduler
Hybrid == INSTANCE Hybrid_Scheduler

quotaOnly == <<ready_queue_, vm_refs_, vruntime, quota, runnable>>
cfsOnly == <<run_queue_, it, raced>>
classes == <<edf_task_map_, cfs_queue_, cfs_task_map_, vm_priorities_>>
vars == <<current_scheduler_, quotaOnly, cfsOnly, edf_queue_, classes, now,
          vm_task_map_, blocked, running_, loop, picked>>

QuotaInit ==
  /\ ready_queue_ = {} /\ vm_refs_ = {} /\ quota = {}
  /\ vruntime = [v \in VMs |-> 0] /\ runnable = VMs

ClassesInit ==
  /\ edf_task_map_ = [v \in {} |-> 0]
  /\ cfs_queue_ = {} /\ cfs_task_map_ = [v \in {} |-> 0]
  /\ vm_priorities_ = [v \in {} |-> 0]

Init ==
  /\ current_scheduler_ \in Kinds
  /\ QuotaInit /\ ClassesInit
  /\ run_queue_ = {} /\ it = CFS!NoTask /\ raced = FALSE
  /\ edf_queue_ = {} /\ now = 0
  /\ vm_task_map_ = [v \in {} |-> 0]
  /\ blocked = {} /\ running_ = FALSE /\ loop = "off" /\ picked = 0

QuotaNext ==
  /\ current_scheduler_ = "Quota"
  /\ Quota!Next
  /\ UNCHANGED <<current_scheduler_, cfsOnly, edf_queue_, classes, now, blocked, picked>>

CfsNext ==
  /\ current_scheduler_ = "CFS"
  /\ CFS!Next
  /\ UNCHANGED <<current_scheduler_, quotaOnly, edf_queue_, classes, now>>

EdfNext ==
  /\ current_scheduler_ = "EDF"
  /\ EDF!Next
  /\ UNCHANGED <<current_scheduler_, quotaOnly, cfsOnly, classes>>

HybridNext ==
  /\ current_scheduler_ = "Hybrid"
  /\ Hybrid!Next
  /\ UNCHANGED <<current_scheduler_, quotaOnly, cfsOnly, vm_task_map_>>

Next == QuotaNext \/ CfsNext \/ EdfNext \/ HybridNext

Spec == Init /\ [][Next]_vars

TypeOK ==
  /\ current_scheduler_ \in Kinds
  /\ current_scheduler_ = "Quota" => Quota!TypeOK
  /\ current_scheduler_ = "CFS" => CFS!TypeOK
  /\ current_scheduler_ = "EDF" => EDF!TypeOK
  /\ current_scheduler_ = "Hybrid" => Hybrid!TypeOK

-----------------------------------------------------------------------------

(* No ready VM drops out of the queues: whatever is blocked, woken, charged,    *)
(* re-weighted or moved between classes while the CFS loop is between the steps *)
(* of its unlocked update, a registered VM that is not blocked has an entry in  *)
(* the queue the loop picks from, but while the loop itself moves its entry.    *)
(* For CFS as long as no two threads have been inside its std::set at once.     *)
ReadyIsQueued ==
  /\ current_scheduler_ = "CFS" /\ ~raced =>
       \A v \in DOMAIN vm_task_map_ \ blocked : CFS!Queued(v) \/ CFS!Updating(v)
  /\ current_scheduler_ = "EDF" =>
       \A v \in DOMAIN vm_task_map_ \ blocked : EDF!Queued(v)
  /\ current_scheduler_ = "Hybrid" =>
       \A v \in DOMAIN vm_priorities_ \ blocked :
         IF Hybrid!RealTime(vm_priorities_[v]) THEN Hybrid!QueuedEdf(v) ELSE Hybrid!QueuedCfs(v)

(* EDF and Hybrid keep their maps in step: an EDF entry belongs to a registered  *)
(* VM, as unregister_vm rebuilds the heap; under Hybrid a VM is in exactly one   *)
(* class, the one its priority names, through every change of priority.          *)
ClassesAgree ==
  /\ current_scheduler_ = "EDF" => \A t \in edf_queue_ : t.vm_id \in DOMAIN vm_task_map_
  /\ current_scheduler_ = "Hybrid" =>
       /\ DOMAIN edf_task_map_ = {v \in DOMAIN vm_priorities_ : Hybrid!RealTime(vm_priorities_[v])}
       /\ DOMAIN cfs_task_map_ = DOMAIN vm_priorities_ \ DOMAIN edf_task_map_

\* The VMs with a task, and what each of them has been charged.
Registered == IF current_scheduler_ = "Hybrid" THEN DOMAIN vm_priorities_
              ELSE IF current_scheduler_ = "Quota" THEN VMs ELSE DOMAIN vm_task_map_

Charge(v) == CASE current_scheduler_ = "Quota"  -> Quota!Charge(v)
               [] current_scheduler_ = "CFS"    -> CFS!Charge(v)
               [] current_scheduler_ = "EDF"    -> EDF!Charge(v)
               [] current_scheduler_ = "Hybrid" -> Hybrid!Charge(v)

(* Virtual time is never given back: no sequence of blocking, waking,           *)
(* scheduling and changing priority makes a VM younger than it was charged, so  *)
(* none of them is a way to the head of the queue.  Only registering, which     *)
(* makes a new task, starts at 0; and the store of CFS's unlocked charge may    *)
(* lose what other threads charged since its load, then and only then.          *)
VruntimeNeverFalls ==
  [][\A v \in Registered \cap Registered' :
       \/ Charge(v)' >= Charge(v)
       \/ current_scheduler_ = "Quota" /\ Quota!RegisterVm(v)
       \/ current_scheduler_ = "CFS" /\ CFS!Overtaken(v) /\ CFS!UpdateStore]_vars
=============================================================================
