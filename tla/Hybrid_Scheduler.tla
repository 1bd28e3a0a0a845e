-------------------------- MODULE Hybrid_Scheduler --------------------------
(***************************************************************************)
(* The mixed scheduler (vm/Scheduler/Hybrid_Scheduler.cpp): VMs of         *)
(* priority 1 and more are scheduled by deadline, as in EDF_Scheduler, the *)
(* others by vruntime, as in CFS_Scheduler, and only when the deadline     *)
(* heap is empty.  set_vm_priority moves a VM from one class to the other. *)
(* The loop picks in one critical section and charges in a second one.     *)
(* Weights never change from their default here; vm_refs_ and the copy of  *)
(* the priority in a deadline task, which nothing reads, are left out.     *)
(***************************************************************************)
EXTENDS SchedulerBase

VARIABLES
  edf_queue_, edf_task_map_,  \* the heap as a set of [vm_id, deadline], and its VMs
  cfs_queue_, cfs_task_map_,  \* the set of [vruntime, vm_id], and its VMs
  vm_priorities_,             \* the priority of every registered VM
  blocked,                    \* history: registered VMs blocked and not woken
  running_, loop, picked,
  now                         \* get_time_ns(), in periods

queues == <<edf_queue_, edf_task_map_, cfs_queue_, cfs_task_map_>>
thread == <<running_, loop, picked>>
vars == <<queues, vm_priorities_, blocked, thread, now>>

kRealTimePriority == 1

RealTime(p) == p >= kRealTimePriority

EdfEntry(v, task) == [vm_id |-> v, deadline |-> task.deadline]

CfsEntry(v, task) == [vruntime |-> task.vruntime, vm_id |-> v]

EdfTask(r) == [deadline |-> now + 1, period |-> 1, vruntime |-> r]

CfsTask(r) == [vruntime |-> r]

Charged(task) == [task EXCEPT !.vruntime = @ + ScaledDelta(kDefaultWeight)]

TypeOK ==
  /\ edf_queue_ \subseteq [vm_id : VMs, deadline : Nat]
  /\ IsMap(edf_task_map_, [deadline : Nat, period : {1}, vruntime : Nat])
  /\ cfs_queue_ \subseteq [vruntime : Nat, vm_id : VMs]
  /\ IsMap(cfs_task_map_, [vruntime : Nat])
  /\ IsMap(vm_priorities_, Priorities \cup {0})
  /\ blocked \subseteq DOMAIN vm_priorities_
  /\ running_ \in BOOLEAN
  /\ loop \in {"off", "pick", "schedule"}
  /\ picked \in VMs \cup {0}
  /\ loop = "schedule" => picked \in VMs
  /\ now \in 0 .. MaxTime

Init ==
  /\ edf_queue_ = {} /\ cfs_queue_ = {}
  /\ edf_task_map_ = [v \in {} |-> 0] /\ cfs_task_map_ = [v \in {} |-> 0]
  /\ vm_priorities_ = [v \in {} |-> 0]
  /\ blocked = {}
  /\ running_ = FALSE /\ loop = "off" /\ picked = 0
  /\ now = 0

\* Every VM starts with priority 0.
RegisterVm(v) ==
  /\ v \notin DOMAIN vm_priorities_
  /\ vm_priorities_' = Put(vm_priorities_, v, 0)
  /\ cfs_task_map_' = Put(cfs_task_map_, v, CfsTask(0))
  /\ cfs_queue_' = cfs_queue_ \cup {CfsEntry(v, CfsTask(0))}
  /\ UNCHANGED <<edf_queue_, edf_task_map_, blocked, thread, now>>

\* The heap is rebuilt only for a VM that is in the deadline class now.
UnregisterVm(v) ==
  /\ v \in DOMAIN vm_priorities_
  /\ edf_queue_' = IF v \in DOMAIN edf_task_map_ THEN {t \in edf_queue_ : t.vm_id # v}
                   ELSE edf_queue_
  /\ edf_task_map_' = Drop(edf_task_map_, v)
  /\ cfs_queue_' = IF v \in DOMAIN cfs_task_map_
                   THEN cfs_queue_ \ {CfsEntry(v, cfs_task_map_[v])} ELSE cfs_queue_
  /\ cfs_task_map_' = Drop(cfs_task_map_, v)
  /\ vm_priorities_' = Drop(vm_priorities_, v)
  /\ blocked' = blocked \ {v}
  /\ UNCHANGED <<thread, now>>

EnterEdf(v, task) ==
  /\ edf_task_map_' = Put(edf_task_map_, v, task)
  /\ edf_queue_' = edf_queue_ \cup {EdfEntry(v, task)}

ScheduleEdf(v) ==
  /\ v \in DOMAIN edf_task_map_
  /\ EnterEdf(v, [edf_task_map_[v] EXCEPT !.deadline = now + edf_task_map_[v].period])
  /\ UNCHANGED <<cfs_queue_, cfs_task_map_>>

ScheduleCfs(v) ==
  /\ v \in DOMAIN cfs_task_map_
  /\ cfs_task_map_[v].vruntime < MaxVruntime
  /\ LET task == Charged(cfs_task_map_[v])
     IN /\ cfs_queue_' = (cfs_queue_ \ {CfsEntry(v, cfs_task_map_[v])}) \cup {CfsEntry(v, task)}
        /\ cfs_task_map_' = Put(cfs_task_map_, v, task)
  /\ UNCHANGED <<edf_queue_, edf_task_map_>>

Scheduled(v) ==
  IF RealTime(vm_priorities_[v]) THEN ScheduleEdf(v) ELSE ScheduleCfs(v)

ScheduleVm(v) ==
  /\ v \in DOMAIN vm_priorities_
  /\ Scheduled(v)
  /\ UNCHANGED <<vm_priorities_, blocked, thread, now>>

BlockVm(v) ==
  /\ v \in DOMAIN vm_priorities_
  /\ cfs_queue_' = IF v \in DOMAIN cfs_task_map_ /\ ~RealTime(vm_priorities_[v])
                   THEN cfs_queue_ \ {CfsEntry(v, cfs_task_map_[v])} ELSE cfs_queue_
  /\ blocked' = blocked \cup {v}
  /\ UNCHANGED <<edf_queue_, edf_task_map_, cfs_task_map_, vm_priorities_, thread, now>>

WakeEdf(v) ==
  /\ LET task == edf_task_map_[v]
     IN EnterEdf(v, IF task.deadline <= now THEN [task EXCEPT !.deadline = now + task.period]
                    ELSE task)
  /\ UNCHANGED <<cfs_queue_, cfs_task_map_>>

WakeCfs(v) ==
  /\ cfs_queue_' = cfs_queue_ \cup {CfsEntry(v, cfs_task_map_[v])}
  /\ UNCHANGED <<edf_queue_, edf_task_map_, cfs_task_map_>>

WakeVm(v) ==
  /\ v \in DOMAIN vm_priorities_
  /\ IF RealTime(vm_priorities_[v]) THEN WakeEdf(v) ELSE WakeCfs(v)
  /\ blocked' = blocked \ {v}
  /\ UNCHANGED <<vm_priorities_, thread, now>>

\* The vruntime that a VM takes along into its new class.
CarriedTime(task) == task.vruntime

\* The VM's entries stay in the heap.
ToCfs(v) ==
  /\ LET task == CfsTask(CarriedTime(edf_task_map_[v]))
     IN /\ cfs_task_map_' = Put(cfs_task_map_, v, task)
        /\ cfs_queue_' = cfs_queue_ \cup {CfsEntry(v, task)}
  /\ edf_task_map_' = Drop(edf_task_map_, v)
  /\ UNCHANGED edf_queue_

ToEdf(v) ==
  /\ EnterEdf(v, EdfTask(CarriedTime(cfs_task_map_[v])))
  /\ cfs_queue_' = cfs_queue_ \ {CfsEntry(v, cfs_task_map_[v])}
  /\ cfs_task_map_' = Drop(cfs_task_map_, v)

\* A switch of class also queues a VM that is blocked.
SetVmPriority(v, p) ==
  /\ v \in DOMAIN vm_priorities_
  /\ vm_priorities_' = Put(vm_priorities_, v, p)
  /\ CASE RealTime(vm_priorities_[v]) /\ ~RealTime(p) -> ToCfs(v)
       [] ~RealTime(vm_priorities_[v]) /\ RealTime(p) -> ToEdf(v)
       [] OTHER -> UNCHANGED queues
  /\ UNCHANGED <<blocked, thread, now>>

StartScheduler ==
  /\ ~running_ /\ loop = "off"
  /\ running_' = TRUE /\ loop' = "pick"
  /\ UNCHANGED <<queues, vm_priorities_, blocked, picked, now>>

StopScheduler ==
  /\ running_
  /\ running_' = FALSE
  /\ UNCHANGED <<queues, vm_priorities_, blocked, loop, picked, now>>

LoopExits ==
  /\ loop = "pick" /\ ~running_
  /\ loop' = "off"
  /\ UNCHANGED <<queues, vm_priorities_, blocked, running_, picked, now>>

PickEdfTask ==
  \E t \in edf_queue_ : /\ \A s \in edf_queue_ : t.deadline <= s.deadline
                        /\ picked' = t.vm_id

PickCfsTask ==
  \E t \in cfs_queue_ :
    /\ \A s \in cfs_queue_ : \/ t.vruntime < s.vruntime
                             \/ t.vruntime = s.vruntime /\ t.vm_id <= s.vm_id
    /\ picked' = t.vm_id

PickNextTask ==
  /\ loop = "pick" /\ running_
  /\ IF edf_queue_ # {} THEN PickEdfTask ELSE PickCfsTask
  /\ loop' = "schedule"
  /\ UNCHANGED <<queues, vm_priorities_, blocked, running_, now>>

LoopSchedules ==
  /\ loop = "schedule"
  /\ IF picked \in DOMAIN vm_priorities_ THEN Scheduled(picked) ELSE UNCHANGED queues
  /\ loop' = "pick" /\ picked' = 0
  /\ UNCHANGED <<vm_priorities_, blocked, running_, now>>

Tick ==
  /\ now < MaxTime
  /\ now' = now + 1
  /\ UNCHANGED <<queues, vm_priorities_, blocked, thread>>

Next ==
  \/ \E v \in VMs : \/ RegisterVm(v) \/ UnregisterVm(v) \/ ScheduleVm(v)
                    \/ BlockVm(v) \/ WakeVm(v)
                    \/ \E p \in Priorities : SetVmPriority(v, p)
  \/ StartScheduler \/ StopScheduler \/ LoopExits
  \/ PickNextTask \/ LoopSchedules \/ Tick

Charge(v) == IF v \in DOMAIN edf_task_map_ THEN edf_task_map_[v].vruntime
             ELSE cfs_task_map_[v].vruntime

QueuedEdf(v) == \E t \in edf_queue_ : t.vm_id = v
QueuedCfs(v) == \E t \in cfs_queue_ : t.vm_id = v
=============================================================================
