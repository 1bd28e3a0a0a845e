---------------------------- MODULE EDF_Scheduler ----------------------------
(***************************************************************************)
(* The deadline scheduler (vm/Scheduler/EDF_Scheduler.cpp): a heap of      *)
(* tasks by deadline and a map with each VM's current task.  A heap cannot *)
(* be searched, so nothing but unregister_vm takes an entry out: the loop  *)
(* looks at the top, gives that VM a new deadline and pushes it once more. *)
(* Copies of an entry for the same VM and deadline make no difference, and *)
(* the heap is a set.  One tick of the clock is one default period.        *)
(* vm_refs_, which nothing reads, is left out.                             *)
(***************************************************************************)
EXTENDS SchedulerBase

VARIABLES
  edf_queue_,    \* a set of [vm_id, deadline]
  vm_task_map_,  \* per registered VM its deadline, period, vruntime and priority
  blocked,       \* history: registered VMs that were blocked and not woken
  running_, loop, picked,
  now            \* get_time_ns()

vars == <<edf_queue_, vm_task_map_, blocked, running_, loop, picked, now>>
thread == <<running_, loop, picked>>

kDefaultPeriod == 1

\* Deadlines that set_vm_deadline is called with, in periods.
Deadlines == {1, 2}

Task(v, task) == [vm_id |-> v, deadline |-> task.deadline]

\* A new task; vruntime starts at 0 and is never charged.
NewTask(time) == [deadline |-> time + kDefaultPeriod, period |-> kDefaultPeriod,
                  vruntime |-> 0, priority |-> 0]

TypeOK ==
  /\ edf_queue_ \subseteq [vm_id : VMs, deadline : Nat]
  /\ IsMap(vm_task_map_, [deadline : Nat, period : Nat, vruntime : {0},
                         priority : Priorities \cup {0}])
  /\ blocked \subseteq DOMAIN vm_task_map_
  /\ running_ \in BOOLEAN
  /\ loop \in {"off", "pick", "schedule"}
  /\ picked \in VMs \cup {0}
  /\ loop = "schedule" => picked \in VMs
  /\ now \in 0 .. MaxTime

Init ==
  /\ edf_queue_ = {}
  /\ vm_task_map_ = [v \in {} |-> NewTask(0)]
  /\ blocked = {}
  /\ running_ = FALSE /\ loop = "off" /\ picked = 0
  /\ now = 0

RegisterVm(v) ==
  /\ v \notin DOMAIN vm_task_map_
  /\ vm_task_map_' = Put(vm_task_map_, v, NewTask(now))
  /\ edf_queue_' = edf_queue_ \cup {Task(v, NewTask(now))}
  /\ UNCHANGED <<blocked, thread, now>>

\* unregister_vm that takes out the VM's last entry only.
WithoutCurrent(v) == edf_queue_ \ {Task(v, vm_task_map_[v])}

\* The heap is rebuilt without the VM's entries.
Without(v) == {t \in edf_queue_ : t.vm_id # v}

UnregisterVm(v) ==
  /\ v \in DOMAIN vm_task_map_
  /\ vm_task_map_' = Drop(vm_task_map_, v)
  /\ edf_queue_' = Without(v)
  /\ blocked' = blocked \ {v}
  /\ UNCHANGED <<thread, now>>

Enter(v, task) ==
  /\ vm_task_map_' = Put(vm_task_map_, v, task)
  /\ edf_queue_' = edf_queue_ \cup {Task(v, task)}

\* A deadline one period from now.
Requeued(task) == [task EXCEPT !.deadline = now + task.period]

Scheduled(v) ==
  IF v \in DOMAIN vm_task_map_
  THEN Enter(v, Requeued(vm_task_map_[v]))
  ELSE UNCHANGED <<vm_task_map_, edf_queue_>>

ScheduleVm(v) ==
  /\ v \in DOMAIN vm_task_map_
  /\ Scheduled(v)
  /\ UNCHANGED <<blocked, thread, now>>

\* The entries and the deadline stay.
BlockVm(v) ==
  /\ v \in DOMAIN vm_task_map_
  /\ blocked' = blocked \cup {v}
  /\ UNCHANGED <<edf_queue_, vm_task_map_, thread, now>>

WakeVm(v) ==
  /\ v \in DOMAIN vm_task_map_
  /\ LET task == vm_task_map_[v]
     IN Enter(v, IF task.deadline <= now THEN Requeued(task) ELSE task)
  /\ blocked' = blocked \ {v}
  /\ UNCHANGED <<thread, now>>

\* set_vm_deadline changes the map only.
SetVmDeadline(v, d) ==
  /\ v \in DOMAIN vm_task_map_
  /\ vm_task_map_' = Put(vm_task_map_, v, [vm_task_map_[v] EXCEPT !.deadline = now + d, !.period = d])
  /\ UNCHANGED <<edf_queue_, blocked, thread, now>>

\* Changes no deadline.
SetVmPriority(v, p) ==
  /\ v \in DOMAIN vm_task_map_
  /\ vm_task_map_' = Put(vm_task_map_, v, [vm_task_map_[v] EXCEPT !.priority = p])
  /\ UNCHANGED <<edf_queue_, blocked, thread, now>>

StartScheduler ==
  /\ ~running_ /\ loop = "off"
  /\ running_' = TRUE /\ loop' = "pick"
  /\ UNCHANGED <<edf_queue_, vm_task_map_, blocked, picked, now>>

StopScheduler ==
  /\ running_
  /\ running_' = FALSE
  /\ UNCHANGED <<edf_queue_, vm_task_map_, blocked, loop, picked, now>>

LoopExits ==
  /\ loop = "pick" /\ ~running_
  /\ loop' = "off"
  /\ UNCHANGED <<edf_queue_, vm_task_map_, blocked, running_, picked, now>>

PickNextTask ==
  /\ loop = "pick" /\ running_
  /\ \E t \in edf_queue_ :
       /\ \A s \in edf_queue_ : t.deadline <= s.deadline
       /\ picked' = t.vm_id
  /\ loop' = "schedule"
  /\ UNCHANGED <<edf_queue_, vm_task_map_, blocked, running_, now>>

\* The mutex was released after the pick: the VM may be gone.
LoopSchedules ==
  /\ loop = "schedule"
  /\ Scheduled(picked)
  /\ loop' = "pick" /\ picked' = 0
  /\ UNCHANGED <<blocked, running_, now>>

Tick ==
  /\ now < MaxTime
  /\ now' = now + 1
  /\ UNCHANGED <<edf_queue_, vm_task_map_, blocked, thread>>

Next ==
  \/ \E v \in VMs : \/ RegisterVm(v) \/ UnregisterVm(v) \/ ScheduleVm(v)
                    \/ BlockVm(v) \/ WakeVm(v)
                    \/ \E d \in Deadlines : SetVmDeadline(v, d)
                    \/ \E p \in Priorities : SetVmPriority(v, p)
  \/ StartScheduler \/ StopScheduler \/ LoopExits
  \/ PickNextTask \/ LoopSchedules \/ Tick

Charge(v) == vm_task_map_[v].vruntime

Queued(v) == \E t \in edf_queue_ : t.vm_id = v
=============================================================================
