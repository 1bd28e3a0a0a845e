--------------------------- MODULE QuotaScheduler ---------------------------
(***************************************************************************)
(* The default scheduler (vm/Scheduler/QuotaScheduler.cpp).  VMs that are  *)
(* ready are in a tree ordered by priority and vruntime.  Every 10 ms the  *)
(* loop gives all of them a quota, without which a VM's thread executes    *)
(* nothing, waits, and charges the VMs that have one.                      *)
(*                                                                         *)
(* The tree's comparison does not look at the VM id: two tasks with equal  *)
(* priority and vruntime are one key.  Inserting a second one does         *)
(* nothing, and erasing one task may remove the other.  The charge changes *)
(* the task in vm_task_map_ and leaves the tree's copy as it was.          *)
(*                                                                         *)
(* vruntime counts slices (50 instructions each).  Every public operation  *)
(* is one critical section under sched_mtx_.  blocked_reason, which is     *)
(* written and never read, is left out.                                    *)
(***************************************************************************)
EXTENDS SchedulerBase

VARIABLES
  ready_queue_,  \* the tree: a set of tasks with different keys
  vm_task_map_,
  vm_refs_,      \* VMs the scheduler has a reference to
  vruntime,      \* the copy of vruntime kept in each VM's sched_ctx_
  quota,         \* VMs whose sched_ctx_ has a quota
  runnable,      \* VMs whose state_ is CREATED or RUNNING
  running_, loop \* scheduler_running_, and where the loop is

vars == <<ready_queue_, vm_task_map_, vm_refs_, vruntime, quota, runnable, running_, loop>>
vmVars == <<vruntime, quota, runnable>>
thread == <<running_, loop>>

Task(v, p, r) == [vm_id |-> v, priority |-> p, vruntime |-> r]

Tasks == [vm_id : VMs, priority : Priorities \cup {0}, vruntime : Nat]

SameKey(s, t) == s.priority = t.priority /\ s.vruntime = t.vruntime

Insert(tree, t) == IF \E s \in tree : SameKey(s, t) THEN tree ELSE tree \cup {t}

Erase(tree, t) == {s \in tree : ~SameKey(s, t)}

TypeOK ==
  /\ ready_queue_ \subseteq Tasks
  /\ IsMap(vm_task_map_, Tasks)
  /\ \A v \in DOMAIN vm_task_map_ : vm_task_map_[v].vm_id = v
  /\ DOMAIN vm_task_map_ \subseteq vm_refs_
  /\ vm_refs_ \subseteq VMs /\ quota \subseteq VMs /\ runnable \subseteq VMs
  /\ vruntime \in [VMs -> Nat]
  /\ running_ \in BOOLEAN
  /\ loop \in {"off", "allocate", "wait"}

Init ==
  /\ ready_queue_ = {}
  /\ vm_task_map_ = [v \in {} |-> Task(v, 0, 0)]
  /\ vm_refs_ = {} /\ quota = {} /\ runnable = VMs
  /\ vruntime = [v \in VMs |-> 0]
  /\ running_ = FALSE /\ loop = "off"

\* Also called for a VM that is registered already: by VmManager, then by mVM::start.
RegisterVm(v) ==
  /\ vm_refs_' = vm_refs_ \cup {v}
  /\ ready_queue_' = Insert(ready_queue_, Task(v, 0, 0))
  /\ vm_task_map_' = Put(vm_task_map_, v, Task(v, 0, 0))
  /\ UNCHANGED <<vmVars, thread>>

UnregisterVm(v) ==
  /\ v \in vm_refs_
  /\ vm_refs_' = vm_refs_ \ {v}
  /\ ready_queue_' = IF v \in DOMAIN vm_task_map_ THEN Erase(ready_queue_, vm_task_map_[v])
                     ELSE ready_queue_
  /\ vm_task_map_' = Drop(vm_task_map_, v)
  /\ UNCHANGED <<vmVars, thread>>

\* sched_ctx_.priority is written nowhere and stays 0.
FromContext(v) == Task(v, 0, vruntime[v])

ScheduleVm(v) ==
  /\ v \in vm_refs_
  /\ LET known == v \in DOMAIN vm_task_map_
         task  == IF known THEN [vm_task_map_[v] EXCEPT !.priority = 0] ELSE FromContext(v)
         tree  == IF known THEN Erase(ready_queue_, vm_task_map_[v]) ELSE ready_queue_
     IN /\ ready_queue_' = Insert(tree, task)
        /\ vm_task_map_' = Put(vm_task_map_, v, task)
  /\ UNCHANGED <<vm_refs_, vmVars, thread>>

BlockVm(v) ==
  /\ v \in vm_refs_
  /\ ready_queue_' = IF v \in DOMAIN vm_task_map_ THEN Erase(ready_queue_, vm_task_map_[v])
                     ELSE ready_queue_
  /\ vm_task_map_' = Drop(vm_task_map_, v)
  /\ quota' = quota \ {v}
  /\ UNCHANGED <<vm_refs_, vruntime, runnable, thread>>

WakeVm(v) ==
  /\ v \in vm_refs_
  /\ ready_queue_' = Insert(ready_queue_, FromContext(v))
  /\ vm_task_map_' = Put(vm_task_map_, v, FromContext(v))
  /\ UNCHANGED <<vm_refs_, vmVars, thread>>

SetVmPriority(v, p) ==
  /\ v \in DOMAIN vm_task_map_
  /\ LET task == [vm_task_map_[v] EXCEPT !.priority = p]
     IN /\ ready_queue_' = Insert(Erase(ready_queue_, vm_task_map_[v]), task)
        /\ vm_task_map_' = Put(vm_task_map_, v, task)
  /\ UNCHANGED <<vm_refs_, vmVars, thread>>

StartScheduler ==
  /\ ~running_ /\ loop = "off"  \* stop() joins the thread before it returns
  /\ running_' = TRUE /\ loop' = "allocate"
  /\ UNCHANGED <<ready_queue_, vm_task_map_, vm_refs_, vmVars>>

StopScheduler ==
  /\ running_
  /\ running_' = FALSE
  /\ UNCHANGED <<ready_queue_, vm_task_map_, vm_refs_, vmVars, loop>>

LoopExits ==
  /\ loop = "allocate" /\ ~running_
  /\ loop' = "off"
  /\ UNCHANGED <<ready_queue_, vm_task_map_, vm_refs_, vmVars, running_>>

\* allocate_quotas: every task of the tree whose VM is not suspended.
AllocateQuotas ==
  /\ loop = "allocate" /\ running_
  /\ quota' = quota \cup {v \in vm_refs_ \cap runnable : \E t \in ready_queue_ : t.vm_id = v}
  /\ loop' = "wait"
  /\ UNCHANGED <<ready_queue_, vm_task_map_, vm_refs_, vruntime, runnable, running_>>

Charged == {v \in DOMAIN vm_task_map_ : v \in quota}

\* A charge that is not copied to sched_ctx_.
NotCopied(v) == vruntime[v]

\* sched_ctx_.vruntime after the charge.
CopiedTime(v) == IF v \in Charged THEN vm_task_map_[v].vruntime + 1 ELSE vruntime[v]

\* update_vruntime: the map and sched_ctx_ are charged, the tree keeps its old keys.
UpdateVruntime ==
  /\ loop = "wait"
  /\ \A v \in Charged : vm_task_map_[v].vruntime < MaxSlices
  /\ vm_task_map_' = [v \in DOMAIN vm_task_map_ |->
                        IF v \in Charged
                        THEN [vm_task_map_[v] EXCEPT !.vruntime = @ + 1]
                        ELSE vm_task_map_[v]]
  /\ vruntime' = [v \in VMs |-> CopiedTime(v)]
  /\ loop' = "allocate"
  /\ UNCHANGED <<ready_queue_, vm_refs_, quota, runnable, running_>>

\* The VM's thread, which needs a quota, suspends itself or ends.
VmExecutes(v) ==
  /\ v \in runnable \cap quota
  /\ runnable' = runnable \ {v}
  /\ UNCHANGED <<ready_queue_, vm_task_map_, vm_refs_, vruntime, quota, thread>>

\* handle_interrupt sets the state to RUNNING.
VmResumes(v) ==
  /\ v \notin runnable
  /\ runnable' = runnable \cup {v}
  /\ UNCHANGED <<ready_queue_, vm_task_map_, vm_refs_, vruntime, quota, thread>>

Next ==
  \/ \E v \in VMs : \/ RegisterVm(v) \/ UnregisterVm(v) \/ ScheduleVm(v)
                    \/ BlockVm(v) \/ WakeVm(v)
                    \/ VmExecutes(v) \/ VmResumes(v)
                    \/ \E p \in Priorities : SetVmPriority(v, p)
  \/ StartScheduler \/ StopScheduler \/ LoopExits
  \/ AllocateQuotas \/ UpdateVruntime

\* The loop runs in a thread of its own and its wait has a timeout.
Spec == Init /\ [][Next]_vars /\ WF_vars(LoopExits \/ AllocateQuotas \/ UpdateVruntime)

\* The virtual time a VM has been charged, in the map or while it is not there.
Charge(v) == IF v \in DOMAIN vm_task_map_ THEN vm_task_map_[v].vruntime ELSE vruntime[v]

\* A VM is ready when it is registered, not blocked and may run.
Ready(v) == v \in DOMAIN vm_task_map_ /\ v \in runnable

(* allocate_quotas "gives all ready VMs a quota" (the comment on it, and the    *)
(* overview in docs): after it has run, every ready VM has one.                 *)
AllReadyGetQuota == [][AllocateQuotas => \A v \in VMs : Ready(v) => v \in quota']_vars
=============================================================================
