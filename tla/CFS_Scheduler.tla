---------------------------- MODULE CFS_Scheduler ----------------------------
(***************************************************************************)
(* The fair scheduler (vm/Scheduler/CFS_Scheduler.cpp): a run queue sorted *)
(* by vruntime, then by VM id, and a map with each VM's current task.      *)
(*                                                                         *)
(* Every public operation is one critical section under sched_mtx_.  The   *)
(* loop picks under the mutex too, but then charges the VM it picked       *)
(* WITHOUT it: find the task and compute the charge, erase the task from   *)
(* the queue, load its vruntime, store the sum, insert the task again.     *)
(* Each is a step here, and erasing and inserting are two, for while the   *)
(* loop is inside the std::set another thread may be too: that is a data   *)
(* race, after which the tree may have lost any of its nodes (lost links   *)
(* are the outcome modelled; a crash ends the behaviour).  The cap at      *)
(* kMaxVruntime, 2^63 - 1, which no run gets near, is part of the store.   *)
(* Finding in the map is taken as atomic, and a map node that              *)
(* unregister_vm freed under the loop's iterator as keeping its content.   *)
(* vm_refs_ and the copy of vruntime in a VM's sched_ctx_, which this      *)
(* scheduler does not read, are left out.                                  *)
(***************************************************************************)
EXTENDS SchedulerBase, FiniteSets

VARIABLES
  run_queue_,    \* a set of [vruntime, vm_id]
  vm_task_map_,  \* per registered VM its vruntime and weight
  blocked,       \* history: registered VMs that were blocked and not woken
  running_,
  loop,          \* where the loop is
  picked,        \* the VM it picked, or 0
  it,            \* the task its iterator points to, with the loop's locals
  raced          \* history: two threads were in the queue at once

vars == <<run_queue_, vm_task_map_, blocked, running_, loop, picked, it, raced>>
thread == <<running_, loop, picked, it>>

priority_to_weight_ == [p \in -2 .. 2 |-> CASE p = -2 -> 512 [] p = -1 -> 820
                                            [] p = 0 -> 1024 [] p = 1 -> 1280 [] p = 2 -> 2048]

WeightOf(p) == IF p \in -2 .. 2 THEN priority_to_weight_[p] ELSE kDefaultWeight

Weights == {512, 820, 1024, 1280, 2048}

Key(v, task) == [vruntime |-> task.vruntime, vm_id |-> v]

\* operator<
Before(s, t) == s.vruntime < t.vruntime \/ (s.vruntime = t.vruntime /\ s.vm_id < t.vm_id)

\* A charge that gives time back: the weight's share is subtracted.
Refunded(task) == [task EXCEPT !.vruntime = @ - ScaledDelta(task.weight)]

Steps == {"erase", "erasing", "load", "store", "insert", "inserting"}

Reweighted(task, p) == [task EXCEPT !.weight = WeightOf(p)]

\* The charge for one slice, up to kMaxVruntime.
ChargedTask(task) == [task EXCEPT !.vruntime = Least(@ + ScaledDelta(task.weight), MaxVruntime)]

TypeOK ==
  /\ run_queue_ \subseteq [vruntime : Nat, vm_id : VMs]
  /\ IsMap(vm_task_map_, [vruntime : Nat, weight : Weights])
  /\ blocked \subseteq DOMAIN vm_task_map_
  /\ running_ \in BOOLEAN
  /\ loop \in {"off", "pick", "find"} \cup Steps
  /\ picked \in VMs \cup {0}
  /\ it \in [vruntime : Nat, live : BOOLEAN, scaled_delta : Nat, loaded : Nat]
  /\ raced \in BOOLEAN
  /\ loop \in {"find"} \cup Steps => picked \in VMs
  /\ loop \in Steps /\ it.live => picked \in DOMAIN vm_task_map_

NoTask == [vruntime |-> 0, live |-> FALSE, scaled_delta |-> 0, loaded |-> 0]

Init ==
  /\ run_queue_ = {}
  /\ vm_task_map_ = [v \in {} |-> NoTask]
  /\ blocked = {}
  /\ running_ = FALSE /\ loop = "off" /\ picked = 0 /\ it = NoTask
  /\ raced = FALSE

\* The queue becomes q, or what is left of it if two threads were in it.
Requeue(q, racing) ==
  /\ raced' = (raced \/ racing)
  /\ IF raced' THEN run_queue_' \in SUBSET q ELSE run_queue_' = q

\* The loop is inside the queue, without the mutex.
InQueue == loop \in {"erasing", "inserting"}

RegisterVm(v) ==
  /\ v \notin DOMAIN vm_task_map_  \* by its creator, once
  /\ LET task == [vruntime |-> 0, weight |-> kDefaultWeight]
     IN /\ vm_task_map_' = Put(vm_task_map_, v, task)
        /\ Requeue(run_queue_ \cup {Key(v, task)}, InQueue)
  /\ UNCHANGED <<blocked, thread>>

\* The map's node is freed: an iterator of the loop keeps what was in it.
Dangling(v) ==
  IF loop \in Steps /\ picked = v /\ it.live
  THEN [it EXCEPT !.vruntime = vm_task_map_[v].vruntime, !.live = FALSE]
  ELSE it

UnregisterVm(v) ==
  /\ v \in DOMAIN vm_task_map_
  /\ Requeue(run_queue_ \ {Key(v, vm_task_map_[v])}, InQueue)
  /\ vm_task_map_' = Drop(vm_task_map_, v)
  /\ blocked' = blocked \ {v}
  /\ it' = Dangling(v)
  /\ UNCHANGED <<running_, loop, picked>>

\* Inserting before erasing: an unchanged key is lost.
InsertThenErase(v, task) == (run_queue_ \cup {Key(v, task)}) \ {Key(v, vm_task_map_[v])}

\* The queue with v's current entry replaced.
EraseThenInsert(v, task) == (run_queue_ \ {Key(v, vm_task_map_[v])}) \cup {Key(v, task)}

\* update_vruntime as schedule_vm calls it, under the mutex.
ScheduleVm(v) ==
  /\ v \in DOMAIN vm_task_map_
  /\ LET task == ChargedTask(vm_task_map_[v])
     IN /\ Requeue(EraseThenInsert(v, task), InQueue)
        /\ vm_task_map_' = Put(vm_task_map_, v, task)
  /\ UNCHANGED <<blocked, thread>>

BlockVm(v) ==
  /\ v \in DOMAIN vm_task_map_
  /\ Requeue(run_queue_ \ {Key(v, vm_task_map_[v])}, InQueue)
  /\ blocked' = blocked \cup {v}
  /\ UNCHANGED <<vm_task_map_, thread>>

WakeVm(v) ==
  /\ v \in DOMAIN vm_task_map_
  /\ Requeue(run_queue_ \cup {Key(v, vm_task_map_[v])}, InQueue)
  /\ blocked' = blocked \ {v}
  /\ UNCHANGED <<vm_task_map_, thread>>

\* Also enters a VM that is blocked.
SetVmPriority(v, p) ==
  /\ v \in DOMAIN vm_task_map_
  /\ LET task == Reweighted(vm_task_map_[v], p)
     IN /\ Requeue(EraseThenInsert(v, task), InQueue)
        /\ vm_task_map_' = Put(vm_task_map_, v, task)
  /\ UNCHANGED <<blocked, thread>>

others == <<run_queue_, vm_task_map_, blocked, raced>>

StartScheduler ==
  /\ ~running_ /\ loop = "off"
  /\ running_' = TRUE /\ loop' = "pick"
  /\ UNCHANGED <<others, picked, it>>

StopScheduler ==
  /\ running_
  /\ running_' = FALSE
  /\ UNCHANGED <<others, loop, picked, it>>

LoopExits ==
  /\ loop = "pick" /\ ~running_
  /\ loop' = "off"
  /\ UNCHANGED <<others, running_, picked, it>>

PickNextTask ==
  /\ loop = "pick" /\ running_
  /\ \E t \in run_queue_ :
       /\ \A s \in run_queue_ : s = t \/ Before(t, s)
       /\ picked' = t.vm_id
  /\ loop' = "find"
  /\ UNCHANGED <<others, running_, it>>

\* The charge is computed from the weight the task has now.
UpdateFind ==
  /\ loop = "find"
  /\ IF picked \in DOMAIN vm_task_map_
     THEN /\ loop' = "erase"
          /\ it' = [NoTask EXCEPT !.live = TRUE,
                                  !.scaled_delta = ScaledDelta(vm_task_map_[picked].weight)]
          /\ UNCHANGED picked
     ELSE loop' = "pick" /\ picked' = 0 /\ UNCHANGED it
  /\ UNCHANGED <<others, running_>>

\* it->second.vruntime, in the map or in the freed node
Pointed == IF it.live THEN vm_task_map_[picked].vruntime ELSE it.vruntime

PointedKey == [vruntime |-> Pointed, vm_id |-> picked]

\* Entering the queue, to erase or to insert.
UpdateEnters ==
  /\ \/ loop = "erase" /\ loop' = "erasing"
     \/ loop = "insert" /\ loop' = "inserting"
  /\ UNCHANGED <<others, running_, picked, it>>

UpdateErase ==
  /\ loop = "erasing"
  /\ Requeue(run_queue_ \ {PointedKey}, FALSE)
  /\ loop' = "load"
  /\ UNCHANGED <<vm_task_map_, blocked, running_, picked, it>>

\* vruntime += scaled_delta is a load and a store.
UpdateLoad ==
  /\ loop = "load"
  /\ it' = [it EXCEPT !.loaded = Pointed]
  /\ loop' = "store"
  /\ UNCHANGED <<others, running_, picked>>

UpdateStore ==
  /\ loop = "store"
  /\ LET sum == Least(it.loaded + it.scaled_delta, MaxVruntime)
     IN IF it.live
        THEN /\ vm_task_map_' = [vm_task_map_ EXCEPT ![picked].vruntime = sum]
             /\ it' = [NoTask EXCEPT !.live = TRUE]
        ELSE it' = [NoTask EXCEPT !.vruntime = sum] /\ UNCHANGED vm_task_map_
  /\ loop' = "insert"
  /\ UNCHANGED <<run_queue_, blocked, raced, running_, picked>>

UpdateInsert ==
  /\ loop = "inserting"
  /\ Requeue(run_queue_ \cup {PointedKey}, FALSE)
  /\ loop' = "pick" /\ picked' = 0 /\ it' = NoTask
  /\ UNCHANGED <<vm_task_map_, blocked, running_>>

Next ==
  \/ \E v \in VMs : \/ RegisterVm(v) \/ UnregisterVm(v) \/ ScheduleVm(v)
                    \/ BlockVm(v) \/ WakeVm(v)
                    \/ \E p \in Priorities : SetVmPriority(v, p)
  \/ StartScheduler \/ StopScheduler \/ LoopExits
  \/ PickNextTask \/ UpdateFind \/ UpdateEnters \/ UpdateErase
  \/ UpdateLoad \/ UpdateStore \/ UpdateInsert

Charge(v) == vm_task_map_[v].vruntime

\* The loop has taken v's task out of the queue and not put it back yet.
Updating(v) == loop \in Steps \ {"erase", "erasing"} /\ picked = v

\* Another thread charged v after the loop loaded its vruntime.
Overtaken(v) == loop = "store" /\ picked = v /\ Charge(v) # it.loaded

Queued(v) == \E t \in run_queue_ : t.vm_id = v
=============================================================================
