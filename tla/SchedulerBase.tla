---------------------------- MODULE SchedulerBase ----------------------------
(***************************************************************************)
(* What the four schedulers share (include/vm/Scheduler/SchedulerBase.h):  *)
(* VM ids, priorities, maps from ids to tasks, the share of time by which  *)
(* a slice is charged, and the bounds of the models.                       *)
(***************************************************************************)
EXTENDS Integers

CONSTANTS
  VMs,          \* vm ids; 0 stands for "no VM" in the code
  Priorities,   \* priorities that are asked for
  MaxVruntime,  \* bound: the largest virtual time, in the role of kMaxVruntime
  MaxSlices,    \* bound: slices that QuotaScheduler charges
  MaxTime       \* bound: the last tick of the clock

ASSUME SchedulerAssumption ==
  /\ VMs \subseteq Nat \ {0}
  /\ Priorities \subseteq Int
  /\ MaxVruntime \in Nat
  /\ MaxSlices \in Nat
  /\ MaxTime \in Nat

\* map[v] = task and map.erase(v) of an unordered_map.
Put(map, v, task) == [w \in DOMAIN map \cup {v} |-> IF w = v THEN task ELSE map[w]]

Drop(map, v) == [w \in DOMAIN map \ {v} |-> map[w]]

IsMap(map, Task) == DOMAIN map \subseteq VMs /\ map \in [DOMAIN map -> Task]

kDefaultWeight == 1024

\* One slice of 10 ms in virtual time: slower for a heavier VM.
ScaledDelta(weight) == ((10 * 100) * kDefaultWeight) \div weight

Least(a, b) == IF a < b THEN a ELSE b
=============================================================================
