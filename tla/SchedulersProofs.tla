-------------------------- MODULE SchedulersProofs --------------------------
(***************************************************************************)
(* For any VMs, priorities, charges and times: under each of the four      *)
(* schedulers no ready VM drops out of its queue, the maps of the deadline *)
(* schedulers agree with their queues, and virtual time never falls, but   *)
(* for what the CFS loop's data races may do.                              *)
(***************************************************************************)
EXTENDS Schedulers, TLAPS

-----------------------------------------------------------------------------
(* The default scheduler *)

LEMMA QuotaTasks ==
  ASSUME Quota!TypeOK, NEW v \in VMs
  PROVE  /\ Quota!Task(v, 0, 0) \in Quota!Tasks
         /\ Quota!FromContext(v) \in Quota!Tasks
         /\ \A p \in Priorities \cup {0} : v \in DOMAIN vm_task_map_ =>
              /\ vm_task_map_[v] \in Quota!Tasks
              /\ [vm_task_map_[v] EXCEPT !.priority = p] \in Quota!Tasks
              /\ [vm_task_map_[v] EXCEPT !.priority = p].vm_id = v
              /\ [vm_task_map_[v] EXCEPT !.priority = p].vruntime = vm_task_map_[v].vruntime
<1>1. v \in DOMAIN vm_task_map_ => vm_task_map_[v] \in Quota!Tasks /\ vm_task_map_[v].vm_id = v
  BY DEF Quota!TypeOK, Quota!IsMap
<1>2. Quota!Task(v, 0, 0) \in Quota!Tasks /\ Quota!FromContext(v) \in Quota!Tasks
  BY DEF Quota!TypeOK, Quota!Task, Quota!FromContext, Quota!Tasks
<1> QED BY <1>1, <1>2 DEF Quota!Tasks

LEMMA QuotaTrees ==
  ASSUME NEW T, NEW tree \in SUBSET T, NEW t \in T
  PROVE  Quota!Insert(tree, t) \subseteq T /\ Quota!Erase(tree, t) \subseteq T
BY DEF Quota!Insert, Quota!Erase

\* The map's part of the types, when v's task is entered or v leaves.
LEMMA QuotaEntered ==
  ASSUME Quota!TypeOK, NEW v \in VMs, v \in vm_refs_', vm_refs_ \subseteq vm_refs_', vm_refs_' \subseteq VMs,
         NEW t \in Quota!Tasks, t.vm_id = v,
         vm_task_map_' = Quota!Put(vm_task_map_, v, t)
  PROVE  /\ Quota!IsMap(vm_task_map_', Quota!Tasks)
         /\ \A w \in DOMAIN vm_task_map_' : vm_task_map_'[w].vm_id = w
         /\ DOMAIN vm_task_map_' \subseteq vm_refs_'
<1> DEFINE put == Quota!Put(vm_task_map_, v, t)
<1>1. Quota!IsMap(vm_task_map_, Quota!Tasks)
  BY DEF Quota!TypeOK
<1>2. /\ Quota!IsMap(put, Quota!Tasks)
      /\ DOMAIN put = DOMAIN vm_task_map_ \cup {v}
      /\ \A w \in DOMAIN vm_task_map_ \cup {v} : put[w] = IF w = v THEN t ELSE vm_task_map_[w]
  BY <1>1 DEF Quota!IsMap, Quota!Put
<1> QED BY <1>2 DEF Quota!TypeOK

LEMMA QuotaLeft ==
  ASSUME Quota!TypeOK, NEW v \in VMs,
         vm_task_map_' = Quota!Drop(vm_task_map_, v)
  PROVE  /\ Quota!IsMap(vm_task_map_', Quota!Tasks)
         /\ \A w \in DOMAIN vm_task_map_' : vm_task_map_'[w].vm_id = w
         /\ DOMAIN vm_task_map_' \subseteq vm_refs_ \ {v}
<1> DEFINE drop == Quota!Drop(vm_task_map_, v)
<1>1. Quota!IsMap(vm_task_map_, Quota!Tasks)
  BY DEF Quota!TypeOK
<1>2. /\ Quota!IsMap(drop, Quota!Tasks)
      /\ DOMAIN drop = DOMAIN vm_task_map_ \ {v}
      /\ \A w \in DOMAIN vm_task_map_ \ {v} : drop[w] = vm_task_map_[w]
  BY <1>1 DEF Quota!IsMap, Quota!Drop
<1> QED BY <1>2 DEF Quota!TypeOK

LEMMA QuotaTyped ==
  ASSUME Quota!TypeOK, Quota!Next
  PROVE  Quota!TypeOK'
<1> USE DEF Quota!vmVars, Quota!thread
<1>1. ASSUME NEW v \in VMs, Quota!RegisterVm(v) PROVE Quota!TypeOK'
  <2>1. Quota!Task(v, 0, 0) \in Quota!Tasks /\ Quota!Task(v, 0, 0).vm_id = v
    BY QuotaTasks DEF Quota!Task
  <2>2. v \in vm_refs_' /\ vm_refs_ \subseteq vm_refs_' /\ vm_refs_' \subseteq VMs
    BY <1>1 DEF Quota!RegisterVm, Quota!TypeOK
  <2>3. ready_queue_' \subseteq Quota!Tasks
    BY <1>1, <2>1, QuotaTrees DEF Quota!RegisterVm, Quota!TypeOK
  <2> QED BY <1>1, <2>1, <2>2, <2>3, QuotaEntered DEF Quota!RegisterVm, Quota!TypeOK
<1>2. ASSUME NEW v \in VMs, Quota!UnregisterVm(v) \/ Quota!BlockVm(v) PROVE Quota!TypeOK'
  <2>1. ready_queue_' \subseteq Quota!Tasks
    BY <1>2 DEF Quota!UnregisterVm, Quota!BlockVm, Quota!TypeOK, Quota!Erase
  <2>2. /\ Quota!IsMap(vm_task_map_', Quota!Tasks)
        /\ \A w \in DOMAIN vm_task_map_' : vm_task_map_'[w].vm_id = w
        /\ DOMAIN vm_task_map_' \subseteq vm_refs_ \ {v}
    BY <1>2, QuotaLeft DEF Quota!UnregisterVm, Quota!BlockVm
  <2> QED BY <1>2, <2>1, <2>2 DEF Quota!UnregisterVm, Quota!BlockVm, Quota!TypeOK
<1>3. ASSUME NEW v \in VMs, NEW t \in Quota!Tasks, t.vm_id = v, v \in vm_refs_,
             vm_task_map_' = Quota!Put(vm_task_map_, v, t),
             ready_queue_' \subseteq Quota!Tasks,
             UNCHANGED <<vm_refs_, Quota!vmVars, Quota!thread>>
      PROVE  Quota!TypeOK'
  BY <1>3, QuotaEntered DEF Quota!TypeOK
<1>4. ASSUME NEW v \in VMs, Quota!ScheduleVm(v) PROVE Quota!TypeOK'
  <2>1. CASE v \in DOMAIN vm_task_map_
    <3> DEFINE t == [vm_task_map_[v] EXCEPT !.priority = 0]
    <3>1. t \in Quota!Tasks /\ t.vm_id = v
      BY <2>1, QuotaTasks
    <3>2. /\ vm_task_map_' = Quota!Put(vm_task_map_, v, t)
          /\ ready_queue_' = Quota!Insert(Quota!Erase(ready_queue_, vm_task_map_[v]), t)
      BY <1>4, <2>1 DEF Quota!ScheduleVm
    <3>3. ready_queue_' \subseteq Quota!Tasks
      BY <3>1, <3>2 DEF Quota!Insert, Quota!Erase, Quota!TypeOK
    <3> QED BY <1>3, <1>4, <3>1, <3>2, <3>3 DEF Quota!ScheduleVm
  <2>2. CASE v \notin DOMAIN vm_task_map_
    <3>1. Quota!FromContext(v) \in Quota!Tasks /\ Quota!FromContext(v).vm_id = v
      BY QuotaTasks DEF Quota!FromContext, Quota!Task
    <3>2. /\ vm_task_map_' = Quota!Put(vm_task_map_, v, Quota!FromContext(v))
          /\ ready_queue_' = Quota!Insert(ready_queue_, Quota!FromContext(v))
      BY <1>4, <2>2 DEF Quota!ScheduleVm
    <3>3. ready_queue_' \subseteq Quota!Tasks
      BY <3>1, <3>2 DEF Quota!Insert, Quota!TypeOK
    <3> QED BY <1>3, <1>4, <3>1, <3>2, <3>3 DEF Quota!ScheduleVm
  <2> QED BY <2>1, <2>2
<1>5. ASSUME NEW v \in VMs, Quota!WakeVm(v) PROVE Quota!TypeOK'
  <2>1. Quota!FromContext(v) \in Quota!Tasks /\ Quota!FromContext(v).vm_id = v
    BY QuotaTasks DEF Quota!FromContext, Quota!Task
  <2>2. ready_queue_' \subseteq Quota!Tasks
    BY <1>5, <2>1 DEF Quota!WakeVm, Quota!Insert, Quota!TypeOK
  <2> QED BY <1>3, <1>5, <2>1, <2>2 DEF Quota!WakeVm
<1>10. ASSUME NEW v \in VMs, NEW p \in Priorities, Quota!SetVmPriority(v, p) PROVE Quota!TypeOK'
  <2> DEFINE t == [vm_task_map_[v] EXCEPT !.priority = p]
  <2>1. t \in Quota!Tasks /\ t.vm_id = v /\ v \in vm_refs_
    BY <1>10, QuotaTasks DEF Quota!SetVmPriority, Quota!TypeOK
  <2>2. ready_queue_' \subseteq Quota!Tasks
    BY <1>10, <2>1 DEF Quota!SetVmPriority, Quota!Insert, Quota!Erase, Quota!TypeOK
  <2> QED BY <1>3, <1>10, <2>1, <2>2 DEF Quota!SetVmPriority
<1>6. ASSUME NEW v \in VMs, Quota!VmExecutes(v) \/ Quota!VmResumes(v) PROVE Quota!TypeOK'
  BY <1>6 DEF Quota!TypeOK, Quota!VmExecutes, Quota!VmResumes, Quota!thread
<1>7. CASE Quota!StartScheduler \/ Quota!StopScheduler \/ Quota!LoopExits
  BY <1>7 DEF Quota!TypeOK, Quota!StartScheduler, Quota!StopScheduler, Quota!LoopExits,
              Quota!vmVars
<1>8. CASE Quota!AllocateQuotas
  BY <1>8 DEF Quota!TypeOK, Quota!AllocateQuotas
<1>9. CASE Quota!UpdateVruntime
  <2>1. \A v \in DOMAIN vm_task_map_ :
          /\ vm_task_map_[v] \in Quota!Tasks
          /\ vm_task_map_'[v] \in Quota!Tasks
          /\ vm_task_map_'[v].vm_id = v
    BY <1>9 DEF Quota!UpdateVruntime, Quota!TypeOK, Quota!Tasks, Quota!IsMap
  <2>2. vruntime' \in [VMs -> Nat]
    BY <1>9, <2>1 DEF Quota!UpdateVruntime, Quota!CopiedTime, Quota!Charged, Quota!TypeOK,
                      Quota!Tasks
  <2> QED BY <1>9, <2>1, <2>2 DEF Quota!UpdateVruntime, Quota!TypeOK, Quota!IsMap
<1> QED BY <1>1, <1>2, <1>4, <1>5, <1>6, <1>7, <1>8, <1>9, <1>10 DEF Quota!Next

-----------------------------------------------------------------------------
(* The fair scheduler *)

CfsTasks == [vruntime : Nat, weight : CFS!Weights]

LEMMA CfsCharges ==
  ASSUME NEW task \in CfsTasks
  PROVE  /\ CFS!ChargedTask(task) \in CfsTasks
         /\ CFS!ChargedTask(task).vruntime <= MaxVruntime
         /\ task.vruntime <= MaxVruntime => CFS!ChargedTask(task).vruntime >= task.vruntime
<1>1. task.vruntime \in Nat /\ task.weight \in {512, 820, 1024, 1280, 2048}
  BY DEF CfsTasks, CFS!Weights
<1>2. CFS!ScaledDelta(task.weight) \in Nat
  BY <1>1 DEF CFS!ScaledDelta, CFS!kDefaultWeight
<1> QED BY <1>1, <1>2, SchedulerAssumption DEF CFS!ChargedTask, CFS!Least, CfsTasks

LEMMA CfsWeights == \A p : CFS!WeightOf(p) \in CFS!Weights
BY DEF CFS!WeightOf, CFS!Weights, CFS!priority_to_weight_, CFS!kDefaultWeight

\* The types, and the bound on virtual time that keeps a charge from lowering it.
CfsInv ==
  /\ CFS!TypeOK
  /\ \A v \in DOMAIN vm_task_map_ : vm_task_map_[v].vruntime <= MaxVruntime

\* v's task is entered; the rest of the state keeps its type.
LEMMA CfsEntered ==
  ASSUME CfsInv, NEW v \in VMs, NEW task \in CfsTasks, task.vruntime <= MaxVruntime,
         vm_task_map_' = CFS!Put(vm_task_map_, v, task)
  PROVE  /\ CFS!IsMap(vm_task_map_', CfsTasks)
         /\ DOMAIN vm_task_map_' = DOMAIN vm_task_map_ \cup {v}
         /\ \A w \in DOMAIN vm_task_map_' : vm_task_map_'[w].vruntime <= MaxVruntime
BY DEF CfsInv, CFS!TypeOK, CFS!IsMap, CFS!Put, CfsTasks

\* What a change of the queue to q leaves: q, or what a race leaves of it.
LEMMA CfsRequeue ==
  ASSUME NEW q, NEW racing \in BOOLEAN, CFS!Requeue(q, racing), raced \in BOOLEAN
  PROVE  /\ raced' \in BOOLEAN
         /\ run_queue_' \subseteq q
         /\ ~raced' => ~raced /\ run_queue_' = q
BY DEF CFS!Requeue

CfsKeys == [vruntime : Nat, vm_id : VMs]

\* A public operation: it changes v's task and the queue, and the loop's
\* iterator only as its node is freed.
LEMMA CfsOperation ==
  ASSUME CfsInv, NEW v \in VMs, NEW q \in SUBSET CfsKeys, CFS!Requeue(q, CFS!InQueue),
         CFS!IsMap(vm_task_map_', CfsTasks),
         \A w \in DOMAIN vm_task_map_' : vm_task_map_'[w].vruntime <= MaxVruntime,
         blocked' \subseteq DOMAIN vm_task_map_',
         DOMAIN vm_task_map_ \subseteq DOMAIN vm_task_map_',
         UNCHANGED CFS!thread
  PROVE  CfsInv'
<1>1. /\ raced \in BOOLEAN /\ CFS!InQueue \in BOOLEAN
  BY DEF CfsInv, CFS!TypeOK, CFS!InQueue
<1>2. run_queue_' \subseteq CfsKeys /\ raced' \in BOOLEAN
  BY <1>1, CfsRequeue
<1> QED BY <1>2 DEF CfsInv, CFS!TypeOK, CfsKeys, CfsTasks, CFS!thread

LEMMA CfsOperationsTyped ==
  ASSUME CfsInv, NEW v \in VMs,
         \/ CFS!RegisterVm(v) \/ CFS!UnregisterVm(v) \/ CFS!ScheduleVm(v)
         \/ CFS!BlockVm(v) \/ CFS!WakeVm(v)
         \/ \E p \in Priorities : CFS!SetVmPriority(v, p)
  PROVE  CfsInv'
<1>0. /\ run_queue_ \subseteq CfsKeys
      /\ blocked \subseteq DOMAIN vm_task_map_
      /\ CFS!IsMap(vm_task_map_, CfsTasks)
      /\ \A w \in DOMAIN vm_task_map_ : vm_task_map_[w].vruntime <= MaxVruntime
      /\ v \in DOMAIN vm_task_map_ => vm_task_map_[v] \in CfsTasks
  BY DEF CfsInv, CFS!TypeOK, CFS!IsMap, CfsTasks, CfsKeys
<1>k. \A task \in CfsTasks : CFS!Key(v, task) \in CfsKeys
  BY DEF CfsTasks, CfsKeys, CFS!Key
<1>1. CASE CFS!RegisterVm(v)
  <2> DEFINE task == [vruntime |-> 0, weight |-> CFS!kDefaultWeight]
  <2>1. task \in CfsTasks /\ task.vruntime <= MaxVruntime
    BY SchedulerAssumption DEF CfsTasks, CFS!Weights, CFS!kDefaultWeight
  <2>2. /\ CFS!IsMap(vm_task_map_', CfsTasks)
        /\ DOMAIN vm_task_map_' = DOMAIN vm_task_map_ \cup {v}
        /\ \A w \in DOMAIN vm_task_map_' : vm_task_map_'[w].vruntime <= MaxVruntime
    BY <1>1, <2>1, CfsEntered DEF CFS!RegisterVm
  <2>3. run_queue_ \cup {CFS!Key(v, task)} \in SUBSET CfsKeys
    BY <1>0, <1>k, <2>1
  <2>4. /\ CFS!Requeue(run_queue_ \cup {CFS!Key(v, task)}, CFS!InQueue)
        /\ blocked' = blocked /\ UNCHANGED CFS!thread
    BY <1>1 DEF CFS!RegisterVm
  <2> HIDE DEF task
  <2> QED BY <1>0, <2>2, <2>3, <2>4, CfsOperation
<1>2. CASE CFS!UnregisterVm(v)
  <2>1. /\ CFS!IsMap(vm_task_map_', CfsTasks) /\ DOMAIN vm_task_map_' = DOMAIN vm_task_map_ \ {v}
        /\ \A w \in DOMAIN vm_task_map_' : vm_task_map_'[w].vruntime <= MaxVruntime
    BY <1>2 DEF CFS!UnregisterVm, CfsInv, CFS!TypeOK, CFS!IsMap, CFS!Drop, CfsTasks
  <2>2. raced \in BOOLEAN /\ CFS!InQueue \in BOOLEAN
    BY DEF CfsInv, CFS!TypeOK, CFS!InQueue
  <2>3. run_queue_' \subseteq CfsKeys /\ raced' \in BOOLEAN
    BY <1>0, <1>2, <2>2, CfsRequeue DEF CFS!UnregisterVm
  <2>4. /\ it' \in [vruntime : Nat, live : BOOLEAN, scaled_delta : Nat, loaded : Nat]
        /\ loop \in CFS!Steps /\ it'.live => it = it' /\ picked # v
    BY <1>2 DEF CFS!UnregisterVm, CFS!Dangling, CfsInv, CFS!TypeOK, CFS!IsMap
  <2> QED BY <1>2, <2>1, <2>3, <2>4
          DEF CFS!UnregisterVm, CfsInv, CFS!TypeOK, CfsTasks, CfsKeys
<1>3. ASSUME NEW task \in CfsTasks, task.vruntime <= MaxVruntime, v \in DOMAIN vm_task_map_,
             CFS!Requeue(CFS!EraseThenInsert(v, task), CFS!InQueue),
             vm_task_map_' = CFS!Put(vm_task_map_, v, task),
             UNCHANGED <<blocked, CFS!thread>>
      PROVE  CfsInv'
  <2>1. /\ CFS!IsMap(vm_task_map_', CfsTasks)
        /\ DOMAIN vm_task_map_' = DOMAIN vm_task_map_
        /\ \A w \in DOMAIN vm_task_map_' : vm_task_map_'[w].vruntime <= MaxVruntime
    BY <1>3, CfsEntered
  <2>2. CFS!EraseThenInsert(v, task) \in SUBSET CfsKeys
    BY <1>0, <1>k, <1>3 DEF CFS!EraseThenInsert
  <2> QED BY <1>0, <1>3, <2>1, <2>2, CfsOperation
<1>4. CASE CFS!ScheduleVm(v)
  BY <1>0, <1>3, <1>4, CfsCharges DEF CFS!ScheduleVm
<1>5. ASSUME NEW p \in Priorities, CFS!SetVmPriority(v, p) PROVE CfsInv'
  <2>1. v \in DOMAIN vm_task_map_ /\ CFS!WeightOf(p) \in CFS!Weights
    BY <1>5, CfsWeights DEF CFS!SetVmPriority
  <2>2. /\ CFS!Reweighted(vm_task_map_[v], p) \in CfsTasks
        /\ CFS!Reweighted(vm_task_map_[v], p).vruntime <= MaxVruntime
    BY <1>0, <2>1 DEF CFS!Reweighted, CfsTasks
  <2> QED BY <1>3, <1>5, <2>1, <2>2 DEF CFS!SetVmPriority
<1>6. CASE CFS!BlockVm(v)
  <2>1. run_queue_ \ {CFS!Key(v, vm_task_map_[v])} \in SUBSET CfsKeys
    BY <1>0
  <2>2. /\ CFS!Requeue(run_queue_ \ {CFS!Key(v, vm_task_map_[v])}, CFS!InQueue)
        /\ blocked' \subseteq DOMAIN vm_task_map_
        /\ vm_task_map_' = vm_task_map_ /\ UNCHANGED CFS!thread
    BY <1>0, <1>6 DEF CFS!BlockVm
  <2> QED BY <1>0, <2>1, <2>2, CfsOperation
<1>7. CASE CFS!WakeVm(v)
  <2>1. run_queue_ \cup {CFS!Key(v, vm_task_map_[v])} \in SUBSET CfsKeys
    BY <1>0, <1>k, <1>7 DEF CFS!WakeVm
  <2>2. /\ CFS!Requeue(run_queue_ \cup {CFS!Key(v, vm_task_map_[v])}, CFS!InQueue)
        /\ blocked' \subseteq DOMAIN vm_task_map_
        /\ vm_task_map_' = vm_task_map_ /\ UNCHANGED CFS!thread
    BY <1>0, <1>7 DEF CFS!WakeVm
  <2> QED BY <1>0, <2>1, <2>2, CfsOperation
<1> QED BY <1>1, <1>2, <1>4, <1>5, <1>6, <1>7

LEMMA CfsTyped ==
  ASSUME CfsInv, CFS!Next
  PROVE  CfsInv'
<1> USE DEF CFS!thread, CFS!others
<1>1. ASSUME NEW v \in VMs,
             \/ CFS!RegisterVm(v) \/ CFS!UnregisterVm(v) \/ CFS!ScheduleVm(v)
             \/ CFS!BlockVm(v) \/ CFS!WakeVm(v)
             \/ \E p \in Priorities : CFS!SetVmPriority(v, p)
      PROVE  CfsInv'
  BY <1>1, CfsOperationsTyped
<1>2. CASE CFS!StartScheduler \/ CFS!StopScheduler \/ CFS!LoopExits
  BY <1>2 DEF CFS!StartScheduler, CFS!StopScheduler, CFS!LoopExits, CfsInv, CFS!TypeOK, CFS!Steps
<1>3. CASE CFS!PickNextTask
  BY <1>3 DEF CFS!PickNextTask, CfsInv, CFS!TypeOK, CFS!Steps
<1>4. CASE CFS!UpdateFind
  <2>1. CASE picked \in DOMAIN vm_task_map_
    <3>1. CFS!ScaledDelta(vm_task_map_[picked].weight) \in Nat
      BY <2>1 DEF CfsInv, CFS!TypeOK, CFS!IsMap, CFS!Weights, CFS!ScaledDelta, CFS!kDefaultWeight
    <3> DEFINE delta == CFS!ScaledDelta(vm_task_map_[picked].weight)
    <3>3. it' = [vruntime |-> 0, live |-> TRUE, scaled_delta |-> delta, loaded |-> 0]
      BY <1>4, <2>1 DEF CFS!UpdateFind, CFS!NoTask
    <3> HIDE DEF delta
    <3>4. delta \in Nat
      BY <3>1 DEF delta
    <3>2. it' \in [vruntime : Nat, live : BOOLEAN, scaled_delta : Nat, loaded : Nat]
      BY <3>3, <3>4
    <3> QED BY <1>4, <2>1, <3>2 DEF CFS!UpdateFind, CfsInv, CFS!TypeOK, CFS!Steps
  <2>2. CASE picked \notin DOMAIN vm_task_map_
    BY <1>4, <2>2 DEF CFS!UpdateFind, CfsInv, CFS!TypeOK, CFS!Steps
  <2> QED BY <2>1, <2>2
<1>5. CASE CFS!UpdateEnters
  BY <1>5 DEF CFS!UpdateEnters, CfsInv, CFS!TypeOK, CFS!Steps
<1>6. loop \in CFS!Steps => CFS!Pointed \in Nat /\ picked \in VMs
  BY DEF CFS!Pointed, CfsInv, CFS!TypeOK, CFS!IsMap
<1>7. CASE CFS!UpdateErase
  <2>1. run_queue_' \subseteq CfsKeys /\ raced' \in BOOLEAN
    BY <1>7, CfsRequeue DEF CFS!UpdateErase, CfsInv, CFS!TypeOK, CfsKeys
  <2> QED BY <1>7, <2>1 DEF CFS!UpdateErase, CfsInv, CFS!TypeOK, CFS!Steps, CfsKeys
<1>8. CASE CFS!UpdateLoad
  BY <1>6, <1>8 DEF CFS!UpdateLoad, CfsInv, CFS!TypeOK, CFS!Steps
<1>9. CASE CFS!UpdateStore
  <2> DEFINE sum == CFS!Least(it.loaded + it.scaled_delta, MaxVruntime)
  <2>1. sum \in Nat /\ sum <= MaxVruntime
    BY SchedulerAssumption DEF CFS!Least, CfsInv, CFS!TypeOK
  <2>2. CASE it.live
    <3>1. /\ picked \in DOMAIN vm_task_map_
          /\ vm_task_map_' = [vm_task_map_ EXCEPT ![picked].vruntime = sum]
          /\ it' = [CFS!NoTask EXCEPT !.live = TRUE]
      BY <1>9, <2>2 DEF CFS!UpdateStore, CfsInv, CFS!TypeOK, CFS!Steps
    <3> HIDE DEF sum
    <3>2. /\ CFS!IsMap(vm_task_map_', CfsTasks)
          /\ DOMAIN vm_task_map_' = DOMAIN vm_task_map_
          /\ \A w \in DOMAIN vm_task_map_' : vm_task_map_'[w].vruntime <= MaxVruntime
      BY <2>1, <3>1 DEF CfsInv, CFS!TypeOK, CFS!IsMap, CfsTasks
    <3>3. it' \in [vruntime : Nat, live : BOOLEAN, scaled_delta : Nat, loaded : Nat]
      BY <3>1 DEF CFS!NoTask
    <3> QED BY <1>9, <3>1, <3>2, <3>3
            DEF CFS!UpdateStore, CfsInv, CFS!TypeOK, CFS!Steps, CfsTasks
  <2>3. CASE ~it.live
    <3>1. it' = [CFS!NoTask EXCEPT !.vruntime = sum] /\ vm_task_map_' = vm_task_map_
      BY <1>9, <2>3 DEF CFS!UpdateStore
    <3> HIDE DEF sum
    <3>2. it' \in [vruntime : Nat, live : BOOLEAN, scaled_delta : Nat, loaded : Nat] /\ ~it'.live
      BY <2>1, <3>1 DEF CFS!NoTask
    <3> QED BY <1>9, <3>1, <3>2 DEF CFS!UpdateStore, CfsInv, CFS!TypeOK, CFS!Steps
  <2> QED BY <2>2, <2>3 DEF CfsInv, CFS!TypeOK
<1>10. CASE CFS!UpdateInsert
  <2>1. CFS!PointedKey \in CfsKeys
    BY <1>6, <1>10 DEF CFS!UpdateInsert, CFS!PointedKey, CFS!Steps, CfsKeys
  <2>2. run_queue_' \subseteq CfsKeys /\ raced' \in BOOLEAN
    <3>1. run_queue_ \cup {CFS!PointedKey} \subseteq CfsKeys /\ raced \in BOOLEAN
      BY <2>1 DEF CfsInv, CFS!TypeOK, CfsKeys
    <3> QED BY <1>10, <3>1, CfsRequeue DEF CFS!UpdateInsert
  <2> QED BY <1>10, <2>2 DEF CFS!UpdateInsert, CFS!NoTask, CfsInv, CFS!TypeOK, CFS!Steps, CfsKeys
<1> QED BY <1>1, <1>2, <1>3, <1>4, <1>5, <1>7, <1>8, <1>9, <1>10 DEF CFS!Next

-----------------------------------------------------------------------------
(* The deadline scheduler *)

EdfTasks == [deadline : Nat, period : Nat, vruntime : {0}, priority : Priorities \cup {0}]

\* The types, and that every entry of the heap is of a registered VM.
EdfInv ==
  /\ EDF!TypeOK
  /\ \A t \in edf_queue_ : t.vm_id \in DOMAIN vm_task_map_

\* A task is entered in the map and, if it is that VM's, in the heap.
LEMMA EdfEntered ==
  ASSUME EdfInv, NEW v \in VMs, NEW task \in EdfTasks,
         vm_task_map_' = EDF!Put(vm_task_map_, v, task),
         \/ edf_queue_' = edf_queue_ \cup {EDF!Task(v, task)}
         \/ edf_queue_' = edf_queue_
  PROVE  /\ EDF!IsMap(vm_task_map_', EdfTasks)
         /\ DOMAIN vm_task_map_' = DOMAIN vm_task_map_ \cup {v}
         /\ edf_queue_' \subseteq [vm_id : VMs, deadline : Nat]
         /\ \A t \in edf_queue_' : t.vm_id \in DOMAIN vm_task_map_'
<1>1. /\ EDF!IsMap(vm_task_map_', EdfTasks)
      /\ DOMAIN vm_task_map_' = DOMAIN vm_task_map_ \cup {v}
  BY DEF EdfInv, EDF!TypeOK, EDF!IsMap, EDF!Put, EdfTasks
<1>2. EDF!Task(v, task) \in [vm_id : VMs, deadline : Nat] /\ EDF!Task(v, task).vm_id = v
  BY DEF EDF!Task, EdfTasks
<1> QED BY <1>1, <1>2 DEF EdfInv, EDF!TypeOK

LEMMA EdfRequeued ==
  ASSUME EdfInv, NEW v \in DOMAIN vm_task_map_
  PROVE  /\ v \in VMs
         /\ vm_task_map_[v] \in EdfTasks
         /\ EDF!Requeued(vm_task_map_[v]) \in EdfTasks
<1>1. v \in VMs /\ vm_task_map_[v] \in EdfTasks /\ now \in Nat
  BY SchedulerAssumption DEF EdfInv, EDF!TypeOK, EDF!IsMap, EdfTasks
<1> QED BY <1>1 DEF EDF!Requeued, EdfTasks

LEMMA EdfTyped ==
  ASSUME EdfInv, EDF!Next
  PROVE  EdfInv'
<1> USE DEF EDF!thread
<1>1. ASSUME NEW v \in VMs, EDF!RegisterVm(v) PROVE EdfInv'
  <2>1. EDF!NewTask(now) \in EdfTasks
    BY SchedulerAssumption DEF EDF!NewTask, EDF!kDefaultPeriod, EdfTasks, EdfInv, EDF!TypeOK
  <2> QED BY <1>1, <2>1, EdfEntered DEF EDF!RegisterVm, EdfInv, EDF!TypeOK, EdfTasks
<1>2. ASSUME NEW v \in VMs, EDF!UnregisterVm(v) PROVE EdfInv'
  <2>1. EDF!IsMap(vm_task_map_', EdfTasks) /\ DOMAIN vm_task_map_' = DOMAIN vm_task_map_ \ {v}
    BY <1>2 DEF EDF!UnregisterVm, EdfInv, EDF!TypeOK, EDF!IsMap, EDF!Drop, EdfTasks
  <2> QED BY <1>2, <2>1 DEF EDF!UnregisterVm, EDF!Without, EdfInv, EDF!TypeOK, EdfTasks
<1>3. ASSUME NEW v \in VMs, v \in DOMAIN vm_task_map_, NEW task \in EdfTasks,
             vm_task_map_' = EDF!Put(vm_task_map_, v, task),
             \/ edf_queue_' = edf_queue_ \cup {EDF!Task(v, task)}
             \/ edf_queue_' = edf_queue_,
             blocked' \subseteq DOMAIN vm_task_map_,
             \/ UNCHANGED EDF!thread
             \/ UNCHANGED running_ /\ loop' = "pick" /\ picked' = 0,
             UNCHANGED now
      PROVE  EdfInv'
  <2>1. DOMAIN vm_task_map_' = DOMAIN vm_task_map_
    BY <1>3, EdfEntered
  <2> QED BY <1>3, <2>1, EdfEntered DEF EdfInv, EDF!TypeOK, EdfTasks
<1>4. ASSUME NEW v \in VMs, EDF!ScheduleVm(v) PROVE EdfInv'
  BY <1>3, <1>4, EdfRequeued DEF EDF!ScheduleVm, EDF!Scheduled, EDF!Enter, EdfInv, EDF!TypeOK
<1>5. ASSUME NEW v \in VMs, EDF!BlockVm(v) PROVE EdfInv'
  BY <1>5 DEF EDF!BlockVm, EdfInv, EDF!TypeOK
<1>6. ASSUME NEW v \in VMs, EDF!WakeVm(v) PROVE EdfInv'
  BY <1>3, <1>6, EdfRequeued DEF EDF!WakeVm, EDF!Enter, EdfInv, EDF!TypeOK
<1>7. ASSUME NEW v \in VMs, NEW d \in EDF!Deadlines, EDF!SetVmDeadline(v, d) PROVE EdfInv'
  <2> DEFINE task == [vm_task_map_[v] EXCEPT !.deadline = now + d, !.period = d]
  <2>2. vm_task_map_[v] \in EdfTasks
    BY <1>7, EdfRequeued DEF EDF!SetVmDeadline
  <2>3. now + d \in Nat /\ d \in Nat
    BY <1>7, SchedulerAssumption DEF EDF!Deadlines, EdfInv, EDF!TypeOK
  <2>1. task \in EdfTasks
    BY <2>2, <2>3 DEF EdfTasks
  <2> QED BY <1>3, <1>7, <2>1 DEF EDF!SetVmDeadline, EdfInv, EDF!TypeOK
<1>8. ASSUME NEW v \in VMs, NEW p \in Priorities, EDF!SetVmPriority(v, p) PROVE EdfInv'
  <2>1. [vm_task_map_[v] EXCEPT !.priority = p] \in EdfTasks
    BY <1>8, EdfRequeued DEF EDF!SetVmPriority, EdfTasks
  <2> QED BY <1>3, <1>8, <2>1 DEF EDF!SetVmPriority, EdfInv, EDF!TypeOK
<1>9. CASE EDF!StartScheduler \/ EDF!StopScheduler \/ EDF!LoopExits
  BY <1>9 DEF EDF!StartScheduler, EDF!StopScheduler, EDF!LoopExits, EdfInv, EDF!TypeOK
<1>10. CASE EDF!PickNextTask
  BY <1>10 DEF EDF!PickNextTask, EdfInv, EDF!TypeOK
<1>11. CASE EDF!LoopSchedules
  <2>1. CASE picked \in DOMAIN vm_task_map_
    BY <1>3, <1>11, <2>1, EdfRequeued
    DEF EDF!LoopSchedules, EDF!Scheduled, EDF!Enter, EdfInv, EDF!TypeOK
  <2>2. CASE picked \notin DOMAIN vm_task_map_
    BY <1>11, <2>2 DEF EDF!LoopSchedules, EDF!Scheduled, EdfInv, EDF!TypeOK
  <2> QED BY <2>1, <2>2
<1>12. CASE EDF!Tick
  BY <1>12, SchedulerAssumption DEF EDF!Tick, EdfInv, EDF!TypeOK
<1> QED BY <1>1, <1>2, <1>4, <1>5, <1>6, <1>7, <1>8, <1>9, <1>10, <1>11, <1>12 DEF EDF!Next

-----------------------------------------------------------------------------
(* The mixed scheduler *)

HybridEdfTasks == [deadline : Nat, period : {1}, vruntime : Nat]

HybridCfsTasks == [vruntime : Nat]

\* The classes the VMs are in are those of their priorities.
InOneClass ==
  /\ DOMAIN edf_task_map_ = {v \in DOMAIN vm_priorities_ : Hybrid!RealTime(vm_priorities_[v])}
  /\ DOMAIN cfs_task_map_ = DOMAIN vm_priorities_ \ DOMAIN edf_task_map_

HybridInv == Hybrid!TypeOK /\ InOneClass

HybridMaps ==
  /\ edf_queue_ \subseteq [vm_id : VMs, deadline : Nat]
  /\ Hybrid!IsMap(edf_task_map_, HybridEdfTasks)
  /\ cfs_queue_ \subseteq [vruntime : Nat, vm_id : VMs]
  /\ Hybrid!IsMap(cfs_task_map_, HybridCfsTasks)

LEMMA HybridIsTyped ==
  Hybrid!TypeOK <=>
    /\ HybridMaps
    /\ Hybrid!IsMap(vm_priorities_, Priorities \cup {0})
    /\ blocked \subseteq DOMAIN vm_priorities_
    /\ running_ \in BOOLEAN
    /\ loop \in {"off", "pick", "schedule"}
    /\ picked \in VMs \cup {0}
    /\ loop = "schedule" => picked \in VMs
    /\ now \in 0 .. MaxTime
BY DEF Hybrid!TypeOK, HybridMaps, HybridEdfTasks, HybridCfsTasks

\* A task entered in the deadline class: the heap and the map stay typed.
LEMMA HybridEdfEntered ==
  ASSUME HybridMaps, NEW v \in VMs, NEW task \in HybridEdfTasks, Hybrid!EnterEdf(v, task)
  PROVE  /\ edf_queue_' \subseteq [vm_id : VMs, deadline : Nat]
         /\ Hybrid!IsMap(edf_task_map_', HybridEdfTasks)
         /\ DOMAIN edf_task_map_' = DOMAIN edf_task_map_ \cup {v}
<1>1. Hybrid!EdfEntry(v, task) \in [vm_id : VMs, deadline : Nat]
  BY DEF Hybrid!EdfEntry, HybridEdfTasks
<1>2. /\ Hybrid!IsMap(edf_task_map_', HybridEdfTasks)
      /\ DOMAIN edf_task_map_' = DOMAIN edf_task_map_ \cup {v}
  BY DEF HybridMaps, Hybrid!IsMap, Hybrid!Put, Hybrid!EnterEdf
<1> QED BY <1>1, <1>2 DEF Hybrid!EnterEdf, HybridMaps

LEMMA HybridCfsEntered ==
  ASSUME HybridMaps, NEW v \in VMs, NEW task \in HybridCfsTasks,
         cfs_task_map_' = Hybrid!Put(cfs_task_map_, v, task)
  PROVE  /\ Hybrid!IsMap(cfs_task_map_', HybridCfsTasks)
         /\ DOMAIN cfs_task_map_' = DOMAIN cfs_task_map_ \cup {v}
         /\ Hybrid!CfsEntry(v, task) \in [vruntime : Nat, vm_id : VMs]
BY DEF HybridMaps, Hybrid!IsMap, Hybrid!Put, Hybrid!CfsEntry, HybridCfsTasks

\* A deadline of one period from now is a deadline.
LEMMA HybridEdfTask ==
  ASSUME HybridInv
  PROVE  /\ \A v \in DOMAIN edf_task_map_ :
              /\ v \in VMs /\ edf_task_map_[v] \in HybridEdfTasks
              /\ [edf_task_map_[v] EXCEPT !.deadline = now + edf_task_map_[v].period]
                   \in HybridEdfTasks
         /\ \A v \in DOMAIN cfs_task_map_ :
              /\ v \in VMs /\ cfs_task_map_[v] \in HybridCfsTasks
              /\ Hybrid!Charged(cfs_task_map_[v]) \in HybridCfsTasks
              /\ Hybrid!Charged(cfs_task_map_[v]).vruntime >= cfs_task_map_[v].vruntime
         /\ \A n \in Nat : Hybrid!EdfTask(n) \in HybridEdfTasks
<1>1. now \in Nat
  BY SchedulerAssumption DEF HybridInv, Hybrid!TypeOK
<1>2. \A v \in DOMAIN edf_task_map_ : v \in VMs /\ edf_task_map_[v] \in HybridEdfTasks
  BY HybridIsTyped DEF HybridInv, HybridMaps, Hybrid!IsMap
<1>3. \A v \in DOMAIN cfs_task_map_ : v \in VMs /\ cfs_task_map_[v] \in HybridCfsTasks
  BY HybridIsTyped DEF HybridInv, HybridMaps, Hybrid!IsMap
<1>4. \A task \in HybridEdfTasks : [task EXCEPT !.deadline = now + task.period] \in HybridEdfTasks
  BY <1>1 DEF HybridEdfTasks
<1>5. \A task \in HybridCfsTasks : /\ Hybrid!Charged(task) \in HybridCfsTasks
                                   /\ Hybrid!Charged(task).vruntime >= task.vruntime
  BY DEF HybridCfsTasks, Hybrid!Charged, Hybrid!ScaledDelta, Hybrid!kDefaultWeight
<1>6. \A n \in Nat : Hybrid!EdfTask(n) \in HybridEdfTasks
  BY <1>1 DEF Hybrid!EdfTask, HybridEdfTasks
<1> QED BY <1>2, <1>3, <1>4, <1>5, <1>6

\* Steps that move no VM from one class to the other.
LEMMA HybridScheduled ==
  ASSUME HybridInv, NEW v \in DOMAIN vm_priorities_, UNCHANGED vm_priorities_,
         Hybrid!Scheduled(v) \/
           IF Hybrid!RealTime(vm_priorities_[v]) THEN Hybrid!WakeEdf(v) ELSE Hybrid!WakeCfs(v)
  PROVE  HybridMaps' /\ InOneClass'
<1>1. v \in VMs /\ HybridMaps
  BY HybridIsTyped DEF HybridInv, Hybrid!IsMap
<1>2. CASE Hybrid!RealTime(vm_priorities_[v])
  <2>1. v \in DOMAIN edf_task_map_
    BY <1>2 DEF HybridInv, InOneClass
  <2>2. PICK task \in HybridEdfTasks :
          Hybrid!EnterEdf(v, task) /\ UNCHANGED <<cfs_queue_, cfs_task_map_>>
    BY <1>2, <2>1, HybridEdfTask DEF Hybrid!Scheduled, Hybrid!ScheduleEdf, Hybrid!WakeEdf
  <2>3. /\ edf_queue_' \subseteq [vm_id : VMs, deadline : Nat]
        /\ Hybrid!IsMap(edf_task_map_', HybridEdfTasks)
        /\ DOMAIN edf_task_map_' = DOMAIN edf_task_map_
    BY <1>1, <2>1, <2>2, HybridEdfEntered
  <2> QED BY <1>1, <2>2, <2>3 DEF HybridMaps, HybridInv, InOneClass
<1>3. CASE ~Hybrid!RealTime(vm_priorities_[v])
  <2>1. v \in DOMAIN cfs_task_map_
    BY <1>3 DEF HybridInv, InOneClass
  <2>2. CASE Hybrid!ScheduleCfs(v)
    <3> DEFINE task == Hybrid!Charged(cfs_task_map_[v])
    <3>1. task \in HybridCfsTasks /\ cfs_task_map_' = Hybrid!Put(cfs_task_map_, v, task)
      BY <2>1, <2>2, HybridEdfTask DEF Hybrid!ScheduleCfs
    <3>2. /\ Hybrid!IsMap(cfs_task_map_', HybridCfsTasks)
          /\ DOMAIN cfs_task_map_' = DOMAIN cfs_task_map_
          /\ Hybrid!CfsEntry(v, task) \in [vruntime : Nat, vm_id : VMs]
      BY <1>1, <2>1, <3>1, HybridCfsEntered
    <3> QED BY <1>1, <2>2, <3>2 DEF Hybrid!ScheduleCfs, HybridMaps, HybridInv, InOneClass
  <2>3. CASE Hybrid!WakeCfs(v)
    <3>1. Hybrid!CfsEntry(v, cfs_task_map_[v]) \in [vruntime : Nat, vm_id : VMs]
      BY <1>1, <2>1, HybridEdfTask DEF Hybrid!CfsEntry, HybridCfsTasks
    <3> QED BY <1>1, <2>3, <3>1 DEF Hybrid!WakeCfs, HybridMaps, HybridInv, InOneClass
  <2> QED BY <1>3, <2>2, <2>3 DEF Hybrid!Scheduled
<1> QED BY <1>2, <1>3

\* A VM that changes its priority is in the class of its new priority afterwards.
LEMMA HybridMoved ==
  ASSUME HybridInv, NEW v \in VMs, NEW p \in Priorities, Hybrid!SetVmPriority(v, p)
  PROVE  HybridMaps' /\ InOneClass'
<1> USE DEF Hybrid!queues
<1>1. HybridMaps /\ v \in DOMAIN vm_priorities_
  BY HybridIsTyped DEF HybridInv, Hybrid!SetVmPriority
<1>2. /\ DOMAIN vm_priorities_' = DOMAIN vm_priorities_
      /\ vm_priorities_'[v] = p
      /\ \A w \in DOMAIN vm_priorities_ \ {v} : vm_priorities_'[w] = vm_priorities_[w]
  BY <1>1 DEF Hybrid!SetVmPriority, Hybrid!Put
<1>3. CASE Hybrid!RealTime(vm_priorities_[v]) /\ ~Hybrid!RealTime(p)
  <2>1. Hybrid!ToCfs(v) /\ v \in DOMAIN edf_task_map_
    BY <1>1, <1>3 DEF Hybrid!SetVmPriority, HybridInv, InOneClass
  <2> DEFINE task == Hybrid!CfsTask(Hybrid!CarriedTime(edf_task_map_[v]))
  <2>2. edf_task_map_[v] \in HybridEdfTasks
    BY <2>1, HybridEdfTask
  <2>3. task \in HybridCfsTasks
    BY <2>2 DEF Hybrid!CfsTask, Hybrid!CarriedTime, HybridEdfTasks, HybridCfsTasks
  <2>4. /\ Hybrid!IsMap(cfs_task_map_', HybridCfsTasks)
        /\ DOMAIN cfs_task_map_' = DOMAIN cfs_task_map_ \cup {v}
        /\ Hybrid!CfsEntry(v, task) \in [vruntime : Nat, vm_id : VMs]
    BY <1>1, <2>1, <2>3, HybridCfsEntered DEF Hybrid!ToCfs
  <2>5. /\ Hybrid!IsMap(edf_task_map_', HybridEdfTasks)
        /\ DOMAIN edf_task_map_' = DOMAIN edf_task_map_ \ {v}
    BY <1>1, <2>1 DEF Hybrid!ToCfs, Hybrid!Drop, HybridMaps, Hybrid!IsMap
  <2>6. HybridMaps'
    BY <1>1, <2>1, <2>4, <2>5 DEF Hybrid!ToCfs, HybridMaps
  <2> QED BY <1>1, <1>2, <1>3, <2>4, <2>5, <2>6 DEF HybridInv, InOneClass
<1>4. CASE ~Hybrid!RealTime(vm_priorities_[v]) /\ Hybrid!RealTime(p)
  <2>1. Hybrid!ToEdf(v) /\ v \in DOMAIN cfs_task_map_
    BY <1>1, <1>4 DEF Hybrid!SetVmPriority, HybridInv, InOneClass
  <2> DEFINE task == Hybrid!EdfTask(Hybrid!CarriedTime(cfs_task_map_[v]))
  <2>2. cfs_task_map_[v].vruntime \in Nat
    BY <2>1, HybridEdfTask DEF HybridCfsTasks
  <2>3. task \in HybridEdfTasks
    BY <2>2, HybridEdfTask DEF Hybrid!CarriedTime
  <2>4. /\ edf_queue_' \subseteq [vm_id : VMs, deadline : Nat]
        /\ Hybrid!IsMap(edf_task_map_', HybridEdfTasks)
        /\ DOMAIN edf_task_map_' = DOMAIN edf_task_map_ \cup {v}
    BY <1>1, <2>1, <2>3, HybridEdfEntered DEF Hybrid!ToEdf
  <2>5. /\ Hybrid!IsMap(cfs_task_map_', HybridCfsTasks)
        /\ DOMAIN cfs_task_map_' = DOMAIN cfs_task_map_ \ {v}
    BY <1>1, <2>1 DEF Hybrid!ToEdf, Hybrid!Drop, HybridMaps, Hybrid!IsMap
  <2>6. HybridMaps'
    BY <1>1, <2>1, <2>4, <2>5 DEF Hybrid!ToEdf, HybridMaps
  <2> QED BY <1>1, <1>2, <1>4, <2>4, <2>5, <2>6 DEF HybridInv, InOneClass
<1>5. CASE Hybrid!RealTime(vm_priorities_[v]) <=> Hybrid!RealTime(p)
  <2>1. UNCHANGED Hybrid!queues
    BY <1>5 DEF Hybrid!SetVmPriority
  <2> QED BY <1>1, <1>2, <1>5, <2>1 DEF HybridInv, InOneClass, HybridMaps
<1> QED BY <1>3, <1>4, <1>5

LEMMA HybridTyped ==
  ASSUME HybridInv, Hybrid!Next
  PROVE  HybridInv'
<1> USE DEF Hybrid!thread, Hybrid!queues
<1>0. HybridMaps /\ InOneClass
  BY HybridIsTyped DEF HybridInv
<1>1. ASSUME NEW v \in VMs, Hybrid!RegisterVm(v) PROVE HybridInv'
  <2>1. Hybrid!CfsTask(0) \in HybridCfsTasks
    BY DEF Hybrid!CfsTask, HybridCfsTasks
  <2>2. /\ Hybrid!IsMap(cfs_task_map_', HybridCfsTasks)
        /\ DOMAIN cfs_task_map_' = DOMAIN cfs_task_map_ \cup {v}
        /\ Hybrid!CfsEntry(v, Hybrid!CfsTask(0)) \in [vruntime : Nat, vm_id : VMs]
    BY <1>0, <1>1, <2>1, HybridCfsEntered DEF Hybrid!RegisterVm
  <2>3. HybridMaps'
    BY <1>0, <1>1, <2>2 DEF Hybrid!RegisterVm, HybridMaps
  <2>4. /\ Hybrid!IsMap(vm_priorities_', Priorities \cup {0})
        /\ DOMAIN vm_priorities_' = DOMAIN vm_priorities_ \cup {v}
        /\ vm_priorities_'[v] = 0
        /\ \A w \in DOMAIN vm_priorities_ : vm_priorities_'[w] = vm_priorities_[w]
    BY <1>1 DEF Hybrid!RegisterVm, Hybrid!Put, HybridInv, Hybrid!TypeOK, Hybrid!IsMap
  <2>5. ~Hybrid!RealTime(0)
    BY DEF Hybrid!RealTime, Hybrid!kRealTimePriority
  <2>6. /\ v \notin DOMAIN vm_priorities_
        /\ edf_task_map_' = edf_task_map_
        /\ DOMAIN edf_task_map_ = {w \in DOMAIN vm_priorities_' : Hybrid!RealTime(vm_priorities_'[w])}
    BY <1>0, <1>1, <2>4, <2>5 DEF Hybrid!RegisterVm, InOneClass
  <2>7. InOneClass'
    BY <1>0, <2>2, <2>4, <2>6 DEF InOneClass
  <2> QED BY <1>1, <2>3, <2>4, <2>7
          DEF Hybrid!RegisterVm, HybridInv, Hybrid!TypeOK, HybridMaps, HybridEdfTasks, HybridCfsTasks
<1>2. ASSUME NEW v \in VMs, Hybrid!UnregisterVm(v) PROVE HybridInv'
  <2>1. /\ Hybrid!IsMap(cfs_task_map_', HybridCfsTasks)
        /\ DOMAIN cfs_task_map_' = DOMAIN cfs_task_map_ \ {v}
        /\ Hybrid!IsMap(edf_task_map_', HybridEdfTasks)
        /\ DOMAIN edf_task_map_' = DOMAIN edf_task_map_ \ {v}
    BY <1>0, <1>2 DEF Hybrid!UnregisterVm, Hybrid!Drop, HybridMaps, Hybrid!IsMap
  <2>2. /\ Hybrid!IsMap(vm_priorities_', Priorities \cup {0})
        /\ DOMAIN vm_priorities_' = DOMAIN vm_priorities_ \ {v}
        /\ \A w \in DOMAIN vm_priorities_ \ {v} : vm_priorities_'[w] = vm_priorities_[w]
    BY <1>2 DEF Hybrid!UnregisterVm, Hybrid!Drop, HybridInv, Hybrid!TypeOK, Hybrid!IsMap
  <2>3. HybridMaps'
    BY <1>0, <1>2, <2>1 DEF Hybrid!UnregisterVm, HybridMaps
  <2>4. InOneClass'
    BY <1>0, <2>1, <2>2 DEF InOneClass
  <2> QED BY <1>2, <2>2, <2>3, <2>4
          DEF Hybrid!UnregisterVm, HybridInv, Hybrid!TypeOK, HybridMaps, HybridEdfTasks, HybridCfsTasks
<1>3. ASSUME HybridMaps', InOneClass',
             Hybrid!IsMap(vm_priorities_', Priorities \cup {0}),
             DOMAIN vm_priorities_' = DOMAIN vm_priorities_,
             blocked' \subseteq DOMAIN vm_priorities_,
             \/ UNCHANGED Hybrid!thread
             \/ UNCHANGED running_ /\ loop' = "pick" /\ picked' = 0,
             now' \in 0 .. MaxTime
      PROVE  HybridInv'
  BY <1>3 DEF HybridInv, Hybrid!TypeOK, HybridMaps, HybridEdfTasks, HybridCfsTasks
<1>4. /\ Hybrid!IsMap(vm_priorities_, Priorities \cup {0})
      /\ blocked \subseteq DOMAIN vm_priorities_
      /\ now \in 0 .. MaxTime
  BY DEF HybridInv, Hybrid!TypeOK
<1>5. ASSUME NEW v \in VMs, Hybrid!ScheduleVm(v) \/ Hybrid!WakeVm(v) PROVE HybridInv'
  BY <1>3, <1>4, <1>5, HybridScheduled DEF Hybrid!ScheduleVm, Hybrid!WakeVm
<1>6. ASSUME NEW v \in VMs, Hybrid!BlockVm(v) PROVE HybridInv'
  BY <1>0, <1>3, <1>4, <1>6 DEF Hybrid!BlockVm, HybridMaps, InOneClass
<1>7. ASSUME NEW v \in VMs, NEW p \in Priorities, Hybrid!SetVmPriority(v, p) PROVE HybridInv'
  <2>1. /\ Hybrid!IsMap(vm_priorities_', Priorities \cup {0})
        /\ DOMAIN vm_priorities_' = DOMAIN vm_priorities_
    BY <1>4, <1>7 DEF Hybrid!SetVmPriority, Hybrid!Put, Hybrid!IsMap
  <2> QED BY <1>3, <1>4, <1>7, <2>1, HybridMoved DEF Hybrid!SetVmPriority
<1>8. CASE Hybrid!StartScheduler \/ Hybrid!StopScheduler \/ Hybrid!LoopExits
  BY <1>8 DEF Hybrid!StartScheduler, Hybrid!StopScheduler, Hybrid!LoopExits, HybridInv,
              InOneClass, Hybrid!TypeOK
<1>9. CASE Hybrid!PickNextTask
  BY <1>9 DEF Hybrid!PickNextTask, Hybrid!PickEdfTask, Hybrid!PickCfsTask, HybridInv,
              InOneClass, Hybrid!TypeOK
<1>10. CASE Hybrid!LoopSchedules
  <2>1. CASE picked \in DOMAIN vm_priorities_
    BY <1>3, <1>4, <1>10, <2>1, HybridScheduled DEF Hybrid!LoopSchedules
  <2>2. CASE picked \notin DOMAIN vm_priorities_
    BY <1>0, <1>3, <1>4, <1>10, <2>2 DEF Hybrid!LoopSchedules, HybridMaps, InOneClass
  <2> QED BY <2>1, <2>2
<1>11. CASE Hybrid!Tick
  <2>1. now' \in 0 .. MaxTime
    BY <1>4, <1>11, SchedulerAssumption DEF Hybrid!Tick
  <2> QED BY <1>0, <1>3, <1>4, <1>11, <2>1 DEF Hybrid!Tick, HybridMaps, InOneClass
<1> QED BY <1>1, <1>2, <1>5, <1>6, <1>7, <1>8, <1>9, <1>10, <1>11 DEF Hybrid!Next

-----------------------------------------------------------------------------
(* Ready VMs stay queued *)

CfsReady ==
  ~raced => \A v \in DOMAIN vm_task_map_ \ blocked : CFS!Queued(v) \/ CFS!Updating(v)

EdfReady == \A v \in DOMAIN vm_task_map_ \ blocked : EDF!Queued(v)

HybridReady ==
  \A v \in DOMAIN vm_priorities_ \ blocked :
    IF Hybrid!RealTime(vm_priorities_[v]) THEN Hybrid!QueuedEdf(v) ELSE Hybrid!QueuedCfs(v)

\* An operation takes out v's entries only, and leaves v queued, blocked or gone.
LEMMA CfsRequeues ==
  ASSUME CfsInv, CfsReady, NEW v \in VMs, NEW q, CFS!Requeue(q, CFS!InQueue),
         UNCHANGED <<loop, picked>>,
         \A w \in DOMAIN vm_task_map_' \ {v} : w \in DOMAIN vm_task_map_,
         blocked \ {v} \subseteq blocked',
         \A t \in run_queue_ : t.vm_id # v => t \in q,
         v \in DOMAIN vm_task_map_' \ blocked' => \E t \in q : t.vm_id = v
  PROVE  CfsReady'
<1>1. raced \in BOOLEAN /\ CFS!InQueue \in BOOLEAN
  BY DEF CfsInv, CFS!TypeOK, CFS!InQueue
<1>2. SUFFICES ASSUME ~raced' PROVE \A w \in DOMAIN vm_task_map_' \ blocked' :
                                     (CFS!Queued(w) \/ CFS!Updating(w))'
  BY DEF CfsReady
<1>3. ~raced /\ run_queue_' = q
  BY <1>1, <1>2, CfsRequeue
<1>4. ASSUME NEW w \in DOMAIN vm_task_map_' \ blocked', w # v PROVE (CFS!Queued(w) \/ CFS!Updating(w))'
  <2>1. w \in DOMAIN vm_task_map_ \ blocked
    BY <1>4
  <2>2. CFS!Queued(w) \/ CFS!Updating(w)
    BY <1>3, <2>1 DEF CfsReady
  <2> QED BY <1>3, <1>4, <2>2 DEF CFS!Queued, CFS!Updating
<1>5. ASSUME v \in DOMAIN vm_task_map_' \ blocked' PROVE CFS!Queued(v)'
  BY <1>3, <1>5 DEF CFS!Queued
<1> QED BY <1>4, <1>5

LEMMA CfsStaysReady ==
  ASSUME CfsInv, CfsReady, CFS!Next
  PROVE  CfsReady'
<1> USE DEF CFS!thread, CFS!others
<1>1. ASSUME NEW v \in VMs, CFS!RegisterVm(v) PROVE CfsReady'
  <2> DEFINE k == CFS!Key(v, [vruntime |-> 0, weight |-> CFS!kDefaultWeight])
             q == run_queue_ \cup {k}
  <2>1. CFS!Requeue(q, CFS!InQueue)
    BY <1>1 DEF CFS!RegisterVm
  <2>3. k.vm_id = v
    BY DEF CFS!Key
  <2> HIDE DEF k
  <2>2. /\ \A t \in run_queue_ : t.vm_id # v => t \in q
        /\ \E t \in q : t.vm_id = v
    BY <2>3
  <2> HIDE DEF q
  <2> QED BY <1>1, <2>1, <2>2, CfsRequeues DEF CFS!RegisterVm, CFS!Put
<1>2. ASSUME NEW v \in VMs, CFS!UnregisterVm(v) \/ CFS!BlockVm(v) PROVE CfsReady'
  <2> DEFINE q == run_queue_ \ {CFS!Key(v, vm_task_map_[v])}
  <2>1. CFS!Requeue(q, CFS!InQueue)
    BY <1>2 DEF CFS!UnregisterVm, CFS!BlockVm
  <2>2. \A t \in run_queue_ : t.vm_id # v => t \in q
    BY DEF CFS!Key
  <2> HIDE DEF q
  <2>3. v \notin DOMAIN vm_task_map_' \ blocked'
    BY <1>2 DEF CFS!UnregisterVm, CFS!BlockVm, CFS!Drop
  <2>4. /\ \A w \in DOMAIN vm_task_map_' \ {v} : w \in DOMAIN vm_task_map_
        /\ blocked \ {v} \subseteq blocked'
        /\ UNCHANGED <<loop, picked>>
    BY <1>2 DEF CFS!UnregisterVm, CFS!BlockVm, CFS!Drop
  <2> QED BY <2>1, <2>2, <2>3, <2>4, CfsRequeues
<1>3. ASSUME NEW v \in VMs, NEW task, CFS!Requeue(CFS!EraseThenInsert(v, task), CFS!InQueue),
             v \in DOMAIN vm_task_map_, vm_task_map_' = CFS!Put(vm_task_map_, v, task),
             UNCHANGED <<blocked, CFS!thread>>
      PROVE  CfsReady'
  <2> DEFINE q == CFS!EraseThenInsert(v, task)
  <2>3. /\ CFS!Key(v, task) \in q /\ CFS!Key(v, task).vm_id = v
        /\ CFS!Key(v, vm_task_map_[v]).vm_id = v
    BY DEF CFS!EraseThenInsert, CFS!Key
  <2>1. /\ \A t \in run_queue_ : t.vm_id # v => t \in q
        /\ \E t \in q : t.vm_id = v
    BY <2>3 DEF CFS!EraseThenInsert
  <2>2. CFS!Requeue(q, CFS!InQueue)
    BY <1>3
  <2> HIDE DEF q
  <2> QED BY <1>3, <2>1, <2>2, CfsRequeues DEF CFS!Put
<1>4. ASSUME NEW v \in VMs, CFS!ScheduleVm(v) PROVE CfsReady'
  BY <1>3, <1>4 DEF CFS!ScheduleVm
<1>5. ASSUME NEW v \in VMs, NEW p \in Priorities, CFS!SetVmPriority(v, p) PROVE CfsReady'
  BY <1>3, <1>5 DEF CFS!SetVmPriority
<1>6. ASSUME NEW v \in VMs, CFS!WakeVm(v) PROVE CfsReady'
  <2> DEFINE k == CFS!Key(v, vm_task_map_[v])
             q == run_queue_ \cup {k}
  <2>1. CFS!Requeue(q, CFS!InQueue)
    BY <1>6 DEF CFS!WakeVm
  <2>3. k.vm_id = v
    BY DEF CFS!Key
  <2> HIDE DEF k
  <2>2. /\ \A t \in run_queue_ : t.vm_id # v => t \in q
        /\ \E t \in q : t.vm_id = v
    BY <2>3
  <2> HIDE DEF q
  <2> QED BY <1>6, <2>1, <2>2, CfsRequeues DEF CFS!WakeVm
<1>7. CASE CFS!StartScheduler \/ CFS!StopScheduler \/ CFS!LoopExits \/ CFS!PickNextTask
           \/ CFS!UpdateFind \/ CFS!UpdateEnters \/ CFS!UpdateLoad
  BY <1>7 DEF CFS!StartScheduler, CFS!StopScheduler, CFS!LoopExits, CFS!PickNextTask,
              CFS!UpdateFind, CFS!UpdateEnters, CFS!UpdateLoad, CFS!Steps,
              CfsReady, CFS!Queued, CFS!Updating
<1>8. CASE CFS!UpdateErase
  <2>1. ~raced' => ~raced /\ run_queue_' = run_queue_ \ {CFS!PointedKey}
    BY <1>8, CfsRequeue DEF CFS!UpdateErase, CfsInv, CFS!TypeOK
  <2> QED BY <1>8, <2>1 DEF CFS!UpdateErase, CFS!PointedKey, CfsReady, CFS!Queued, CFS!Updating,
                            CFS!Steps
<1>9. CASE CFS!UpdateStore
  <2>1. DOMAIN vm_task_map_' = DOMAIN vm_task_map_
    BY <1>9 DEF CFS!UpdateStore, CfsInv, CFS!TypeOK, CFS!IsMap
  <2> QED BY <1>9, <2>1 DEF CFS!UpdateStore, CfsReady, CFS!Queued, CFS!Updating, CFS!Steps
<1>10. CASE CFS!UpdateInsert
  <2>1. ~raced' => ~raced /\ run_queue_' = run_queue_ \cup {CFS!PointedKey}
    BY <1>10, CfsRequeue DEF CFS!UpdateInsert, CfsInv, CFS!TypeOK
  <2>2. ASSUME NEW v \in DOMAIN vm_task_map_ \ blocked, ~raced' PROVE CFS!Queued(v)'
    <3>1. v = picked => CFS!PointedKey.vm_id = v
      BY DEF CFS!PointedKey
    <3>2. CFS!Queued(v) \/ v = picked
      BY <2>1, <2>2 DEF CfsReady, CFS!Updating
    <3>3. run_queue_' = run_queue_ \cup {CFS!PointedKey}
      BY <2>1, <2>2
    <3> QED BY <3>1, <3>2, <3>3 DEF CFS!Queued
  <2> QED BY <1>10, <2>2 DEF CFS!UpdateInsert, CfsReady
<1> QED BY <1>1, <1>2, <1>4, <1>5, <1>6, <1>7, <1>8, <1>9, <1>10 DEF CFS!Next

LEMMA EdfStaysReady ==
  ASSUME EdfInv, EdfReady, EDF!Next
  PROVE  EdfReady'
<1> USE DEF EDF!thread
<1>1. ASSUME NEW v \in VMs, NEW task, EDF!Enter(v, task),
             blocked \ {v} \subseteq blocked'
      PROVE  EdfReady'
  BY <1>1 DEF EDF!Enter, EDF!Put, EDF!Task, EdfReady, EDF!Queued
<1>2. ASSUME NEW v \in VMs, EDF!RegisterVm(v) PROVE EdfReady'
  BY <1>1, <1>2 DEF EDF!RegisterVm, EDF!Enter
<1>3. ASSUME NEW v \in VMs, EDF!UnregisterVm(v) PROVE EdfReady'
  BY <1>3 DEF EDF!UnregisterVm, EDF!Without, EDF!Drop, EdfReady, EDF!Queued
<1>4. ASSUME NEW v \in VMs, EDF!ScheduleVm(v) PROVE EdfReady'
  BY <1>1, <1>4 DEF EDF!ScheduleVm, EDF!Scheduled
<1>5. ASSUME NEW v \in VMs, EDF!WakeVm(v) PROVE EdfReady'
  BY <1>1, <1>5 DEF EDF!WakeVm
<1>6. ASSUME NEW v \in VMs, \/ EDF!BlockVm(v)
                            \/ \E d \in EDF!Deadlines : EDF!SetVmDeadline(v, d)
                            \/ \E p \in Priorities : EDF!SetVmPriority(v, p)
      PROVE EdfReady'
  BY <1>6 DEF EDF!BlockVm, EDF!SetVmDeadline, EDF!SetVmPriority, EDF!Put, EdfReady, EDF!Queued
<1>7. CASE EDF!StartScheduler \/ EDF!StopScheduler \/ EDF!LoopExits \/ EDF!PickNextTask \/ EDF!Tick
  BY <1>7 DEF EDF!StartScheduler, EDF!StopScheduler, EDF!LoopExits, EDF!PickNextTask, EDF!Tick,
              EdfReady, EDF!Queued
<1>8. CASE EDF!LoopSchedules
  <2>1. picked \in VMs
    BY <1>8 DEF EDF!LoopSchedules, EdfInv, EDF!TypeOK
  <2>2. CASE picked \in DOMAIN vm_task_map_
    BY <1>1, <1>8, <2>1, <2>2 DEF EDF!LoopSchedules, EDF!Scheduled
  <2>3. CASE picked \notin DOMAIN vm_task_map_
    BY <1>8, <2>3 DEF EDF!LoopSchedules, EDF!Scheduled, EdfReady, EDF!Queued
  <2> QED BY <2>2, <2>3
<1> QED BY <1>2, <1>3, <1>4, <1>5, <1>6, <1>7, <1>8 DEF EDF!Next

LEMMA HybridEntryQueues ==
  ASSUME NEW v, NEW task
  PROVE  /\ Hybrid!EdfEntry(v, task) \in edf_queue_' => Hybrid!QueuedEdf(v)'
         /\ Hybrid!CfsEntry(v, task) \in cfs_queue_' => Hybrid!QueuedCfs(v)'
BY DEF Hybrid!EdfEntry, Hybrid!CfsEntry, Hybrid!QueuedEdf, Hybrid!QueuedCfs

\* An operation on v keeps the entries of the others, and leaves v queued in its class.
LEMMA HybridRequeues ==
  ASSUME HybridReady, NEW v \in VMs,
         \A w \in DOMAIN vm_priorities_' \ {v} :
           w \in DOMAIN vm_priorities_ /\ vm_priorities_'[w] = vm_priorities_[w],
         blocked \ {v} \subseteq blocked',
         \A t \in edf_queue_ : t.vm_id # v => t \in edf_queue_',
         \A t \in cfs_queue_ : t.vm_id # v => t \in cfs_queue_',
         v \in DOMAIN vm_priorities_' \ blocked' =>
           IF Hybrid!RealTime(vm_priorities_'[v]) THEN Hybrid!QueuedEdf(v)' ELSE Hybrid!QueuedCfs(v)'
  PROVE  HybridReady'
<1>1. ASSUME NEW w \in DOMAIN vm_priorities_' \ blocked', w # v
      PROVE  IF Hybrid!RealTime(vm_priorities_'[w]) THEN Hybrid!QueuedEdf(w)' ELSE Hybrid!QueuedCfs(w)'
  <2>1. w \in DOMAIN vm_priorities_ \ blocked /\ vm_priorities_'[w] = vm_priorities_[w]
    BY <1>1
  <2>2. IF Hybrid!RealTime(vm_priorities_[w]) THEN Hybrid!QueuedEdf(w) ELSE Hybrid!QueuedCfs(w)
    BY <2>1 DEF HybridReady
  <2> QED BY <1>1, <2>1, <2>2 DEF Hybrid!QueuedEdf, Hybrid!QueuedCfs
<1> QED BY <1>1 DEF HybridReady, Hybrid!RealTime, Hybrid!QueuedEdf, Hybrid!QueuedCfs

LEMMA HybridScheduledQueued ==
  ASSUME HybridInv, HybridReady, NEW v \in DOMAIN vm_priorities_, UNCHANGED vm_priorities_,
         \/ Hybrid!Scheduled(v)
         \/ IF Hybrid!RealTime(vm_priorities_[v]) THEN Hybrid!WakeEdf(v) ELSE Hybrid!WakeCfs(v),
         blocked \ {v} \subseteq blocked'
  PROVE  HybridReady'
<1> USE DEF Hybrid!queues
<1>1. v \in VMs
  BY DEF HybridInv, Hybrid!TypeOK, Hybrid!IsMap
<1>2. CASE Hybrid!RealTime(vm_priorities_[v])
  <2>1. PICK task : Hybrid!EnterEdf(v, task) /\ UNCHANGED cfs_queue_
    BY <1>2 DEF Hybrid!Scheduled, Hybrid!ScheduleEdf, Hybrid!WakeEdf
  <2>2. Hybrid!QueuedEdf(v)'
    BY <2>1, HybridEntryQueues DEF Hybrid!EnterEdf
  <2>3. edf_queue_ \subseteq edf_queue_'
    BY <2>1 DEF Hybrid!EnterEdf
  <2> QED BY <1>1, <1>2, <2>1, <2>2, <2>3, HybridRequeues
<1>3. CASE ~Hybrid!RealTime(vm_priorities_[v])
  <2>1. /\ Hybrid!QueuedCfs(v)'
        /\ \A t \in cfs_queue_ : t.vm_id # v => t \in cfs_queue_'
        /\ UNCHANGED edf_queue_
    <3>1. CASE Hybrid!ScheduleCfs(v)
      <4>1. Hybrid!QueuedCfs(v)' /\ UNCHANGED edf_queue_
        BY <3>1, HybridEntryQueues DEF Hybrid!ScheduleCfs
      <4>2. \A t \in cfs_queue_ : t.vm_id # v => t \in cfs_queue_'
        BY <3>1 DEF Hybrid!ScheduleCfs, Hybrid!CfsEntry
      <4> QED BY <4>1, <4>2
    <3>2. CASE Hybrid!WakeCfs(v)
      BY <3>2, HybridEntryQueues DEF Hybrid!WakeCfs
    <3> QED BY <1>3, <3>1, <3>2 DEF Hybrid!Scheduled
  <2> QED BY <1>1, <1>3, <2>1, HybridRequeues
<1> QED BY <1>2, <1>3

LEMMA HybridStaysReady ==
  ASSUME HybridInv, HybridReady, Hybrid!Next
  PROVE  HybridReady'
<1> USE DEF Hybrid!thread, Hybrid!queues
<1>1. ASSUME NEW v \in VMs, Hybrid!RegisterVm(v) PROVE HybridReady'
  <2>1. vm_priorities_'[v] = 0 /\ ~Hybrid!RealTime(vm_priorities_'[v])
    BY <1>1 DEF Hybrid!RegisterVm, Hybrid!Put, Hybrid!RealTime, Hybrid!kRealTimePriority
  <2>2. /\ \A w \in DOMAIN vm_priorities_' \ {v} :
             w \in DOMAIN vm_priorities_ /\ vm_priorities_'[w] = vm_priorities_[w]
        /\ Hybrid!QueuedCfs(v)'
        /\ cfs_queue_ \subseteq cfs_queue_' /\ edf_queue_ = edf_queue_' /\ blocked = blocked'
    BY <1>1, HybridEntryQueues DEF Hybrid!RegisterVm, Hybrid!Put
  <2> QED BY <2>1, <2>2, HybridRequeues
<1>2. ASSUME NEW v \in VMs, Hybrid!UnregisterVm(v) PROVE HybridReady'
  BY <1>2, HybridRequeues DEF Hybrid!UnregisterVm, Hybrid!Drop, Hybrid!CfsEntry
<1>3. ASSUME NEW v \in VMs, Hybrid!ScheduleVm(v) \/ Hybrid!WakeVm(v) PROVE HybridReady'
  BY <1>3, HybridScheduledQueued DEF Hybrid!ScheduleVm, Hybrid!WakeVm
<1>4. ASSUME NEW v \in VMs, Hybrid!BlockVm(v) PROVE HybridReady'
  BY <1>4, HybridRequeues DEF Hybrid!BlockVm, Hybrid!CfsEntry
<1>5. ASSUME NEW v \in VMs, NEW p \in Priorities, Hybrid!SetVmPriority(v, p) PROVE HybridReady'
  <2>1. /\ DOMAIN vm_priorities_' = DOMAIN vm_priorities_
        /\ v \in DOMAIN vm_priorities_
        /\ vm_priorities_'[v] = p
        /\ \A w \in DOMAIN vm_priorities_ \ {v} : vm_priorities_'[w] = vm_priorities_[w]
        /\ blocked' = blocked
    BY <1>5 DEF Hybrid!SetVmPriority, Hybrid!Put
  <2>2. CASE Hybrid!RealTime(vm_priorities_[v]) /\ ~Hybrid!RealTime(p)
    <3>1. Hybrid!ToCfs(v)
      BY <1>5, <2>2 DEF Hybrid!SetVmPriority
    <3>2. Hybrid!QueuedCfs(v)' /\ cfs_queue_ \subseteq cfs_queue_' /\ edf_queue_' = edf_queue_
      BY <3>1, HybridEntryQueues DEF Hybrid!ToCfs
    <3> QED BY <2>1, <2>2, <3>2, HybridRequeues
  <2>3. CASE ~Hybrid!RealTime(vm_priorities_[v]) /\ Hybrid!RealTime(p)
    <3>1. Hybrid!ToEdf(v)
      BY <1>5, <2>3 DEF Hybrid!SetVmPriority
    <3>2. Hybrid!QueuedEdf(v)' /\ edf_queue_ \subseteq edf_queue_'
      BY <3>1, HybridEntryQueues DEF Hybrid!ToEdf, Hybrid!EnterEdf
    <3>3. \A t \in cfs_queue_ : t.vm_id # v => t \in cfs_queue_'
      BY <3>1 DEF Hybrid!ToEdf, Hybrid!CfsEntry
    <3> QED BY <2>1, <2>3, <3>2, <3>3, HybridRequeues
  <2>4. CASE Hybrid!RealTime(vm_priorities_[v]) <=> Hybrid!RealTime(p)
    <3>1. UNCHANGED Hybrid!queues
      BY <1>5, <2>4 DEF Hybrid!SetVmPriority
    <3>2. v \notin blocked => IF Hybrid!RealTime(p) THEN Hybrid!QueuedEdf(v)' ELSE Hybrid!QueuedCfs(v)'
      BY <2>1, <2>4, <3>1 DEF HybridReady, Hybrid!QueuedEdf, Hybrid!QueuedCfs
    <3> QED BY <2>1, <3>1, <3>2, HybridRequeues
  <2> QED BY <2>2, <2>3, <2>4
<1>6. CASE Hybrid!StartScheduler \/ Hybrid!StopScheduler \/ Hybrid!LoopExits \/ Hybrid!PickNextTask \/ Hybrid!Tick
  BY <1>6 DEF Hybrid!StartScheduler, Hybrid!StopScheduler, Hybrid!LoopExits, Hybrid!PickNextTask,
              Hybrid!Tick, HybridReady, Hybrid!QueuedEdf, Hybrid!QueuedCfs
<1>7. CASE Hybrid!LoopSchedules
  <2>1. CASE picked \in DOMAIN vm_priorities_
    BY <1>7, <2>1, HybridScheduledQueued DEF Hybrid!LoopSchedules
  <2>2. CASE picked \notin DOMAIN vm_priorities_
    BY <1>7, <2>2 DEF Hybrid!LoopSchedules, HybridReady, Hybrid!QueuedEdf, Hybrid!QueuedCfs
  <2> QED BY <2>1, <2>2
<1> QED BY <1>1, <1>2, <1>3, <1>4, <1>5, <1>6, <1>7 DEF Hybrid!Next

-----------------------------------------------------------------------------
(* Virtual time never falls *)

\* The copy in sched_ctx_, which wake_vm starts from, is never behind the map.
QuotaInv ==
  /\ Quota!TypeOK
  /\ \A v \in DOMAIN vm_task_map_ : vruntime[v] >= vm_task_map_[v].vruntime

LEMMA QuotaTimes ==
  ASSUME Quota!TypeOK
  PROVE  /\ \A v \in VMs : vruntime[v] \in Nat
         /\ \A v \in DOMAIN vm_task_map_ : v \in VMs /\ vm_task_map_[v].vruntime \in Nat
BY DEF Quota!TypeOK, Quota!IsMap, Quota!Tasks

\* v's new time is t; the other VMs keep theirs.
LEMMA QuotaPuts ==
  ASSUME QuotaInv, NEW v \in VMs, NEW t, t.vruntime \in Nat, vruntime[v] >= t.vruntime,
         vm_task_map_' = Quota!Put(vm_task_map_, v, t), UNCHANGED vruntime,
         v \in DOMAIN vm_task_map_ => t.vruntime >= vm_task_map_[v].vruntime,
         v \notin DOMAIN vm_task_map_ => t.vruntime = vruntime[v]
  PROVE  /\ \A w \in DOMAIN vm_task_map_' : vruntime'[w] >= vm_task_map_'[w].vruntime
         /\ \A w \in VMs : Quota!Charge(w)' >= Quota!Charge(w)
<1>1. \A w \in VMs : vruntime[w] \in Nat /\ (w \in DOMAIN vm_task_map_ => vm_task_map_[w].vruntime \in Nat)
  BY QuotaTimes DEF QuotaInv
<1>2. /\ DOMAIN vm_task_map_' = DOMAIN vm_task_map_ \cup {v}
      /\ vm_task_map_'[v] = t
      /\ \A w \in DOMAIN vm_task_map_ : w # v => vm_task_map_'[w] = vm_task_map_[w]
  BY DEF Quota!Put
<1>3. ASSUME NEW w \in VMs PROVE Quota!Charge(w)' >= Quota!Charge(w)
  <2>1. CASE w = v
    BY <1>1, <1>2, <2>1 DEF Quota!Charge
  <2>2. CASE w # v
    BY <1>1, <1>2, <2>2 DEF Quota!Charge
  <2> QED BY <2>1, <2>2
<1> QED BY <1>1, <1>2, <1>3 DEF QuotaInv

LEMMA QuotaTimed ==
  ASSUME QuotaInv, Quota!Next
  PROVE  /\ QuotaInv'
         /\ \A v \in VMs : Quota!Charge(v)' >= Quota!Charge(v) \/ Quota!RegisterVm(v)
<1> USE DEF Quota!vmVars
<1> DEFINE Held == \A v \in DOMAIN vm_task_map_' : vruntime'[v] >= vm_task_map_'[v].vruntime
           Kept == \A v \in VMs : Quota!Charge(v)' >= Quota!Charge(v)
<1>0. /\ \A w \in VMs : vruntime[w] \in Nat /\ (w \in DOMAIN vm_task_map_ => vm_task_map_[w].vruntime \in Nat)
      /\ \A w \in DOMAIN vm_task_map_ : w \in VMs /\ vruntime[w] >= vm_task_map_[w].vruntime
  BY QuotaTimes DEF QuotaInv
<1>1. ASSUME NEW v \in VMs, Quota!RegisterVm(v)
      PROVE  Held /\ \A w \in VMs : Quota!Charge(w)' >= Quota!Charge(w) \/ Quota!RegisterVm(w)
  <2>1. /\ DOMAIN vm_task_map_' = DOMAIN vm_task_map_ \cup {v}
        /\ vm_task_map_'[v].vruntime = 0
        /\ \A w \in DOMAIN vm_task_map_ : w # v => vm_task_map_'[w] = vm_task_map_[w]
        /\ vruntime' = vruntime
    BY <1>1 DEF Quota!RegisterVm, Quota!Put, Quota!Task
  <2>2. \A w \in VMs : w # v => Quota!Charge(w)' >= Quota!Charge(w)
    BY <1>0, <2>1 DEF Quota!Charge
  <2> QED BY <1>0, <1>1, <2>1, <2>2
<1>2. ASSUME NEW v \in VMs, Quota!UnregisterVm(v) \/ Quota!BlockVm(v) PROVE Held /\ Kept
  <2>1. /\ DOMAIN vm_task_map_' = DOMAIN vm_task_map_ \ {v}
        /\ \A w \in DOMAIN vm_task_map_ : w # v => vm_task_map_'[w] = vm_task_map_[w]
        /\ vruntime' = vruntime
    BY <1>2 DEF Quota!UnregisterVm, Quota!BlockVm, Quota!Drop
  <2>2. Kept
    BY <1>0, <2>1 DEF Quota!Charge
  <2> QED BY <1>0, <2>1, <2>2
<1>3. ASSUME NEW v \in VMs, Quota!ScheduleVm(v) PROVE Held /\ Kept
  <2> DEFINE t == IF v \in DOMAIN vm_task_map_ THEN [vm_task_map_[v] EXCEPT !.priority = 0]
                  ELSE Quota!FromContext(v)
  <2>1. vm_task_map_' = Quota!Put(vm_task_map_, v, t) /\ UNCHANGED vruntime
    BY <1>3 DEF Quota!ScheduleVm
  <2>2. t.vruntime = IF v \in DOMAIN vm_task_map_ THEN vm_task_map_[v].vruntime ELSE vruntime[v]
    BY QuotaTasks DEF QuotaInv, Quota!FromContext, Quota!Task
  <2>3. t.vruntime \in Nat /\ vruntime[v] >= t.vruntime
    BY <1>0, <2>2
  <2> HIDE DEF t
  <2> QED BY <1>0, <2>1, <2>2, <2>3, QuotaPuts
<1>4. ASSUME NEW v \in VMs, Quota!WakeVm(v) PROVE Held /\ Kept
  <2>1. vm_task_map_' = Quota!Put(vm_task_map_, v, Quota!FromContext(v)) /\ UNCHANGED vruntime
    BY <1>4 DEF Quota!WakeVm
  <2>2. Quota!FromContext(v).vruntime = vruntime[v]
    BY DEF Quota!FromContext, Quota!Task
  <2> QED BY <1>0, <2>1, <2>2, QuotaPuts
<1>5. ASSUME NEW v \in VMs, NEW p \in Priorities, Quota!SetVmPriority(v, p) PROVE Held /\ Kept
  <2> DEFINE t == [vm_task_map_[v] EXCEPT !.priority = p]
  <2>1. vm_task_map_' = Quota!Put(vm_task_map_, v, t) /\ UNCHANGED vruntime /\ v \in DOMAIN vm_task_map_
    BY <1>5 DEF Quota!SetVmPriority
  <2>2. t.vruntime = vm_task_map_[v].vruntime
    BY <2>1, QuotaTasks DEF QuotaInv
  <2> HIDE DEF t
  <2> QED BY <1>0, <2>1, <2>2, QuotaPuts
<1>6. ASSUME UNCHANGED <<vm_task_map_, vruntime>> PROVE Held /\ Kept
  BY <1>0, <1>6 DEF Quota!Charge
<1>7. ASSUME Quota!UpdateVruntime PROVE Held /\ Kept
  <2>1. \A w \in DOMAIN vm_task_map_ :
          vm_task_map_'[w].vruntime =
            IF w \in quota THEN vm_task_map_[w].vruntime + 1 ELSE vm_task_map_[w].vruntime
    <3>1. \A w \in DOMAIN vm_task_map_ :
            vm_task_map_'[w] = IF w \in quota THEN [vm_task_map_[w] EXCEPT !.vruntime = @ + 1]
                               ELSE vm_task_map_[w]
      BY <1>7 DEF Quota!UpdateVruntime, Quota!Charged
    <3>2. \A w \in DOMAIN vm_task_map_ : vm_task_map_[w] \in Quota!Tasks
      BY DEF QuotaInv, Quota!TypeOK, Quota!IsMap
    <3> QED BY <3>1, <3>2 DEF Quota!Tasks
  <2>2. /\ DOMAIN vm_task_map_' = DOMAIN vm_task_map_
        /\ \A w \in VMs : vruntime'[w] = IF w \in DOMAIN vm_task_map_ /\ w \in quota
                                         THEN vm_task_map_[w].vruntime + 1 ELSE vruntime[w]
    BY <1>7 DEF Quota!UpdateVruntime, Quota!CopiedTime, Quota!Charged
  <2>3. Held
    BY <1>0, <2>1, <2>2
  <2>4. Kept
    BY <1>0, <2>1, <2>2 DEF Quota!Charge
  <2> QED BY <2>3, <2>4
<1>8. QuotaInv' <=> Quota!TypeOK' /\ Held
  BY DEF QuotaInv
<1>9. Quota!TypeOK'
  BY QuotaTyped DEF QuotaInv
<1>10. ASSUME \/ Quota!StartScheduler \/ Quota!StopScheduler \/ Quota!LoopExits \/ Quota!AllocateQuotas
              \/ \E v \in VMs : Quota!VmExecutes(v) \/ Quota!VmResumes(v)
       PROVE  Held /\ Kept
  <2>1. UNCHANGED <<vm_task_map_, vruntime>>
    BY <1>10 DEF Quota!StartScheduler, Quota!StopScheduler, Quota!LoopExits, Quota!AllocateQuotas,
                 Quota!VmExecutes, Quota!VmResumes
  <2> QED BY <1>6, <2>1
<1> HIDE DEF Held
<1>11. Held /\ \A v \in VMs : Quota!Charge(v)' >= Quota!Charge(v) \/ Quota!RegisterVm(v)
  BY <1>1, <1>2, <1>3, <1>4, <1>5, <1>7, <1>10 DEF Quota!Next
<1> QED BY <1>8, <1>9, <1>11

\* Whichever VM's task is replaced, no other one's time changes; the loop's
\* store lowers a time only if it was raised since the load.
LEMMA CfsTimed ==
  ASSUME CfsInv, CFS!Next, NEW v \in DOMAIN vm_task_map_ \cap DOMAIN vm_task_map_'
  PROVE  CFS!Charge(v)' >= CFS!Charge(v) \/ (CFS!Overtaken(v) /\ CFS!UpdateStore)
<1> USE DEF CFS!thread, CFS!others
<1>0. /\ vm_task_map_[v] \in CfsTasks /\ vm_task_map_[v].vruntime \in Nat
      /\ vm_task_map_[v].vruntime <= MaxVruntime
  BY DEF CfsInv, CFS!TypeOK, CFS!IsMap, CfsTasks
<1>1. ASSUME NEW w, NEW task, vm_task_map_' = CFS!Put(vm_task_map_, w, task),
             w = v => task.vruntime >= vm_task_map_[v].vruntime
      PROVE  CFS!Charge(v)' >= CFS!Charge(v)
  BY <1>0, <1>1 DEF CFS!Put, CFS!Charge
<1>2. CFS!ChargedTask(vm_task_map_[v]).vruntime >= vm_task_map_[v].vruntime
  BY <1>0, CfsCharges
<1>3. ASSUME NEW w \in VMs, CFS!RegisterVm(w) PROVE CFS!Charge(v)' >= CFS!Charge(v)
  BY <1>1, <1>3 DEF CFS!RegisterVm
<1>4. ASSUME NEW w \in VMs, CFS!ScheduleVm(w) PROVE CFS!Charge(v)' >= CFS!Charge(v)
  BY <1>1, <1>2, <1>4 DEF CFS!ScheduleVm
<1>5. ASSUME NEW w \in VMs, NEW p \in Priorities, CFS!SetVmPriority(w, p)
      PROVE  CFS!Charge(v)' >= CFS!Charge(v)
  <2> DEFINE task == CFS!Reweighted(vm_task_map_[w], p)
  <2>1. w = v => task.vruntime = vm_task_map_[v].vruntime
    BY <1>0 DEF CfsTasks, CFS!Reweighted
  <2>2. vm_task_map_' = CFS!Put(vm_task_map_, w, task)
    BY <1>5 DEF CFS!SetVmPriority
  <2>3. w = v => task.vruntime >= vm_task_map_[v].vruntime
    BY <1>0, <2>1
  <2> HIDE DEF task
  <2> QED BY <1>1, <2>2, <2>3
<1>6. ASSUME NEW w \in VMs, CFS!UnregisterVm(w) PROVE CFS!Charge(v)' >= CFS!Charge(v)
  BY <1>0, <1>6 DEF CFS!UnregisterVm, CFS!Drop, CFS!Charge
<1>7. CASE vm_task_map_' = vm_task_map_
  BY <1>0, <1>7 DEF CFS!Charge
<1>8. CASE CFS!UpdateStore
  <2> DEFINE sum == CFS!Least(it.loaded + it.scaled_delta, MaxVruntime)
  <2>1. CASE it.live /\ picked = v
    <3>1. vm_task_map_'[v].vruntime = sum
      BY <1>8, <2>1 DEF CFS!UpdateStore, CfsInv, CFS!TypeOK, CFS!IsMap
    <3>2. it.loaded = vm_task_map_[v].vruntime => sum >= vm_task_map_[v].vruntime
      BY <1>0, SchedulerAssumption DEF CFS!Least, CfsInv, CFS!TypeOK
    <3> QED BY <1>8, <2>1, <3>1, <3>2 DEF CFS!Overtaken, CFS!Charge, CFS!UpdateStore
  <2>2. CASE it.live /\ picked # v
    <3>1. vm_task_map_'[v] = vm_task_map_[v]
      BY <1>8, <2>2 DEF CFS!UpdateStore, CfsInv, CFS!TypeOK, CFS!IsMap
    <3> QED BY <1>0, <3>1 DEF CFS!Charge
  <2>3. CASE ~it.live
    BY <1>7, <1>8, <2>3 DEF CFS!UpdateStore
  <2> QED BY <2>1, <2>2, <2>3
<1> QED BY <1>3, <1>4, <1>5, <1>6, <1>7, <1>8
     DEF CFS!Next, CFS!BlockVm, CFS!WakeVm, CFS!StartScheduler, CFS!StopScheduler, CFS!LoopExits,
         CFS!PickNextTask, CFS!UpdateFind, CFS!UpdateEnters, CFS!UpdateErase, CFS!UpdateLoad,
         CFS!UpdateInsert

\* A VM takes its time along from one class into the other.
LEMMA HybridTimed ==
  ASSUME HybridInv, Hybrid!Next, NEW v \in DOMAIN vm_priorities_ \cap DOMAIN vm_priorities_'
  PROVE  Hybrid!Charge(v)' >= Hybrid!Charge(v)
<1> USE DEF Hybrid!queues
<1> DEFINE Goal == Hybrid!Charge(v)' >= Hybrid!Charge(v)
<1>0. /\ v \in DOMAIN edf_task_map_ => edf_task_map_[v].vruntime \in Nat
      /\ v \notin DOMAIN edf_task_map_ => v \in DOMAIN cfs_task_map_ /\ cfs_task_map_[v].vruntime \in Nat
      /\ v \in DOMAIN edf_task_map_ => v \notin DOMAIN cfs_task_map_
  BY HybridEdfTask DEF HybridInv, InOneClass, HybridEdfTasks, HybridCfsTasks
<1>1. ASSUME UNCHANGED <<edf_task_map_, cfs_task_map_>> PROVE Goal
  BY <1>0, <1>1 DEF Hybrid!Charge
<1>2. ASSUME NEW w, NEW task, Hybrid!EnterEdf(w, task), UNCHANGED cfs_task_map_,
             w \in DOMAIN edf_task_map_, w = v => task.vruntime = edf_task_map_[v].vruntime
      PROVE  Goal
  BY <1>0, <1>2 DEF Hybrid!EnterEdf, Hybrid!Put, Hybrid!Charge
<1>3. ASSUME NEW w \in DOMAIN vm_priorities_,
             \/ Hybrid!Scheduled(w)
             \/ IF Hybrid!RealTime(vm_priorities_[w]) THEN Hybrid!WakeEdf(w) ELSE Hybrid!WakeCfs(w)
      PROVE  Goal
  <2>1. CASE Hybrid!RealTime(vm_priorities_[w])
    <3>1. w \in DOMAIN edf_task_map_ /\ edf_task_map_[w] \in HybridEdfTasks
      BY <1>3, <2>1, HybridEdfTask DEF HybridInv, InOneClass
    <3>2. [edf_task_map_[w] EXCEPT !.deadline = now + edf_task_map_[w].period].vruntime
            = edf_task_map_[w].vruntime
      BY <3>1 DEF HybridEdfTasks
    <3>3. PICK task : /\ Hybrid!EnterEdf(w, task) /\ UNCHANGED cfs_task_map_
                      /\ task.vruntime = edf_task_map_[w].vruntime
      BY <1>3, <2>1, <3>2 DEF Hybrid!Scheduled, Hybrid!ScheduleEdf, Hybrid!WakeEdf
    <3> QED BY <1>2, <3>1, <3>3
  <2>2. CASE ~Hybrid!RealTime(vm_priorities_[w])
    <3>1. CASE Hybrid!ScheduleCfs(w)
      <4>1. w \in DOMAIN cfs_task_map_ /\ UNCHANGED edf_task_map_
        BY <3>1 DEF Hybrid!ScheduleCfs
      <4>2. Hybrid!Charged(cfs_task_map_[w]).vruntime >= cfs_task_map_[w].vruntime
        BY <4>1, HybridEdfTask
      <4>3. cfs_task_map_' = Hybrid!Put(cfs_task_map_, w, Hybrid!Charged(cfs_task_map_[w]))
        BY <3>1 DEF Hybrid!ScheduleCfs
      <4>4. v \notin DOMAIN edf_task_map_ =>
              cfs_task_map_'[v].vruntime >= cfs_task_map_[v].vruntime
        BY <1>0, <4>2, <4>3 DEF Hybrid!Put
      <4> QED BY <1>0, <4>1, <4>4 DEF Hybrid!Charge
    <3>2. CASE Hybrid!WakeCfs(w)
      BY <1>1, <3>2 DEF Hybrid!WakeCfs
    <3> QED BY <1>3, <2>2, <3>1, <3>2 DEF Hybrid!Scheduled
  <2> QED BY <2>1, <2>2
<1>4. ASSUME NEW w \in VMs, Hybrid!RegisterVm(w) PROVE Goal
  <2>1. w # v
    BY <1>4 DEF Hybrid!RegisterVm
  <2> QED BY <1>0, <1>4, <2>1 DEF Hybrid!RegisterVm, Hybrid!Put, Hybrid!Charge
<1>5. ASSUME NEW w \in VMs, Hybrid!UnregisterVm(w) PROVE Goal
  <2>1. w # v
    BY <1>5 DEF Hybrid!UnregisterVm, Hybrid!Drop
  <2> QED BY <1>0, <1>5, <2>1 DEF Hybrid!UnregisterVm, Hybrid!Drop, Hybrid!Charge
<1>6. ASSUME NEW w \in VMs, Hybrid!ToCfs(w), w \in DOMAIN edf_task_map_ PROVE Goal
  <2>1. CASE w = v
    <3>1. v \notin DOMAIN edf_task_map_' /\ cfs_task_map_'[v].vruntime = edf_task_map_[v].vruntime
      BY <1>6, <2>1 DEF Hybrid!ToCfs, Hybrid!Put, Hybrid!Drop, Hybrid!CfsTask, Hybrid!CarriedTime
    <3> QED BY <1>0, <1>6, <2>1, <3>1 DEF Hybrid!Charge
  <2>2. CASE w # v
    BY <1>0, <1>6, <2>2 DEF Hybrid!ToCfs, Hybrid!Put, Hybrid!Drop, Hybrid!Charge
  <2> QED BY <2>1, <2>2
<1>7. ASSUME NEW w \in VMs, Hybrid!ToEdf(w), w \notin DOMAIN edf_task_map_ PROVE Goal
  <2>1. CASE w = v
    <3>1. v \in DOMAIN edf_task_map_' /\ edf_task_map_'[v].vruntime = cfs_task_map_[v].vruntime
      BY <1>7, <2>1 DEF Hybrid!ToEdf, Hybrid!EnterEdf, Hybrid!Put, Hybrid!EdfTask, Hybrid!CarriedTime
    <3> QED BY <1>0, <1>7, <2>1, <3>1 DEF Hybrid!Charge
  <2>2. CASE w # v
    BY <1>0, <1>7, <2>2 DEF Hybrid!ToEdf, Hybrid!EnterEdf, Hybrid!Put, Hybrid!Drop, Hybrid!Charge
  <2> QED BY <2>1, <2>2
<1>8. ASSUME NEW w \in VMs, NEW p \in Priorities, Hybrid!SetVmPriority(w, p) PROVE Goal
  <2>1. w \in DOMAIN vm_priorities_
    BY <1>8 DEF Hybrid!SetVmPriority
  <2>2. w \in DOMAIN edf_task_map_ <=> Hybrid!RealTime(vm_priorities_[w])
    BY <2>1 DEF HybridInv, InOneClass
  <2>3. \/ Hybrid!ToCfs(w) /\ w \in DOMAIN edf_task_map_
        \/ Hybrid!ToEdf(w) /\ w \notin DOMAIN edf_task_map_
        \/ UNCHANGED <<edf_task_map_, cfs_task_map_>>
    BY <1>8, <2>2 DEF Hybrid!SetVmPriority
  <2> QED BY <1>1, <1>6, <1>7, <2>3
<1>9. CASE Hybrid!LoopSchedules
  BY <1>1, <1>3, <1>9 DEF Hybrid!LoopSchedules
<1> QED BY <1>1, <1>3, <1>4, <1>5, <1>8, <1>9
     DEF Hybrid!Next, Hybrid!ScheduleVm, Hybrid!WakeVm, Hybrid!BlockVm, Hybrid!StartScheduler,
         Hybrid!StopScheduler, Hybrid!LoopExits, Hybrid!PickNextTask, Hybrid!Tick

-----------------------------------------------------------------------------
(* The scheduler in use *)

\* The invariant of the scheduler in use, of which every result below is a part.
SchedInv ==
  /\ current_scheduler_ \in Kinds
  /\ current_scheduler_ = "Quota" => QuotaInv
  /\ current_scheduler_ = "CFS" => CfsInv /\ CfsReady
  /\ current_scheduler_ = "EDF" => EdfInv /\ EdfReady
  /\ current_scheduler_ = "Hybrid" => HybridInv /\ HybridReady

LEMMA SchedInit == Init => SchedInv
<1> SUFFICES ASSUME Init PROVE SchedInv
  OBVIOUS
<1> USE SchedulerAssumption DEF Init, QuotaInit, ClassesInit
<1>1. QuotaInv
  BY DEF QuotaInv, Quota!TypeOK, Quota!IsMap
<1>2. CfsInv /\ CfsReady
  <2>1. CFS!NoTask \in [vruntime : Nat, live : BOOLEAN, scaled_delta : Nat, loaded : Nat]
    BY DEF CFS!NoTask
  <2>2. CFS!TypeOK
    BY <2>1 DEF CFS!TypeOK, CFS!IsMap, CFS!Steps
  <2> QED BY <2>2 DEF CfsInv, CfsReady
<1>0. 0 \in 0 .. MaxTime
  OBVIOUS
<1>3. EdfInv /\ EdfReady
  <2>1. EDF!TypeOK
    BY <1>0 DEF EDF!TypeOK, EDF!IsMap
  <2> QED BY <2>1 DEF EdfInv, EdfReady
<1>4. HybridInv /\ HybridReady
  <2>1. Hybrid!TypeOK
    BY <1>0 DEF Hybrid!TypeOK, Hybrid!IsMap
  <2>2. DOMAIN edf_task_map_ = {} /\ DOMAIN cfs_task_map_ = {} /\ DOMAIN vm_priorities_ = {}
    OBVIOUS
  <2> QED BY <2>1, <2>2 DEF HybridInv, HybridReady, InOneClass
<1> QED BY <1>1, <1>2, <1>3, <1>4 DEF SchedInv

LEMMA SchedStep == SchedInv /\ [Next]_vars => SchedInv'
<1> SUFFICES ASSUME SchedInv, [Next]_vars PROVE SchedInv'
  OBVIOUS
<1>1. CASE QuotaNext
  BY <1>1, QuotaTimed DEF QuotaNext, SchedInv
<1>2. CASE CfsNext
  BY <1>2, CfsTyped, CfsStaysReady DEF CfsNext, SchedInv
<1>3. CASE EdfNext
  BY <1>3, EdfTyped, EdfStaysReady DEF EdfNext, SchedInv
<1>4. CASE HybridNext
  BY <1>4, HybridTyped, HybridStaysReady DEF HybridNext, SchedInv
<1>5. CASE UNCHANGED vars
  <2>1. QuotaInv' <=> QuotaInv
    BY <1>5 DEF vars, quotaOnly, QuotaInv, Quota!TypeOK
  <2>2. (CfsInv' <=> CfsInv) /\ (CfsReady' <=> CfsReady)
    BY <1>5 DEF vars, cfsOnly, CfsInv, CFS!TypeOK, CfsReady, CFS!Queued, CFS!Updating
  <2>3. (EdfInv' <=> EdfInv) /\ (EdfReady' <=> EdfReady)
    BY <1>5 DEF vars, EdfInv, EDF!TypeOK, EdfReady, EDF!Queued
  <2>4. (HybridInv' <=> HybridInv) /\ (HybridReady' <=> HybridReady)
    BY <1>5 DEF vars, classes, HybridInv, Hybrid!TypeOK, InOneClass, HybridReady, Hybrid!QueuedEdf,
                Hybrid!QueuedCfs
  <2> QED BY <1>5, <2>1, <2>2, <2>3, <2>4 DEF vars, SchedInv
<1> QED BY <1>1, <1>2, <1>3, <1>4, <1>5 DEF Next

LEMMA SchedAlways == Spec => []SchedInv
BY SchedInit, SchedStep, PTL DEF Spec

(* Whatever operations are called in whatever order, and wherever the loop is   *)
(* when they are, the state of the scheduler in use is well formed: the loop    *)
(* never charges VM 0, and a live iterator is that of a registered VM.          *)
THEOREM SchedulersTypeOK == Spec => []TypeOK
<1>1. SchedInv => TypeOK
  BY DEF SchedInv, TypeOK, QuotaInv, CfsInv, EdfInv, HybridInv
<1> QED BY <1>1, SchedAlways, PTL

(* With any number of VMs, a VM that is registered and not blocked is in the    *)
(* queue the CFS, EDF or Hybrid loop picks from, but while the CFS loop moves   *)
(* its entry: no interleaving of the callers with the steps of the loop loses a *)
(* ready VM.  Under CFS the only exception is the data race itself, two threads *)
(* inside run_queue_ at once, of which nothing is claimed.                      *)
THEOREM ReadyVmsAreQueued == Spec => []ReadyIsQueued
<1>1. SchedInv => ReadyIsQueued
  BY DEF SchedInv, ReadyIsQueued, CfsReady, EdfReady, HybridReady
<1> QED BY <1>1, SchedAlways, PTL

(* unregister_vm leaves no EDF entry behind, and a VM under Hybrid is in the    *)
(* class of its priority and in no other, for any priorities and changes.       *)
THEOREM ClassesAlwaysAgree == Spec => []ClassesAgree
<1>1. SchedInv => ClassesAgree
  BY DEF SchedInv, ClassesAgree, EdfInv, HybridInv, InOneClass
<1> QED BY <1>1, SchedAlways, PTL

LEMMA ChargeStep ==
  ASSUME SchedInv, [Next]_vars, NEW v \in Registered \cap Registered'
  PROVE  \/ Charge(v)' >= Charge(v)
         \/ current_scheduler_ = "Quota" /\ Quota!RegisterVm(v)
         \/ current_scheduler_ = "CFS" /\ CFS!Overtaken(v) /\ CFS!UpdateStore
<1>1. CASE QuotaNext
  <2>1. current_scheduler_ = "Quota" /\ current_scheduler_' = "Quota" /\ v \in VMs /\ Quota!Next /\ QuotaInv
    BY <1>1 DEF QuotaNext, SchedInv, Registered
  <2> QED BY <2>1, QuotaTimed DEF Charge
<1>2. CASE CfsNext
  <2>1. /\ current_scheduler_ = "CFS" /\ current_scheduler_' = "CFS" /\ CFS!Next /\ CfsInv
        /\ v \in DOMAIN vm_task_map_ \cap DOMAIN vm_task_map_'
    BY <1>2 DEF CfsNext, SchedInv, Registered
  <2> QED BY <2>1, CfsTimed DEF Charge
<1>3. CASE EdfNext
  <2>1. /\ current_scheduler_ = "EDF" /\ current_scheduler_' = "EDF" /\ EDF!Next /\ EdfInv
        /\ v \in DOMAIN vm_task_map_ \cap DOMAIN vm_task_map_'
    BY <1>3 DEF EdfNext, SchedInv, Registered
  <2>2. EdfInv'
    BY <2>1, EdfTyped
  <2>3. EDF!Charge(v) = 0 /\ EDF!Charge(v)' = 0
    BY <2>1, <2>2 DEF EdfInv, EDF!TypeOK, EDF!IsMap, EDF!Charge
  <2> QED BY <2>1, <2>3 DEF Charge
<1>4. CASE HybridNext
  <2>1. /\ current_scheduler_ = "Hybrid" /\ current_scheduler_' = "Hybrid" /\ Hybrid!Next /\ HybridInv
        /\ v \in DOMAIN vm_priorities_ \cap DOMAIN vm_priorities_'
    BY <1>4 DEF HybridNext, SchedInv, Registered
  <2> QED BY <2>1, HybridTimed DEF Charge
<1>5. CASE UNCHANGED vars
  <2>1. CASE current_scheduler_ = "Quota"
    <3>1. Quota!Charge(v) \in Nat
      BY <2>1, QuotaTimes DEF SchedInv, QuotaInv, Registered, Quota!Charge
    <3>2. Quota!Charge(v)' = Quota!Charge(v) /\ current_scheduler_' = current_scheduler_
      BY <1>5 DEF vars, quotaOnly, Quota!Charge
    <3> QED BY <2>1, <3>1, <3>2 DEF Charge
  <2>2. CASE current_scheduler_ = "CFS"
    <3>1. CFS!Charge(v) \in Nat
      BY <2>2 DEF SchedInv, CfsInv, CFS!TypeOK, CFS!IsMap, Registered, CFS!Charge
    <3>2. CFS!Charge(v)' = CFS!Charge(v) /\ current_scheduler_' = current_scheduler_
      BY <1>5 DEF vars, CFS!Charge
    <3> QED BY <2>2, <3>1, <3>2 DEF Charge
  <2>3. CASE current_scheduler_ = "EDF"
    <3>1. EDF!Charge(v) \in Nat
      BY <2>3 DEF SchedInv, EdfInv, EDF!TypeOK, EDF!IsMap, Registered, EDF!Charge
    <3>2. EDF!Charge(v)' = EDF!Charge(v) /\ current_scheduler_' = current_scheduler_
      BY <1>5 DEF vars, EDF!Charge
    <3> QED BY <2>3, <3>1, <3>2 DEF Charge
  <2>4. CASE current_scheduler_ = "Hybrid"
    <3>1. Hybrid!Charge(v) \in Nat
      <4>1. HybridInv /\ v \in DOMAIN vm_priorities_
        BY <2>4 DEF SchedInv, Registered
      <4> QED BY <4>1, HybridEdfTask
          DEF HybridInv, InOneClass, Hybrid!Charge, HybridEdfTasks, HybridCfsTasks
    <3>2. Hybrid!Charge(v)' = Hybrid!Charge(v) /\ current_scheduler_' = current_scheduler_
      BY <1>5 DEF vars, classes, Hybrid!Charge
    <3> QED BY <2>4, <3>1, <3>2 DEF Charge
  <2> QED BY <2>1, <2>2, <2>3, <2>4, KindsAssumption DEF SchedInv
<1> QED BY <1>1, <1>2, <1>3, <1>4, <1>5 DEF Next

(* For any weights, priorities and bound on virtual time, no step gives a VM    *)
(* back time it was charged: neither a change of weight under CFS, nor the copy *)
(* that Quota keeps of a blocked VM, nor a change of class under Hybrid.  The   *)
(* lost update of the CFS loop, whose store follows a load that another charge  *)
(* overtook, is the one exception, and it is no worse than that.                *)
THEOREM ChargesNeverFall == Spec => VruntimeNeverFalls
<1>1. SchedInv /\ [Next]_vars =>
        [\A v \in Registered \cap Registered' :
           \/ Charge(v)' >= Charge(v)
           \/ current_scheduler_ = "Quota" /\ Quota!RegisterVm(v)
           \/ current_scheduler_ = "CFS" /\ CFS!Overtaken(v) /\ CFS!UpdateStore]_vars
  BY ChargeStep
<1> QED BY <1>1, SchedAlways, PTL DEF Spec, VruntimeNeverFalls

=============================================================================
