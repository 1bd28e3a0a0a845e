------------------------ MODULE TimeoutManagerProofs ------------------------
(***************************************************************************)
(* Cancelling is final, a one-shot timeout runs at most once and the queue *)
(* and the map agree, for every number of timeouts, every set of delays    *)
(* and every interleaving with the processing thread.                      *)
(***************************************************************************)
EXTENDS TimeoutManager, TLAPS

LEMMA InitTimerInv == Init => TimerInv
<1> SUFFICES ASSUME Init PROVE TimerInv
  OBVIOUS
<1> USE TimeoutAssumption DEF Init
<1>1. TypeOK
  BY DEF TypeOK, Ids
<1>2. QueueMatchesMap
  BY DEF QueueMatchesMap, IdsOf
<1>3. UnusedIds /\ Batch
  BY DEF UnusedIds, Batch
<1>4. RunCount
  BY DEF RunCount, RunsOf, IdsOf
<1> QED BY <1>1, <1>2, <1>3, <1>4 DEF TimerInv

\* Registering adds one entry under a fresh id.
LEMMA RegisterStep ==
  ASSUME TimerInv, NEW d \in Delays, NEW b \in BOOLEAN, Register(d, b)
  PROVE  TimerInv'
<1> DEFINE e == [id |-> next_id, expire_time |-> now + d,
                 period |-> IF b THEN d ELSE 0]
<1>1. /\ next_id \in Ids /\ d \in Nat /\ d > 0
      /\ timeout_queue' = timeout_queue \cup {e}
      /\ timeout_map' = [timeout_map EXCEPT ![next_id] = "armed"]
      /\ next_id' = next_id + 1
      /\ periodic' = IF b THEN periodic \cup {next_id} ELSE periodic
      /\ UNCHANGED <<now, worker, seen, triggered, fired, cancelled_at, cleared>>
  BY TimeoutAssumption DEF TimerInv, TypeOK, Register, Ids
<1>2. /\ e \in Entry /\ e.id = next_id
      /\ IsPeriodic(e) <=> b
  BY <1>1 DEF TimerInv, TypeOK, Entry, IsPeriodic, Ids
<1>3. \A f \in timeout_queue \cup triggered : f.id # next_id /\ f.id < next_id
  BY <1>1 DEF TimerInv, UnusedIds, TypeOK, Ids, Entry
<1>4. next_id \notin periodic
  BY <1>1 DEF TimerInv, UnusedIds, TypeOK, Ids
<1> HIDE DEF e
<1>5. TypeOK'
  BY <1>1, <1>2, TimeoutAssumption DEF TimerInv, TypeOK, Ids
<1>6. QueueMatchesMap'
  BY <1>1, <1>2, <1>3 DEF TimerInv, TypeOK, QueueMatchesMap, IdsOf
<1>7. UnusedIds'
  BY <1>1, <1>2, <1>3, <1>4 DEF TimerInv, TypeOK, UnusedIds, Ids, Entry
<1>8. Batch'
  BY <1>1, <1>2, <1>3, <1>4 DEF TimerInv, TypeOK, Batch, IsPeriodic
<1>9. RunCount'
  <2>1. next_id \notin IdsOf(triggered)
    BY <1>3 DEF IdsOf
  <2>2. fired[next_id] = 0 /\ cancelled_at[next_id] = -1
    BY <1>1 DEF TimerInv, UnusedIds, Ids
  <2>3. \A i \in Ids : RunsOf(i)' = RunsOf(i)
    BY <1>1 DEF RunsOf, IdsOf
  <2>4. RunsOf(next_id) = 0
    BY <2>1, <2>2 DEF RunsOf
  <2>5. \A i \in Ids \ {next_id} :
          timeout_map'[i] = timeout_map[i] /\ (i \in periodic' <=> i \in periodic)
    BY <1>1 DEF TimerInv, TypeOK
  <2> QED BY <1>1, <2>2, <2>3, <2>4, <2>5 DEF TimerInv, RunCount
<1> QED BY <1>5, <1>6, <1>7, <1>8, <1>9 DEF TimerInv

\* Cancelling marks; the callback still to run, if any, is counted.
LEMMA CancelStep ==
  ASSUME TimerInv, NEW id \in Ids, Cancel(id)
  PROVE  TimerInv'
<1>1. TypeOK'
  BY DEF TimerInv, TypeOK, Cancel
<1>2. QueueMatchesMap'
  BY DEF TimerInv, TypeOK, QueueMatchesMap, Cancel, IdsOf
<1>3. UnusedIds'
  <2>1. id < next_id
    BY DEF TimerInv, TypeOK, QueueMatchesMap, UnusedIds, Cancel, IdsOf
  <2> QED BY <2>1 DEF TimerInv, TypeOK, UnusedIds, Cancel, Ids
<1>4. Batch'
  BY DEF TimerInv, TypeOK, Batch, Cancel, Ids, Entry
<1>5. RunCount'
  <2>1. \A i \in Ids : RunsOf(i)' = RunsOf(i) /\ RunsOf(i) \in {fired[i], fired[i] + 1}
                       /\ fired[i] \in Nat
    BY DEF Cancel, RunsOf, IdsOf, TimerInv, TypeOK
  <2>2. \A i \in Ids \ {id} :
          timeout_map'[i] = timeout_map[i] /\ cancelled_at'[i] = cancelled_at[i]
    BY DEF Cancel, TimerInv, TypeOK
  <2>3. /\ timeout_map[id] # "absent" /\ timeout_map'[id] = "cancelled"
        /\ cancelled_at'[id] = (IF cancelled_at[id] = -1 THEN fired[id] ELSE cancelled_at[id])
        /\ periodic' = periodic
    BY DEF Cancel, TimerInv, TypeOK
  <2>4. id \notin periodic => RunsOf(id) = 0
    BY <2>3 DEF TimerInv, RunCount
  <2>5. RunsOf(id) <= cancelled_at'[id] + (IF id \in periodic THEN 1 ELSE 0)
    BY <2>1, <2>3, <2>4 DEF TimerInv, RunCount
  <2> QED BY <2>1, <2>2, <2>3, <2>4, <2>5 DEF TimerInv, RunCount
<1> QED BY <1>1, <1>2, <1>3, <1>4, <1>5 DEF TimerInv

LEMMA ClearAllStep ==
  ASSUME TimerInv, ClearAll
  PROVE  TimerInv'
<1>1. TypeOK'
  BY DEF TimerInv, TypeOK, ClearAll
<1>2. QueueMatchesMap'
  BY DEF QueueMatchesMap, ClearAll, IdsOf
<1>3. UnusedIds' /\ Batch'
  BY DEF TimerInv, TypeOK, UnusedIds, Batch, ClearAll, Entry, IsPeriodic
<1>4. RunCount'
  <2>1. \A i \in Ids : RunsOf(i)' = RunsOf(i)
    BY DEF ClearAll, RunsOf, IdsOf
  <2> QED BY <2>1 DEF ClearAll, TimerInv, RunCount
<1> QED BY <1>1, <1>2, <1>3, <1>4 DEF TimerInv

\* The critical section of process_timeouts moves each due entry to the
\* batch or drops it, and puts the periodic ones back.
LEMMA CollectStep ==
  ASSUME TimerInv, Collect
  PROVE  TimerInv'
<1>1. /\ timeout_queue \subseteq Entry /\ triggered = {} /\ seen \in Nat
      /\ IdsOf(timeout_queue) = {i \in Ids : timeout_map[i] # "absent"}
      /\ \A e, f \in timeout_queue : e.id = f.id => e = f
  BY DEF TimerInv, TypeOK, QueueMatchesMap, Batch, Collect
<1>2. /\ triggered' = Live
      /\ timeout_queue' = (timeout_queue \ Due) \cup Rescheduled
      /\ timeout_map' = [i \in Ids |->
           CASE i \in IdsOf(Rescheduled) -> "armed"
             [] i \in IdsOf(Due) \ IdsOf(Rescheduled) -> "absent"
             [] OTHER -> timeout_map[i]]
      /\ worker' = "callbacks"
      /\ UNCHANGED <<now, next_id, seen, fired, cancelled_at, periodic, cleared>>
  BY DEF Collect, history
<1>3. /\ Due \subseteq timeout_queue /\ Live \subseteq Due
      /\ \A e \in Due : e \in Live <=> timeout_map[e.id] = "armed"
  BY DEF Due, Live
<1>4. /\ \A e \in Rescheduled :
           /\ e \in Entry /\ IsPeriodic(e)
           /\ \E x \in Live : x.id = e.id /\ IsPeriodic(x)
                              /\ e = [x EXCEPT !.expire_time = seen + x.period]
      /\ \A x \in Live : IsPeriodic(x) =>
           \E e \in Rescheduled : e.id = x.id
  <2> DEFINE Put(x) == [x EXCEPT !.expire_time = seen + x.period]
  <2>1. \A x \in Live : Put(x) \in Entry /\ Put(x).id = x.id /\ Put(x).period = x.period
    BY <1>1, <1>3 DEF Entry
  <2>2. Rescheduled = {Put(x) : x \in {y \in Live : IsPeriodic(y)}}
    BY DEF Rescheduled
  <2>3. \A x \in Live : IsPeriodic(Put(x)) <=> IsPeriodic(x)
    BY <2>1 DEF IsPeriodic
  <2>4. \A e \in Rescheduled : \E x \in Live : IsPeriodic(x) /\ e = Put(x)
    BY <2>2
  <2>5. \A x \in Live : IsPeriodic(x) => Put(x) \in Rescheduled
    BY <2>2
  <2>6. \A e \in Rescheduled :
           /\ e \in Entry /\ IsPeriodic(e)
           /\ \E x \in Live : x.id = e.id /\ IsPeriodic(x) /\ e = Put(x)
    <3> HIDE DEF Put
    <3> QED BY <2>1, <2>3, <2>4
  <2>7. \A x \in Live : IsPeriodic(x) => \E e \in Rescheduled : e.id = x.id
    <3> HIDE DEF Put
    <3> QED BY <2>1, <2>5
  <2> QED BY <2>6, <2>7
<1>5. /\ IdsOf(Rescheduled) = {x.id : x \in {y \in Live : IsPeriodic(y)}}
      /\ IdsOf(Rescheduled) \subseteq IdsOf(Live)
      /\ IdsOf(Live) \subseteq IdsOf(Due)
      /\ IdsOf(Due) \subseteq Ids
  BY <1>1, <1>3, <1>4 DEF IdsOf, Entry
<1>6. \A e, f \in Rescheduled : e.id = f.id => e = f
  BY <1>1, <1>3, <1>4
<1>7. \A e \in timeout_queue \ Due : e.id \notin IdsOf(Due)
  BY <1>1, <1>3 DEF IdsOf
<1>8. \A i \in Ids :
        /\ i \in IdsOf(Rescheduled) => timeout_map'[i] = "armed"
        /\ i \in IdsOf(Due) \ IdsOf(Rescheduled) => timeout_map'[i] = "absent"
        /\ i \notin IdsOf(Due) => timeout_map'[i] = timeout_map[i]
  BY <1>2, <1>5
<1>9. \A e \in timeout_queue : IsPeriodic(e) <=> e.id \in periodic
  BY DEF TimerInv, Batch
<1>10. TypeOK'
  <2>1. timeout_queue' \subseteq Entry /\ triggered' \subseteq Entry
    BY <1>1, <1>2, <1>3, <1>4
  <2>2. timeout_map' \in [Ids -> {"absent", "armed", "cancelled"}]
    BY <1>2, <1>8 DEF TimerInv, TypeOK
  <2> QED BY <1>2, <2>1, <2>2 DEF TimerInv, TypeOK
<1>11. QueueMatchesMap'
  <2>1. IdsOf(timeout_queue') = (IdsOf(timeout_queue) \ IdsOf(Due)) \cup IdsOf(Rescheduled)
    BY <1>2, <1>3, <1>7 DEF IdsOf
  <2>2. IdsOf(timeout_queue') = {i \in Ids : timeout_map'[i] # "absent"}
    BY <1>1, <1>5, <1>8, <2>1
  <2>3. \A e, f \in timeout_queue' : e.id = f.id => e = f
    BY <1>1, <1>2, <1>3, <1>5, <1>6, <1>7 DEF IdsOf
  <2> QED BY <2>2, <2>3 DEF QueueMatchesMap
<1>12. UnusedIds'
  BY <1>2, <1>3, <1>4 DEF TimerInv, UnusedIds
<1>13. Batch'
  <2>1. \A e \in timeout_queue' \cup triggered' : IsPeriodic(e) <=> e.id \in periodic
    BY <1>2, <1>3, <1>4, <1>9
  <2>2. \A e \in triggered' : e.id \notin periodic => timeout_map'[e.id] = "absent"
    <3> SUFFICES ASSUME NEW e \in Live, e.id \notin periodic
                 PROVE  timeout_map'[e.id] = "absent"
      BY <1>2
    <3>1. e.id \notin IdsOf(Rescheduled)
      BY <1>3, <1>4, <1>9 DEF IdsOf
    <3>2. e.id \in IdsOf(Due) /\ e.id \in Ids
      BY <1>1, <1>3 DEF IdsOf, Entry
    <3> QED BY <1>8, <3>1, <3>2
  <2> QED BY <1>1, <1>2, <1>3, <2>1, <2>2 DEF Batch, IsPeriodic
<1>14. RunCount'
  <2> SUFFICES ASSUME NEW i \in Ids
               PROVE  /\ cancelled_at[i] # -1 =>
                           /\ timeout_map'[i] # "armed"
                           /\ RunsOf(i)' <= cancelled_at[i] + (IF i \in periodic THEN 1 ELSE 0)
                      /\ i \notin periodic =>
                           /\ RunsOf(i)' <= 1
                           /\ timeout_map'[i] # "absent" => RunsOf(i)' = 0
    BY <1>2 DEF RunCount
  <2>1. /\ RunsOf(i) = fired[i] /\ fired[i] \in Nat
        /\ RunsOf(i)' = fired[i] + (IF i \in IdsOf(Live) THEN 1 ELSE 0)
    BY <1>1, <1>2 DEF RunsOf, IdsOf, TimerInv, TypeOK
  <2>2. i \in IdsOf(Live) => timeout_map[i] = "armed"
    BY DEF Live, IdsOf
  <2>3. /\ cancelled_at[i] # -1 =>
             /\ timeout_map[i] # "armed"
             /\ fired[i] <= cancelled_at[i] + (IF i \in periodic THEN 1 ELSE 0)
        /\ i \notin periodic =>
             fired[i] <= 1 /\ (timeout_map[i] # "absent" => fired[i] = 0)
    BY <2>1 DEF TimerInv, RunCount
  <2>4. i \notin periodic => i \notin IdsOf(Rescheduled)
    BY <1>3, <1>4, <1>9 DEF IdsOf
  <2>5. CASE i \in IdsOf(Live)
    BY <1>5, <1>8, <2>1, <2>2, <2>3, <2>4, <2>5
  <2>6. CASE i \notin IdsOf(Live)
    BY <1>5, <1>8, <2>1, <2>3, <2>6
  <2> QED BY <2>5, <2>6
<1> QED BY <1>10, <1>11, <1>12, <1>13, <1>14 DEF TimerInv

\* Running a callback moves one run from the batch to the past.
LEMMA RunCallbackStep ==
  ASSUME TimerInv, RunCallback
  PROVE  TimerInv'
<1>1. PICK e \in triggered :
        triggered' = triggered \ {e} /\ fired' = [fired EXCEPT ![e.id] = @ + 1]
  BY DEF RunCallback
<1>2. /\ e.id \in Ids /\ worker = "callbacks"
      /\ UNCHANGED <<now, next_id, timeout_queue, timeout_map, worker, seen,
                     cancelled_at, periodic, cleared>>
  BY DEF RunCallback, TimerInv, TypeOK, Entry
<1>3. TypeOK'
  BY <1>1, <1>2 DEF TimerInv, TypeOK
<1>4. QueueMatchesMap'
  BY <1>2 DEF TimerInv, QueueMatchesMap
<1>5. UnusedIds'
  <2>1. e.id < next_id
    BY DEF TimerInv, UnusedIds
  <2> QED BY <1>1, <1>2, <2>1 DEF TimerInv, TypeOK, UnusedIds, Ids
<1>6. Batch'
  BY <1>1, <1>2 DEF TimerInv, Batch, IsPeriodic
<1>7. RunCount'
  <2>1. /\ e.id \in IdsOf(triggered) /\ e.id \notin IdsOf(triggered')
        /\ \A i \in Ids \ {e.id} : i \in IdsOf(triggered') <=> i \in IdsOf(triggered)
    BY <1>1 DEF TimerInv, Batch, IdsOf
  <2>2. \A i \in Ids : RunsOf(i)' = RunsOf(i)
    <3> SUFFICES ASSUME NEW i \in Ids PROVE RunsOf(i)' = RunsOf(i)
      OBVIOUS
    <3>1. fired[i] \in Nat /\ fired \in [Ids -> Nat]
      BY DEF TimerInv, TypeOK
    <3>2. CASE i = e.id
      <4>1. fired'[i] = fired[i] + 1
        BY <1>1, <1>2, <3>1, <3>2
      <4> QED BY <2>1, <3>1, <3>2, <4>1 DEF RunsOf
    <3>3. CASE i # e.id
      <4>1. fired'[i] = fired[i]
        BY <1>1, <1>2, <3>1, <3>3
      <4>2. i \in IdsOf(triggered') <=> i \in IdsOf(triggered)
        BY <2>1, <3>3
      <4> QED BY <4>1, <4>2 DEF RunsOf, IdsOf
    <3> QED BY <3>2, <3>3
  <2> QED BY <1>2, <2>2 DEF TimerInv, RunCount
<1> QED BY <1>3, <1>4, <1>5, <1>6, <1>7 DEF TimerInv

\* The steps that only move the clock or the worker's position.
LEMMA QuietStep ==
  ASSUME TimerInv, Tick \/ ProcessBegin \/ ProcessEnd \/ UNCHANGED vars
  PROVE  TimerInv'
<1>1. /\ UNCHANGED <<next_id, timeout_queue, timeout_map, triggered, history>>
      /\ now' \in Nat /\ seen' \in Nat
      /\ worker' \in {"idle", "collect", "callbacks"}
      /\ worker' # "callbacks" => triggered = {}
  BY DEF TimerInv, TypeOK, Batch, Tick, ProcessBegin, ProcessEnd, vars, history
<1>2. TypeOK' /\ QueueMatchesMap' /\ UnusedIds'
  BY <1>1 DEF TimerInv, TypeOK, QueueMatchesMap, UnusedIds, history
<1>3. Batch'
  BY <1>1 DEF TimerInv, Batch, history, IsPeriodic
<1>4. RunCount'
  BY <1>1 DEF TimerInv, RunCount, RunsOf, IdsOf, history
<1> QED BY <1>2, <1>3, <1>4 DEF TimerInv

LEMMA TimerInvStep == TimerInv /\ [Next]_vars => TimerInv'
BY RegisterStep, CancelStep, ClearAllStep, CollectStep, RunCallbackStep, QuietStep
  DEF Next, ProcessTimeouts

LEMMA TimerInvHolds == Spec => []TimerInv
BY InitTimerInv, TimerInvStep, PTL DEF Spec

\* The timer queue and the map from ids never disagree.
THEOREM QueueAndMapAgree == Spec => []QueueMatchesMap
<1>1. TimerInv => QueueMatchesMap
  BY DEF TimerInv
<1> QED BY <1>1, TimerInvHolds, PTL

\* After cancel_timeout returned true a one-shot callback never runs and a
\* periodic one at most once more.
THEOREM CancelledStaysQuiet == Spec => []CancelIsFinal
<1>1. TimerInv => CancelIsFinal
  <2> SUFFICES ASSUME TimerInv, NEW i \in Ids, cancelled_at[i] # -1
               PROVE  fired[i] <= cancelled_at[i] + (IF i \in periodic THEN 1 ELSE 0)
    BY DEF CancelIsFinal
  <2>1. fired[i] \in Nat /\ cancelled_at[i] \in Nat \cup {-1}
    BY DEF TimerInv, TypeOK
  <2>2. RunsOf(i) <= cancelled_at[i] + (IF i \in periodic THEN 1 ELSE 0)
    BY DEF TimerInv, RunCount
  <2> QED BY <2>1, <2>2 DEF RunsOf
<1> QED BY <1>1, TimerInvHolds, PTL

\* A one-shot callback runs at most once.
THEOREM OneShotRunsOnce == Spec => []OneShotFiresOnce
<1>1. TimerInv => OneShotFiresOnce
  BY DEF TimerInv, TypeOK, RunCount, RunsOf, OneShotFiresOnce
<1> QED BY <1>1, TimerInvHolds, PTL

\* Every entry process_timeouts handles has an id that was handed out, a
\* proper expiry and a proper period.
THEOREM TypeCorrect == Spec => []TypeOK
<1>1. TimerInv => TypeOK
  BY DEF TimerInv
<1> QED BY <1>1, TimerInvHolds, PTL
=============================================================================
