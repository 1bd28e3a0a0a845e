--------------------------- MODULE TimeoutManager ---------------------------
(***************************************************************************)
(* The timer service (include/utils/TimeoutManager.h, src/utils/           *)
(* TimeoutManager.cpp).  A timeout sits in a priority queue ordered by     *)
(* expiry and in a map from its id; cancelling only marks the map entry,   *)
(* and process_timeouts drops marked entries when they come up.  It        *)
(* collects the expired entries under mtx_ and runs their callbacks after  *)
(* unlocking, so a cancellation may arrive in between.                     *)
(*                                                                         *)
(* One thread calls process_timeouts (VmManager's worker); any thread      *)
(* registers, cancels and clears.  Each critical section is one step.  The *)
(* statistics counters are left out.                                       *)
(***************************************************************************)
EXTENDS Integers, FiniteSets

CONSTANTS
  MaxIds,    \* bound: how many timeouts are ever registered
  Delays,    \* timeout_ms and period_ms values callers use
  MaxTime    \* bound: how far the clock runs

ASSUME TimeoutAssumption ==
  /\ MaxIds \in Nat
  /\ Delays \subseteq Int
  /\ MaxTime \in Nat

VARIABLES
  now,              \* steady_clock
  next_id,          \* the id the next registration takes
  timeout_queue,    \* entries waiting to expire
  timeout_map,      \* what timeout_map_ holds per id: is_cancelled, or nothing
  worker,           \* the processing thread: "idle", "collect" or "callbacks"
  seen,             \* the clock value process_timeouts read on entry
  triggered,        \* collected entries whose callback has not run yet
  fired,            \* history: how often each id's callback ran
  cancelled_at,     \* history: fired[id] when cancel_timeout(id) first
                    \* returned true, -1 before that
  periodic,         \* history: the ids registered as periodic
  cleared           \* history: the ids clear_all removed

vars == <<now, next_id, timeout_queue, timeout_map, worker, seen, triggered,
          fired, cancelled_at, periodic, cleared>>

history == <<fired, cancelled_at, periodic, cleared>>

Ids == 1 .. MaxIds

Entry == [id : Ids, expire_time : Nat, period : Nat]   \* period 0: one-shot

IdsOf(entries) == {e.id : e \in entries}

IsPeriodic(e) == e.period > 0

TypeOK ==
  /\ now \in Nat
  /\ next_id \in 1 .. MaxIds + 1
  /\ timeout_queue \subseteq Entry
  /\ timeout_map \in [Ids -> {"absent", "armed", "cancelled"}]
  /\ worker \in {"idle", "collect", "callbacks"}
  /\ seen \in Nat
  /\ triggered \subseteq Entry
  /\ fired \in [Ids -> Nat]
  /\ cancelled_at \in [Ids -> Nat \cup {-1}]
  /\ periodic \subseteq Ids /\ cleared \subseteq Ids

Init ==
  /\ now = 0
  /\ next_id = 1
  /\ timeout_queue = {}
  /\ timeout_map = [i \in Ids |-> "absent"]
  /\ worker = "idle"
  /\ seen = 0
  /\ triggered = {}
  /\ fired = [i \in Ids |-> 0]
  /\ cancelled_at = [i \in Ids |-> -1]
  /\ periodic = {} /\ cleared = {}

-----------------------------------------------------------------------------
(* register_timeout and register_periodic_timeout (is_periodic).  A         *)
(* delay that is not positive is refused with id 0 and changes nothing.     *)

\* a bug to notice: the delay is not checked
RegisterUnchecked(delay, is_periodic) ==
  /\ next_id <= MaxIds
  /\ now + delay <= MaxTime
  /\ timeout_queue' = timeout_queue \cup
       {[id |-> next_id, expire_time |-> now + delay,
         period |-> IF is_periodic THEN delay ELSE 0]}
  /\ timeout_map' = [timeout_map EXCEPT ![next_id] = "armed"]
  /\ next_id' = next_id + 1
  /\ periodic' = IF is_periodic THEN periodic \cup {next_id} ELSE periodic
  /\ UNCHANGED <<now, worker, seen, triggered, fired, cancelled_at, cleared>>

Register(delay, is_periodic) ==
  /\ next_id <= MaxIds
  /\ delay > 0
  /\ now + delay <= MaxTime
  /\ timeout_queue' = timeout_queue \cup
       {[id |-> next_id, expire_time |-> now + delay,
         period |-> IF is_periodic THEN delay ELSE 0]}
  /\ timeout_map' = [timeout_map EXCEPT ![next_id] = "armed"]
  /\ next_id' = next_id + 1
  /\ periodic' = IF is_periodic THEN periodic \cup {next_id} ELSE periodic
  /\ UNCHANGED <<now, worker, seen, triggered, fired, cancelled_at, cleared>>

\* a bug to notice: the entry is erased instead of marked
CancelErases(id) ==
  /\ timeout_map[id] # "absent"
  /\ timeout_map' = [timeout_map EXCEPT ![id] = "absent"]
  /\ cancelled_at' =
       [cancelled_at EXCEPT ![id] = IF @ = -1 THEN fired[id] ELSE @]
  /\ UNCHANGED <<now, next_id, timeout_queue, worker, seen, triggered, fired,
                 periodic, cleared>>

\* cancel_timeout returning true.  An id the map does not hold is refused
\* and nothing changes; an id cancelled twice is accepted twice.
Cancel(id) ==
  /\ timeout_map[id] # "absent"
  /\ timeout_map' = [timeout_map EXCEPT ![id] = "cancelled"]
  /\ cancelled_at' =
       [cancelled_at EXCEPT ![id] = IF @ = -1 THEN fired[id] ELSE @]
  /\ UNCHANGED <<now, next_id, timeout_queue, worker, seen, triggered, fired,
                 periodic, cleared>>

\* clear_all
ClearAll ==
  /\ timeout_queue' = {}
  /\ timeout_map' = [i \in Ids |-> "absent"]
  /\ cleared' = cleared \cup {i \in Ids : timeout_map[i] # "absent"}
  /\ UNCHANGED <<now, next_id, worker, seen, triggered, fired, cancelled_at, periodic>>

-----------------------------------------------------------------------------
(* process_timeouts *)

\* now is read before mtx_ is taken
ProcessBegin ==
  /\ worker = "idle"
  /\ worker' = "collect"
  /\ seen' = now
  /\ UNCHANGED <<now, next_id, timeout_queue, timeout_map, triggered, history>>

Due == {e \in timeout_queue : e.expire_time <= seen}

\* the expired entries the map neither lost nor marked
Live == {e \in Due : timeout_map[e.id] = "armed"}

\* a bug to notice: one-shot entries are put back too
RescheduledAll == {[e EXCEPT !.expire_time = seen + e.period] : e \in Live}

Rescheduled ==
  {[e EXCEPT !.expire_time = seen + e.period] : e \in {x \in Live : IsPeriodic(x)}}

\* a bug to notice: a cancelled entry is collected like the others
CollectIgnoringCancel ==
  /\ worker = "collect"
  /\ triggered' = Due
  /\ timeout_queue' = (timeout_queue \ Due) \cup Rescheduled
  /\ timeout_map' = [i \in Ids |->
       CASE i \in IdsOf(Rescheduled) -> "armed"
         [] i \in IdsOf(Due) \ IdsOf(Rescheduled) -> "absent"
         [] OTHER -> timeout_map[i]]
  /\ worker' = "callbacks"
  /\ UNCHANGED <<now, next_id, seen, history>>

\* the critical section: pop what is due, put the periodic ones back
Collect ==
  /\ worker = "collect"
  /\ triggered' = Live
  /\ timeout_queue' = (timeout_queue \ Due) \cup Rescheduled
  /\ timeout_map' = [i \in Ids |->
       CASE i \in IdsOf(Rescheduled) -> "armed"
         [] i \in IdsOf(Due) \ IdsOf(Rescheduled) -> "absent"
         [] OTHER -> timeout_map[i]]
  /\ worker' = "callbacks"
  /\ UNCHANGED <<now, next_id, seen, history>>

\* a bug to notice: an exception in a callback ends the batch
RunCallbackUnguarded ==
  /\ worker = "callbacks"
  /\ \E e \in triggered :
       /\ \A f \in triggered : e.expire_time <= f.expire_time
       /\ triggered' \in {triggered \ {e}, {}}
       /\ fired' = [fired EXCEPT ![e.id] = @ + 1]
  /\ UNCHANGED <<now, next_id, timeout_queue, timeout_map, worker, seen,
                 cancelled_at, periodic, cleared>>

\* run one callback, earliest expiry first, without the lock.  A callback
\* that throws is caught and only misses the statistics.
RunCallback ==
  /\ worker = "callbacks"
  /\ \E e \in triggered :
       /\ \A f \in triggered : e.expire_time <= f.expire_time
       /\ triggered' = triggered \ {e}
       /\ fired' = [fired EXCEPT ![e.id] = @ + 1]
  /\ UNCHANGED <<now, next_id, timeout_queue, timeout_map, worker, seen,
                 cancelled_at, periodic, cleared>>

ProcessEnd ==
  /\ worker = "callbacks"
  /\ triggered = {}
  /\ worker' = "idle"
  /\ UNCHANGED <<now, next_id, timeout_queue, timeout_map, seen, triggered, history>>

ProcessTimeouts == ProcessBegin \/ Collect \/ RunCallback \/ ProcessEnd

Tick ==
  /\ now < MaxTime
  /\ now' = now + 1
  /\ UNCHANGED <<next_id, timeout_queue, timeout_map, worker, seen, triggered,
                 history>>

Next ==
  \/ \E d \in Delays : Register(d, FALSE) \/ Register(d, TRUE)
  \/ \E id \in Ids : Cancel(id)
  \/ ClearAll
  \/ ProcessTimeouts
  \/ Tick

\* The worker loop calls process_timeouts again and again, and time passes.
Fairness == WF_vars(ProcessTimeouts) /\ WF_vars(Tick)

Spec == Init /\ [][Next]_vars /\ Fairness

-----------------------------------------------------------------------------
(* Properties *)

\* The queue and the map describe the same timeouts: every entry in the
\* queue has a map entry and the other way round, one entry per id.  An
\* entry missing from one of them could never fire or never be freed.
QueueMatchesMap ==
  /\ IdsOf(timeout_queue) = {i \in Ids : timeout_map[i] # "absent"}
  /\ \A e, f \in timeout_queue : e.id = f.id => e = f

\* "true = cancelled": once cancel_timeout accepted a one-shot timeout its
\* callback never runs, however close the expiry was.  A periodic one may
\* run once more, when its callback was already collected.
CancelIsFinal ==
  \A i \in Ids : cancelled_at[i] # -1 =>
    fired[i] <= cancelled_at[i] + (IF i \in periodic THEN 1 ELSE 0)

\* A registered timeout that comes due runs its callback, unless it is
\* cancelled or cleared: no path through the queue, the map and the batch
\* of collected entries loses it.
ArmedFires ==
  \A i \in Ids : (i < next_id)
    ~> (fired[i] > 0 \/ cancelled_at[i] # -1 \/ i \in cleared)

\* A one-shot timeout never runs twice.
OneShotFiresOnce == \A i \in Ids \ periodic : fired[i] <= 1

-----------------------------------------------------------------------------
(* What makes the properties above inductive *)

\* Ids not handed out yet have left no trace.
UnusedIds ==
  /\ \A e \in timeout_queue \cup triggered : e.id < next_id
  /\ \A i \in periodic : i < next_id
  /\ \A i \in Ids : i >= next_id => fired[i] = 0 /\ cancelled_at[i] = -1

\* A collected one-shot entry has left the map; a collected periodic entry
\* is back in it.
Batch ==
  /\ \A e \in timeout_queue \cup triggered : IsPeriodic(e) <=> e.id \in periodic
  /\ \A e, f \in triggered : e.id = f.id => e = f
  /\ \A e \in triggered : e.id \notin periodic => timeout_map[e.id] = "absent"
  /\ worker # "callbacks" => triggered = {}

\* Counting the callback that is still to run.
RunsOf(i) == fired[i] + (IF i \in IdsOf(triggered) THEN 1 ELSE 0)

RunCount ==
  \A i \in Ids :
    /\ cancelled_at[i] # -1 =>
         /\ timeout_map[i] # "armed"
         /\ RunsOf(i) <= cancelled_at[i] + (IF i \in periodic THEN 1 ELSE 0)
    /\ i \notin periodic =>
         /\ RunsOf(i) <= 1
         /\ timeout_map[i] # "absent" => RunsOf(i) = 0

TimerInv == TypeOK /\ QueueMatchesMap /\ UnusedIds /\ Batch /\ RunCount
=============================================================================
