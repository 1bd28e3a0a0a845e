------------------------- MODULE VmLifecycleProofs -------------------------
(***************************************************************************)
(* Proofs about the thread pool, for any number of workers, submitters and *)
(* tasks: the tasks are handed over in order, the counter of running tasks *)
(* is exact, and shutdown returns only when every accepted task has run.   *)
(* Then about the table of VMs: every step of creating and destroying VMs  *)
(* is a step of the pool or leaves the pool alone, so the pool's           *)
(* invariants carry over; and the table is exact for any number of VMs,    *)
(* callers, workers and destructions.                                      *)
(***************************************************************************)
EXTENDS VmLifecycle, SequenceTheorems, FiniteSetTheorems, TLAPS

LEMMA ElementsAppend ==
  ASSUME NEW S, NEW q \in Seq(S), NEW x \in S
  PROVE  Elements(Append(q, x)) = Elements(q) \cup {x}
<1>1. DOMAIN Append(q, x) = DOMAIN q \cup {Len(q) + 1}
  OBVIOUS
<1>2. \A i \in DOMAIN q : Append(q, x)[i] = q[i]
  OBVIOUS
<1>3. Append(q, x)[Len(q) + 1] = x
  OBVIOUS
<1> QED BY <1>1, <1>2, <1>3 DEF Elements

LEMMA InitPoolInv == Init => PoolInv
<1> SUFFICES ASSUME Init PROVE PoolInv
  OBVIOUS
<1>1. TypeOK
  <2>1. tasks_ \in Seq(Tasks) /\ accepted \in Seq(Tasks) /\ taken \in Seq(Tasks)
    BY DEF Init
  <2>2. client \in [Clients -> {ClientIdle} \cup
                              [pc : {"check", "push", "notify"}, task : Tasks]]
    BY DEF Init
  <2>3. /\ at \in [Workers -> {"lock", "test", "sleep", "asleep", "run", "done",
                              "exited"}]
        /\ task \in [Workers -> Tasks \cup {NoTask}]
        /\ closer \in [Closers -> {"idle", "notify", "active", "pending", "join",
                                  "returned", "refused"}]
    BY DEF Init
  <2> QED BY <2>1, <2>2, <2>3 DEF Init, TypeOK
<1>2. MutexHeld /\ NothingAfterExit /\ JoinedAll
  BY PoolAssumption DEF Init, MutexHeld, NothingAfterExit, JoinedAll, ClientIdle
<1>3. TakenInOrder /\ TakenRuns
  BY DEF Init, TakenInOrder, TakenRuns, Elements
<1> QED BY <1>1, <1>2, <1>3 DEF PoolInv

\* The worker's steps keep the types.
LEMMA WorkerTyped ==
  ASSUME TypeOK, ActiveCounts, NEW w \in Workers, Worker(w) \/ WorkerSpurious(w)
  PROVE  TypeOK'
<1>1. CASE WorkerTake(w)
  <2>1. Head(tasks_) \in Tasks /\ Tail(tasks_) \in Seq(Tasks)
    BY <1>1 DEF TypeOK, WorkerTake
  <2>2. Append(taken, Head(tasks_)) \in Seq(Tasks)
    BY <2>1 DEF TypeOK
  <2>3. task' \in [Workers -> Tasks \cup {NoTask}]
        /\ \A x \in Workers : at'[x] = "run" => task'[x] # NoTask
    BY <1>1, <2>1, PoolAssumption DEF TypeOK, WorkerTake, Goto
  <2> QED BY <1>1, <2>1, <2>2, <2>3 DEF TypeOK, WorkerTake, Goto, Unlock
<1>2. CASE WorkerDone(w)
  <2>1. active_tasks_ # 0
    <3>1. w \in {x \in Workers : at[x] \in {"run", "done"}}
      BY <1>2 DEF WorkerDone
    <3>2. IsFiniteSet({x \in Workers : at[x] \in {"run", "done"}})
      BY FS_Subset, PoolAssumption
    <3> QED BY <3>1, <3>2, FS_EmptySet DEF ActiveCounts
  <2>2. active_tasks_ - 1 \in Nat
    BY <2>1 DEF TypeOK
  <2> QED BY <1>2, <2>2 DEF TypeOK, WorkerDone, Goto, history
<1>3. CASE WorkerRun(w)
  <2>1. task[w] \in Tasks
    BY <1>3 DEF TypeOK, WorkerRun
  <2> QED BY <1>3, <2>1 DEF TypeOK, WorkerRun, Goto
<1>4. CASE WorkerLock(w)
  <2>1. \A x \in Workers : at'[x] = "run" => at[x] = "run"
    BY <1>4 DEF TypeOK, WorkerLock, Goto
  <2> QED BY <1>4, <2>1 DEF TypeOK, WorkerLock, Lock, Goto, history
<1>5. CASE WorkerWait(w) \/ WorkerSpurious(w)
  <2>1. \A x \in Workers : at'[x] = "run" => at[x] = "run"
    BY <1>5 DEF TypeOK, WorkerWait, WorkerSpurious, Goto
  <2>2. at' \in [Workers -> {"lock", "test", "sleep", "asleep", "run", "done", "exited"}]
    BY <1>5 DEF TypeOK, WorkerWait, WorkerSpurious, Goto
  <2> QED BY <1>5, <2>1, <2>2 DEF TypeOK, WorkerWait, WorkerSpurious, history
<1>6. CASE WorkerSleep(w)
  <2>1. \A x \in Workers : at'[x] = "run" => at[x] = "run"
    BY <1>6 DEF TypeOK, WorkerSleep, Goto
  <2> QED BY <1>6, <2>1 DEF TypeOK, WorkerSleep, Unlock, Goto, history
<1>7. CASE WorkerExit(w)
  <2>1. at' \in [Workers -> {"lock", "test", "sleep", "asleep", "run", "done", "exited"}]
    BY <1>7 DEF TypeOK, WorkerExit, Goto
  <2>2. \A x \in Workers : at'[x] = "run" => at[x] = "run"
    BY <1>7 DEF TypeOK, WorkerExit, Goto
  <2>3. UNCHANGED <<tasks_, stop_, active_tasks_, task, client, closer, history>>
        /\ queue_mutex_' = NoThread
    BY <1>7 DEF WorkerExit, Unlock
  <2> QED BY <2>1, <2>2, <2>3 DEF TypeOK, history
<1> QED BY <1>1, <1>2, <1>3, <1>4, <1>5, <1>6, <1>7 DEF Worker

LEMMA ClientTyped ==
  ASSUME TypeOK, NEW c \in Clients, Client(c) \/ \E t \in Tasks : Submit(c, t)
  PROVE  TypeOK'
<1>1. CASE \E t \in Tasks : Submit(c, t)
  BY <1>1 DEF TypeOK, Submit, Lock, workerVars
<1>2. CASE SubmitPush(c)
  <2>1. client[c].task \in Tasks
    BY <1>2 DEF TypeOK, SubmitPush, ClientIdle
  <2>2. client' \in [Clients -> {ClientIdle} \cup
                       [pc : {"check", "push", "notify"}, task : Tasks]]
    <3>1. client[c] \in [pc : {"check", "push", "notify"}, task : Tasks]
      BY <1>2 DEF TypeOK, SubmitPush, ClientIdle
    <3>2. [client[c] EXCEPT !.pc = "notify"]
            \in [pc : {"check", "push", "notify"}, task : Tasks]
      BY <3>1
    <3>3. client' = [client EXCEPT ![c] = [client[c] EXCEPT !.pc = "notify"]]
      BY <1>2 DEF SubmitPush
    <3> QED BY <3>2, <3>3 DEF TypeOK
  <2>3. Append(tasks_, client[c].task) \in Seq(Tasks)
        /\ Append(accepted, client[c].task) \in Seq(Tasks)
    BY <2>1 DEF TypeOK
  <2> QED BY <1>2, <2>2, <2>3 DEF TypeOK, SubmitPush, Unlock, workerVars
<1>3. CASE SubmitNotify(c)
  BY <1>3 DEF TypeOK, SubmitNotify, Asleep, Goto, ClientIdle, history
<1>4. CASE SubmitRefused(c)
  BY <1>4 DEF TypeOK, SubmitRefused, Unlock, workerVars, history
<1>5. CASE SubmitCheck(c)
  <2>1. client[c] \in [pc : {"check", "push", "notify"}, task : Tasks]
    BY <1>5 DEF TypeOK, SubmitCheck, ClientIdle
  <2>2. [client[c] EXCEPT !.pc = "push"]
          \in [pc : {"check", "push", "notify"}, task : Tasks]
    BY <2>1
  <2>3. client' = [client EXCEPT ![c] = [client[c] EXCEPT !.pc = "push"]]
    BY <1>5 DEF SubmitCheck
  <2>4. client' \in [Clients -> {ClientIdle} \cup
                       [pc : {"check", "push", "notify"}, task : Tasks]]
    BY <2>2, <2>3 DEF TypeOK
  <2> QED BY <1>5, <2>4 DEF TypeOK, SubmitCheck, workerVars, history
<1> QED BY <1>1, <1>2, <1>3, <1>4, <1>5 DEF Client

LEMMA CloserTyped ==
  ASSUME TypeOK, NEW s \in Closers, ShutdownBegin(s) \/ Shutdown(s)
  PROVE  TypeOK'
  BY DEF TypeOK, ShutdownBegin, Shutdown, ShutdownNotify, ShutdownActive,
    ShutdownPending, ShutdownJoin, workerVars, history

LEMMA TypeStep == TypeOK /\ ActiveCounts /\ [Next]_vars => TypeOK'
<1> SUFFICES ASSUME TypeOK, ActiveCounts, [Next]_vars PROVE TypeOK'
  OBVIOUS
<1>1. CASE UNCHANGED vars
  BY <1>1 DEF TypeOK, vars, workerVars, history
<1> QED BY <1>1, WorkerTyped, ClientTyped, CloserTyped DEF Next

-----------------------------------------------------------------------------
(* The counter of running tasks *)

Running == {w \in Workers : at[w] \in {"run", "done"}}

\* Only a worker that takes a task or is done with one changes the set of
\* running workers.
LEMMA RunningSame ==
  ASSUME TypeOK, [Next]_vars, \A w \in Workers : ~WorkerTake(w) /\ ~WorkerDone(w)
  PROVE  Running' = Running /\ active_tasks_' = active_tasks_
<1>1. CASE \E w \in Workers : Worker(w) \/ WorkerSpurious(w)
  BY <1>1 DEF TypeOK, Running, Worker, WorkerLock, WorkerWait, WorkerSleep,
    WorkerExit, WorkerRun, WorkerSpurious, Goto
<1>2. CASE \E c \in Clients : Client(c) \/ \E t \in Tasks : Submit(c, t)
  BY <1>2 DEF TypeOK, Running, Client, Submit, SubmitRefused, SubmitCheck,
    SubmitPush, SubmitNotify, Asleep, Goto, workerVars
<1>3. CASE \E s \in Closers : ShutdownBegin(s) \/ Shutdown(s)
  BY <1>3 DEF TypeOK, Running, ShutdownBegin, Shutdown, ShutdownNotify,
    ShutdownActive, ShutdownPending, ShutdownJoin, Asleep, workerVars
<1>4. CASE UNCHANGED vars
  BY <1>4 DEF Running, vars, workerVars
<1> QED BY <1>1, <1>2, <1>3, <1>4 DEF Next

LEMMA ActiveStep == TypeOK /\ ActiveCounts /\ [Next]_vars => ActiveCounts'
<1> SUFFICES ASSUME TypeOK, ActiveCounts, [Next]_vars PROVE ActiveCounts'
  OBVIOUS
<1>1. active_tasks_ = Cardinality(Running) /\ IsFiniteSet(Running)
  BY FS_Subset, PoolAssumption DEF ActiveCounts, Running
<1>2. (active_tasks_' = Cardinality(Running')) => ActiveCounts'
  BY DEF ActiveCounts, Running
<1>3. ASSUME NEW w \in Workers, WorkerTake(w) PROVE ActiveCounts'
  <2>1. w \notin Running /\ Running' = Running \cup {w}
    BY <1>3 DEF TypeOK, Running, WorkerTake, Goto
  <2>2. active_tasks_' = active_tasks_ + 1
    BY <1>3 DEF WorkerTake
  <2> QED BY <1>1, <1>2, <2>1, <2>2, FS_AddElement
<1>4. ASSUME NEW w \in Workers, WorkerDone(w) PROVE ActiveCounts'
  <2>1. w \in Running /\ Running' = Running \ {w}
    BY <1>4 DEF TypeOK, Running, WorkerDone, Goto
  <2>2. active_tasks_' = active_tasks_ - 1
    BY <1>4 DEF WorkerDone
  <2> QED BY <1>1, <1>2, <2>1, <2>2, FS_RemoveElement
<1>5. CASE \A w \in Workers : ~WorkerTake(w) /\ ~WorkerDone(w)
  BY <1>1, <1>2, <1>5, RunningSame
<1> QED BY <1>3, <1>4, <1>5

LEMMA InitCounts == Init => ActiveCounts
<1> SUFFICES ASSUME Init PROVE ActiveCounts
  OBVIOUS
<1>1. {w \in Workers : at[w] \in {"run", "done"}} = {}
  BY DEF Init
<1> QED BY <1>1, FS_EmptySet DEF Init, ActiveCounts

\* The types hold at every moment; the counter never goes below zero because
\* it is exact.
THEOREM TypeCorrect == Spec => []TypeOK
<1>1. Init => TypeOK /\ ActiveCounts
  BY InitPoolInv, InitCounts DEF PoolInv
<1>2. TypeOK /\ ActiveCounts /\ [Next]_vars => (TypeOK /\ ActiveCounts)'
  BY TypeStep, ActiveStep
<1> QED BY <1>1, <1>2, PTL DEF Spec

\* active_tasks_ is the number of workers with a task in hand.
THEOREM CounterIsExact == Spec => []ActiveCounts
<1>1. Init => TypeOK /\ ActiveCounts
  BY InitPoolInv, InitCounts DEF PoolInv
<1>2. TypeOK /\ ActiveCounts /\ [Next]_vars => (TypeOK /\ ActiveCounts)'
  BY TypeStep, ActiveStep
<1> QED BY <1>1, <1>2, PTL DEF Spec

-----------------------------------------------------------------------------
(* Shutdown drains the pool *)

LEMMA MutexWorker ==
  ASSUME TypeOK, MutexHeld, NEW w \in Workers, Worker(w) \/ WorkerSpurious(w)
  PROVE  MutexHeld'
<1> USE PoolAssumption DEF TypeOK, MutexHeld, Goto
<1>1. CASE WorkerLock(w)
  BY <1>1 DEF WorkerLock, Lock
<1>2. CASE WorkerWait(w) \/ WorkerSpurious(w)
  BY <1>2 DEF WorkerWait, WorkerSpurious
<1>3. CASE WorkerSleep(w)
  BY <1>3 DEF WorkerSleep, Unlock
<1>4. CASE WorkerExit(w)
  BY <1>4 DEF WorkerExit, Unlock
<1>5. CASE WorkerTake(w)
  BY <1>5 DEF WorkerTake, Unlock
<1>6. CASE WorkerRun(w) \/ WorkerDone(w)
  BY <1>6 DEF WorkerRun, WorkerDone
<1> QED BY <1>1, <1>2, <1>3, <1>4, <1>5, <1>6 DEF Worker

LEMMA MutexClient ==
  ASSUME TypeOK, MutexHeld, NEW c \in Clients, Client(c) \/ \E t \in Tasks : Submit(c, t)
  PROVE  MutexHeld'
<1> USE PoolAssumption DEF TypeOK, MutexHeld, ClientIdle
<1>1. CASE \E t \in Tasks : Submit(c, t)
  BY <1>1 DEF Submit, Lock, workerVars
<1>2. CASE SubmitRefused(c)
  BY <1>2 DEF SubmitRefused, Unlock, workerVars
<1>3. CASE SubmitCheck(c)
  BY <1>3 DEF SubmitCheck, workerVars
<1>4. CASE SubmitPush(c)
  BY <1>4 DEF SubmitPush, Unlock, workerVars
<1>5. CASE SubmitNotify(c)
  BY <1>5 DEF SubmitNotify, Asleep, Goto
<1> QED BY <1>1, <1>2, <1>3, <1>4, <1>5 DEF Client

LEMMA MutexStep == TypeOK /\ MutexHeld /\ [Next]_vars => MutexHeld'
<1> SUFFICES ASSUME TypeOK, MutexHeld, [Next]_vars PROVE MutexHeld'
  OBVIOUS
<1>1. CASE \E s \in Closers : ShutdownBegin(s) \/ Shutdown(s)
  BY <1>1 DEF TypeOK, MutexHeld, ShutdownBegin, Shutdown, ShutdownNotify,
    ShutdownActive, ShutdownPending, ShutdownJoin, Asleep, workerVars
<1>2. CASE UNCHANGED vars
  BY <1>2 DEF MutexHeld, vars, workerVars
<1> QED BY <1>1, <1>2, MutexWorker, MutexClient DEF Next

LEMMA OrderStep == TypeOK /\ TakenInOrder /\ [Next]_vars => TakenInOrder'
<1> SUFFICES ASSUME TypeOK, TakenInOrder, [Next]_vars PROVE TakenInOrder'
  OBVIOUS
<1>0. tasks_ \in Seq(Tasks) /\ taken \in Seq(Tasks)
  BY DEF TypeOK
<1>1. ASSUME NEW w \in Workers, WorkerTake(w) PROVE TakenInOrder'
  <2>1. Append(taken, Head(tasks_)) \o Tail(tasks_) = taken \o tasks_
    BY <1>0, <1>1 DEF WorkerTake
  <2> QED BY <1>1, <2>1 DEF TakenInOrder, WorkerTake
<1>2. ASSUME NEW c \in Clients, SubmitPush(c) PROVE TakenInOrder'
  <2>1. client[c].task \in Tasks
    BY <1>2 DEF TypeOK, SubmitPush, ClientIdle
  <2>2. taken \o Append(tasks_, client[c].task) = Append(taken \o tasks_, client[c].task)
    BY <1>0, <2>1
  <2> QED BY <1>2, <2>2 DEF TakenInOrder, SubmitPush
<1>3. CASE UNCHANGED <<tasks_, accepted, taken>>
  BY <1>3 DEF TakenInOrder
<1>4. (\E w \in Workers : WorkerTake(w)) \/ (\E c \in Clients : SubmitPush(c))
        \/ UNCHANGED <<tasks_, accepted, taken>>
  BY DEF Next, Worker, WorkerLock, WorkerWait, WorkerSleep, WorkerExit, WorkerRun,
    WorkerDone, WorkerSpurious, Client, Submit, SubmitRefused, SubmitCheck,
    SubmitNotify, ShutdownBegin, Shutdown, ShutdownNotify, ShutdownActive,
    ShutdownPending, ShutdownJoin, vars, history
<1> QED BY <1>1, <1>2, <1>3, <1>4

\* A worker keeps its task until it has run it.
LEMMA RunsStep == TypeOK /\ TakenRuns /\ [Next]_vars => TakenRuns'
<1> SUFFICES ASSUME TypeOK, TakenRuns, [Next]_vars PROVE TakenRuns'
  OBVIOUS
<1>1. ASSUME NEW w \in Workers, WorkerTake(w) PROVE TakenRuns'
  <2>1. Head(tasks_) \in Tasks
    BY <1>1 DEF TypeOK, WorkerTake
  <2>2. Elements(taken') = Elements(taken) \cup {Head(tasks_)}
    <3>1. taken \in Seq(Tasks)
      BY DEF TypeOK
    <3>2. Elements(Append(taken, Head(tasks_))) = Elements(taken) \cup {Head(tasks_)}
      BY <2>1, <3>1, ElementsAppend
    <3> QED BY <1>1, <3>2 DEF WorkerTake
  <2>3. at'[w] = "run" /\ task'[w] = Head(tasks_)
    BY <1>1 DEF TypeOK, WorkerTake, Goto
  <2>4. \A x \in Workers : at[x] = "run" => at'[x] = "run" /\ task'[x] = task[x]
    BY <1>1 DEF TypeOK, WorkerTake, Goto
  <2> QED BY <1>1, <2>2, <2>3, <2>4 DEF TakenRuns, WorkerTake
<1>2. ASSUME NEW w \in Workers, WorkerRun(w) PROVE TakenRuns'
  <2>1. \A x \in Workers \ {w} : at'[x] = at[x] /\ task'[x] = task[x]
    BY <1>2 DEF TypeOK, WorkerRun, Goto
  <2> QED BY <1>2, <2>1 DEF TakenRuns, WorkerRun
<1>3. CASE /\ UNCHANGED <<taken, finished>>
           /\ \A x \in Workers : at[x] = "run" => at'[x] = "run" /\ task'[x] = task[x]
  BY <1>3 DEF TakenRuns
<1>4. ASSUME NEW w \in Workers, Worker(w) \/ WorkerSpurious(w),
             ~WorkerTake(w), ~WorkerRun(w)
      PROVE  /\ UNCHANGED <<taken, finished>>
             /\ \A x \in Workers : at[x] = "run" => at'[x] = "run" /\ task'[x] = task[x]
  BY <1>4 DEF TypeOK, Worker, WorkerLock, WorkerWait, WorkerSleep, WorkerExit,
    WorkerDone, WorkerSpurious, Goto, history
<1>5. ASSUME NEW c \in Clients, Client(c) \/ \E t \in Tasks : Submit(c, t)
      PROVE  /\ UNCHANGED <<taken, finished>>
             /\ \A x \in Workers : at[x] = "run" => at'[x] = "run" /\ task'[x] = task[x]
  BY <1>5 DEF TypeOK, Client, Submit, SubmitRefused, SubmitCheck, SubmitPush,
    SubmitNotify, Asleep, Goto, workerVars, history
<1>6. ASSUME NEW s \in Closers, ShutdownBegin(s) \/ Shutdown(s)
      PROVE  /\ UNCHANGED <<taken, finished>>
             /\ \A x \in Workers : at[x] = "run" => at'[x] = "run" /\ task'[x] = task[x]
  BY <1>6 DEF TypeOK, ShutdownBegin, Shutdown, ShutdownNotify, ShutdownActive,
    ShutdownPending, ShutdownJoin, Asleep, workerVars, history
<1>7. CASE UNCHANGED vars
  BY <1>3, <1>7 DEF vars, workerVars, history
<1> QED BY <1>1, <1>2, <1>3, <1>4, <1>5, <1>6, <1>7 DEF Next

LEMMA ExitStep ==
  TypeOK /\ MutexHeld /\ NothingAfterExit /\ [Next]_vars => NothingAfterExit'
<1> SUFFICES ASSUME TypeOK, MutexHeld, NothingAfterExit, [Next]_vars
             PROVE NothingAfterExit'
  OBVIOUS
<1>1. ASSUME NEW w \in Workers, WorkerExit(w) PROVE NothingAfterExit'
  <2>1. queue_mutex_ = w
    BY <1>1 DEF MutexHeld, WorkerExit
  <2>2. \A c \in Clients : client[c].pc # "push"
    BY <2>1, PoolAssumption DEF MutexHeld
  <2> QED BY <1>1, <2>2 DEF NothingAfterExit, WorkerExit
<1>2. ASSUME NEW w \in Workers, Worker(w) \/ WorkerSpurious(w), ~WorkerExit(w)
      PROVE  NothingAfterExit'
  <2>1. /\ \A x \in Workers : at'[x] = "exited" => at[x] = "exited"
        /\ tasks_ = <<>> => tasks_' = <<>>
        /\ UNCHANGED <<stop_, client>>
    BY <1>2 DEF TypeOK, Worker, WorkerLock, WorkerWait, WorkerSleep, WorkerTake,
      WorkerRun, WorkerDone, WorkerSpurious, Goto
  <2> QED BY <2>1 DEF NothingAfterExit
<1>3. ASSUME NEW c \in Clients, Client(c) \/ \E t \in Tasks : Submit(c, t)
      PROVE  NothingAfterExit'
  <2>1. \A x \in Workers : at'[x] = "exited" => at[x] = "exited"
    BY <1>3 DEF TypeOK, Client, Submit, SubmitRefused, SubmitCheck, SubmitPush,
      SubmitNotify, Asleep, Goto, workerVars
  <2>2. ASSUME \E x \in Workers : at[x] = "exited"
        PROVE  stop_' /\ tasks_' = <<>> /\ \A d \in Clients : client'[d].pc # "push"
    <3>1. stop_ /\ tasks_ = <<>> /\ \A d \in Clients : client[d].pc # "push"
      BY <2>2 DEF NothingAfterExit
    <3>2. CASE \E t \in Tasks : Submit(c, t)
      BY <3>1, <3>2 DEF TypeOK, Submit
    <3>3. CASE SubmitRefused(c)
      BY <3>1, <3>3 DEF TypeOK, SubmitRefused, ClientIdle
    <3>4. CASE SubmitNotify(c)
      BY <3>1, <3>4 DEF TypeOK, SubmitNotify, ClientIdle
    <3> QED BY <1>3, <3>1, <3>2, <3>3, <3>4 DEF Client, SubmitCheck, SubmitPush
  <2> QED BY <2>1, <2>2 DEF NothingAfterExit
<1>4. ASSUME NEW s \in Closers, ShutdownBegin(s) \/ Shutdown(s)
      PROVE  NothingAfterExit'
  <2>1. /\ \A x \in Workers : at'[x] = "exited" => at[x] = "exited"
        /\ stop_ => stop_'
        /\ UNCHANGED <<tasks_, client>>
    BY <1>4 DEF TypeOK, ShutdownBegin, Shutdown, ShutdownNotify, ShutdownActive,
      ShutdownPending, ShutdownJoin, Asleep, workerVars
  <2> QED BY <2>1 DEF NothingAfterExit
<1>5. CASE UNCHANGED vars
  BY <1>5 DEF NothingAfterExit, vars, workerVars
<1> QED BY <1>1, <1>2, <1>3, <1>4, <1>5 DEF Next

LEMMA JoinStep == TypeOK /\ JoinedAll /\ [Next]_vars => JoinedAll'
<1> SUFFICES ASSUME TypeOK, JoinedAll, [Next]_vars PROVE JoinedAll'
  OBVIOUS
<1>1. \A w \in Workers : at[w] = "exited" => at'[w] = "exited"
  <2>1. CASE \E w \in Workers : Worker(w) \/ WorkerSpurious(w)
    BY <2>1 DEF TypeOK, Worker, WorkerLock, WorkerWait, WorkerSleep, WorkerExit,
      WorkerTake, WorkerRun, WorkerDone, WorkerSpurious, Goto
  <2>2. CASE \E c \in Clients : Client(c) \/ \E t \in Tasks : Submit(c, t)
    BY <2>2 DEF TypeOK, Client, Submit, SubmitRefused, SubmitCheck, SubmitPush,
      SubmitNotify, Asleep, Goto, workerVars
  <2>3. CASE \E s \in Closers : ShutdownBegin(s) \/ Shutdown(s)
    BY <2>3 DEF TypeOK, ShutdownBegin, Shutdown, ShutdownNotify, ShutdownActive,
      ShutdownPending, ShutdownJoin, Asleep, workerVars
  <2>4. CASE UNCHANGED vars
    BY <2>4 DEF vars, workerVars
  <2> QED BY <2>1, <2>2, <2>3, <2>4 DEF Next
<1>2. \A s \in Closers : closer'[s] = "returned" =>
         closer[s] = "returned" \/ \A w \in Workers : at[w] = "exited"
  BY DEF TypeOK, Next, Worker, WorkerLock, WorkerWait, WorkerSleep, WorkerExit,
    WorkerTake, WorkerRun, WorkerDone, WorkerSpurious, Client, Submit,
    SubmitRefused, SubmitCheck, SubmitPush, SubmitNotify, ShutdownBegin, Shutdown,
    ShutdownNotify, ShutdownActive, ShutdownPending, ShutdownJoin, vars
<1> QED BY <1>1, <1>2 DEF JoinedAll

LEMMA PoolInvHolds == Spec => [](PoolInv /\ ActiveCounts)
<1>1. Init => PoolInv /\ ActiveCounts
  BY InitPoolInv, InitCounts
<1>2. PoolInv /\ ActiveCounts /\ [Next]_vars => (PoolInv /\ ActiveCounts)'
  BY TypeStep, ActiveStep, MutexStep, OrderStep, RunsStep, ExitStep, JoinStep
    DEF PoolInv
<1> QED BY <1>1, <1>2, PTL DEF Spec

\* Tasks leave the queue in the order submit accepted them.
THEOREM TasksKeepOrder == Spec => []TakenInOrder
<1>1. PoolInv => TakenInOrder
  BY DEF PoolInv
<1> QED BY <1>1, PoolInvHolds, PTL

LEMMA DrainedPool == PoolInv => ShutdownDrains
<1>1. ASSUME PoolInv, NEW s \in Closers, closer[s] = "returned"
      PROVE  Elements(accepted) \subseteq finished /\ \A w \in Workers : at[w] = "exited"
  <2>1. \A w \in Workers : at[w] = "exited"
    BY <1>1 DEF PoolInv, JoinedAll
  <2>2. tasks_ = <<>>
    BY <1>1, <2>1, PoolAssumption DEF PoolInv, NothingAfterExit
  <2>3. accepted = taken
    BY <1>1, <2>2 DEF PoolInv, TypeOK, TakenInOrder
  <2> QED BY <1>1, <2>1, <2>3 DEF PoolInv, TakenRuns
<1> QED BY <1>1 DEF ShutdownDrains

\* When shutdown returns, every accepted task has run and no worker is left.
THEOREM ShutdownLeavesNothing == Spec => []ShutdownDrains
  BY DrainedPool, PoolInvHolds, PTL

-----------------------------------------------------------------------------
\* The table of VMs over the pool.

\* What the lifecycle does with the pool is what the pool allows.
LEMMA PoolSteps == TypeOK /\ [LifecycleNext]_lifecycleVars => [Next]_vars
<1> SUFFICES ASSUME TypeOK, [LifecycleNext]_lifecycleVars PROVE [Next]_vars
  OBVIOUS
<1>1. ASSUME NEW c \in Clients, DestroyVm(c) PROVE Next
  <2>1. PICK t \in unsubmitted : Submit(c, t)
    BY <1>1 DEF DestroyVm
  <2>2. t \in Tasks
    BY DEF TypeOK
  <2> QED BY <2>1, <2>2 DEF Next
<1>2. ASSUME NEW c \in Clients,
             \/ CreateX86VM(c) \/ RegisterVm(c) \/ FindAgain(c)
             \/ \E v \in VMs : FindVm(c, v)
      PROVE  UNCHANGED vars
  BY <1>2 DEF CreateX86VM, RegisterVm, FindAgain, FindVm, poolVars
<1>3. ASSUME NEW c \in Clients, Submitting(c) PROVE Next
  BY <1>3 DEF Submitting, Next
<1>4. ASSUME NEW w \in Workers, Unregister(w) \/ WorkerOutside(w) \/ Spurious(w) PROVE Next
  BY <1>4 DEF Unregister, WorkerOutside, Spurious, Worker, Next
<1>5. ASSUME NEW s \in Closers, ShuttingDown(s) PROVE Next
  BY <1>5 DEF ShuttingDown, Next
<1>6. CASE UNCHANGED lifecycleVars
  BY <1>6 DEF lifecycleVars, poolVars
<1> QED BY <1>1, <1>2, <1>3, <1>4, <1>5, <1>6 DEF LifecycleNext

LEMMA PoolStaysSound ==
  PoolInv /\ ActiveCounts /\ [LifecycleNext]_lifecycleVars => (PoolInv /\ ActiveCounts)'
  BY PoolSteps, TypeStep, ActiveStep, MutexStep, OrderStep, RunsStep, ExitStep, JoinStep
    DEF PoolInv

\* The pool keeps its promises under the VM manager's calls: order, the
\* counter, and a shutdown that leaves no destruction behind.
LEMMA PoolHolds == LifecycleSpec => [](PoolInv /\ ActiveCounts)
<1>1. LifecycleInit => PoolInv /\ ActiveCounts
  BY InitPoolInv, InitCounts DEF LifecycleInit
<1> QED BY <1>1, PoolStaysSound, PTL DEF LifecycleSpec

-----------------------------------------------------------------------------
(* Types *)

LEMMA CallersTyped ==
  ASSUME LifecycleTypeOK, NEW c \in Clients, NEW pc \in {"register", "find", "submit"},
         NEW v \in VMs, Goes(c, pc, v)
  PROVE  caller' \in [Clients -> {CallerIdle} \cup
                                 [pc : {"register", "find", "submit"}, vm : VMs]]
  BY DEF LifecycleTypeOK, Goes

LEMMA CallerBusy ==
  ASSUME LifecycleTypeOK, NEW c \in Clients, caller[c].pc # "idle"
  PROVE  /\ caller[c] \in [pc : {"register", "find", "submit"}, vm : VMs]
         /\ caller[c].vm \in VMs
  BY DEF LifecycleTypeOK, CallerIdle

LEMMA LifecycleTypeStep ==
  LifecycleTypeOK /\ [LifecycleNext]_lifecycleVars => LifecycleTypeOK'
<1> SUFFICES ASSUME LifecycleTypeOK, [LifecycleNext]_lifecycleVars PROVE LifecycleTypeOK'
  OBVIOUS
<1>1. ASSUME NEW c \in Clients, CreateX86VM(c) PROVE LifecycleTypeOK'
  <2>1. next_vm_id \in VMs /\ next_vm_id' = next_vm_id + 1 /\ UNCHANGED vms_
        /\ Goes(c, "register", next_vm_id)
    BY <1>1 DEF CreateX86VM, NewId
  <2>2. next_vm_id' \in 1..(MaxVms + 1)
    BY <2>1, LifecycleAssumption DEF VMs
  <2> QED BY <2>1, <2>2, CallersTyped DEF LifecycleTypeOK
<1>2. ASSUME NEW c \in Clients, RegisterVm(c) PROVE LifecycleTypeOK'
  <2>1. caller[c].vm \in VMs
    BY <1>2, CallerBusy DEF RegisterVm
  <2> QED BY <1>2, <2>1 DEF RegisterVm, Returns, LifecycleTypeOK
<1>3. ASSUME NEW c \in Clients, NEW v \in VMs, FindVm(c, v) PROVE LifecycleTypeOK'
  BY <1>3, CallersTyped DEF FindVm, LifecycleTypeOK
<1>4. ASSUME NEW c \in Clients, FindAgain(c) PROVE LifecycleTypeOK'
  <2>1. caller[c].vm \in VMs
    BY <1>4, CallerBusy DEF FindAgain
  <2>2. CASE Goes(c, "submit", caller[c].vm)
    BY <1>4, <2>1, <2>2, CallersTyped DEF FindAgain, LifecycleTypeOK
  <2>3. CASE Returns(c)
    BY <1>4, <2>3 DEF FindAgain, Returns, LifecycleTypeOK
  <2> QED BY <1>4, <2>2, <2>3 DEF FindAgain
<1>5. ASSUME NEW c \in Clients, DestroyVm(c) PROVE LifecycleTypeOK'
  BY <1>5 DEF DestroyVm, Returns, LifecycleTypeOK
<1>6. ASSUME NEW w \in Workers, Unregister(w) PROVE LifecycleTypeOK'
  BY <1>6 DEF Unregister, LifecycleTypeOK
<1>7. CASE UNCHANGED tableVars
  BY <1>7 DEF tableVars, LifecycleTypeOK
<1> QED BY <1>1, <1>2, <1>3, <1>4, <1>5, <1>6, <1>7
      DEF LifecycleNext, Submitting, WorkerOutside, Spurious, ShuttingDown, lifecycleVars

-----------------------------------------------------------------------------
(* What is in the pool was offered to it *)

LEMMA InHandWorker ==
  ASSUME TypeOK, InHand, NEW w \in Workers, Worker(w) \/ WorkerSpurious(w)
  PROVE  InHand'
<1>1. CASE WorkerTake(w)
  <2>1. tasks_ \in Seq(Tasks) /\ tasks_ # <<>>
    BY <1>1 DEF TypeOK, WorkerTake
  <2>2. Head(tasks_) \in Elements(tasks_)
    BY <2>1 DEF Elements
  <2>3. Elements(Tail(tasks_)) \subseteq Elements(tasks_)
    <3>1. \A i \in DOMAIN Tail(tasks_) :
             i + 1 \in DOMAIN tasks_ /\ Tail(tasks_)[i] = tasks_[i + 1]
      BY <2>1
    <3> QED BY <3>1 DEF Elements
  <2>4. UNCHANGED <<unsubmitted, finished, client>> /\ tasks_' = Tail(tasks_)
    BY <1>1 DEF WorkerTake
  <2>5. Elements(tasks_') \subseteq Offered'
    BY <2>3, <2>4 DEF InHand, Offered
  <2>6. \A x \in Workers : at'[x] = "run" => task'[x] \in Offered'
    BY <1>1, <2>2, <2>4 DEF TypeOK, InHand, Offered, WorkerTake, Goto
  <2> QED BY <2>4, <2>5, <2>6 DEF InHand, Offered
<1>2. CASE WorkerRun(w)
  <2>1. \A x \in Workers : at'[x] = "run" => at[x] = "run"
    BY <1>2 DEF TypeOK, WorkerRun, Goto
  <2> QED BY <1>2, <2>1 DEF InHand, Offered, WorkerRun
<1>3. CASE ~WorkerTake(w) /\ ~WorkerRun(w)
  <2>1. /\ UNCHANGED <<unsubmitted, finished, client, tasks_>>
        /\ \A x \in Workers : at'[x] = "run" => at[x] = "run" /\ task'[x] = task[x]
    BY <1>3 DEF TypeOK, Worker, WorkerLock, WorkerWait, WorkerSleep, WorkerExit,
      WorkerDone, WorkerSpurious, Goto, history
  <2> QED BY <2>1 DEF InHand, Offered
<1> QED BY <1>1, <1>2, <1>3

LEMMA InHandClient ==
  ASSUME TypeOK, InHand, NEW c \in Clients, Client(c) \/ \E t \in Tasks : Submit(c, t)
  PROVE  InHand'
<1>1. ASSUME NEW t \in Tasks, Submit(c, t) PROVE InHand'
  <2>1. /\ unsubmitted' = unsubmitted \ {t}
        /\ UNCHANGED <<tasks_, at, task, finished>>
    BY <1>1 DEF Submit, workerVars
  <2>2. \A d \in Clients : client'[d].pc # "idle" => client'[d].task \in Offered'
    BY <1>1, <2>1 DEF TypeOK, InHand, Offered, Submit
  <2> QED BY <2>1, <2>2 DEF InHand, Offered
<1>2. CASE SubmitPush(c)
  <2>1. client[c].task \in Offered /\ client[c].task \in Tasks
    BY <1>2 DEF InHand, Offered, SubmitPush
  <2>2. Elements(tasks_') = Elements(tasks_) \cup {client[c].task}
    <3>1. tasks_ \in Seq(Tasks)
      BY DEF TypeOK
    <3>2. Elements(Append(tasks_, client[c].task)) = Elements(tasks_) \cup {client[c].task}
      BY <2>1, <3>1, ElementsAppend
    <3> QED BY <1>2, <3>2 DEF SubmitPush
  <2>3. client[c] \in [pc : {"check", "push", "notify"}, task : Tasks]
    BY <1>2 DEF TypeOK, SubmitPush, ClientIdle
  <2>4. \A d \in Clients : client'[d].pc # "idle" =>
          client[d].pc # "idle" /\ client'[d].task = client[d].task
    BY <1>2, <2>3 DEF TypeOK, SubmitPush
  <2>5. UNCHANGED <<unsubmitted, finished, at, task>>
    BY <1>2 DEF SubmitPush, workerVars
  <2> QED BY <2>1, <2>2, <2>4, <2>5 DEF InHand, Offered
<1>3. CASE SubmitCheck(c)
  <2>1. client[c] \in [pc : {"check", "push", "notify"}, task : Tasks]
    BY <1>3 DEF TypeOK, SubmitCheck, ClientIdle
  <2>2. \A d \in Clients : client'[d].pc # "idle" =>
          client[d].pc # "idle" /\ client'[d].task = client[d].task
    BY <1>3, <2>1 DEF TypeOK, SubmitCheck
  <2> QED BY <1>3, <2>2 DEF InHand, Offered, SubmitCheck, workerVars, history
<1>4. CASE SubmitRefused(c) \/ SubmitNotify(c)
  <2>1. \A d \in Clients : client'[d].pc # "idle" => client'[d] = client[d]
    BY <1>4 DEF TypeOK, SubmitRefused, SubmitNotify, ClientIdle
  <2>2. \A x \in Workers : at'[x] = "run" => at[x] = "run"
    BY <1>4 DEF TypeOK, SubmitRefused, SubmitNotify, Goto, Asleep, workerVars
  <2>3. UNCHANGED <<unsubmitted, finished, tasks_, task>>
    BY <1>4 DEF SubmitRefused, SubmitNotify, workerVars, history
  <2> QED BY <2>1, <2>2, <2>3 DEF InHand, Offered
<1> QED BY <1>1, <1>2, <1>3, <1>4 DEF Client

LEMMA InHandStep == TypeOK /\ InHand /\ [Next]_vars => InHand'
<1> SUFFICES ASSUME TypeOK, InHand, [Next]_vars PROVE InHand'
  OBVIOUS
<1>1. ASSUME NEW s \in Closers, ShutdownBegin(s) \/ Shutdown(s) PROVE InHand'
  <2>1. /\ UNCHANGED <<unsubmitted, finished, tasks_, task, client>>
        /\ \A x \in Workers : at'[x] = "run" => at[x] = "run"
    BY <1>1 DEF TypeOK, ShutdownBegin, Shutdown, ShutdownNotify, ShutdownActive,
      ShutdownPending, ShutdownJoin, Asleep, workerVars, history
  <2> QED BY <2>1 DEF InHand, Offered
<1>2. CASE UNCHANGED vars
  BY <1>2 DEF InHand, Offered, vars, workerVars, history
<1> QED BY <1>1, <1>2, InHandWorker, InHandClient DEF Next

-----------------------------------------------------------------------------
(* The table *)

LEMMA InitTableInv == LifecycleInit => TableInv
<1> SUFFICES ASSUME LifecycleInit PROVE TableInv
  OBVIOUS
<1>1. LifecycleTypeOK
  BY LifecycleAssumption DEF LifecycleInit, LifecycleTypeOK
<1>2. InHand /\ IdsDiffer /\ KnownVms
  BY DEF LifecycleInit, Init, InHand, Offered, Elements, ClientIdle, CallerIdle,
    IdsDiffer, KnownVms
<1>3. Created = {}
  BY DEF LifecycleInit, Created, VMs
<1> QED BY <1>1, <1>2, <1>3 DEF TableInv, TableIsExact, LifecycleInit, Init

\* Created changes only with a caller's coming to or leaving "register".
LEMMA CreatedSame ==
  ASSUME next_vm_id' = next_vm_id,
         \A c \in Clients, v \in VMs : caller'[c] = [pc |-> "register", vm |-> v]
                                         <=> caller[c] = [pc |-> "register", vm |-> v]
  PROVE  Created' = Created
  BY DEF Created

\* A VM of a task that has run was created: it is not one that is being registered.
LEMMA FinishedWereCreated ==
  ASSUME TableInv PROVE {VmOf[t] : t \in finished} \subseteq Created
  BY DEF TableInv, InHand, KnownVms

LEMMA CreateStep ==
  ASSUME TableInv, NEW c \in Clients, CreateX86VM(c)
  PROVE  IdsDiffer' /\ KnownVms' /\ TableIsExact'
<1> DEFINE v == next_vm_id
<1>1. /\ v \in VMs /\ next_vm_id' = v + 1 /\ v \in Nat
      /\ caller' = [caller EXCEPT ![c] = [pc |-> "register", vm |-> v]]
      /\ caller[c] = CallerIdle
      /\ UNCHANGED <<vms_, finished, unsubmitted>>
  BY LifecycleAssumption
    DEF CreateX86VM, NewId, Goes, Free, VMs, poolVars, vars, history
<1>2. \A d \in Clients \ {c} : caller'[d] = caller[d]
  BY <1>1 DEF TableInv, LifecycleTypeOK
<1>3. caller'[c] = [pc |-> "register", vm |-> v]
  BY <1>1 DEF TableInv, LifecycleTypeOK
<1>4. \A d \in Clients : caller[d].pc = "register" => caller[d].vm < v /\ caller[d].vm \in Nat
  BY CallerBusy, LifecycleAssumption DEF TableInv, IdsDiffer, VMs
<1>5. Created' = Created
  <2>1. ASSUME NEW x \in VMs PROVE x \in Created' <=> x \in Created
    <3>1. x \in Nat /\ (x < v + 1 <=> x < v \/ x = v)
      BY <1>1, LifecycleAssumption DEF VMs
    <3>2. CASE x = v
      BY <1>1, <1>3, <3>1, <3>2 DEF Created
    <3>3. CASE x # v
      <4>1. \A d \in Clients : caller'[d] = [pc |-> "register", vm |-> x]
                                 <=> caller[d] = [pc |-> "register", vm |-> x]
        BY <1>1, <1>2, <1>3, <3>3 DEF CallerIdle
      <4> QED BY <1>1, <3>1, <3>3, <4>1 DEF Created
    <3> QED BY <3>2, <3>3
  <2> QED BY <2>1 DEF Created
<1>6. IdsDiffer'
  <2>1. ASSUME NEW d \in Clients, caller'[d].pc = "register" PROVE caller'[d].vm < next_vm_id'
    BY <1>1, <1>2, <1>3, <1>4, <2>1
  <2>2. ASSUME NEW d \in Clients, NEW e \in Clients \ {d},
               caller'[d].pc = "register", caller'[e].pc = "register"
        PROVE  caller'[e].vm # caller'[d].vm
    <3>1. CASE d = c
      BY <1>1, <1>2, <1>3, <1>4, <2>2, <3>1
    <3>2. CASE e = c
      BY <1>1, <1>2, <1>3, <1>4, <2>2, <3>2
    <3>3. CASE d # c /\ e # c
      BY <1>2, <2>2, <3>3 DEF TableInv, IdsDiffer
    <3> QED BY <3>1, <3>2, <3>3
  <2> QED BY <2>1, <2>2 DEF IdsDiffer
<1>7. KnownVms'
  BY <1>1, <1>2, <1>3, <1>5 DEF TableInv, KnownVms, Offered
<1>8. TableIsExact'
  BY <1>1, <1>5 DEF TableInv, TableIsExact
<1> QED BY <1>6, <1>7, <1>8

LEMMA RegisterStep ==
  ASSUME TableInv, NEW c \in Clients, RegisterVm(c)
  PROVE  IdsDiffer' /\ KnownVms' /\ TableIsExact'
<1> DEFINE v == caller[c].vm
<1>1. /\ v \in VMs /\ caller[c] = [pc |-> "register", vm |-> v]
      /\ caller' = [caller EXCEPT ![c] = CallerIdle]
      /\ vms_' = vms_ \cup {v}
      /\ UNCHANGED <<next_vm_id, finished, unsubmitted>>
  <2>1. caller[c] \in [pc : {"register", "find", "submit"}, vm : VMs]
        /\ caller[c].pc = "register"
    BY CallerBusy DEF RegisterVm, TableInv
  <2> QED BY <2>1 DEF RegisterVm, Returns, poolVars, vars, history
<1>2. \A d \in Clients \ {c} : caller'[d] = caller[d]
  BY <1>1 DEF TableInv, LifecycleTypeOK
<1>3. caller'[c] = CallerIdle
  BY <1>1 DEF TableInv, LifecycleTypeOK
<1>4. v < next_vm_id
  BY <1>1 DEF TableInv, IdsDiffer
<1>5. \A d \in Clients \ {c} : caller[d] # [pc |-> "register", vm |-> v]
  BY <1>1 DEF TableInv, IdsDiffer
<1>6. Created' = Created \cup {v}
  <2>1. ASSUME NEW x \in VMs PROVE x \in Created' <=> x \in Created \cup {v}
    <3>1. CASE x = v
      BY <1>1, <1>2, <1>3, <1>4, <1>5, <3>1 DEF Created, CallerIdle
    <3>2. CASE x # v
      <4>1. \A d \in Clients : caller'[d] = [pc |-> "register", vm |-> x]
                                 <=> caller[d] = [pc |-> "register", vm |-> x]
        BY <1>1, <1>2, <1>3, <3>2 DEF CallerIdle
      <4> QED BY <1>1, <3>2, <4>1 DEF Created
    <3> QED BY <3>1, <3>2
  <2> QED BY <1>1, <2>1 DEF Created
<1>7. v \notin Created
  BY <1>1 DEF Created
<1>8. IdsDiffer'
  BY <1>1, <1>2, <1>3 DEF TableInv, IdsDiffer, CallerIdle
<1>9. KnownVms'
  BY <1>1, <1>2, <1>3, <1>6 DEF TableInv, KnownVms, Offered, CallerIdle
<1>10. TableIsExact'
  BY <1>1, <1>6, <1>7, FinishedWereCreated DEF TableInv, TableIsExact
<1> QED BY <1>8, <1>9, <1>10

\* Looking a VM up moves only the caller, to a VM in the table or away.
LEMMA LookupStep ==
  ASSUME TableInv, NEW c \in Clients, FindAgain(c) \/ \E v \in VMs : FindVm(c, v)
  PROVE  IdsDiffer' /\ KnownVms' /\ TableIsExact'
<1>1. /\ caller[c].pc # "register"
      /\ \A d \in Clients \ {c} : caller'[d] = caller[d]
      /\ caller'[c].pc # "register"
      /\ UNCHANGED <<next_vm_id, vms_, finished, unsubmitted>>
  BY DEF TableInv, LifecycleTypeOK, FindAgain, FindVm, Goes, Returns, Free, CallerIdle,
    poolVars, vars, history
<1>2. vms_ \subseteq Created
  BY DEF TableInv, TableIsExact
<1>3. caller'[c].pc \in {"find", "submit"} => caller'[c].vm \in vms_
  BY DEF TableInv, LifecycleTypeOK, FindAgain, FindVm, Goes, Returns, CallerIdle, get_vm
<1>4. Created' = Created
  <2>1. \A d \in Clients, v \in VMs : caller'[d] = [pc |-> "register", vm |-> v]
                                        <=> caller[d] = [pc |-> "register", vm |-> v]
    BY <1>1
  <2> QED BY <1>1, <2>1, CreatedSame
<1>5. IdsDiffer'
  BY <1>1 DEF TableInv, IdsDiffer
<1>6. KnownVms'
  BY <1>1, <1>2, <1>3, <1>4 DEF TableInv, KnownVms, Offered
<1>7. TableIsExact'
  BY <1>1, <1>4 DEF TableInv, TableIsExact
<1> QED BY <1>5, <1>6, <1>7

LEMMA DestroyStep ==
  ASSUME TypeOK, TableInv, NEW c \in Clients, DestroyVm(c)
  PROVE  IdsDiffer' /\ KnownVms' /\ TableIsExact'
<1>1. PICK t \in unsubmitted : VmOf[t] = caller[c].vm /\ Submit(c, t)
  BY DEF DestroyVm
<1>2. /\ caller[c].pc = "submit"
      /\ \A d \in Clients \ {c} : caller'[d] = caller[d]
      /\ caller'[c] = CallerIdle
      /\ UNCHANGED <<next_vm_id, vms_>>
  BY DEF TableInv, LifecycleTypeOK, DestroyVm, Returns
<1>3. unsubmitted' = unsubmitted \ {t} /\ UNCHANGED finished
  BY <1>1 DEF Submit
<1>4. VmOf[t] \in Created
  BY <1>1, <1>2 DEF TableInv, KnownVms
<1>5. Created' = Created
  <2>1. \A d \in Clients, v \in VMs : caller'[d] = [pc |-> "register", vm |-> v]
                                        <=> caller[d] = [pc |-> "register", vm |-> v]
    BY <1>2 DEF CallerIdle
  <2> QED BY <1>2, <2>1, CreatedSame
<1>6. IdsDiffer'
  BY <1>2 DEF TableInv, IdsDiffer, CallerIdle
<1>7. KnownVms'
  BY <1>2, <1>3, <1>4, <1>5 DEF TableInv, KnownVms, Offered, CallerIdle
<1>8. TableIsExact'
  BY <1>2, <1>3, <1>5 DEF TableInv, TableIsExact
<1> QED BY <1>6, <1>7, <1>8

LEMMA UnregisterStep ==
  ASSUME TableInv, NEW w \in Workers, Unregister(w)
  PROVE  IdsDiffer' /\ KnownVms' /\ TableIsExact'
<1>1. /\ finished' = finished \cup {task[w]}
      /\ vms_' = vms_ \ {VmOf[task[w]]}
      /\ UNCHANGED <<next_vm_id, caller, unsubmitted>>
  BY DEF Unregister, WorkerRun
<1>2. Created' = Created
  BY <1>1, CreatedSame
<1>3. {VmOf[t] : t \in finished'} = {VmOf[t] : t \in finished} \cup {VmOf[task[w]]}
  BY <1>1
<1>4. IdsDiffer'
  BY <1>1 DEF TableInv, IdsDiffer
<1>5. KnownVms'
  BY <1>1, <1>2 DEF TableInv, KnownVms, Offered
<1>6. TableIsExact'
  BY <1>1, <1>2, <1>3 DEF TableInv, TableIsExact
<1> QED BY <1>4, <1>5, <1>6

\* The pool's other steps neither offer a task nor end one.
LEMMA OutsideStep ==
  ASSUME TableInv, UNCHANGED <<tableVars, finished, unsubmitted>>
  PROVE  IdsDiffer' /\ KnownVms' /\ TableIsExact'
<1>1. Created' = Created
  BY CreatedSame DEF tableVars
<1> QED BY <1>1 DEF TableInv, IdsDiffer, KnownVms, Offered, TableIsExact, tableVars

LEMMA TableStep ==
  TypeOK /\ TableInv /\ [LifecycleNext]_lifecycleVars => TableInv'
<1> SUFFICES ASSUME TypeOK, TableInv, [LifecycleNext]_lifecycleVars PROVE TableInv'
  OBVIOUS
<1>1. LifecycleTypeOK'
  BY LifecycleTypeStep DEF TableInv
<1>2. InHand'
  BY PoolSteps, InHandStep DEF TableInv
<1>3. IdsDiffer' /\ KnownVms' /\ TableIsExact'
  <2>1. CASE \E c \in Clients : Submitting(c)
    <3>1. UNCHANGED <<tableVars, finished, unsubmitted>>
      BY <2>1 DEF Submitting, Client, SubmitRefused, SubmitCheck, SubmitPush,
        SubmitNotify, history
    <3> QED BY <3>1, OutsideStep
  <2>2. CASE \E w \in Workers : WorkerOutside(w) \/ Spurious(w)
    <3>1. UNCHANGED <<tableVars, finished, unsubmitted>>
      BY <2>2 DEF WorkerOutside, Spurious, WorkerLock, WorkerWait, WorkerSleep,
        WorkerExit, WorkerTake, WorkerDone, WorkerSpurious, history
    <3> QED BY <3>1, OutsideStep
  <2>3. CASE \E s \in Closers : ShuttingDown(s)
    <3>1. UNCHANGED <<tableVars, finished, unsubmitted>>
      BY <2>3 DEF ShuttingDown, ShutdownBegin, Shutdown, ShutdownNotify,
        ShutdownActive, ShutdownPending, ShutdownJoin, history
    <3> QED BY <3>1, OutsideStep
  <2>4. CASE UNCHANGED lifecycleVars
    BY <2>4, OutsideStep DEF lifecycleVars, poolVars, vars, history
  <2> QED BY <2>1, <2>2, <2>3, <2>4, CreateStep, RegisterStep, LookupStep, DestroyStep,
        UnregisterStep DEF LifecycleNext
<1> QED BY <1>1, <1>2, <1>3 DEF TableInv

LEMMA TableHolds == LifecycleSpec => []TableInv
<1>1. LifecycleInit => TypeOK /\ TableInv
  BY InitTableInv, InitPoolInv DEF LifecycleInit, PoolInv
<1>2. PoolInv => TypeOK
  BY DEF PoolInv
<1> QED BY <1>1, <1>2, TableStep, PoolHolds, PTL DEF LifecycleSpec

\* The callers, the table and the id counter keep their types.
THEOREM LifecycleTypeCorrect == LifecycleSpec => []LifecycleTypeOK
<1>1. TableInv => LifecycleTypeOK
  BY DEF TableInv
<1> QED BY <1>1, TableHolds, PTL

\* The table of VMs is what was created without what was destroyed, however
\* many callers create and destroy however many VMs at once.
THEOREM TableStaysExact == LifecycleSpec => []TableIsExact
<1>1. TableInv => TableIsExact
  BY DEF TableInv
<1> QED BY <1>1, TableHolds, PTL

\* Under these callers the pool hands destructions out in order, counts them,
\* and has run every accepted one when its shutdown returns.
THEOREM DestructionsUseThePool ==
  LifecycleSpec => [](TakenInOrder /\ ActiveCounts /\ ShutdownDrains)
<1>1. PoolInv => TakenInOrder /\ ShutdownDrains
  BY DrainedPool DEF PoolInv
<1> QED BY <1>1, PoolHolds, PTL
=============================================================================
