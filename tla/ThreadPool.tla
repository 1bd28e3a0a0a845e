----------------------------- MODULE ThreadPool -----------------------------
(***************************************************************************)
(* The pool that runs VM destruction (include/utils/ThreadPool.h,          *)
(* src/utils/ThreadPool.cpp).  Workers wait on a condition variable for    *)
(* tasks_ under queue_mutex_; submit pushes under the mutex and notifies   *)
(* after it; shutdown sets stop_ and notifies all WITHOUT the mutex, so    *)
(* both may fall between a worker's test of the predicate and its going to *)
(* sleep.  The wait is therefore three steps here: test, sleep, wake.      *)
(*                                                                         *)
(* Tasks are identities, each submitted at most once; what a task does,    *)
(* and the exception it may throw, stay inside it.                         *)
(***************************************************************************)
EXTENDS Naturals, Sequences, FiniteSets

CONSTANTS
  Workers,     \* the pool's threads
  Clients,     \* threads that submit
  Tasks,       \* what they submit
  Closers,     \* threads that call shutdown
  NoTask,
  NoThread

ASSUME PoolAssumption ==
  /\ NoTask \notin Tasks
  /\ NoThread \notin Workers \cup Clients \cup Closers
  /\ Workers \cap Clients = {}
  /\ IsFiniteSet(Workers) /\ Workers # {}

VARIABLES
  tasks_,         \* the queue
  stop_,
  active_tasks_,  \* the counter of running tasks
  queue_mutex_,   \* who holds the mutex
  at,             \* where each worker is
  task,           \* the task each worker holds
  client,         \* where each submitter is, and what it submits
  closer,         \* where each caller of shutdown is
  unsubmitted,    \* tasks not offered yet
  accepted,       \* history: tasks submit put in the queue, in order
  taken,          \* history: tasks workers took from it, in order
  finished        \* history: tasks that ran to their end

workerVars == <<at, task>>
history    == <<unsubmitted, accepted, taken, finished>>
vars == <<tasks_, stop_, active_tasks_, queue_mutex_, workerVars, client, closer, history>>

Elements(s) == {s[i] : i \in DOMAIN s}

ClientIdle == [pc |-> "idle", task |-> NoTask]

TypeOK ==
  /\ tasks_ \in Seq(Tasks)
  /\ stop_ \in BOOLEAN
  /\ active_tasks_ \in Nat
  /\ queue_mutex_ \in Workers \cup Clients \cup {NoThread}
  /\ at \in [Workers -> {"lock", "test", "sleep", "asleep", "run", "done", "exited"}]
  /\ task \in [Workers -> Tasks \cup {NoTask}]
  /\ \A w \in Workers : at[w] = "run" => task[w] # NoTask
  /\ client \in [Clients -> {ClientIdle} \cup
                            [pc : {"check", "push", "notify"}, task : Tasks]]
  /\ closer \in [Closers -> {"idle", "notify", "active", "pending", "join",
                           "returned", "refused"}]
  /\ unsubmitted \subseteq Tasks
  /\ accepted \in Seq(Tasks)
  /\ taken \in Seq(Tasks)
  /\ finished \subseteq Tasks

Init ==
  /\ tasks_ = <<>>
  /\ stop_ = FALSE
  /\ active_tasks_ = 0
  /\ queue_mutex_ = NoThread
  /\ at = [w \in Workers |-> "lock"]
  /\ task = [w \in Workers |-> NoTask]
  /\ client = [c \in Clients |-> ClientIdle]
  /\ closer = [s \in Closers |-> "idle"]
  /\ unsubmitted = Tasks
  /\ accepted = <<>> /\ taken = <<>> /\ finished = {}

Goto(w, pc) == at' = [at EXCEPT ![w] = pc]

Lock(thread) == queue_mutex_ = NoThread /\ queue_mutex_' = thread
Unlock == queue_mutex_' = NoThread

-----------------------------------------------------------------------------
(* worker_loop *)

\* take queue_mutex_, on entry and again after a wake-up
WorkerLock(w) ==
  /\ at[w] = "lock"
  /\ Lock(w)
  /\ Goto(w, "test")
  /\ UNCHANGED <<tasks_, stop_, active_tasks_, task, client, closer, history>>

\* the predicate is false: go to sleep, still holding the mutex
WorkerWait(w) ==
  /\ at[w] = "test" /\ ~stop_ /\ tasks_ = <<>>
  /\ Goto(w, "sleep")
  /\ UNCHANGED <<tasks_, stop_, active_tasks_, queue_mutex_, task, client, closer, history>>

\* condition_.wait starts to block and releases the mutex, in one step
WorkerSleep(w) ==
  /\ at[w] = "sleep"
  /\ Unlock
  /\ Goto(w, "asleep")
  /\ UNCHANGED <<tasks_, stop_, active_tasks_, task, client, closer, history>>

\* a bug to notice: a stopping pool drops the tasks that are left
WorkerExitEarly(w) ==
  /\ at[w] = "test" /\ stop_
  /\ Unlock
  /\ Goto(w, "exited")
  /\ UNCHANGED <<tasks_, stop_, active_tasks_, task, client, closer, history>>

WorkerExit(w) ==
  /\ at[w] = "test" /\ stop_ /\ tasks_ = <<>>
  /\ Unlock
  /\ Goto(w, "exited")
  /\ UNCHANGED <<tasks_, stop_, active_tasks_, task, client, closer, history>>

\* a bug to notice: the task is not counted while it runs
WorkerTakeUncounted(w) ==
  /\ at[w] = "test" /\ tasks_ # <<>>
  /\ task' = [task EXCEPT ![w] = Head(tasks_)]
  /\ taken' = Append(taken, Head(tasks_))
  /\ tasks_' = Tail(tasks_)
  /\ Unlock
  /\ Goto(w, "run")
  /\ UNCHANGED <<stop_, active_tasks_, client, closer, unsubmitted, accepted, finished>>

WorkerTake(w) ==
  /\ at[w] = "test" /\ tasks_ # <<>>
  /\ task' = [task EXCEPT ![w] = Head(tasks_)]
  /\ taken' = Append(taken, Head(tasks_))
  /\ tasks_' = Tail(tasks_)
  /\ active_tasks_' = active_tasks_ + 1
  /\ Unlock
  /\ Goto(w, "run")
  /\ UNCHANGED <<stop_, client, closer, unsubmitted, accepted, finished>>

\* the task returns or throws; both are caught
WorkerRun(w) ==
  /\ at[w] = "run"
  /\ finished' = finished \cup {task[w]}
  /\ Goto(w, "done")
  /\ UNCHANGED <<tasks_, stop_, active_tasks_, queue_mutex_, task, client, closer,
                 unsubmitted, accepted, taken>>

\* a bug to notice: a task that throws is not discounted
WorkerDoneUnlessThrown(w) ==
  /\ at[w] = "done"
  /\ active_tasks_' \in {active_tasks_, active_tasks_ - 1}
  /\ task' = [task EXCEPT ![w] = NoTask]
  /\ Goto(w, "lock")
  /\ UNCHANGED <<tasks_, stop_, queue_mutex_, client, closer, history>>

WorkerDone(w) ==
  /\ at[w] = "done"
  /\ active_tasks_' = active_tasks_ - 1
  /\ task' = [task EXCEPT ![w] = NoTask]
  /\ Goto(w, "lock")
  /\ UNCHANGED <<tasks_, stop_, queue_mutex_, client, closer, history>>

\* condition variables wake up spuriously
WorkerSpurious(w) ==
  /\ at[w] = "asleep"
  /\ Goto(w, "lock")
  /\ UNCHANGED <<tasks_, stop_, active_tasks_, queue_mutex_, task, client, closer, history>>

-----------------------------------------------------------------------------
(* submit, both overloads *)

Submit(c, t) ==
  /\ client[c].pc = "idle" /\ t \in unsubmitted
  /\ Lock(c)
  /\ unsubmitted' = unsubmitted \ {t}
  /\ client' = [client EXCEPT ![c] = [pc |-> "check", task |-> t]]
  /\ UNCHANGED <<tasks_, stop_, active_tasks_, workerVars, closer, accepted, taken, finished>>

\* stop_ is set: throw, which releases the mutex
SubmitRefused(c) ==
  /\ client[c].pc = "check" /\ stop_
  /\ Unlock
  /\ client' = [client EXCEPT ![c] = ClientIdle]
  /\ UNCHANGED <<tasks_, stop_, active_tasks_, workerVars, closer, history>>

\* shutdown takes no lock: it may set stop_ between this test and the push
SubmitCheck(c) ==
  /\ client[c].pc = "check" /\ ~stop_
  /\ client' = [client EXCEPT ![c].pc = "push"]
  /\ UNCHANGED <<tasks_, stop_, active_tasks_, queue_mutex_, workerVars, closer, history>>

\* a bug to notice: the newest task comes first
SubmitPushFront(c) ==
  /\ client[c].pc = "push"
  /\ tasks_' = <<client[c].task>> \o tasks_
  /\ accepted' = Append(accepted, client[c].task)
  /\ Unlock
  /\ client' = [client EXCEPT ![c].pc = "notify"]
  /\ UNCHANGED <<stop_, active_tasks_, workerVars, closer, unsubmitted, taken, finished>>

SubmitPush(c) ==
  /\ client[c].pc = "push"
  /\ tasks_' = Append(tasks_, client[c].task)
  /\ accepted' = Append(accepted, client[c].task)
  /\ Unlock
  /\ client' = [client EXCEPT ![c].pc = "notify"]
  /\ UNCHANGED <<stop_, active_tasks_, workerVars, closer, unsubmitted, taken, finished>>

\* a bug to notice: nobody is notified
SubmitSilent(c) ==
  /\ client[c].pc = "notify"
  /\ client' = [client EXCEPT ![c] = ClientIdle]
  /\ UNCHANGED <<tasks_, stop_, active_tasks_, queue_mutex_, workerVars, closer, history>>

Asleep == {w \in Workers : at[w] = "asleep"}

\* notify_one: some waiter wakes up, if there is one
SubmitNotify(c) ==
  /\ client[c].pc = "notify"
  /\ client' = [client EXCEPT ![c] = ClientIdle]
  /\ IF Asleep = {} THEN UNCHANGED at ELSE \E w \in Asleep : Goto(w, "lock")
  /\ UNCHANGED <<tasks_, stop_, active_tasks_, queue_mutex_, task, closer, history>>

-----------------------------------------------------------------------------
(* shutdown *)

\* the compare-and-swap on stop_: the second caller returns at once
ShutdownBegin(s) ==
  /\ closer[s] = "idle"
  /\ stop_' = TRUE
  /\ closer' = [closer EXCEPT ![s] = IF stop_ THEN "refused" ELSE "notify"]
  /\ UNCHANGED <<tasks_, active_tasks_, queue_mutex_, workerVars, client, history>>

\* notify_all, then drain if asked to (wait_for_completion), else join
ShutdownNotify(s, wait_for_completion) ==
  /\ closer[s] = "notify"
  /\ at' = [w \in Workers |-> IF w \in Asleep THEN "lock" ELSE at[w]]
  /\ closer' = [closer EXCEPT ![s] = IF wait_for_completion THEN "active" ELSE "join"]
  /\ UNCHANGED <<tasks_, stop_, active_tasks_, queue_mutex_, task, client, history>>

\* active_tasks_.load() > 0 || get_pending_task_count() > 0, left to right
ShutdownActive(s) ==
  /\ closer[s] = "active"
  /\ active_tasks_ = 0
  /\ closer' = [closer EXCEPT ![s] = "pending"]
  /\ UNCHANGED <<tasks_, stop_, active_tasks_, queue_mutex_, workerVars, client, history>>

ShutdownPending(s) ==
  /\ closer[s] = "pending"
  /\ queue_mutex_ = NoThread
  /\ closer' = [closer EXCEPT ![s] = IF tasks_ = <<>> THEN "join" ELSE "active"]
  /\ UNCHANGED <<tasks_, stop_, active_tasks_, queue_mutex_, workerVars, client, history>>

ShutdownJoin(s) ==
  /\ closer[s] = "join"
  /\ \A w \in Workers : at[w] = "exited"
  /\ closer' = [closer EXCEPT ![s] = "returned"]
  /\ UNCHANGED <<tasks_, stop_, active_tasks_, queue_mutex_, workerVars, client, history>>

-----------------------------------------------------------------------------
Worker(w) == WorkerLock(w) \/ WorkerWait(w) \/ WorkerSleep(w) \/ WorkerExit(w)
               \/ WorkerTake(w) \/ WorkerRun(w) \/ WorkerDone(w)

Client(c) == SubmitRefused(c) \/ SubmitCheck(c) \/ SubmitPush(c) \/ SubmitNotify(c)

Shutdown(s) == (\E wait \in BOOLEAN : ShutdownNotify(s, wait))
                 \/ ShutdownActive(s) \/ ShutdownPending(s) \/ ShutdownJoin(s)

Next ==
  \/ \E w \in Workers : Worker(w) \/ WorkerSpurious(w)
  \/ \E c \in Clients : Client(c) \/ \E t \in Tasks : Submit(c, t)
  \/ \E s \in Closers : ShutdownBegin(s) \/ Shutdown(s)

\* Every thread runs, and a thread that keeps asking for the mutex gets it.
\* Nobody has to submit, to shut down or to wake up spuriously.
Fairness ==
  /\ \A w \in Workers : WF_vars(Worker(w)) /\ SF_vars(WorkerLock(w))
  /\ \A c \in Clients : WF_vars(Client(c))
  /\ \A s \in Closers : WF_vars(Shutdown(s)) /\ SF_vars(ShutdownPending(s))

Spec == Init /\ [][Next]_vars /\ Fairness

-----------------------------------------------------------------------------
(* Properties *)

\* The queue hands tasks over in the order they were accepted, each to one
\* worker, whatever submit, wake-ups and shutdown do.
TakenInOrder == accepted = taken \o tasks_

\* active_tasks_, which shutdown trusts, counts the workers between taking a
\* task and having finished it.
ActiveCounts ==
  active_tasks_ = Cardinality({w \in Workers : at[w] \in {"run", "done"}})

\* The shutdown that won the race for stop_ returns only when every task
\* that submit ever accepted has run, those accepted after stop_ was set
\* included, and no worker is left: the pool may be destroyed then.  The
\* ones that lost the race return earlier and promise nothing.
ShutdownDrains ==
  \A s \in Closers : closer[s] = "returned" =>
    /\ Elements(accepted) \subseteq finished
    /\ \A w \in Workers : at[w] = "exited"

\* An accepted task runs, even when every worker is asleep and shutdown's
\* notification is missed.
AcceptedRuns ==
  \A t \in Tasks : t \in Elements(accepted) ~> t \in finished

\* "Graceful shutdown: wait until all tasks are done" (ThreadPool.h): the
\* call returns.
ShutdownReturns ==
  \A s \in Closers : closer[s] = "notify" ~> closer[s] = "returned"

-----------------------------------------------------------------------------
(* What makes ShutdownDrains inductive *)

\* Inside the critical sections the mutex is held.
MutexHeld ==
  /\ \A w \in Workers : at[w] \in {"test", "sleep"} => queue_mutex_ = w
  /\ \A c \in Clients : client[c].pc \in {"check", "push"} => queue_mutex_ = c

\* A task that was taken is running or has run.
TakenRuns ==
  \A t \in Elements(taken) :
    t \in finished \/ \E w \in Workers : at[w] = "run" /\ task[w] = t

\* From the first worker's exit on, nothing is queued any more.
NothingAfterExit ==
  (\E w \in Workers : at[w] = "exited") =>
    stop_ /\ tasks_ = <<>> /\ \A c \in Clients : client[c].pc # "push"

JoinedAll ==
  \A s \in Closers : closer[s] = "returned" => \A w \in Workers : at[w] = "exited"

PoolInv ==
  TypeOK /\ MutexHeld /\ TakenInOrder /\ TakenRuns /\ NothingAfterExit /\ JoinedAll
=============================================================================
