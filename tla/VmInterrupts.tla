---------------------------- MODULE VmInterrupts ----------------------------
(***************************************************************************)
(* How a VM waits for a device (vm/VmManager.cpp, vm/mVM.cpp, vm/baseVM.h, *)
(* periph/Disk.cpp, NIC.cpp, Terminal.cpp).                                *)
(*                                                                         *)
(* A VM thread sends an INTERRUPT_REQUEST and suspends.  The router's      *)
(* polling thread runs VmManager's handler: block the VM in the scheduler, *)
(* register a timeout, record the request in pending_interrupts_, forward  *)
(* it.  Devices see both copies of a request, the VM's and the forwarded   *)
(* one, and may answer each from a thread of their own.  VmManager's       *)
(* worker takes answers from async_result_queue_, runs the expired         *)
(* timeouts, whose callbacks put a timeout answer in that queue, and scans *)
(* pending_interrupts_ for requests that are overdue all the same.         *)
(*                                                                         *)
(* All of them send through the ring of LockFreeMessageQueue at the same   *)
(* time, though it is made for one sender: a push is the four accesses of  *)
(* try_push, so that two of them overwrite each other's slot or move tail_ *)
(* back, which drops messages or delivers old ones again.  try_pop, whose  *)
(* only caller is the polling thread, is one step, and so is the copying   *)
(* of a message.                                                           *)
(*                                                                         *)
(* Timeouts keep TimeoutManager's order: armed, collected, then run, and   *)
(* cancelling only works on an armed one.  Register values and the         *)
(* statistics are left out.                                                *)
(***************************************************************************)
EXTENDS Integers, Sequences

CONSTANTS
  VMs,                \* vm ids
  MODULE_VM_MANAGER,  \* the module id that VmManager forwards requests under
  Kinds,              \* interrupt types requested, out of "SYSTEM", "READ", "WRITE"
  MAX_QUEUE_SIZE,     \* slots of the router's ring, one of which stays empty
  Removable,          \* bound: VMs that may be unregistered
  MaxRequests,        \* bound: requests the VMs send
  MaxAnswers,         \* bound: answers the devices prepare
  MaxOverlaps,        \* bound: sends begun while another one is in progress
  MaxTimers           \* bound: timeouts registered; large enough that the
                      \* polling thread never waits for it

ASSUME VmAssumption ==
  /\ VMs \subseteq Nat /\ MODULE_VM_MANAGER \in Nat
  /\ Kinds \subseteq {"SYSTEM", "READ", "WRITE"}
  /\ MAX_QUEUE_SIZE \in Nat /\ MAX_QUEUE_SIZE >= 2
  /\ MaxRequests \in Nat /\ MaxAnswers \in Nat
  /\ MaxOverlaps \in Nat /\ MaxTimers \in Nat

VARIABLES
  vms_,                \* VMs registered with VmManager and the scheduler
  state,               \* state_ of each VM
  thread,              \* where each VM's thread is
  queue_, head_, tail_, \* the router's ring of messages
  push,                \* per sender: where it is in try_push, and its locals
  overlaps,            \* how many sends overlapped another one
  at, msg,             \* where the polling thread and the worker are, and the
  vm, tid,             \* locals of the handlers they run
  timed_out,           \* the worker's list of overdue VMs
  answers,             \* per receiver: device threads about to send a result
  prepared,            \* how many such threads were started
  blocked,             \* VMs the scheduler keeps from running
  timer, timer_vm,     \* each timeout's progress, and the VM it is for
  next_timer,          \* the next timeout id
  age,                 \* 0, 1: the request is overdue, 2: its timeout is due
  pending_interrupts_, \* per VM the timeout id of the recorded request, or 0
  async_result_queue_, \* results waiting for the worker, as the VM they are for
  sent,                \* how many requests were sent
  lost                 \* history: VMs whose request the ring refused, or lost
                       \* to a send that overlapped another one

vmVars    == <<state, thread, sent, lost>>
ring      == <<queue_, head_, tail_, push, overlaps>>
locals    == <<at, msg, vm, tid, timed_out>>
timerVars == <<timer, timer_vm, next_timer, age>>
devices   == <<answers, prepared>>
vars == <<vms_, vmVars, ring, locals, devices, blocked, timerVars,
          pending_interrupts_, async_result_queue_>>

Ids     == VMs \cup {MODULE_VM_MANAGER}
Timers  == 1 .. MaxTimers
Threads == {"poller", "worker"}
Index   == 0 .. MAX_QUEUE_SIZE - 1

\* The threads that send: the VMs', the polling thread when it forwards a
\* request, and the devices' detached ones.
VmSender(v)     == <<"vm", v>>
PollerSender    == <<"poller", 0>>
DeviceSender(d) == <<"device", d>>
Senders == {VmSender(v) : v \in VMs} \cup {PollerSender}
             \cup {DeviceSender(d) : d \in 1 .. MaxAnswers}

Request(sender, v, kind) ==
  [type |-> "INTERRUPT_REQUEST", sender |-> sender, vm |-> v, kind |-> kind]
Result(v) ==
  [type |-> "INTERRUPT_RESULT_READY", sender |-> v, vm |-> v, kind |-> "SYSTEM"]

Message == [type : {"INTERRUPT_REQUEST", "INTERRUPT_RESULT_READY", "ROUTER_PING"},
            sender : Ids, vm : Ids, kind : {"SYSTEM", "READ", "WRITE"}]

\* What a slot holds before the first message: no handler wants it.
NoMessage == [Result(MODULE_VM_MANAGER) EXCEPT !.type = "ROUTER_PING"]

PushIdle == [pc |-> "idle", tail |-> 0, msg |-> NoMessage]

TypeOK ==
  /\ vms_ \subseteq VMs
  /\ blocked \subseteq vms_
  /\ state \in [VMs -> {"RUNNING", "SUSPENDED", "TERMINATED"}]
  /\ thread \in [VMs -> {"loop", "send", "recheck", "exited"}]
  /\ queue_ \in [Index -> Message]
  /\ head_ \in Index /\ tail_ \in Index
  /\ push \in [Senders -> [pc : {"idle", "check", "write", "publish"},
                           tail : Index, msg : Message]]
  /\ overlaps \in 0 .. MaxOverlaps
  /\ at \in [Threads -> {"idle", "block", "register", "record", "forward",
                         "send", "device", "lookup", "cancel", "push", "drain", "erase",
                         "wake", "deliver", "collect", "callbacks", "scan",
                         "late", "late_deliver"}]
  /\ msg \in Message
  /\ vm \in [Threads -> Ids]
  /\ tid \in [Threads -> Timers \cup {0}]
  /\ timed_out \subseteq VMs
  /\ answers \in [Ids -> Nat]
  /\ prepared \in 0 .. MaxAnswers
  /\ timer \in [Timers -> {"none", "armed", "cancelled", "collected", "ran"}]
  /\ timer_vm \in [Timers -> Ids]
  /\ next_timer \in 1 .. MaxTimers + 1
  /\ age \in [Timers -> 0 .. 2]
  /\ pending_interrupts_ \in [VMs -> Timers \cup {0}]
  /\ async_result_queue_ \in Seq(Ids)
  /\ sent \in 0 .. MaxRequests
  /\ lost \subseteq VMs

Init ==
  /\ vms_ = VMs
  /\ blocked = {}
  /\ state = [v \in VMs |-> "RUNNING"]
  /\ thread = [v \in VMs |-> "loop"]
  /\ queue_ = [i \in Index |-> NoMessage]
  /\ head_ = 0 /\ tail_ = 0
  /\ push = [s \in Senders |-> PushIdle]
  /\ overlaps = 0
  /\ at = [t \in Threads |-> "idle"]
  /\ msg = NoMessage
  /\ vm = [t \in Threads |-> MODULE_VM_MANAGER]
  /\ tid = [t \in Threads |-> 0]
  /\ timed_out = {}
  /\ answers = [i \in Ids |-> 0]
  /\ prepared = 0
  /\ timer = [i \in Timers |-> "none"]
  /\ timer_vm = [i \in Timers |-> MODULE_VM_MANAGER]
  /\ next_timer = 1
  /\ age = [i \in Timers |-> 0]
  /\ pending_interrupts_ = [v \in VMs |-> 0]
  /\ async_result_queue_ = <<>>
  /\ sent = 0
  /\ lost = {}

Goto(t, pc) == at' = [at EXCEPT ![t] = pc]

\* A handler's locals end with it.
Return(t, pc) ==
  /\ Goto(t, pc)
  /\ vm' = [vm EXCEPT ![t] = MODULE_VM_MANAGER]
  /\ tid' = [tid EXCEPT ![t] = 0]

-----------------------------------------------------------------------------
(* The router's ring: send, try_push and try_pop *)

Advance(i) == (i + 1) % MAX_QUEUE_SIZE

\* the slots from head_ up to tail_, which try_pop will return
Live == IF head_ <= tail_ THEN head_ .. tail_ - 1
                          ELSE Index \ (tail_ .. head_ - 1)

\* A request of VM v waits in the ring.
Queued(v) == \E i \in Live : /\ queue_[i].type = "INTERRUPT_REQUEST"
                            /\ queue_[i].sender = v /\ queue_[i].vm = v

\* current_tail = tail_.load(): sender s begins to send m
PushBegin(s, m) ==
  /\ push[s].pc = "idle"
  /\ IF \A o \in Senders : push[o].pc = "idle"
       THEN UNCHANGED overlaps
       ELSE overlaps < MaxOverlaps /\ overlaps' = overlaps + 1
  /\ push' = [push EXCEPT ![s] = [pc |-> "check", tail |-> tail_, msg |-> m]]
  /\ UNCHANGED <<queue_, head_, tail_>>

\* The sender returns to its caller, which does not look at the result.  A
\* VM suspends itself before it releases exec_mtx, so nobody sees it between.
PushReturn(s) ==
  /\ push' = [push EXCEPT ![s] = PushIdle]
  /\ state' = [v \in VMs |-> IF s = VmSender(v) THEN "SUSPENDED" ELSE state[v]]
  /\ thread' = [v \in VMs |-> IF s = VmSender(v) THEN "recheck" ELSE thread[v]]
  /\ at' = IF s = PollerSender THEN [at EXCEPT !["poller"] = "device"] ELSE at
  /\ UNCHANGED <<vms_, sent, overlaps, msg, vm, tid, timed_out, devices,
                 blocked, timerVars, pending_interrupts_, async_result_queue_>>

PushHasRoom(s) ==
  /\ push[s].pc = "check" /\ Advance(push[s].tail) # head_
  /\ push' = [push EXCEPT ![s].pc = "write"]
  /\ UNCHANGED <<vms_, vmVars, queue_, head_, tail_, overlaps, locals, devices,
                 blocked, timerVars, pending_interrupts_, async_result_queue_>>

\* route_send drops the message when the ring is full
PushFull(s) ==
  /\ push[s].pc = "check" /\ Advance(push[s].tail) = head_
  /\ PushReturn(s)
  /\ lost' = lost \cup {v \in VMs : s = VmSender(v)}
  /\ UNCHANGED <<queue_, head_, tail_>>

\* queue_[current_tail] = msg, over a message of another sender perhaps
PushWrite(s) ==
  /\ push[s].pc = "write"
  /\ queue_' = [queue_ EXCEPT ![push[s].tail] = push[s].msg]
  /\ push' = [push EXCEPT ![s].pc = "publish"]
  /\ UNCHANGED <<head_, tail_, overlaps>>
  /\ lost' = lost \cup {v \in VMs : Queued(v) /\ ~Queued(v)'}
  /\ UNCHANGED <<vms_, state, thread, sent, locals, devices, blocked, timerVars,
                 pending_interrupts_, async_result_queue_>>

\* tail_.store(next_tail), which may be behind what others stored
PushPublish(s) ==
  /\ push[s].pc = "publish"
  /\ tail_' = Advance(push[s].tail)
  /\ UNCHANGED <<queue_, head_>>
  /\ PushReturn(s)
  /\ lost' = lost \cup {v \in VMs : (Queued(v) \/ s = VmSender(v)) /\ ~Queued(v)'}

Oldest == queue_[head_]

\* try_pop takes the front message
Pop ==
  /\ head_ # tail_
  /\ head_' = Advance(head_)
  /\ UNCHANGED <<queue_, tail_, push, overlaps>>

-----------------------------------------------------------------------------
(* The VM's thread: run_loop and execute_instruction *)

\* INPUT or OUTPUT, under exec_mtx: send the request, then suspend
ExecuteRequest(v, kind) ==
  /\ thread[v] = "loop" /\ state[v] # "SUSPENDED"
  /\ sent < MaxRequests
  /\ sent' = sent + 1
  /\ PushBegin(VmSender(v), Request(v, v, kind))
  /\ lost' = lost \ {v}
  /\ thread' = [thread EXCEPT ![v] = "send"]
  /\ UNCHANGED <<vms_, state, locals, devices, blocked, timerVars,
                 pending_interrupts_, async_result_queue_>>

\* exec_mtx was free in between: an answer may have come already, and then
\* the loop takes the suspended instruction for a HALT
Recheck(v) ==
  /\ thread[v] = "recheck"
  /\ IF state[v] = "SUSPENDED"
       THEN thread' = [thread EXCEPT ![v] = "loop"] /\ UNCHANGED state
       ELSE /\ thread' = [thread EXCEPT ![v] = "exited"]
            /\ state' = [state EXCEPT ![v] = "TERMINATED"]
  /\ UNCHANGED <<vms_, sent, lost, ring, locals, devices, blocked, timerVars,
                 pending_interrupts_, async_result_queue_>>

\* HALT or the program's end, or running_ cleared by stop(), which ends the
\* loop of a suspended VM too and leaves it suspended
ThreadExit(v) ==
  /\ thread[v] = "loop"
  /\ thread' = [thread EXCEPT ![v] = "exited"]
  /\ state' = [state EXCEPT ![v] = IF @ = "SUSPENDED" THEN @ ELSE "TERMINATED"]
  /\ UNCHANGED <<vms_, sent, lost, ring, locals, devices, blocked, timerVars,
                 pending_interrupts_, async_result_queue_>>

\* unregister_vm, run by the lifecycle pool after stop() or by destroyVM.
\* vm_mtx_ is held throughout, so it is one step for everyone else.
Unregister(v) ==
  /\ v \in vms_ \cap Removable
  /\ vms_' = vms_ \ {v}
  /\ blocked' = blocked \ {v}
  /\ timer' = [i \in Timers |->
       IF i = pending_interrupts_[v] /\ timer[i] = "armed" THEN "cancelled"
                                                           ELSE timer[i]]
  /\ pending_interrupts_' = [pending_interrupts_ EXCEPT ![v] = 0]
  /\ UNCHANGED <<vmVars, ring, locals, devices, timer_vm, next_timer, age,
                 async_result_queue_>>

-----------------------------------------------------------------------------
(* on_interrupt_request, on the polling thread *)

\* Pop a message that is no result.  A request under the manager's own id is
\* not handled, nor one of a VM that is not registered; a slot that was never
\* written is nobody's.
PollRequest ==
  /\ at["poller"] = "idle" /\ Pop
  /\ Oldest.type # "INTERRUPT_RESULT_READY"
  /\ msg' = Oldest
  /\ Goto("poller", IF /\ Oldest.type = "INTERRUPT_REQUEST"
                       /\ Oldest.sender # MODULE_VM_MANAGER /\ Oldest.vm \in vms_
                      THEN "block" ELSE "device")
  /\ UNCHANGED <<vms_, vmVars, vm, tid, timed_out, devices, blocked, timerVars,
                 pending_interrupts_, async_result_queue_>>

\* a bug to notice: the scheduler blocks VMs it does not know
BlockUnknown ==
  /\ at["poller"] = "block"
  /\ blocked' = blocked \cup {msg.vm}
  /\ Goto("poller", "register")
  /\ UNCHANGED <<vms_, vmVars, ring, msg, vm, tid, timed_out, devices, timerVars,
                 pending_interrupts_, async_result_queue_>>

\* SchedulerManager::block_vm; the VM may be unregistered by now
Block ==
  /\ at["poller"] = "block"
  /\ blocked' = blocked \cup ({msg.vm} \cap vms_)
  /\ Goto("poller", "register")
  /\ UNCHANGED <<vms_, vmVars, ring, msg, vm, tid, timed_out, devices, timerVars,
                 pending_interrupts_, async_result_queue_>>

RegisterTimeout ==
  /\ at["poller"] = "register"
  /\ next_timer <= MaxTimers
  /\ timer' = [timer EXCEPT ![next_timer] = "armed"]
  /\ timer_vm' = [timer_vm EXCEPT ![next_timer] = msg.vm]
  /\ tid' = [tid EXCEPT !["poller"] = next_timer]
  /\ next_timer' = next_timer + 1
  /\ Goto("poller", "record")
  /\ UNCHANGED <<vms_, vmVars, ring, msg, vm, timed_out, devices, blocked, age,
                 pending_interrupts_, async_result_queue_>>

\* pending_interrupts_[vm_id] = pending, replacing what was there
RecordPending ==
  /\ at["poller"] = "record"
  /\ pending_interrupts_' = [pending_interrupts_ EXCEPT ![msg.vm] = tid["poller"]]
  /\ Goto("poller", "forward")
  /\ UNCHANGED <<vms_, vmVars, ring, msg, vm, tid, timed_out, devices, blocked,
                 timerVars, async_result_queue_>>

Forward ==
  /\ at["poller"] = "forward"
  /\ PushBegin(PollerSender, Request(MODULE_VM_MANAGER, msg.vm, msg.kind))
  /\ Goto("poller", "send")
  /\ UNCHANGED <<vms_, vmVars, msg, vm, tid, timed_out, devices, blocked, timerVars,
                 pending_interrupts_, async_result_queue_>>

\* The devices' handlers, called for the message the poller popped: a read
\* answers the VM, a write answers whoever sent the message, a SYSTEM
\* request is nobody's.
DeviceHandle ==
  /\ at["poller"] = "device"
  /\ IF msg.kind = "SYSTEM" \/ prepared = MaxAnswers
       THEN UNCHANGED devices
       ELSE LET receiver == IF msg.kind = "READ" THEN msg.vm ELSE msg.sender
            IN  /\ answers' = [answers EXCEPT ![receiver] = @ + 1]
                /\ prepared' = prepared + 1
  /\ Return("poller", "idle") /\ msg' = NoMessage
  /\ UNCHANGED <<vms_, vmVars, ring, timed_out, blocked, timerVars,
                 pending_interrupts_, async_result_queue_>>

\* send_result's detached thread
DeviceAnswer(i, d) ==
  /\ answers[i] > 0
  /\ answers' = [answers EXCEPT ![i] = @ - 1]
  /\ PushBegin(DeviceSender(d), Result(i))
  /\ UNCHANGED <<prepared, vms_, vmVars, locals, blocked, timerVars,
                 pending_interrupts_, async_result_queue_>>

-----------------------------------------------------------------------------
(* on_interrupt_result, on the polling thread for a device's answer and on  *)
(* the worker, inside process_timeouts, for a timeout                       *)

PollResult ==
  /\ at["poller"] = "idle" /\ Pop
  /\ Oldest.type = "INTERRUPT_RESULT_READY"
  /\ vm' = [vm EXCEPT !["poller"] = Oldest.vm]
  /\ Goto("poller", "lookup")
  /\ UNCHANGED <<vms_, vmVars, msg, tid, timed_out, devices, blocked, timerVars,
                 pending_interrupts_, async_result_queue_>>

PendingOf(v) == IF v \in VMs THEN pending_interrupts_[v] ELSE 0

ResultLookup(t) ==
  /\ at[t] = "lookup"
  /\ tid' = [tid EXCEPT ![t] = PendingOf(vm[t])]
  /\ Goto(t, "cancel")
  /\ UNCHANGED <<vms_, vmVars, ring, msg, vm, timed_out, devices, blocked,
                 timerVars, pending_interrupts_, async_result_queue_>>

\* a bug to notice: a result without a recorded request is thrown away
ResultCancelStrict(t) ==
  /\ at[t] = "cancel"
  /\ timer' = [i \in Timers |->
       IF i = tid[t] /\ timer[i] = "armed" THEN "cancelled" ELSE timer[i]]
  /\ Goto(t, IF tid[t] # 0 THEN "push"
             ELSE IF t = "poller" THEN "idle" ELSE "callbacks")
  /\ UNCHANGED <<vms_, vmVars, ring, msg, vm, tid, timed_out, devices, blocked,
                 timer_vm, next_timer, age, pending_interrupts_,
                 async_result_queue_>>

ResultCancel(t) ==
  /\ at[t] = "cancel"
  /\ timer' = [i \in Timers |->
       IF i = tid[t] /\ timer[i] = "armed" THEN "cancelled" ELSE timer[i]]
  /\ Goto(t, "push")
  /\ UNCHANGED <<vms_, vmVars, ring, msg, vm, tid, timed_out, devices, blocked,
                 timer_vm, next_timer, age, pending_interrupts_,
                 async_result_queue_>>

\* The worker holds async_result_mtx_ while it works through the queue.
AsyncLocked == at["worker"] \in {"drain", "erase", "wake", "deliver"}

ResultPush(t) ==
  /\ at[t] = "push" /\ ~AsyncLocked
  /\ async_result_queue_' = Append(async_result_queue_, vm[t])
  /\ Return(t, IF t = "poller" THEN "idle" ELSE "callbacks")
  /\ UNCHANGED <<vms_, vmVars, ring, msg, timed_out, devices, blocked, timerVars,
                 pending_interrupts_>>

-----------------------------------------------------------------------------
(* worker_loop *)

\* step 1: the queue, front to back, until it is empty
AsyncTake ==
  /\ at["worker"] \in {"idle", "drain"} /\ async_result_queue_ # <<>>
  /\ vm' = [vm EXCEPT !["worker"] = Head(async_result_queue_)]
  /\ async_result_queue_' = Tail(async_result_queue_)
  /\ Goto("worker", "erase")
  /\ UNCHANGED <<vms_, vmVars, ring, msg, tid, timed_out, devices, blocked,
                 timerVars, pending_interrupts_>>

AsyncDone ==
  /\ at["worker"] \in {"idle", "drain"} /\ async_result_queue_ = <<>>
  /\ Goto("worker", "collect")
  /\ UNCHANGED <<vms_, vmVars, ring, msg, vm, tid, timed_out, devices, blocked,
                 timerVars, pending_interrupts_, async_result_queue_>>

\* process_async_result: whatever request of the VM is recorded goes
AsyncErase ==
  /\ at["worker"] = "erase"
  /\ pending_interrupts_' =
       [v \in VMs |-> IF v = vm["worker"] THEN 0 ELSE pending_interrupts_[v]]
  /\ Goto("worker", "wake")
  /\ UNCHANGED <<vms_, vmVars, ring, msg, vm, tid, timed_out, devices, blocked,
                 timerVars, async_result_queue_>>

\* a bug to notice: the scheduler is not told
AsyncWakeForgotten ==
  /\ at["worker"] = "wake"
  /\ Goto("worker", "deliver")
  /\ UNCHANGED <<vms_, vmVars, ring, msg, vm, tid, timed_out, devices, blocked,
                 timerVars, pending_interrupts_, async_result_queue_>>

AsyncWake ==
  /\ at["worker"] = "wake"
  /\ blocked' = blocked \ {vm["worker"]}
  /\ Goto("worker", "deliver")
  /\ UNCHANGED <<vms_, vmVars, ring, msg, vm, tid, timed_out, devices,
                 timerVars, pending_interrupts_, async_result_queue_>>

\* a bug to notice: a VM's answer is dropped unless its thread re-checked
HandleInterruptEarly(v) ==
  /\ v \in vms_ => thread[v] # "send"
  /\ state' = [u \in VMs |-> IF u = v /\ v \in vms_ /\ thread[v] # "recheck"
                            THEN "RUNNING" ELSE state[u]]

\* handle_interrupt under exec_mtx, when get_vm finds the VM: whatever the
\* state was
HandleInterrupt(v) ==
  /\ v \in vms_ => thread[v] # "send"
  /\ state' = [u \in VMs |-> IF u = v /\ v \in vms_ THEN "RUNNING" ELSE state[u]]

AsyncDeliver ==
  /\ at["worker"] = "deliver"
  /\ HandleInterrupt(vm["worker"])
  /\ Return("worker", "drain")
  /\ UNCHANGED <<vms_, thread, sent, lost, ring, msg, timed_out, devices,
                 blocked, timerVars, pending_interrupts_, async_result_queue_>>

\* step 2: process_timeouts collects what is due, then runs each callback
CollectTimeouts ==
  /\ at["worker"] = "collect"
  /\ LET Due == {i \in Timers : timer[i] = "armed" /\ age[i] = 2}
     IN  timer' = [i \in Timers |-> IF i \in Due THEN "collected" ELSE timer[i]]
  /\ Goto("worker", "callbacks")
  /\ UNCHANGED <<vms_, vmVars, ring, msg, vm, tid, timed_out, devices, blocked,
                 timer_vm, next_timer, age, pending_interrupts_, async_result_queue_>>

TimeoutCallback(i) ==
  /\ at["worker"] = "callbacks" /\ timer[i] = "collected"
  /\ timer' = [timer EXCEPT ![i] = "ran"]
  /\ vm' = [vm EXCEPT !["worker"] = timer_vm[i]]
  /\ Goto("worker", "lookup")
  /\ UNCHANGED <<vms_, vmVars, ring, msg, tid, timed_out, devices, blocked,
                 timer_vm, next_timer, age, pending_interrupts_, async_result_queue_>>

CallbacksDone ==
  /\ at["worker"] = "callbacks" /\ \A i \in Timers : timer[i] # "collected"
  /\ Goto("worker", "scan")
  /\ UNCHANGED <<vms_, vmVars, ring, msg, vm, tid, timed_out, devices, blocked,
                 timerVars, pending_interrupts_, async_result_queue_>>

Overdue == {v \in VMs : /\ pending_interrupts_[v] # 0
                        /\ age[pending_interrupts_[v]] > 0}

\* a bug to notice: overdue requests stay recorded
ScanKeeping ==
  /\ at["worker"] = "scan"
  /\ timed_out' = Overdue
  /\ Goto("worker", "late")
  /\ UNCHANGED <<vms_, vmVars, ring, msg, vm, tid, devices, blocked, timerVars,
                 pending_interrupts_, async_result_queue_>>

\* step 3: take the overdue requests out; their timeouts stay armed
Scan ==
  /\ at["worker"] = "scan"
  /\ timed_out' = Overdue
  /\ pending_interrupts_' =
       [v \in VMs |-> IF v \in Overdue THEN 0 ELSE pending_interrupts_[v]]
  /\ Goto("worker", "late")
  /\ UNCHANGED <<vms_, vmVars, ring, msg, vm, tid, devices, blocked, timerVars,
                 async_result_queue_>>

\* step 4: process_interrupt_timeout for each of them
LateWake(v) ==
  /\ at["worker"] = "late" /\ v \in timed_out
  /\ timed_out' = timed_out \ {v}
  /\ vm' = [vm EXCEPT !["worker"] = v]
  /\ blocked' = blocked \ {v}
  /\ Goto("worker", "late_deliver")
  /\ UNCHANGED <<vms_, vmVars, ring, msg, tid, devices, timerVars,
                 pending_interrupts_, async_result_queue_>>

LateDeliver ==
  /\ at["worker"] = "late_deliver"
  /\ HandleInterrupt(vm["worker"])
  /\ Return("worker", "late")
  /\ UNCHANGED <<vms_, thread, sent, lost, ring, msg, timed_out, devices,
                 blocked, timerVars, pending_interrupts_, async_result_queue_>>

\* steps 5 and 6 only wait
LateDone ==
  /\ at["worker"] = "late" /\ timed_out = {}
  /\ Goto("worker", "idle")
  /\ UNCHANGED <<vms_, vmVars, ring, msg, vm, tid, timed_out, devices, blocked,
                 timerVars, pending_interrupts_, async_result_queue_>>

\* Time passes: a request is overdue at the latest when its timeout is due,
\* as request_time is taken before the timeout is registered.  It matters
\* while the timeout is armed or the request is recorded.
Expire(i) ==
  /\ \/ timer[i] = "armed" /\ age[i] < 2
     \/ timer[i] # "armed" /\ age[i] = 0 /\ \E v \in VMs : pending_interrupts_[v] = i
  /\ age' = [age EXCEPT ![i] = @ + 1]
  /\ UNCHANGED <<vms_, vmVars, ring, locals, devices, blocked, timer, timer_vm,
                 next_timer, pending_interrupts_, async_result_queue_>>

-----------------------------------------------------------------------------
OnResult(t) == ResultLookup(t) \/ ResultCancel(t) \/ ResultPush(t)

Poller == PollRequest \/ Block \/ RegisterTimeout \/ RecordPending \/ Forward
            \/ DeviceHandle \/ PollResult \/ OnResult("poller")

Worker == AsyncTake \/ AsyncDone \/ AsyncErase \/ AsyncWake \/ AsyncDeliver
            \/ CollectTimeouts \/ (\E i \in Timers : TimeoutCallback(i))
            \/ CallbacksDone \/ Scan \/ (\E v \in VMs : LateWake(v))
            \/ LateDeliver \/ LateDone \/ OnResult("worker")

Push(s) == PushHasRoom(s) \/ PushFull(s) \/ PushWrite(s) \/ PushPublish(s)

Next ==
  \/ Poller \/ Worker
  \/ \E s \in Senders : Push(s)
  \/ \E v \in VMs : \/ \E k \in Kinds : ExecuteRequest(v, k)
                    \/ Recheck(v) \/ ThreadExit(v) \/ Unregister(v)
  \/ \E i \in Ids, d \in 1 .. MaxAnswers : DeviceAnswer(i, d)
  \/ \E i \in Timers : Expire(i)

\* The two service threads run, time passes, and a send that began, which
\* never waits, ends; beyond that VMs and devices owe nothing.
Fairness == /\ WF_vars(Poller) /\ WF_vars(Worker)
            /\ WF_vars(\E s \in Senders : Push(s))
            /\ WF_vars(\E i \in Timers : Expire(i))

Spec == Init /\ [][Next]_vars /\ Fairness

-----------------------------------------------------------------------------
(* Properties *)

\* Somebody will still wake VM v up: a timeout that has not run, or an
\* answer on its way through on_interrupt_result and the queue.  The record
\* in pending_interrupts_ is deliberately not among them.
Underway(v) ==
  \/ \E i \in Timers : timer_vm[i] = v /\ timer[i] \in {"armed", "collected"}
  \/ \E t \in Threads : at[t] \in {"lookup", "cancel", "push"} /\ vm[t] = v
  \/ \E k \in DOMAIN async_result_queue_ : async_result_queue_[k] = v
  \/ at["worker"] \in {"erase", "wake"} /\ vm["worker"] = v

\* A VM the scheduler keeps blocked always has a wake-up underway: no
\* interleaving of late devices, cancelled timeouts and newer requests
\* leaves it blocked for good, even without the backup scan.
BlockedHasWaker ==
  \A v \in blocked :
    Underway(v) \/ (at["poller"] = "register" /\ msg.vm = v)

\* The request of VM v is queued, or the handler has not registered its
\* timeout yet.
Requested(v) ==
  Queued(v) \/ (at["poller"] \in {"block", "register"} /\ msg.vm = v)

\* A VM suspended for an answer always has one coming, unless its id is the
\* manager's own, or the ring refused its request as it was full, or lost it
\* to sends that overlapped.
SuspendedHasAnswer ==
  \A v \in vms_ \ (lost \cup {MODULE_VM_MANAGER}) :
    state[v] = "SUSPENDED" =>
      \/ Requested(v) \/ Underway(v)
      \/ at["worker"] = "deliver" /\ vm["worker"] = v

\* Such a VM is resumed in the end: none stays suspended from some point on.
\* (P ~> ~P, as []<>~P.)
SuspendedIsResumed ==
  \A v \in VMs \ {MODULE_VM_MANAGER} :
    []<>(state[v] # "SUSPENDED" \/ v \in lost \/ v \notin vms_)

\* A VM the scheduler blocked gets its turn again.
BlockedIsWoken == \A v \in VMs : []<>(v \notin blocked)

\* A recorded request is taken out again: answered, timed out, replaced or
\* unregistered, even when it was recorded after its own timeout had run or
\* after its VM was unregistered.
PendingIsCleared ==
  \A v \in VMs, i \in Timers : []<>(pending_interrupts_[v] # i)

\* "Every synchronous interrupt must have a timeout ... endless waiting is
\* forbidden" (README.md), for every VM that still runs and whose request the
\* router accepted.
NoEndlessWait ==
  \A v \in VMs :
    state[v] = "SUSPENDED" ~> \/ state[v] # "SUSPENDED"
                              \/ v \in lost \/ v \notin vms_ \/ thread[v] = "exited"

-----------------------------------------------------------------------------
(* What makes the invariants inductive *)

\* The polling thread sends only while it forwards, and a timeout id that is
\* still around was handed out, for the VM it is used for.
Bookkeeping ==
  /\ push[PollerSender].pc # "idle" => at["poller"] = "send"
  /\ \A i \in Timers : i >= next_timer => timer[i] = "none"
  /\ \A v \in VMs : pending_interrupts_[v] # 0 =>
       pending_interrupts_[v] < next_timer /\ timer_vm[pending_interrupts_[v]] = v
  /\ at["poller"] = "record" =>
       tid["poller"] \in 1 .. next_timer - 1 /\ timer_vm[tid["poller"]] = msg.vm
  /\ \A t \in Threads : at[t] = "cancel" /\ tid[t] # 0 =>
       tid[t] < next_timer /\ timer_vm[tid[t]] = vm[t]

WaitInv == TypeOK /\ Bookkeeping /\ BlockedHasWaker /\ SuspendedHasAnswer
=============================================================================
