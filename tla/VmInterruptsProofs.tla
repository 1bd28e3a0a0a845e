------------------------- MODULE VmInterruptsProofs -------------------------
(***************************************************************************)
(* A blocked VM always has somebody who will wake it, and a suspended one  *)
(* an answer coming unless the ring refused or lost its request, for every *)
(* number of VMs and requests, every size of the ring and every            *)
(* interleaving of sends, late answers and timeouts.                       *)
(***************************************************************************)
EXTENDS VmInterrupts, SequenceTheorems, TLAPS

\* Appending keeps the elements and adds one; the tail keeps all but the
\* head.
LEMMA SeqSteps ==
  ASSUME NEW S, NEW s \in Seq(S), NEW e \in S
  PROVE  /\ Append(s, e) \in Seq(S)
         /\ Len(s) + 1 \in DOMAIN Append(s, e)
         /\ Append(s, e)[Len(s) + 1] = e
         /\ \A k \in DOMAIN s : k \in DOMAIN Append(s, e) /\ Append(s, e)[k] = s[k]
         /\ s # <<>> =>
              /\ Head(s) \in S /\ Tail(s) \in Seq(S) /\ Head(s) = s[1]
              /\ \A k \in DOMAIN s \ {1} :
                   k - 1 \in DOMAIN Tail(s) /\ Tail(s)[k - 1] = s[k]
OBVIOUS

\* The ring's indices stay in it, and a pop leaves the other messages where
\* they are.
LEMMA AdvanceCases ==
  ASSUME NEW i \in Index
  PROVE  /\ Advance(i) = (IF i + 1 = MAX_QUEUE_SIZE THEN 0 ELSE i + 1)
         /\ Advance(i) \in Index
<1>1. Advance(i) = (IF i + 1 = MAX_QUEUE_SIZE THEN 0 ELSE i + 1)
  BY VmAssumption, SMTT(30) DEF Advance, Index
<1> QED BY <1>1, VmAssumption DEF Index

LEMMA PopKeeps ==
  ASSUME head_ \in Index, tail_ \in Index, Pop
  PROVE  /\ \A i \in Live \ {head_} : i \in Live'
         /\ head_ \in Live /\ head_' \in Index /\ queue_' = queue_
<1>1. head_' = (IF head_ + 1 = MAX_QUEUE_SIZE THEN 0 ELSE head_ + 1)
      /\ head_' \in Index /\ tail_' = tail_ /\ queue_' = queue_ /\ head_ # tail_
  BY AdvanceCases DEF Pop
<1>2. \A i \in Live \ {head_} : i \in Live'
  BY <1>1, VmAssumption DEF Live, Index
<1>3. head_ \in Live
  BY <1>1, VmAssumption DEF Live, Index
<1> QED BY <1>1, <1>2, <1>3

LEMMA SendersApart ==
  /\ 0 \in Index
  /\ PollerSender \in Senders
  /\ \A v \in VMs : VmSender(v) \in Senders /\ VmSender(v) # PollerSender
  /\ \A u, v \in VMs : VmSender(u) = VmSender(v) => u = v
  /\ \A d \in 1 .. MaxAnswers :
       /\ DeviceSender(d) \in Senders /\ DeviceSender(d) # PollerSender
       /\ \A v \in VMs : DeviceSender(d) # VmSender(v)
<1>1. 0 \in Index
  BY VmAssumption DEF Index
<1> QED BY <1>1 DEF Senders, PollerSender, VmSender, DeviceSender

LEMMA MessagesTyped ==
  /\ \A s, v \in Ids : \A k \in {"SYSTEM", "READ", "WRITE"} : Request(s, v, k) \in Message
  /\ \A v \in Ids : Result(v) \in Message
  /\ NoMessage \in Message /\ PushIdle \in [pc : {"idle", "check", "write", "publish"},
                                             tail : Index, msg : Message]
  /\ PushIdle.pc = "idle"
  /\ MODULE_VM_MANAGER \in Ids /\ VMs \subseteq Ids
  /\ \A v \in Ids : Result(v).type = "INTERRUPT_RESULT_READY"
BY SendersApart DEF Request, Result, Message, NoMessage, PushIdle, Ids

LEMMA PushBeginTyped ==
  ASSUME TypeOK, NEW s \in Senders, NEW m \in Message, PushBegin(s, m)
  PROVE  /\ push' \in [Senders -> [pc : {"idle", "check", "write", "publish"},
                                   tail : Index, msg : Message]]
         /\ overlaps' \in 0 .. MaxOverlaps
         /\ queue_' = queue_ /\ head_' = head_ /\ tail_' = tail_
         /\ \A o \in Senders \ {s} : push'[o] = push[o]
<1>1. push \in [Senders -> [pc : {"idle", "check", "write", "publish"},
                            tail : Index, msg : Message]]
      /\ tail_ \in Index /\ overlaps \in 0 .. MaxOverlaps
  BY DEF TypeOK
<1>2. push' = [push EXCEPT ![s] = [pc |-> "check", tail |-> tail_, msg |-> m]]
      /\ queue_' = queue_ /\ head_' = head_ /\ tail_' = tail_
  BY DEF PushBegin
<1>3. overlaps' \in 0 .. MaxOverlaps
  BY <1>1, VmAssumption DEF PushBegin
<1> QED BY <1>1, <1>2, <1>3

LEMMA InitWaitInv == Init => WaitInv
<1> SUFFICES ASSUME Init PROVE WaitInv
  OBVIOUS
<1>1. TypeOK
  BY MessagesTyped, SendersApart, VmAssumption DEF Init, TypeOK, Threads, Timers
<1>2. Bookkeeping
  BY MessagesTyped, SendersApart DEF Init, Bookkeeping, Threads
<1>3. BlockedHasWaker /\ SuspendedHasAnswer
  BY DEF Init, BlockedHasWaker, SuspendedHasAnswer
<1> QED BY <1>1, <1>2, <1>3 DEF WaitInv

-----------------------------------------------------------------------------
(* Type correctness *)

LEMMA VmTyped ==
  ASSUME TypeOK, NEW v \in VMs,
         \/ \E k \in Kinds : ExecuteRequest(v, k)
         \/ Recheck(v) \/ ThreadExit(v) \/ Unregister(v)
  PROVE  TypeOK'
<1>1. ASSUME NEW k \in Kinds, ExecuteRequest(v, k) PROVE TypeOK'
  <2>1. Request(v, v, k) \in Message
    BY VmAssumption, MessagesTyped
  <2>2. /\ push' \in [Senders -> [pc : {"idle", "check", "write", "publish"},
                                  tail : Index, msg : Message]]
        /\ overlaps' \in 0 .. MaxOverlaps
        /\ queue_' = queue_ /\ head_' = head_ /\ tail_' = tail_
    BY <1>1, <2>1, PushBeginTyped, SendersApart DEF ExecuteRequest
  <2>3. sent' \in 0 .. MaxRequests
    BY <1>1, VmAssumption DEF ExecuteRequest, TypeOK
  <2> QED BY <1>1, <2>2, <2>3 DEF ExecuteRequest, TypeOK, locals, timerVars, devices
<1>2. CASE Recheck(v) \/ ThreadExit(v)
  BY <1>2 DEF Recheck, ThreadExit, TypeOK, ring, locals, timerVars, devices
<1>3. CASE Unregister(v)
  BY <1>3 DEF Unregister, TypeOK, vmVars, ring, locals, devices
<1> QED BY <1>1, <1>2, <1>3

LEMMA PollerTyped ==
  ASSUME TypeOK,
         \/ PollRequest \/ Block \/ RegisterTimeout \/ RecordPending \/ Forward
         \/ DeviceHandle \/ PollResult \/ \E i \in Ids, d \in 1 .. MaxAnswers : DeviceAnswer(i, d)
  PROVE  TypeOK'
<1> USE DEF Goto, Return, vmVars, devices, timerVars, locals, ring
<1>1. CASE PollRequest \/ PollResult
  <2>1. Oldest \in Message /\ Oldest.vm \in Ids
    BY DEF TypeOK, Oldest, Message
  <2>2. Pop => /\ head_' \in Index /\ tail_' \in Index
               /\ UNCHANGED <<queue_, push, overlaps>>
    BY PopKeeps DEF TypeOK, Pop
  <2>3. CASE PollRequest
    BY <2>1, <2>2, <2>3 DEF PollRequest, TypeOK, Threads
  <2>4. CASE PollResult
    BY <2>1, <2>2, <2>4 DEF PollResult, TypeOK, Threads
  <2> QED BY <1>1, <2>3, <2>4
<1>2. CASE Block
  BY <1>2 DEF Block, TypeOK, Threads
<1>3. CASE RegisterTimeout
  <2>1. msg.vm \in Ids /\ next_timer \in Timers /\ next_timer + 1 \in 1 .. MaxTimers + 1
    BY <1>3, VmAssumption DEF RegisterTimeout, TypeOK, Message, Timers
  <2> QED BY <1>3, <2>1 DEF RegisterTimeout, TypeOK, Threads
<1>4. CASE RecordPending
  BY <1>4 DEF RecordPending, TypeOK, Threads
<1>5. CASE Forward
  <2>1. Request(MODULE_VM_MANAGER, msg.vm, msg.kind) \in Message
    BY MessagesTyped DEF TypeOK, Message
  <2>2. /\ push' \in [Senders -> [pc : {"idle", "check", "write", "publish"},
                                  tail : Index, msg : Message]]
        /\ overlaps' \in 0 .. MaxOverlaps
        /\ queue_' = queue_ /\ head_' = head_ /\ tail_' = tail_
    BY <1>5, <2>1, PushBeginTyped, SendersApart DEF Forward
  <2> QED BY <1>5, <2>2 DEF Forward, TypeOK, Threads
<1>6. CASE DeviceHandle
  <2>1. answers' \in [Ids -> Nat] /\ prepared' \in 0 .. MaxAnswers
    <3>1. msg.vm \in Ids /\ msg.sender \in Ids
      BY DEF TypeOK, Message
    <3>2. CASE msg.kind = "SYSTEM" \/ prepared = MaxAnswers
      BY <1>6, <3>2 DEF DeviceHandle, TypeOK
    <3>3. CASE ~(msg.kind = "SYSTEM" \/ prepared = MaxAnswers)
      <4> DEFINE receiver == IF msg.kind = "READ" THEN msg.vm ELSE msg.sender
      <4>1. receiver \in Ids
        BY <3>1
      <4>2. answers' = [answers EXCEPT ![receiver] = @ + 1] /\ prepared' = prepared + 1
        BY <1>6, <3>3 DEF DeviceHandle
      <4>3. answers' \in [Ids -> Nat]
        <5> HIDE DEF receiver
        <5> QED BY <4>1, <4>2 DEF TypeOK
      <4>4. prepared' \in 0 .. MaxAnswers
        BY <3>3, <4>2, VmAssumption DEF TypeOK
      <4> QED BY <4>3, <4>4
    <3> QED BY <3>2, <3>3
  <2> QED BY <1>6, <2>1, MessagesTyped DEF DeviceHandle, TypeOK, Threads
<1>7. ASSUME NEW i \in Ids, NEW d \in 1 .. MaxAnswers, DeviceAnswer(i, d) PROVE TypeOK'
  <2>1. /\ push' \in [Senders -> [pc : {"idle", "check", "write", "publish"},
                                  tail : Index, msg : Message]]
        /\ overlaps' \in 0 .. MaxOverlaps
        /\ queue_' = queue_ /\ head_' = head_ /\ tail_' = tail_
    BY <1>7, MessagesTyped, PushBeginTyped, SendersApart DEF DeviceAnswer
  <2>2. answers' \in [Ids -> Nat]
    BY <1>7 DEF DeviceAnswer, TypeOK
  <2> QED BY <1>7, <2>1, <2>2 DEF DeviceAnswer, TypeOK
<1> QED BY <1>1, <1>2, <1>3, <1>4, <1>5, <1>6, <1>7

LEMMA PushTyped ==
  ASSUME TypeOK, NEW s \in Senders, Push(s)
  PROVE  TypeOK'
<1>1. /\ push \in [Senders -> [pc : {"idle", "check", "write", "publish"},
                               tail : Index, msg : Message]]
      /\ push[s].tail \in Index /\ push[s].msg \in Message
      /\ Advance(push[s].tail) \in Index
  BY AdvanceCases DEF TypeOK
<1>2. ASSUME PushReturn(s), queue_' = queue_, head_' = head_, tail_' \in Index,
             lost' \subseteq VMs
      PROVE  TypeOK'
  BY <1>1, <1>2, MessagesTyped DEF PushReturn, TypeOK, Threads, devices, timerVars
<1>3. CASE PushFull(s)
  BY <1>2, <1>3 DEF PushFull, TypeOK
<1>4. CASE PushPublish(s)
  BY <1>1, <1>2, <1>4 DEF PushPublish, TypeOK
<1>5. CASE PushHasRoom(s)
  BY <1>1, <1>5 DEF PushHasRoom, TypeOK, vmVars, locals, devices, timerVars
<1>6. CASE PushWrite(s)
  BY <1>1, <1>6 DEF PushWrite, TypeOK, locals, devices, timerVars
<1> QED BY <1>3, <1>4, <1>5, <1>6 DEF Push

LEMMA ResultTyped ==
  ASSUME TypeOK, NEW t \in Threads, OnResult(t)
  PROVE  TypeOK'
<1> USE DEF Goto, Return, vmVars, devices, timerVars, locals, ring, Threads
<1>1. CASE ResultLookup(t)
  <2>1. PendingOf(vm[t]) \in Timers \cup {0}
    BY DEF PendingOf, TypeOK
  <2> QED BY <1>1, <2>1 DEF ResultLookup, TypeOK
<1>2. CASE ResultCancel(t)
  BY <1>2 DEF ResultCancel, TypeOK
<1>3. CASE ResultPush(t)
  <2>1. async_result_queue_' \in Seq(Ids)
    BY <1>3, SeqSteps DEF ResultPush, TypeOK
  <2> QED BY <1>3, <2>1, MessagesTyped DEF ResultPush, TypeOK
<1> QED BY <1>1, <1>2, <1>3 DEF OnResult

LEMMA WorkerTyped ==
  ASSUME TypeOK, Worker
  PROVE  TypeOK'
<1> USE DEF Goto, Return, vmVars, devices, timerVars, locals, ring, Threads
<1>1. CASE AsyncTake
  <2>1. Head(async_result_queue_) \in Ids /\ Tail(async_result_queue_) \in Seq(Ids)
    BY <1>1, SeqSteps DEF AsyncTake, TypeOK
  <2> QED BY <1>1, <2>1 DEF AsyncTake, TypeOK
<1>2. CASE AsyncDone \/ CallbacksDone \/ LateDone
  <2>1. CASE AsyncDone
    BY <2>1 DEF AsyncDone, TypeOK
  <2>2. CASE CallbacksDone
    BY <2>2 DEF CallbacksDone, TypeOK
  <2>3. CASE LateDone
    BY <2>3 DEF LateDone, TypeOK
  <2> QED BY <1>2, <2>1, <2>2, <2>3
<1>3. CASE AsyncErase \/ AsyncWake
  <2>1. CASE AsyncErase
    BY <2>1 DEF AsyncErase, TypeOK
  <2>2. CASE AsyncWake
    BY <2>2 DEF AsyncWake, TypeOK
  <2> QED BY <1>3, <2>1, <2>2
<1>4. CASE AsyncDeliver \/ LateDeliver
  <2>1. ASSUME NEW v, HandleInterrupt(v)
        PROVE  state' \in [VMs -> {"RUNNING", "SUSPENDED", "TERMINATED"}]
    BY <2>1 DEF HandleInterrupt, TypeOK
  <2>2. CASE AsyncDeliver
    BY <2>1, <2>2, MessagesTyped DEF AsyncDeliver, TypeOK
  <2>3. CASE LateDeliver
    BY <2>1, <2>3, MessagesTyped DEF LateDeliver, TypeOK
  <2> QED BY <1>4, <2>2, <2>3
<1>5. CASE CollectTimeouts
  BY <1>5 DEF CollectTimeouts, TypeOK, Timers
<1>6. ASSUME NEW i \in Timers, TimeoutCallback(i) PROVE TypeOK'
  BY <1>6 DEF TimeoutCallback, TypeOK
<1>7. CASE Scan
  BY <1>7, VmAssumption DEF Scan, Overdue, TypeOK
<1>8. ASSUME NEW v \in VMs, LateWake(v) PROVE TypeOK'
  BY <1>8, MessagesTyped DEF LateWake, TypeOK
<1>9. CASE OnResult("worker")
  BY <1>9, ResultTyped
<1> QED BY <1>1, <1>2, <1>3, <1>4, <1>5, <1>6, <1>7, <1>8, <1>9 DEF Worker

LEMMA TypeStep == TypeOK /\ [Next]_vars => TypeOK'
<1> SUFFICES ASSUME TypeOK, [Next]_vars PROVE TypeOK'
  OBVIOUS
<1>1. CASE Poller
  BY <1>1, PollerTyped, ResultTyped DEF Poller, Threads
<1>2. CASE Worker
  BY <1>2, WorkerTyped
<1>3. ASSUME NEW i \in Timers, Expire(i) PROVE TypeOK'
  <2>1. age' \in [Timers -> 0 .. 2]
    <3>1. age[i] \in {0, 1}
      BY <1>3 DEF Expire, TypeOK
    <3> QED BY <1>3, <3>1 DEF Expire, TypeOK
  <2> QED BY <1>3, <2>1 DEF Expire, TypeOK, vmVars, ring, locals, devices
<1>4. CASE UNCHANGED vars
  BY <1>4 DEF vars, vmVars, ring, locals, devices, timerVars, TypeOK
<1> QED BY <1>1, <1>2, <1>3, <1>4, VmTyped, PollerTyped, PushTyped DEF Next

-----------------------------------------------------------------------------
(* Bookkeeping *)

\* Beginning to send leaves the polling thread's own push alone, unless it
\* is the one that begins.
LEMMA PollersPush ==
  ASSUME TypeOK, NEW s \in Senders, NEW m \in Message, PushBegin(s, m), s # PollerSender
  PROVE  push'[PollerSender] = push[PollerSender]
BY PushBeginTyped, SendersApart

LEMMA BookVm ==
  ASSUME TypeOK, Bookkeeping, NEW v \in VMs,
         \/ \E k \in Kinds : ExecuteRequest(v, k)
         \/ Recheck(v) \/ ThreadExit(v) \/ Unregister(v)
  PROVE  Bookkeeping'
<1>1. ASSUME NEW k \in Kinds, ExecuteRequest(v, k) PROVE Bookkeeping'
  <2>1. Request(v, v, k) \in Message /\ VmSender(v) \in Senders
        /\ VmSender(v) # PollerSender
    BY VmAssumption, MessagesTyped, SendersApart
  <2>2. push'[PollerSender] = push[PollerSender]
    BY <1>1, <2>1, PollersPush DEF ExecuteRequest
  <2> QED BY <1>1, <2>2 DEF ExecuteRequest, Bookkeeping, locals, timerVars
<1>2. CASE Recheck(v) \/ ThreadExit(v)
  BY <1>2 DEF Recheck, ThreadExit, Bookkeeping, locals, timerVars, ring
<1>3. CASE Unregister(v)
  BY <1>3 DEF Unregister, TypeOK, Bookkeeping, locals, timerVars, ring, Timers
<1> QED BY <1>1, <1>2, <1>3

LEMMA BookPoller ==
  ASSUME TypeOK, Bookkeeping,
         \/ PollRequest \/ Block \/ RegisterTimeout \/ RecordPending \/ Forward
         \/ DeviceHandle \/ PollResult \/ \E i \in Ids, d \in 1 .. MaxAnswers : DeviceAnswer(i, d)
  PROVE  Bookkeeping'
<1> USE DEF Goto, Return, timerVars, locals, ring, Threads, Bookkeeping, TypeOK
<1>1. CASE PollRequest
  BY <1>1 DEF PollRequest, Pop
<1>2. CASE Block
  BY <1>2 DEF Block
<1>3. CASE RegisterTimeout
  <2>1. next_timer \in Timers /\ next_timer >= 1 /\ msg.vm \in Ids
    BY <1>3 DEF RegisterTimeout, Timers, Message
  <2> QED BY <1>3, <2>1 DEF RegisterTimeout, Timers
<1>4. CASE RecordPending
  BY <1>4 DEF RecordPending, Timers
<1>5. CASE Forward
  BY <1>5 DEF Forward
<1>6. CASE DeviceHandle
  BY <1>6 DEF DeviceHandle
<1>7. CASE PollResult
  BY <1>7 DEF PollResult, Pop
<1>8. ASSUME NEW i \in Ids, NEW d \in 1 .. MaxAnswers, DeviceAnswer(i, d)
      PROVE  Bookkeeping'
  <2>1. Result(i) \in Message /\ DeviceSender(d) \in Senders
        /\ DeviceSender(d) # PollerSender
    BY MessagesTyped, SendersApart
  <2>2. push'[PollerSender] = push[PollerSender]
    BY <1>8, <2>1, PollersPush DEF DeviceAnswer
  <2> QED BY <1>8, <2>2 DEF DeviceAnswer
<1> QED BY <1>1, <1>2, <1>3, <1>4, <1>5, <1>6, <1>7, <1>8

LEMMA BookPush ==
  ASSUME TypeOK, Bookkeeping, NEW s \in Senders, Push(s)
  PROVE  Bookkeeping'
<1>1. push \in [Senders -> [pc : {"idle", "check", "write", "publish"},
                            tail : Index, msg : Message]]
  BY DEF TypeOK
<1>0. at = [x \in Threads |-> at[x]]
  BY DEF TypeOK
<1>2. ASSUME PushReturn(s) PROVE Bookkeeping'
  <2>1. push'[PollerSender].pc # "idle" => s # PollerSender /\ push[PollerSender].pc # "idle"
    BY <1>1, <1>2, MessagesTyped, SendersApart DEF PushReturn
  <2>2. /\ s # PollerSender => at' = at
        /\ s = PollerSender => at'["poller"] = "device" /\ at'["worker"] = at["worker"]
    BY <1>0, <1>2 DEF PushReturn, Threads
  <2>3. UNCHANGED <<msg, vm, tid, timer, timer_vm, next_timer, pending_interrupts_>>
    BY <1>2 DEF PushReturn, timerVars
  <2> QED BY <2>1, <2>2, <2>3 DEF Bookkeeping, Threads
<1>3. ASSUME push' = [push EXCEPT ![s].pc = "write"] \/ push' = [push EXCEPT ![s].pc = "publish"],
             push[s].pc # "idle", UNCHANGED <<locals, timerVars, pending_interrupts_>>
      PROVE  Bookkeeping'
  <2>1. push'[PollerSender].pc # "idle" => push[PollerSender].pc # "idle"
    BY <1>1, <1>3, SendersApart
  <2> QED BY <1>3, <2>1 DEF Bookkeeping, locals, timerVars
<1>4. CASE PushFull(s) \/ PushPublish(s)
  BY <1>2, <1>4 DEF PushFull, PushPublish
<1>5. CASE PushHasRoom(s) \/ PushWrite(s)
  BY <1>3, <1>5 DEF PushHasRoom, PushWrite
<1> QED BY <1>4, <1>5 DEF Push

LEMMA BookResult ==
  ASSUME TypeOK, Bookkeeping, NEW t \in Threads, OnResult(t)
  PROVE  Bookkeeping'
<1> USE DEF Goto, Return, timerVars, locals, ring, Threads, TypeOK
<1>1. CASE ResultLookup(t)
  <2>1. PendingOf(vm[t]) # 0 =>
          PendingOf(vm[t]) < next_timer /\ timer_vm[PendingOf(vm[t])] = vm[t]
    BY DEF PendingOf, Bookkeeping
  <2>2. at["poller"] = "record" => t # "poller"
    BY <1>1 DEF ResultLookup
  <2> QED BY <1>1, <2>1, <2>2 DEF ResultLookup, Bookkeeping
<1>2. CASE ResultCancel(t)
  BY <1>2 DEF ResultCancel, Bookkeeping, Timers
<1>3. CASE ResultPush(t)
  BY <1>3 DEF ResultPush, Bookkeeping
<1> QED BY <1>1, <1>2, <1>3 DEF OnResult

LEMMA BookWorker ==
  ASSUME TypeOK, Bookkeeping, Worker
  PROVE  Bookkeeping'
<1> USE DEF Goto, Return, timerVars, locals, ring, Threads, TypeOK, Bookkeeping
<1>1. CASE AsyncTake
  BY <1>1 DEF AsyncTake
<1>2. CASE AsyncDone
  BY <1>2 DEF AsyncDone
<1>3. CASE AsyncErase
  BY <1>3 DEF AsyncErase
<1>4. CASE AsyncWake
  BY <1>4 DEF AsyncWake
<1>5. CASE AsyncDeliver
  BY <1>5 DEF AsyncDeliver
<1>6. CASE CollectTimeouts
  BY <1>6 DEF CollectTimeouts, Timers
<1>7. ASSUME NEW i \in Timers, TimeoutCallback(i) PROVE Bookkeeping'
  BY <1>7 DEF TimeoutCallback, Timers
<1>8. CASE CallbacksDone
  BY <1>8 DEF CallbacksDone
<1>9. CASE Scan
  BY <1>9 DEF Scan
<1>10. ASSUME NEW v \in VMs, LateWake(v) PROVE Bookkeeping'
  BY <1>10 DEF LateWake
<1>11. CASE LateDeliver
  BY <1>11 DEF LateDeliver
<1>12. CASE LateDone
  BY <1>12 DEF LateDone
<1>13. CASE OnResult("worker")
  BY <1>13, BookResult
<1> QED BY <1>1, <1>2, <1>3, <1>4, <1>5, <1>6, <1>7, <1>8, <1>9, <1>10, <1>11,
           <1>12, <1>13 DEF Worker

LEMMA BookStep == TypeOK /\ Bookkeeping /\ [Next]_vars => Bookkeeping'
<1> SUFFICES ASSUME TypeOK, Bookkeeping, [Next]_vars PROVE Bookkeeping'
  OBVIOUS
<1>1. CASE Poller
  BY <1>1, BookPoller, BookResult DEF Poller, Threads
<1>2. CASE Worker
  BY <1>2, BookWorker
<1>3. CASE \E i \in Timers : Expire(i)
  BY <1>3 DEF Expire, Bookkeeping, locals, ring
<1>4. CASE UNCHANGED vars
  BY <1>4 DEF vars, locals, ring, timerVars, Bookkeeping
<1> QED BY <1>1, <1>2, <1>3, <1>4, BookVm, BookPoller, BookPush DEF Next

-----------------------------------------------------------------------------
(* A wake-up underway stays underway until it happens *)

LEMMA UnderwayVm ==
  ASSUME TypeOK, Bookkeeping, NEW v \in Ids, Underway(v), NEW u \in VMs,
         \/ \E k \in Kinds : ExecuteRequest(u, k)
         \/ Recheck(u) \/ ThreadExit(u) \/ (Unregister(u) /\ u # v)
  PROVE  Underway(v)'
<1>1. CASE (\E k \in Kinds : ExecuteRequest(u, k)) \/ Recheck(u) \/ ThreadExit(u)
  BY <1>1 DEF ExecuteRequest, Recheck, ThreadExit, Underway, locals, timerVars
<1>2. CASE Unregister(u) /\ u # v
  <2>1. \A i \in Timers : timer_vm[i] = v /\ timer[i] \in {"armed", "collected"} =>
                            timer'[i] = timer[i]
    BY <1>2 DEF Unregister, Bookkeeping, Timers
  <2> QED BY <1>2, <2>1 DEF Unregister, Underway, locals
<1> QED BY <1>1, <1>2

LEMMA UnderwayPoller ==
  ASSUME TypeOK, Bookkeeping, NEW v \in Ids, Underway(v),
         \/ PollRequest \/ Block \/ RegisterTimeout \/ RecordPending \/ Forward
         \/ DeviceHandle \/ PollResult \/ \E i \in Ids, d \in 1 .. MaxAnswers : DeviceAnswer(i, d)
  PROVE  Underway(v)'
<1>1. at = [x \in Threads |-> at[x]] /\ vm \in [Threads -> Ids]
  BY DEF TypeOK
<1> USE <1>1 DEF Goto, Return, timerVars, locals, Threads, Underway
<1>2. CASE PollRequest
  BY <1>2 DEF PollRequest
<1>3. CASE Block
  BY <1>3 DEF Block
<1>4. CASE RegisterTimeout
  <2>1. timer[next_timer] = "none" /\ next_timer \in Timers
    BY <1>4 DEF RegisterTimeout, Bookkeeping, Timers, TypeOK
  <2>2. \A i \in Timers \ {next_timer} :
          timer'[i] = timer[i] /\ timer_vm'[i] = timer_vm[i]
    BY <1>4 DEF RegisterTimeout, TypeOK
  <2> QED BY <1>4, <2>1, <2>2 DEF RegisterTimeout
<1>5. CASE RecordPending
  BY <1>5 DEF RecordPending
<1>6. CASE Forward
  BY <1>6 DEF Forward
<1>7. CASE DeviceHandle
  BY <1>7 DEF DeviceHandle
<1>8. CASE PollResult
  BY <1>8 DEF PollResult
<1>9. CASE \E i \in Ids, d \in 1 .. MaxAnswers : DeviceAnswer(i, d)
  BY <1>9 DEF DeviceAnswer
<1> QED BY <1>2, <1>3, <1>4, <1>5, <1>6, <1>7, <1>8, <1>9

LEMMA UnderwayPush ==
  ASSUME TypeOK, Bookkeeping, NEW v \in Ids, Underway(v), NEW s \in Senders, Push(s)
  PROVE  Underway(v)'
<1>1. at' = at \/ (at["poller"] = "send" /\ at' = [at EXCEPT !["poller"] = "device"])
  BY DEF Push, PushHasRoom, PushFull, PushWrite, PushPublish, PushReturn, Bookkeeping,
    locals
<1>2. UNCHANGED <<vm, timer, timer_vm, async_result_queue_>>
  BY DEF Push, PushHasRoom, PushFull, PushWrite, PushPublish, PushReturn, locals, timerVars
<1>3. at = [x \in Threads |-> at[x]]
  BY DEF TypeOK
<1> QED BY <1>1, <1>2, <1>3 DEF Underway, Threads

LEMMA UnderwayResult ==
  ASSUME TypeOK, Bookkeeping, NEW v \in Ids, Underway(v), NEW t \in Threads, OnResult(t)
  PROVE  Underway(v)'
<1>1. at = [x \in Threads |-> at[x]] /\ vm \in [Threads -> Ids]
      /\ async_result_queue_ \in Seq(Ids)
  BY DEF TypeOK
<1> USE <1>1 DEF Goto, Return, timerVars, locals, Threads
<1>2. CASE ResultLookup(t)
  BY <1>2 DEF ResultLookup, Underway
<1>3. CASE ResultCancel(t)
  <2>1. CASE vm[t] = v
    BY <1>3, <2>1 DEF ResultCancel, Underway
  <2>2. CASE vm[t] # v
    <3>1. \A i \in Timers : timer_vm[i] = v => timer'[i] = timer[i]
      BY <1>3, <2>2 DEF ResultCancel, Bookkeeping, Timers
    <3> QED BY <1>3, <3>1, <2>2 DEF ResultCancel, Underway
  <2> QED BY <2>1, <2>2
<1>4. CASE ResultPush(t)
  <2>1. vm[t] \in Ids /\ async_result_queue_' = Append(async_result_queue_, vm[t])
    BY <1>4 DEF ResultPush
  <2>2. /\ \E k \in DOMAIN async_result_queue_' : async_result_queue_'[k] = vm[t]
        /\ \A k \in DOMAIN async_result_queue_ :
             k \in DOMAIN async_result_queue_'
             /\ async_result_queue_'[k] = async_result_queue_[k]
    BY <2>1, SeqSteps
  <2>3. CASE vm[t] = v
    BY <2>2, <2>3 DEF Underway
  <2>4. CASE vm[t] # v
    BY <1>4, <2>2, <2>4 DEF ResultPush, Underway
  <2> QED BY <2>3, <2>4
<1> QED BY <1>2, <1>3, <1>4 DEF OnResult

\* The one step that ends it is the wake-up itself.
LEMMA UnderwayWorker ==
  ASSUME TypeOK, Bookkeeping, NEW v \in Ids, Underway(v), Worker
  PROVE  Underway(v)' \/ (AsyncWake /\ vm["worker"] = v)
<1>1. at = [x \in Threads |-> at[x]] /\ vm \in [Threads -> Ids]
      /\ async_result_queue_ \in Seq(Ids)
      /\ timer = [i \in Timers |-> timer[i]]
  BY DEF TypeOK
<1> USE <1>1 DEF Goto, Return, timerVars, locals, Threads, Underway
<1>2. CASE AsyncTake
  <2>1. /\ Head(async_result_queue_) = async_result_queue_[1]
        /\ \A k \in DOMAIN async_result_queue_ \ {1} :
             k - 1 \in DOMAIN async_result_queue_'
             /\ async_result_queue_'[k - 1] = async_result_queue_[k]
    BY <1>2, SeqSteps DEF AsyncTake
  <2>2. vm'["worker"] = Head(async_result_queue_) /\ at'["worker"] = "erase"
        /\ vm'["poller"] = vm["poller"] /\ at'["poller"] = at["poller"]
    BY <1>2 DEF AsyncTake
  <2>3. at["worker"] \in {"idle", "drain"}
    BY <1>2 DEF AsyncTake
  <2>4. CASE \E k \in DOMAIN async_result_queue_ : async_result_queue_[k] = v
    BY <2>1, <2>2, <2>4
  <2>5. CASE \E i \in Timers : timer_vm[i] = v /\ timer[i] \in {"armed", "collected"}
    BY <1>2, <2>5 DEF AsyncTake
  <2>6. CASE at["poller"] \in {"lookup", "cancel", "push"} /\ vm["poller"] = v
    BY <2>2, <2>6
  <2> QED BY <2>3, <2>4, <2>5, <2>6
<1>3. CASE AsyncDone
  BY <1>3 DEF AsyncDone
<1>4. CASE AsyncErase
  BY <1>4 DEF AsyncErase
<1>5. CASE AsyncWake
  BY <1>5 DEF AsyncWake
<1>6. CASE AsyncDeliver
  BY <1>6 DEF AsyncDeliver
<1>7. CASE CollectTimeouts
  BY <1>7 DEF CollectTimeouts
<1>8. ASSUME NEW i \in Timers, TimeoutCallback(i) PROVE Underway(v)'
  BY <1>8 DEF TimeoutCallback
<1>9. CASE CallbacksDone
  BY <1>9 DEF CallbacksDone
<1>10. CASE Scan
  BY <1>10 DEF Scan
<1>11. CASE \E u \in VMs : LateWake(u)
  BY <1>11 DEF LateWake
<1>12. CASE LateDeliver
  BY <1>12 DEF LateDeliver
<1>13. CASE LateDone
  BY <1>13 DEF LateDone
<1>14. CASE OnResult("worker")
  <2> USE DEF Underway
  <2> QED BY <1>14, UnderwayResult
<1> QED BY <1>2, <1>3, <1>4, <1>5, <1>6, <1>7, <1>8, <1>9, <1>10, <1>11, <1>12,
           <1>13, <1>14 DEF Worker

LEMMA UnderwayStep ==
  ASSUME TypeOK, Bookkeeping, NEW v \in Ids, Underway(v), [Next]_vars,
         ~(v \in VMs /\ Unregister(v)), ~(AsyncWake /\ vm["worker"] = v)
  PROVE  Underway(v)'
<1>1. CASE Poller
  BY <1>1, UnderwayPoller, UnderwayResult DEF Poller, Threads
<1>2. CASE Worker
  BY <1>2, UnderwayWorker
<1>3. CASE \E i \in Timers : Expire(i)
  BY <1>3 DEF Expire, Underway, locals
<1>4. CASE UNCHANGED vars
  BY <1>4 DEF vars, locals, timerVars, Underway
<1>5. ASSUME NEW u \in VMs,
             \/ \E k \in Kinds : ExecuteRequest(u, k)
             \/ Recheck(u) \/ ThreadExit(u) \/ Unregister(u)
      PROVE  Underway(v)'
  BY <1>5, UnderwayVm
<1>6. CASE \E i \in Ids, d \in 1 .. MaxAnswers : DeviceAnswer(i, d)
  BY <1>6, UnderwayPoller
<1>7. CASE \E s \in Senders : Push(s)
  BY <1>7, UnderwayPush
<1> QED BY <1>1, <1>2, <1>3, <1>4, <1>5, <1>6, <1>7 DEF Next

\* A push moves the polling thread only from its own send to the devices.
LEMMA PushMoves ==
  ASSUME Bookkeeping, \E s \in Senders : Push(s)
  PROVE  /\ at' = at \/ (at["poller"] = "send" /\ at' = [at EXCEPT !["poller"] = "device"])
         /\ UNCHANGED <<msg, vm, blocked, vms_>>
BY DEF Push, PushHasRoom, PushFull, PushWrite, PushPublish, PushReturn, Bookkeeping, locals

\* Registering the timeout puts a wake-up underway, and the handler does
\* nothing else before.
LEMMA RegisterStarts ==
  ASSUME TypeOK, Bookkeeping, NEW v, at["poller"] = "register", msg.vm = v, [Next]_vars
  PROVE  \/ at'["poller"] = "register" /\ msg' = msg
         \/ Underway(v)'
<1> USE DEF Goto, Return, Threads
<1>0. at = [x \in Threads |-> at[x]]
  BY DEF TypeOK
<1>1. CASE RegisterTimeout
  <2>1. next_timer \in Timers /\ timer'[next_timer] = "armed"
        /\ timer_vm'[next_timer] = v
    BY <1>1 DEF RegisterTimeout, TypeOK, Timers
  <2> QED BY <2>1 DEF Underway
<1>2. CASE Worker
  <2>1. at'["poller"] = at["poller"] /\ msg' = msg
    BY <1>0, <1>2 DEF Worker, OnResult, AsyncTake, AsyncDone, AsyncErase, AsyncWake,
      AsyncDeliver, CollectTimeouts, TimeoutCallback, CallbacksDone, Scan, LateWake,
      LateDeliver, LateDone, ResultLookup, ResultCancel, ResultPush
  <2> QED BY <2>1
<1>3. CASE Poller /\ ~RegisterTimeout
  BY <1>0, <1>3 DEF Poller, PollRequest, Block, RecordPending, Forward, DeviceHandle,
    PollResult, OnResult, ResultLookup, ResultCancel, ResultPush
<1>4. CASE ~Poller /\ ~Worker
  <2>1. at' = at /\ msg' = msg
    BY <1>4, PushMoves DEF Next, ExecuteRequest, Recheck, ThreadExit, Unregister,
      DeviceAnswer, Expire, vars, locals
  <2> QED BY <2>1
<1> QED BY <1>1, <1>2, <1>3, <1>4

\* Which VMs become blocked.
LEMMA BlockedChange ==
  ASSUME TypeOK, [Next]_vars
  PROVE  \A v \in blocked' \ blocked :
           Block /\ msg.vm = v /\ at'["poller"] = "register" /\ msg' = msg
<1>1. CASE Block
  BY <1>1 DEF Block, Goto, TypeOK, Threads
<1>2. CASE ~Block
  <2>1. blocked' \subseteq blocked
    BY <1>2 DEF Next, Poller, Worker, OnResult, ExecuteRequest, Recheck, ThreadExit,
      Unregister, PollRequest, RegisterTimeout, RecordPending, Forward, DeviceHandle,
      DeviceAnswer, Push, PushHasRoom, PushFull, PushWrite, PushPublish, PushReturn, PollResult, ResultLookup, ResultCancel, ResultPush, AsyncTake,
      AsyncDone, AsyncErase, AsyncWake, AsyncDeliver, CollectTimeouts,
      TimeoutCallback, CallbacksDone, Scan, LateWake, LateDeliver, LateDone, Expire,
      vars
  <2> QED BY <2>1
<1> QED BY <1>1, <1>2

LEMMA BlockedStep ==
  ASSUME TypeOK, Bookkeeping, BlockedHasWaker, [Next]_vars
  PROVE  BlockedHasWaker'
<1> SUFFICES ASSUME NEW v \in blocked'
             PROVE  Underway(v)' \/ (at'["poller"] = "register" /\ msg'.vm = v)
  BY DEF BlockedHasWaker
<1>1. CASE v \notin blocked
  BY <1>1, BlockedChange
<1>2. CASE v \in blocked
  <2>1. v \in Ids /\ v \in VMs
    BY <1>2 DEF TypeOK, Ids
  <2>2. ~Unregister(v) /\ ~(AsyncWake /\ vm["worker"] = v)
    BY DEF Unregister, AsyncWake
  <2>3. CASE Underway(v)
    BY <2>1, <2>2, <2>3, UnderwayStep
  <2>4. CASE at["poller"] = "register" /\ msg.vm = v
    BY <2>4, RegisterStarts
  <2> QED BY <1>2, <2>3, <2>4 DEF BlockedHasWaker
<1> QED BY <1>1, <1>2

-----------------------------------------------------------------------------
(* An answer to a suspended VM stays on its way *)

\* Only the VM's own thread suspends it, with its request in the ring or the
\* VM among the lost, and only it clears the VM from lost.
LEMMA SuspendChange ==
  ASSUME TypeOK, [Next]_vars, NEW v \in VMs, state'[v] = "SUSPENDED"
  PROVE  \/ v \in lost' \/ Queued(v)'
         \/ /\ state[v] = "SUSPENDED"
            /\ v \in lost => v \in lost'
            /\ v \in vms_' => v \in vms_
<1>1. state = [x \in VMs |-> state[x]]
  BY DEF TypeOK
<1>2. CASE Poller
  BY <1>2 DEF Poller, PollRequest, Block, RegisterTimeout, RecordPending, Forward,
    DeviceHandle, PollResult, OnResult, ResultLookup, ResultCancel, ResultPush, vmVars
<1>3. CASE Worker
  BY <1>1, <1>3 DEF Worker, OnResult, AsyncTake, AsyncDone, AsyncErase, AsyncWake,
    AsyncDeliver, CollectTimeouts, TimeoutCallback, CallbacksDone, Scan, LateWake,
    LateDeliver, LateDone, ResultLookup, ResultCancel, ResultPush, vmVars,
    HandleInterrupt
<1>4. ASSUME NEW u \in VMs, NEW k \in Kinds, ExecuteRequest(u, k)
      PROVE  /\ state[v] = "SUSPENDED"
             /\ v \in lost => v \in lost'
             /\ v \in vms_' => v \in vms_
  <2>1. state' = state /\ state[u] # "SUSPENDED" /\ lost' = lost \ {u} /\ vms_' = vms_
    BY <1>4 DEF ExecuteRequest
  <2> QED BY <2>1
<1>5. CASE \E u \in VMs : Recheck(u) \/ ThreadExit(u) \/ Unregister(u)
  BY <1>1, <1>5 DEF Recheck, ThreadExit, Unregister, vmVars
<1>6. ASSUME NEW s \in Senders, Push(s)
      PROVE  \/ v \in lost' \/ Queued(v)'
             \/ /\ state[v] = "SUSPENDED"
                /\ v \in lost => v \in lost'
                /\ v \in vms_' => v \in vms_
  <2>1. lost \subseteq lost' /\ vms_' = vms_
    BY <1>6 DEF Push, PushHasRoom, PushFull, PushWrite, PushPublish, PushReturn, vmVars
  <2>2. CASE PushFull(s) \/ PushPublish(s)
    <3>1. s # VmSender(v) => state'[v] = state[v]
      BY <2>2 DEF PushFull, PushPublish, PushReturn
    <3>2. s = VmSender(v) => v \in lost' \/ Queued(v)'
      BY <2>2 DEF PushFull, PushPublish
    <3> QED BY <2>1, <3>1, <3>2
  <2>3. CASE PushHasRoom(s) \/ PushWrite(s)
    BY <2>1, <2>3 DEF PushHasRoom, PushWrite, vmVars
  <2> QED BY <1>6, <2>2, <2>3 DEF Push
<1>7. CASE \E i \in Ids, d \in 1 .. MaxAnswers : DeviceAnswer(i, d)
  BY <1>7 DEF DeviceAnswer, vmVars
<1>8. CASE \E i \in Timers : Expire(i)
  BY <1>8 DEF Expire, vmVars
<1>9. CASE UNCHANGED vars
  BY <1>9 DEF vars, vmVars
<1> QED BY <1>2, <1>3, <1>4, <1>5, <1>6, <1>7, <1>8, <1>9 DEF Next

\* A queued request stays queued until the polling thread takes it up or
\* another send makes the ring lose it.
LEMMA QueuedStep ==
  ASSUME TypeOK, [Next]_vars, NEW v \in vms_ \ {MODULE_VM_MANAGER}, Queued(v)
  PROVE  Queued(v)' \/ v \in lost' \/ (at'["poller"] = "block" /\ msg'.vm = v)
<1>0. at = [x \in Threads |-> at[x]] /\ v \in VMs
  BY DEF TypeOK
<1>1. ASSUME UNCHANGED <<queue_, head_, tail_>> PROVE Queued(v)'
  BY <1>1 DEF Queued, Live
<1>2. ASSUME Pop
      PROVE  \/ Queued(v)'
             \/ Oldest.type = "INTERRUPT_REQUEST" /\ Oldest.sender = v /\ Oldest.vm = v
  <2>1. PICK i \in Live : /\ queue_[i].type = "INTERRUPT_REQUEST"
                          /\ queue_[i].sender = v /\ queue_[i].vm = v
    BY DEF Queued
  <2>2. CASE i = head_
    BY <2>1, <2>2 DEF Oldest
  <2>3. CASE i # head_
    <3>1. i \in Live' /\ queue_' = queue_
      BY <1>2, <2>3, PopKeeps DEF TypeOK
    <3> QED BY <2>1, <3>1 DEF Queued
  <2> QED BY <2>2, <2>3
<1>3. CASE PollRequest
  BY <1>0, <1>2, <1>3 DEF PollRequest, Goto, Threads
<1>4. CASE PollResult
  BY <1>2, <1>4 DEF PollResult
<1>5. CASE \E s \in Senders : PushWrite(s) \/ PushPublish(s)
  BY <1>0, <1>5 DEF PushWrite, PushPublish
<1>6. CASE \/ \E s \in Senders : PushHasRoom(s) \/ PushFull(s)
           \/ Forward \/ \E i \in Ids, d \in 1 .. MaxAnswers : DeviceAnswer(i, d)
           \/ \E u \in VMs, k \in Kinds : ExecuteRequest(u, k)
  BY <1>1, <1>6 DEF PushHasRoom, PushFull, Forward, DeviceAnswer, ExecuteRequest, PushBegin
<1>7. CASE Block \/ RegisterTimeout \/ RecordPending \/ DeviceHandle
             \/ OnResult("poller") \/ UNCHANGED vars
  BY <1>1, <1>7 DEF Block, RegisterTimeout, RecordPending, DeviceHandle, OnResult,
    ResultLookup, ResultCancel, ResultPush, vars, ring
<1>8. CASE Worker
  <2>1. UNCHANGED ring
    BY <1>8 DEF Worker, OnResult, AsyncTake, AsyncDone, AsyncErase, AsyncWake,
      AsyncDeliver, CollectTimeouts, TimeoutCallback, CallbacksDone, Scan, LateWake,
      LateDeliver, LateDone, ResultLookup, ResultCancel, ResultPush
  <2> QED BY <1>1, <2>1 DEF ring
<1>9. CASE \/ \E u \in VMs : Recheck(u) \/ ThreadExit(u) \/ Unregister(u)
           \/ \E i \in Timers : Expire(i)
  BY <1>1, <1>9 DEF Recheck, ThreadExit, Unregister, Expire, ring
<1> QED BY <1>3, <1>4, <1>5, <1>6, <1>7, <1>8, <1>9 DEF Next, Poller, Push

\* So does one the handler is about to block the VM for.
LEMMA AboutToBlock ==
  ASSUME TypeOK, Bookkeeping, [Next]_vars, at["poller"] = "block"
  PROVE  at'["poller"] \in {"block", "register"} /\ msg' = msg
<1>0. at = [x \in Threads |-> at[x]]
  BY DEF TypeOK
<1> USE DEF Goto, Return, Threads
<1>1. CASE Worker
  BY <1>0, <1>1 DEF Worker, OnResult, AsyncTake, AsyncDone, AsyncErase, AsyncWake,
    AsyncDeliver, CollectTimeouts, TimeoutCallback, CallbacksDone, Scan, LateWake,
    LateDeliver, LateDone, ResultLookup, ResultCancel, ResultPush
<1>2. CASE Poller
  BY <1>0, <1>2 DEF Poller, PollRequest, Block, RegisterTimeout, RecordPending,
    Forward, DeviceHandle, PollResult, OnResult, ResultLookup, ResultCancel, ResultPush
<1>3. CASE ~Poller /\ ~Worker
  <2>1. at' = at /\ msg' = msg
    BY <1>3, PushMoves DEF Next, ExecuteRequest, Recheck, ThreadExit, Unregister,
      DeviceAnswer, Expire, vars, locals
  <2> QED BY <2>1
<1> QED BY <1>1, <1>2, <1>3

LEMMA SuspendedStep ==
  ASSUME TypeOK, Bookkeeping, SuspendedHasAnswer, [Next]_vars
  PROVE  SuspendedHasAnswer'
<1> SUFFICES ASSUME NEW v \in vms_' \ (lost' \cup {MODULE_VM_MANAGER}),
                    state'[v] = "SUSPENDED"
             PROVE  \/ Requested(v)' \/ Underway(v)'
                    \/ at'["worker"] = "deliver" /\ vm'["worker"] = v
  BY DEF SuspendedHasAnswer
<1>1. v \in VMs /\ v \in Ids
  BY TypeStep DEF TypeOK, Ids
<1>2. CASE Queued(v)'
  BY <1>2 DEF Requested
<1>3. CASE ~Queued(v)'
  <2>1. v \in vms_ \ (lost \cup {MODULE_VM_MANAGER}) /\ state[v] = "SUSPENDED"
    BY <1>1, <1>3, SuspendChange
  <2>2. CASE Underway(v)
    <3>1. ~Unregister(v)
      BY DEF Unregister
    <3>2. CASE AsyncWake /\ vm["worker"] = v
      BY <3>2 DEF AsyncWake, Goto, TypeOK, Threads
    <3> QED BY <1>1, <2>2, <3>1, <3>2, UnderwayStep
  <2>3. CASE at["worker"] = "deliver" /\ vm["worker"] = v
    <3>0. at = [x \in Threads |-> at[x]] /\ vm = [x \in Threads |-> vm[x]]
      BY DEF TypeOK
    <3>1. ~AsyncDeliver
      BY <1>1, <2>1, <2>3 DEF AsyncDeliver, HandleInterrupt
    <3>2. CASE Worker
      BY <2>3, <3>1, <3>2 DEF Worker, OnResult, AsyncTake, AsyncDone, AsyncErase,
        AsyncWake, CollectTimeouts, TimeoutCallback, CallbacksDone, Scan, LateWake,
        LateDeliver, LateDone, ResultLookup, ResultCancel, ResultPush
    <3>3. CASE Poller
      BY <2>3, <3>0, <3>3 DEF Poller, PollRequest, Block, RegisterTimeout,
        RecordPending, Forward, DeviceHandle, PollResult, OnResult, ResultLookup,
        ResultCancel, ResultPush, Goto, Return, Threads
    <3>4. CASE \E s \in Senders : Push(s)
      BY <2>3, <3>0, <3>4, PushMoves DEF Threads
    <3>5. CASE ~Poller /\ ~Worker /\ ~(\E s \in Senders : Push(s))
      <4>1. at' = at /\ vm' = vm
        BY <3>5 DEF Next, ExecuteRequest, Recheck, ThreadExit, Unregister,
          DeviceAnswer, Expire, vars, locals
      <4> QED BY <2>3, <4>1
    <3> QED BY <3>2, <3>3, <3>4, <3>5
  <2>4. CASE Requested(v)
    <3>1. CASE at["poller"] = "block" /\ msg.vm = v
      BY <3>1, AboutToBlock DEF Requested
    <3>2. CASE at["poller"] = "register" /\ msg.vm = v
      BY <3>2, RegisterStarts DEF Requested
    <3>3. CASE Queued(v)
      BY <2>1, <3>3, QueuedStep DEF Requested
    <3> QED BY <2>4, <3>1, <3>2, <3>3 DEF Requested
  <2> QED BY <2>1, <2>2, <2>3, <2>4 DEF SuspendedHasAnswer
<1> QED BY <1>2, <1>3

LEMMA WaitInvHolds == Spec => []WaitInv
<1>1. WaitInv /\ [Next]_vars => WaitInv'
  BY TypeStep, BookStep, BlockedStep, SuspendedStep DEF WaitInv
<1> QED BY <1>1, InitWaitInv, PTL DEF Spec

\* A VM the scheduler keeps blocked always has a wake-up underway, through
\* the timeouts and results alone.
THEOREM BlockedVmsAreCovered == Spec => []BlockedHasWaker
<1>1. WaitInv => BlockedHasWaker
  BY DEF WaitInv
<1> QED BY <1>1, WaitInvHolds, PTL

\* A suspended VM has an answer coming, unless it has the manager's id, or
\* the ring refused its request as it was full, or lost it to another send
\* that overlapped.
THEOREM SuspendedVmsAreCovered == Spec => []SuspendedHasAnswer
<1>1. WaitInv => SuspendedHasAnswer
  BY DEF WaitInv
<1> QED BY <1>1, WaitInvHolds, PTL

\* The scheduler only blocks VMs that are registered, and every handler's
\* locals name a VM and a timeout that exist.
THEOREM TypeCorrect == Spec => []TypeOK
<1>1. WaitInv => TypeOK
  BY DEF WaitInv
<1> QED BY <1>1, WaitInvHolds, PTL
=============================================================================
