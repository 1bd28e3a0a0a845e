----------------------- MODULE LockFreeMessageQueue -----------------------
(***************************************************************************)
(* The ring buffer behind the router (include/router/                      *)
(* LockFreeMessageQueue.h).  queue_ has MAX_QUEUE_SIZE slots, one of which *)
(* stays empty so that head_ = tail_ means "empty".  try_push and try_pop  *)
(* take no lock: each is a sequence of separate accesses to the shared     *)
(* indices and slots, and every access is one step here, so that the steps *)
(* of several threads interleave.  A thread that calls try_push is a       *)
(* producer; the polling thread is the only caller of try_pop.             *)
(*                                                                         *)
(* Messages are identities: each is offered at most once, as the callers   *)
(* never retry a failed send.                                              *)
(***************************************************************************)
EXTENDS Naturals, Sequences, FiniteSets

CONSTANTS
  Producers,       \* threads that call try_push
  Msgs,            \* the messages they offer
  MAX_QUEUE_SIZE,  \* the number of slots
  NoMsg            \* a default-constructed Message

ASSUME QueueSizeAssumption == MAX_QUEUE_SIZE \in Nat /\ MAX_QUEUE_SIZE >= 2
ASSUME NoMsgAssumption == NoMsg \notin Msgs

VARIABLES
  queue_,    \* the slots
  head_,     \* index of the next slot to pop
  tail_,     \* index of the next slot to fill
  push,      \* per producer: where it is in try_push, and its locals
  pop,       \* where the polling thread is in try_pop, and its locals
  unsent,    \* messages not offered yet
  accepted,  \* history: messages try_push returned true for, in order
  received,  \* history: messages try_pop returned, in order
  dropped    \* history: messages try_push returned false for

queueVars == <<queue_, head_, tail_>>
history   == <<accepted, received, dropped>>
ringVars      == <<queueVars, push, pop, unsent, history>>

Index == 0 .. MAX_QUEUE_SIZE - 1

Advance(i) == (i + 1) % MAX_QUEUE_SIZE

\* size(): how many messages lie between the two indices.
Size ==
  IF tail_ >= head_ THEN tail_ - head_ ELSE MAX_QUEUE_SIZE - head_ + tail_

PushIdle == [pc |-> "idle", tail |-> 0, msg |-> NoMsg]
PopIdle  == [pc |-> "idle", head |-> 0, msg |-> NoMsg]

RingTypeOK ==
  /\ queue_ \in [Index -> Msgs \cup {NoMsg}]
  /\ head_ \in Index
  /\ tail_ \in Index
  /\ push \in [Producers ->
                 {PushIdle} \cup [pc : {"check", "write", "publish"},
                                  tail : Index, msg : Msgs]]
  /\ pop \in [pc : {"idle", "check", "read", "advance"},
              head : Index, msg : Msgs \cup {NoMsg}]
  /\ unsent \subseteq Msgs
  /\ accepted \in Seq(Msgs)
  /\ received \in Seq(Msgs \cup {NoMsg})
  /\ dropped \subseteq Msgs

RingInit ==
  /\ queue_ = [i \in Index |-> NoMsg]
  /\ head_ = 0
  /\ tail_ = 0
  /\ push = [p \in Producers |-> PushIdle]
  /\ pop = PopIdle
  /\ unsent = Msgs
  /\ accepted = <<>>
  /\ received = <<>>
  /\ dropped = {}

-----------------------------------------------------------------------------
(* try_push *)

\* current_tail = tail_.load(relaxed)
PushLoadTail(p, m) ==
  /\ push[p].pc = "idle"
  /\ m \in unsent
  /\ unsent' = unsent \ {m}
  /\ push' = [push EXCEPT ![p] = [pc |-> "check", tail |-> tail_, msg |-> m]]
  /\ UNCHANGED <<queueVars, pop, history>>

\* a bug to notice: the full check keeps a second slot empty
PushFullEarly(p) ==
  /\ push[p].pc = "check"
  /\ Advance(push[p].tail) = head_ \/ Advance(Advance(push[p].tail)) = head_
  /\ dropped' = dropped \cup {push[p].msg}
  /\ push' = [push EXCEPT ![p] = PushIdle]
  /\ UNCHANGED <<queueVars, pop, unsent, accepted, received>>

\* next_tail == head_.load(acquire): the queue is full, return false
PushFull(p) ==
  /\ push[p].pc = "check"
  /\ Advance(push[p].tail) = head_
  /\ dropped' = dropped \cup {push[p].msg}
  /\ push' = [push EXCEPT ![p] = PushIdle]
  /\ UNCHANGED <<queueVars, pop, unsent, accepted, received>>

\* a bug to notice: the write is not guarded by the full check
PushUnchecked(p) ==
  /\ push[p].pc = "check"
  /\ push' = [push EXCEPT ![p].pc = "write"]
  /\ UNCHANGED <<queueVars, pop, unsent, history>>

PushHasRoom(p) ==
  /\ push[p].pc = "check"
  /\ Advance(push[p].tail) # head_
  /\ push' = [push EXCEPT ![p].pc = "write"]
  /\ UNCHANGED <<queueVars, pop, unsent, history>>

\* queue_[current_tail] = msg
PushWrite(p) ==
  /\ push[p].pc = "write"
  /\ queue_' = [queue_ EXCEPT ![push[p].tail] = push[p].msg]
  /\ push' = [push EXCEPT ![p].pc = "publish"]
  /\ UNCHANGED <<head_, tail_, pop, unsent, history>>

\* tail_.store(next_tail, release); return true
PushPublish(p) ==
  /\ push[p].pc = "publish"
  /\ tail_' = Advance(push[p].tail)
  /\ accepted' = Append(accepted, push[p].msg)
  /\ push' = [push EXCEPT ![p] = PushIdle]
  /\ UNCHANGED <<queue_, head_, pop, unsent, received, dropped>>

-----------------------------------------------------------------------------
(* try_pop *)

\* current_head = head_.load(relaxed)
PopLoadHead ==
  /\ pop.pc = "idle"
  /\ pop' = [pc |-> "check", head |-> head_, msg |-> NoMsg]
  /\ UNCHANGED <<queueVars, push, unsent, history>>

\* current_head == tail_.load(acquire): return nullopt
PopEmpty ==
  /\ pop.pc = "check"
  /\ pop.head = tail_
  /\ pop' = PopIdle
  /\ UNCHANGED <<queueVars, push, unsent, history>>

\* a bug to notice: the slot is read before it is known to be filled
PopUnchecked ==
  /\ pop.pc = "check"
  /\ pop' = [pop EXCEPT !.pc = "read"]
  /\ UNCHANGED <<queueVars, push, unsent, history>>

PopNotEmpty ==
  /\ pop.pc = "check"
  /\ pop.head # tail_
  /\ pop' = [pop EXCEPT !.pc = "read"]
  /\ UNCHANGED <<queueVars, push, unsent, history>>

\* msg = queue_[current_head]
PopRead ==
  /\ pop.pc = "read"
  /\ pop' = [pop EXCEPT !.pc = "advance", !.msg = queue_[pop.head]]
  /\ UNCHANGED <<queueVars, push, unsent, history>>

\* head_.store(current_head + 1, release); return msg
PopAdvance ==
  /\ pop.pc = "advance"
  /\ head_' = Advance(pop.head)
  /\ received' = Append(received, pop.msg)
  /\ pop' = PopIdle
  /\ UNCHANGED <<queue_, tail_, push, unsent, accepted, dropped>>

-----------------------------------------------------------------------------
Push(p) ==
  \/ \E m \in Msgs : PushLoadTail(p, m)
  \/ PushFull(p)
  \/ PushHasRoom(p)
  \/ PushWrite(p)
  \/ PushPublish(p)

Pop ==
  \/ PopLoadHead
  \/ PopEmpty
  \/ PopNotEmpty
  \/ PopRead
  \/ PopAdvance

RingNext == Pop \/ \E p \in Producers : Push(p)

RingSpec == RingInit /\ [][RingNext]_ringVars

-----------------------------------------------------------------------------
(* Properties *)

\* The messages between head_ and tail_, oldest first.
Contents ==
  [k \in 1 .. Size |-> queue_[(head_ + k - 1) % MAX_QUEUE_SIZE]]

\* No message that try_push reported as accepted is lost, duplicated or
\* reordered: the accepted messages are those already popped followed by
\* those in the ring.  It is about the check-then-write window of try_push.
NothingLost == accepted = received \o Contents

\* The slots a producer is writing and the polling thread is reading are
\* never the same one, and two producers never write one slot: the accesses
\* to the non-atomic slots do not race.
NoSlotRace ==
  /\ \A p \in Producers :
       push[p].pc \in {"write", "publish"} =>
         /\ pop.pc \in {"read", "advance"} => push[p].tail # pop.head
         /\ \A q \in Producers \ {p} :
              push[q].pc \in {"write", "publish"} => push[p].tail # push[q].tail

\* What each thread in the middle of an operation still knows about the
\* shared indices, when one thread sends.
SendersView ==
  \A p \in Producers :
    /\ push[p].pc # "idle" => push[p].tail = tail_
    /\ push[p].pc \in {"write", "publish"} => Advance(tail_) # head_
    /\ push[p].pc = "publish" => queue_[tail_] = push[p].msg

PollersView ==
  /\ pop.pc # "idle" => pop.head = head_
  /\ pop.pc \in {"read", "advance"} => head_ # tail_
  /\ pop.pc = "advance" => pop.msg = queue_[head_]

\* The ring buffer is a bounded FIFO with one slot less than it allocates.
Fifo == INSTANCE BoundedFifo WITH
  Capacity <- MAX_QUEUE_SIZE - 1, fifo <- Contents, taken <- received

ImplementsFifo == Fifo!Spec

\* A message being offered has no outcome yet.
Fresh ==
  LET Settled == Fifo!Elements(accepted) \cup dropped
  IN  /\ unsent \cap Settled = {}
      /\ \A p \in Producers :
           push[p].pc # "idle" => push[p].msg \notin unsent \cup Settled
=============================================================================
