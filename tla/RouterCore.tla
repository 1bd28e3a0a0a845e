---------------------------- MODULE RouterCore ----------------------------
(***************************************************************************)
(* The message router (include/router/RouterCore.h, src/router/            *)
(* RouterCore.cpp): send() pushes on the lock-free ring and counts the     *)
(* message afterwards; one polling thread pops, discounts and hands every  *)
(* message to the subscribers of its type, to the subscribers of its       *)
(* sender and to the external receivers, in this order.  The counter       *)
(* queue_size is a size_t of its own, updated after the ring: it is        *)
(* modelled modulo SIZE_MODULUS (2^64 in the code).                        *)
(***************************************************************************)
EXTENDS LockFreeMessageQueue

CONSTANTS
  Types, TypeOf,          \* message types, and the type of each message
  Senders, SenderOf,      \* sender ids, and the sender of each message
  Callbacks,              \* callbacks, each registered at most once
  SIZE_MODULUS            \* number of values of size_t

\* A size_t counts more than the ring holds, or it could not count it at all.
ASSUME SizeAssumption == SIZE_MODULUS \in Nat /\ SIZE_MODULUS > MAX_QUEUE_SIZE

VARIABLES
  counting,            \* producers between try_push and fetch_add
  queue_size,          \* the counter get_queue_size() returns
  running,             \* the polling loop's flag
  joining,             \* stop() is waiting for the polling thread
  poll,                \* where the polling thread is
  subscribers,         \* callbacks per message type
  sender_subscribers,  \* callbacks per sender
  external_receivers,  \* callbacks for every message
  delivered            \* history: what each callback was given, in order

registry == <<subscribers, sender_subscribers, external_receivers>>
control  == <<running, joining>>
vars == <<ringVars, counting, queue_size, control, poll, registry, delivered>>

Current == received[Len(received)]   \* the message the last poll() returned

Registered ==
  UNION {Fifo!Elements(subscribers[t]) : t \in Types}
    \cup UNION {Fifo!Elements(sender_subscribers[s]) : s \in Senders}
    \cup Fifo!Elements(external_receivers)

TypeOK ==
  /\ RingTypeOK
  /\ counting \subseteq Producers
  /\ queue_size \in 0 .. SIZE_MODULUS - 1
  /\ running \in BOOLEAN /\ joining \in BOOLEAN
  /\ poll \in {"off", "loop", "pop", "count", "type", "sender", "external"}
  /\ subscribers \in [Types -> Seq(Callbacks)]
  /\ sender_subscribers \in [Senders -> Seq(Callbacks)]
  /\ external_receivers \in Seq(Callbacks)
  /\ delivered \in [Callbacks -> Seq(Msgs)]

Init ==
  /\ RingInit
  /\ counting = {}
  /\ queue_size = 0
  /\ running = FALSE /\ joining = FALSE
  /\ poll = "off"
  /\ subscribers = [t \in Types |-> <<>>]
  /\ sender_subscribers = [s \in Senders |-> <<>>]
  /\ external_receivers = <<>>
  /\ delivered = [c \in Callbacks |-> <<>>]

-----------------------------------------------------------------------------
(* send: try_push, then queue_size.fetch_add(1) when it succeeded *)

\* a bug to notice: a refused message is counted too
SendPushCountsAlways(p) ==
  /\ p \notin counting
  /\ \/ (\E m \in Msgs : PushLoadTail(p, m)) /\ UNCHANGED counting
     \/ PushFull(p) /\ counting' = counting \cup {p}
     \/ PushHasRoom(p) /\ UNCHANGED counting
     \/ PushWrite(p) /\ UNCHANGED counting
     \/ PushPublish(p) /\ counting' = counting \cup {p}
  /\ UNCHANGED <<queue_size, control, poll, registry, delivered>>

SendPush(p) ==
  /\ p \notin counting
  /\ \/ (\E m \in Msgs : PushLoadTail(p, m)) /\ UNCHANGED counting
     \/ PushFull(p) /\ UNCHANGED counting
     \/ PushHasRoom(p) /\ UNCHANGED counting
     \/ PushWrite(p) /\ UNCHANGED counting
     \/ PushPublish(p) /\ counting' = counting \cup {p}
  /\ UNCHANGED <<queue_size, control, poll, registry, delivered>>

SendCount(p) ==
  /\ p \in counting
  /\ counting' = counting \ {p}
  /\ queue_size' = (queue_size + 1) % SIZE_MODULUS
  /\ UNCHANGED <<ringVars, control, poll, registry, delivered>>

-----------------------------------------------------------------------------
(* subscribe, subscribe_from, connect_external_receiver.  The callbacks of  *)
(* the "type" and "sender" phases run under subscriber_mtx, the external    *)
(* ones under external_mtx; each phase is one step, so the registries never *)
(* change inside one.                                                       *)

Subscribe(t, c) ==
  /\ c \notin Registered
  /\ subscribers' = [subscribers EXCEPT ![t] = Append(@, c)]
  /\ UNCHANGED <<ringVars, counting, queue_size, control, poll,
                 sender_subscribers, external_receivers, delivered>>

SubscribeFrom(s, c) ==
  /\ c \notin Registered
  /\ sender_subscribers' = [sender_subscribers EXCEPT ![s] = Append(@, c)]
  /\ UNCHANGED <<ringVars, counting, queue_size, control, poll,
                 subscribers, external_receivers, delivered>>

ConnectExternalReceiver(c) ==
  /\ c \notin Registered
  /\ external_receivers' = Append(external_receivers, c)
  /\ UNCHANGED <<ringVars, counting, queue_size, control, poll,
                 subscribers, sender_subscribers, delivered>>

-----------------------------------------------------------------------------
(* start_polling and stop, called by the controlling thread *)

StartPolling ==
  /\ ~running /\ ~joining
  /\ running' = TRUE
  /\ poll' = "loop"
  /\ UNCHANGED <<ringVars, counting, queue_size, joining, registry, delivered>>

StopRequest ==
  /\ running
  /\ running' = FALSE
  /\ joining' = TRUE
  /\ UNCHANGED <<ringVars, counting, queue_size, poll, registry, delivered>>

\* a bug to notice: stop() returns without joining
StopDetached ==
  /\ joining
  /\ joining' = FALSE
  /\ UNCHANGED <<ringVars, counting, queue_size, running, poll, registry, delivered>>

StopJoined ==
  /\ joining /\ poll = "off"
  /\ joining' = FALSE
  /\ UNCHANGED <<ringVars, counting, queue_size, running, poll, registry, delivered>>

-----------------------------------------------------------------------------
(* polling_loop *)

\* while (running.load())
LoopTest ==
  /\ poll = "loop"
  /\ poll' = IF running THEN "pop" ELSE "off"
  /\ UNCHANGED <<ringVars, counting, queue_size, control, registry, delivered>>

\* poll(): try_pop, then queue_size.fetch_sub(1) when it returned a message
PollPop ==
  /\ poll = "pop"
  /\ \/ (PopLoadHead \/ PopNotEmpty \/ PopRead) /\ UNCHANGED poll
     \/ PopEmpty /\ poll' = "loop"
     \/ PopAdvance /\ poll' = "count"
  /\ UNCHANGED <<counting, queue_size, control, registry, delivered>>

\* a bug to notice: the counter is decremented without wrapping
PollCountSigned ==
  /\ poll = "count"
  /\ queue_size' = queue_size - 1
  /\ poll' = "type"
  /\ UNCHANGED <<ringVars, counting, control, registry, delivered>>

PollCount ==
  /\ poll = "count"
  /\ queue_size' = (queue_size + SIZE_MODULUS - 1) % SIZE_MODULUS
  /\ poll' = "type"
  /\ UNCHANGED <<ringVars, counting, control, registry, delivered>>

\* every callback in the list cs is given the current message
Deliver(cs) ==
  delivered' = [c \in Callbacks |->
                  IF c \in Fifo!Elements(cs) THEN Append(delivered[c], Current)
                                               ELSE delivered[c]]

\* a bug to notice: a message nobody subscribed to by type is skipped
DispatchByTypeOrSkip ==
  /\ poll = "type"
  /\ Deliver(subscribers[TypeOf[Current]])
  /\ poll' = IF subscribers[TypeOf[Current]] = <<>> THEN "loop" ELSE "sender"
  /\ UNCHANGED <<ringVars, counting, queue_size, control, registry>>

DispatchByType ==
  /\ poll = "type"
  /\ Deliver(subscribers[TypeOf[Current]])
  /\ poll' = "sender"
  /\ UNCHANGED <<ringVars, counting, queue_size, control, registry>>

DispatchBySender ==
  /\ poll = "sender"
  /\ Deliver(sender_subscribers[SenderOf[Current]])
  /\ poll' = "external"
  /\ UNCHANGED <<ringVars, counting, queue_size, control, registry>>

DispatchExternal ==
  /\ poll = "external"
  /\ Deliver(external_receivers)
  /\ poll' = "loop"
  /\ UNCHANGED <<ringVars, counting, queue_size, control, registry>>

PollingThread ==
  LoopTest \/ PollPop \/ PollCount \/ DispatchByType \/ DispatchBySender \/ DispatchExternal

Next ==
  \/ PollingThread
  \/ \E p \in Producers : SendPush(p) \/ SendCount(p)
  \/ \E c \in Callbacks :
       \/ \E t \in Types : Subscribe(t, c)
       \/ \E s \in Senders : SubscribeFrom(s, c)
       \/ ConnectExternalReceiver(c)
  \/ StartPolling \/ StopRequest \/ StopJoined

\* The polling thread is a thread of its own that never blocks.
Fairness == WF_vars(PollingThread)

Spec == Init /\ [][Next]_vars /\ Fairness

-----------------------------------------------------------------------------
(* Properties *)

\* The separate counter behind get_queue_size() is off by exactly the
\* updates still to come: one per sender that has pushed and not counted,
\* less one when the polling thread has popped and not discounted.  In
\* between it may run below zero and wrap; it never drifts for good.
QueueSizeCounts ==
  (queue_size + Cardinality(counting)) % SIZE_MODULUS
    = (Size + (IF poll = "count" THEN 1 ELSE 0)) % SIZE_MODULUS

\* The callbacks process_and_dispatch runs for message m.
Wanted(c, m) ==
  c \in Fifo!Elements(subscribers[TypeOf[m]])
    \cup Fifo!Elements(sender_subscribers[SenderOf[m]])
    \cup Fifo!Elements(external_receivers)

\* An accepted message reaches every callback that was registered for it
\* before it left the ring, as long as the router is not stopped.
AcceptedIsDelivered ==
  \A m \in Msgs, c \in Callbacks :
    (/\ m \in Fifo!Elements(accepted) \ Fifo!Elements(received)
     /\ Wanted(c, m))
      ~> (m \in Fifo!Elements(delivered[c]) \/ ~running)

\* Once stop() has returned no callback runs until start_polling(): the
\* join waits for the message being dispatched and leaves the rest queued.
StopQuiesces == [][~running /\ ~joining => UNCHANGED <<delivered, received>>]_vars

=============================================================================
