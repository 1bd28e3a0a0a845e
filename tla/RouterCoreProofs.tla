-------------------------- MODULE RouterCoreProofs --------------------------
(***************************************************************************)
(* Proofs about the ring: with one sending thread it loses, duplicates and *)
(* reorders nothing and its slots are never written and read at once, for  *)
(* every number of slots and messages.  With several senders both fail:    *)
(* that is what the run MCRouterCoreTwoSenders shows.  Then about the      *)
(* router: every step of it is a step of its ring or leaves the ring       *)
(* alone, so what is proved of the ring holds in the router; and once      *)
(* stop() has returned nothing is dispatched.                              *)
(***************************************************************************)
EXTENDS RouterCore, Integers, SequenceTheorems, FiniteSetTheorems, TLAPS

SingleProducer == \A p, q \in Producers : p = q

Slots == Msgs \cup {NoMsg}

IInv == RingTypeOK /\ SendersView /\ PollersView /\ NothingLost

-----------------------------------------------------------------------------
(* The arithmetic of the ring.  Modulo is needed here only; afterwards the *)
(* indices are compared by cases.                                          *)

\* Advance wraps at the last slot.
LEMMA AdvanceCases ==
  ASSUME NEW i \in Index
  PROVE  Advance(i) = (IF i + 1 = MAX_QUEUE_SIZE THEN 0 ELSE i + 1)
BY QueueSizeAssumption, SMTT(30) DEF Advance, Index

\* The k-th slot after index h, counted from 1.
LEMMA SlotCases ==
  ASSUME NEW h \in Index, NEW k \in 1 .. MAX_QUEUE_SIZE
  PROVE  (h + k - 1) % MAX_QUEUE_SIZE
           = (IF h + k - 1 < MAX_QUEUE_SIZE THEN h + k - 1
                                            ELSE h + k - 1 - MAX_QUEUE_SIZE)
BY QueueSizeAssumption, SMTT(30) DEF Index

\* Contents is a sequence of Size elements, at most MAX_QUEUE_SIZE - 1.
LEMMA ContentsType ==
  ASSUME RingTypeOK
  PROVE  /\ Size \in 0 .. MAX_QUEUE_SIZE - 1
         /\ Contents \in Seq(Slots)
         /\ Len(Contents) = Size
         /\ \A k \in 1 .. Size :
              Contents[k] = queue_[(head_ + k - 1) % MAX_QUEUE_SIZE]
<1>1. Size \in 0 .. MAX_QUEUE_SIZE - 1
  BY QueueSizeAssumption DEF RingTypeOK, Size, Index
<1>2. \A k \in 1 .. Size : (head_ + k - 1) % MAX_QUEUE_SIZE \in Index
  BY <1>1, SlotCases, QueueSizeAssumption DEF RingTypeOK, Index
<1>3. \A k \in 1 .. Size : queue_[(head_ + k - 1) % MAX_QUEUE_SIZE] \in Slots
  BY <1>2 DEF RingTypeOK, Slots
<1>4. Contents \in [1 .. Size -> Slots]
  BY <1>3 DEF Contents
<1>5. Contents \in Seq(Slots) /\ Len(Contents) = Size
  BY <1>1, <1>4
<1> QED BY <1>1, <1>5 DEF Contents

\* Appending to the right part of a concatenation.
LEMMA ConcatAppend ==
  ASSUME NEW S, NEW s \in Seq(S), NEW t \in Seq(S), NEW m \in S
  PROVE  s \o Append(t, m) = Append(s \o t, m)
<1>1. <<m>> \in Seq(S)
  OBVIOUS
<1>2. s \o t \in Seq(S)
  BY ConcatProperties
<1>3. Append(t, m) = t \o <<m>> /\ Append(s \o t, m) = (s \o t) \o <<m>>
  BY <1>2, AppendIsConcat
<1> QED BY <1>1, <1>3, ConcatAssociative

\* Moving the head of the right part to the end of the left part.
LEMMA ConcatHead ==
  ASSUME NEW S, NEW s \in Seq(S), NEW t \in Seq(S), t # <<>>
  PROVE  s \o t = Append(s, Head(t)) \o Tail(t)
<1>1. /\ Head(t) = t[1]
      /\ Head(t) \in S
      /\ Tail(t) \in Seq(S)
      /\ Len(Tail(t)) = Len(t) - 1
      /\ \A i \in 1 .. Len(t) - 1 : Tail(t)[i] = t[i + 1]
  BY HeadTailProperties
<1>2. Append(s, Head(t)) \in Seq(S) /\ Len(Append(s, Head(t))) = Len(s) + 1
  BY <1>1
<1>3. /\ s \o t \in Seq(S)
      /\ Append(s, Head(t)) \o Tail(t) \in Seq(S)
      /\ Len(s \o t) = Len(Append(s, Head(t)) \o Tail(t))
  BY <1>1, <1>2, ConcatProperties
<1>4. ASSUME NEW i \in 1 .. Len(s \o t)
      PROVE  (s \o t)[i] = (Append(s, Head(t)) \o Tail(t))[i]
  <2>1. CASE i <= Len(s)
    BY <2>1, <1>1, <1>2, ConcatProperties
  <2>2. CASE i = Len(s) + 1
    BY <2>2, <1>1, <1>2, ConcatProperties
  <2>3. CASE i > Len(s) + 1
    BY <2>3, <1>1, <1>2, ConcatProperties
  <2> QED BY <2>1, <2>2, <2>3, <1>3
<1> QED BY <1>3, <1>4, SeqEqual

-----------------------------------------------------------------------------
(* The invariant *)

LEMMA InitInv == RingInit => IInv
<1> SUFFICES ASSUME RingInit PROVE IInv
  OBVIOUS
<1>1. RingTypeOK
  <2>1. 0 \in Index
    BY QueueSizeAssumption DEF Index
  <2> QED BY <2>1 DEF RingInit, RingTypeOK, PushIdle, PopIdle, Slots
<1>2. SendersView /\ PollersView
  BY DEF RingInit, SendersView, PollersView, PushIdle, PopIdle
<1>3. NothingLost
  <2>1. Size = 0
    BY DEF RingInit, Size
  <2>2. Contents = <<>>
    BY <2>1 DEF Contents
  <2> QED BY <2>2 DEF RingInit, NothingLost
<1> QED BY <1>1, <1>2, <1>3 DEF IInv

\* Every step keeps the types, whoever sends.
LEMMA TypeStep == RingTypeOK /\ [RingNext]_ringVars => RingTypeOK'
<1> SUFFICES ASSUME RingTypeOK, [RingNext]_ringVars PROVE RingTypeOK'
  OBVIOUS
<1>1. \A i \in Index : Advance(i) \in Index
  BY AdvanceCases, QueueSizeAssumption DEF Index
<1>2. 0 \in Index
  BY QueueSizeAssumption DEF Index
<1> USE DEF RingTypeOK, history, queueVars
<1>3. ASSUME NEW p \in Producers PROVE push[p] \in {PushIdle} \cup
        [pc : {"check", "write", "publish"}, tail : Index, msg : Msgs]
  OBVIOUS
<1>4. ASSUME NEW p \in Producers, NEW m \in Msgs, PushLoadTail(p, m) PROVE RingTypeOK'
  BY <1>4 DEF PushLoadTail
<1>5. ASSUME NEW p \in Producers, PushFull(p) PROVE RingTypeOK'
  BY <1>3, <1>5 DEF PushFull, PushIdle
<1>6. ASSUME NEW p \in Producers, PushHasRoom(p) PROVE RingTypeOK'
  <2>1. push[p] \in [pc : {"check", "write", "publish"}, tail : Index, msg : Msgs]
    BY <1>3, <1>6 DEF PushHasRoom, PushIdle
  <2> QED BY <2>1, <1>6 DEF PushHasRoom
<1>7. ASSUME NEW p \in Producers, PushWrite(p) PROVE RingTypeOK'
  <2>1. push[p] \in [pc : {"check", "write", "publish"}, tail : Index, msg : Msgs]
    BY <1>3, <1>7 DEF PushWrite, PushIdle
  <2> QED BY <2>1, <1>7 DEF PushWrite
<1>8. ASSUME NEW p \in Producers, PushPublish(p) PROVE RingTypeOK'
  <2>1. push[p] \in [pc : {"check", "write", "publish"}, tail : Index, msg : Msgs]
    BY <1>3, <1>8 DEF PushPublish, PushIdle
  <2> QED BY <2>1, <1>1, <1>8 DEF PushPublish
<1>9. CASE Pop
  <2>1. CASE PopLoadHead
    BY <2>1 DEF PopLoadHead
  <2>2. CASE PopEmpty
    BY <2>2, <1>2 DEF PopEmpty, PopIdle
  <2>3. CASE PopNotEmpty
    BY <2>3 DEF PopNotEmpty
  <2>4. CASE PopRead
    BY <2>4 DEF PopRead
  <2>5. CASE PopAdvance
    BY <2>5, <1>1, <1>2 DEF PopAdvance, PopIdle
  <2> QED BY <1>9, <2>1, <2>2, <2>3, <2>4, <2>5 DEF Pop
<1>10. CASE UNCHANGED ringVars
  BY <1>10 DEF ringVars
<1> QED BY <1>4, <1>5, <1>6, <1>7, <1>8, <1>9, <1>10 DEF RingNext, Push

\* Changing neither the ring nor its indices leaves the contents alone.
LEMMA SameRing ==
  ASSUME UNCHANGED queueVars
  PROVE  Size' = Size /\ Contents' = Contents
BY DEF queueVars, Size, Contents

\* What the threads know about the indices survives every step, when there
\* is one sender: nobody else moves tail_ under it, or head_ under the poller.
LEMMA ViewsStep ==
  ASSUME SingleProducer, IInv, [RingNext]_ringVars
  PROVE  SendersView' /\ PollersView'
<1> USE DEF IInv, RingTypeOK, SendersView, PollersView, history, queueVars, SingleProducer
<1>1. \A i \in Index : Advance(i) \in Index /\ Advance(i) # i
  BY AdvanceCases, QueueSizeAssumption DEF Index
<1>2. \A i, j \in Index : Advance(i) = Advance(j) => i = j
  BY AdvanceCases, QueueSizeAssumption DEF Index
<1>3. ASSUME NEW p \in Producers, NEW m \in Msgs, PushLoadTail(p, m)
      PROVE  SendersView' /\ PollersView'
  BY <1>3 DEF PushLoadTail
<1>4. ASSUME NEW p \in Producers, PushFull(p) PROVE SendersView' /\ PollersView'
  BY <1>4 DEF PushFull, PushIdle
<1>5. ASSUME NEW p \in Producers, PushHasRoom(p) PROVE SendersView' /\ PollersView'
  BY <1>5 DEF PushHasRoom
<1>6. ASSUME NEW p \in Producers, PushWrite(p) PROVE SendersView' /\ PollersView'
  BY <1>6 DEF PushWrite
<1>7. ASSUME NEW p \in Producers, PushPublish(p) PROVE SendersView' /\ PollersView'
  BY <1>1, <1>7 DEF PushPublish, PushIdle
<1>8. CASE Pop
  <2>1. CASE PopLoadHead
    BY <2>1 DEF PopLoadHead
  <2>2. CASE PopEmpty
    BY <2>2 DEF PopEmpty, PopIdle
  <2>3. CASE PopNotEmpty
    BY <2>3 DEF PopNotEmpty
  <2>4. CASE PopRead
    BY <2>4 DEF PopRead
  <2>5. CASE PopAdvance
    BY <2>5, <1>1, <1>2 DEF PopAdvance, PopIdle
  <2> QED BY <1>8, <2>1, <2>2, <2>3, <2>4, <2>5 DEF Pop
<1>9. CASE UNCHANGED ringVars
  BY <1>9 DEF ringVars
<1> QED BY <1>3, <1>4, <1>5, <1>6, <1>7, <1>8, <1>9 DEF RingNext, Push

\* Writing the free slot does not touch the contents.
LEMMA WriteKeepsContents ==
  ASSUME IInv, NEW p \in Producers, PushWrite(p)
  PROVE  Contents' = Contents
<1>1. head_ \in Index /\ tail_ \in Index /\ head_' = head_ /\ tail_' = tail_
  BY DEF IInv, RingTypeOK, PushWrite
<1>2. \A k \in 1 .. Size : (head_ + k - 1) % MAX_QUEUE_SIZE # tail_
  BY <1>1, SlotCases, QueueSizeAssumption DEF Size, Index
<1>3. push[p].tail = tail_
  BY DEF IInv, SendersView, PushWrite
<1>4. \A i \in Index : i # tail_ => queue_'[i] = queue_[i]
  BY <1>3 DEF IInv, RingTypeOK, PushWrite
<1>5. \A k \in 1 .. Size : (head_ + k - 1) % MAX_QUEUE_SIZE \in Index
  BY <1>1, SlotCases, QueueSizeAssumption DEF Size, Index
<1>6. Size' = Size
  BY <1>1 DEF Size
<1> QED BY <1>1, <1>2, <1>4, <1>5, <1>6 DEF Contents

\* Publishing appends the message to the contents.
LEMMA PublishAppends ==
  ASSUME IInv, RingTypeOK', NEW p \in Producers, PushPublish(p)
  PROVE  Contents' = Append(Contents, push[p].msg)
<1>1. /\ head_ \in Index /\ tail_ \in Index /\ head_' = head_ /\ queue_' = queue_
      /\ tail_' = Advance(tail_) /\ Advance(tail_) # head_
      /\ queue_[tail_] = push[p].msg
  BY DEF IInv, RingTypeOK, SendersView, PushPublish
<1>2. Size' = Size + 1
  BY <1>1, AdvanceCases, QueueSizeAssumption DEF Size, Index
<1>3. (head_ + Size' - 1) % MAX_QUEUE_SIZE = tail_
  BY <1>1, <1>2, SlotCases, QueueSizeAssumption DEF Size, Index
<1>4. /\ Size \in 0 .. MAX_QUEUE_SIZE - 1
      /\ Contents \in Seq(Slots) /\ Len(Contents) = Size
      /\ \A k \in 1 .. Size : Contents[k] = queue_[(head_ + k - 1) % MAX_QUEUE_SIZE]
  BY ContentsType DEF IInv
<1>5. push[p].msg \in Slots
  BY <1>1 DEF IInv, RingTypeOK, Slots
<1> DEFINE c == Append(Contents, push[p].msg)
<1>6. /\ c \in Seq(Slots) /\ Len(c) = Size + 1
      /\ \A k \in 1 .. Size : c[k] = Contents[k]
      /\ c[Size + 1] = push[p].msg
  BY <1>4, <1>5, AppendProperties
<1>7. Contents' = [k \in 1 .. Size + 1 |-> queue_[(head_ + k - 1) % MAX_QUEUE_SIZE]]
  BY <1>1, <1>2 DEF Contents
<1>8. \A k \in 1 .. Size + 1 : Contents'[k] = c[k]
  BY <1>1, <1>2, <1>3, <1>4, <1>6, <1>7
<1>9. Contents' \in Seq(Slots) /\ Len(Contents') = Size + 1
  <2>1. \A k \in 1 .. Size + 1 : c[k] \in Slots
    BY <1>4, <1>6
  <2>2. Contents' \in [1 .. Size + 1 -> Slots]
    BY <1>7, <1>8, <2>1
  <2> QED BY <1>4, <2>2
<1> QED BY <1>6, <1>8, <1>9, SeqEqual DEF c

\* Popping takes the head of the contents, and it is what was read.
LEMMA PopTakesHead ==
  ASSUME IInv, PopAdvance
  PROVE  /\ Contents # <<>>
         /\ Contents' = Tail(Contents)
         /\ pop.msg = Head(Contents)
<1>1. /\ head_ \in Index /\ tail_ \in Index /\ queue_' = queue_ /\ tail_' = tail_
      /\ head_' = Advance(head_) /\ head_ # tail_ /\ pop.msg = queue_[head_]
  BY DEF IInv, RingTypeOK, PollersView, PopAdvance
<1>2. /\ Size \in 0 .. MAX_QUEUE_SIZE - 1
      /\ Contents \in Seq(Slots) /\ Len(Contents) = Size
      /\ \A k \in 1 .. Size : Contents[k] = queue_[(head_ + k - 1) % MAX_QUEUE_SIZE]
  BY ContentsType DEF IInv
<1>3. Size > 0 /\ Size' = Size - 1
  BY <1>1, AdvanceCases, QueueSizeAssumption DEF Size, Index
<1>4. Contents # <<>>
  BY <1>2, <1>3
<1>5. (head_ + 1 - 1) % MAX_QUEUE_SIZE = head_
  BY <1>1, SlotCases, QueueSizeAssumption DEF Index
<1>6. pop.msg = Head(Contents)
  BY <1>1, <1>2, <1>3, <1>4, <1>5
<1>7. \A k \in 1 .. Size - 1 :
        (head_' + k - 1) % MAX_QUEUE_SIZE = (head_ + (k + 1) - 1) % MAX_QUEUE_SIZE
  <2> TAKE k \in 1 .. Size - 1
  <2>1. head_' \in Index
    BY <1>1, AdvanceCases, QueueSizeAssumption DEF Index
  <2>2. k \in 1 .. MAX_QUEUE_SIZE /\ k + 1 \in 1 .. MAX_QUEUE_SIZE
    BY <1>2, QueueSizeAssumption
  <2> QED BY <1>1, <2>1, <2>2, AdvanceCases, SlotCases, QueueSizeAssumption DEF Index
<1>8. Contents' = [k \in 1 .. Size - 1 |-> Contents[k + 1]]
  BY <1>1, <1>2, <1>3, <1>7 DEF Contents
<1>9. /\ Tail(Contents) \in Seq(Slots) /\ Len(Tail(Contents)) = Size - 1
      /\ \A k \in 1 .. Size - 1 : Tail(Contents)[k] = Contents[k + 1]
  BY <1>2, <1>4, HeadTailProperties
<1>10. Contents' \in Seq(Slots) /\ Len(Contents') = Size - 1
  <2>1. Contents' \in [1 .. Size - 1 -> Slots]
    BY <1>2, <1>3, <1>8
  <2>2. Size - 1 \in Nat
    BY <1>2, <1>3
  <2> QED BY <2>1, <2>2
<1>11. Contents' = Tail(Contents)
  BY <1>8, <1>9, <1>10, SeqEqual
<1> QED BY <1>4, <1>6, <1>11

LEMMA NothingLostStep ==
  ASSUME SingleProducer, IInv, RingTypeOK', [RingNext]_ringVars
  PROVE  NothingLost'
<1>1. /\ Contents \in Seq(Slots) /\ received \in Seq(Slots)
      /\ accepted = received \o Contents
  BY ContentsType DEF IInv, RingTypeOK, NothingLost, Slots
<1>2. CASE UNCHANGED <<queueVars, accepted, received>>
  BY <1>1, <1>2, SameRing DEF NothingLost
<1>3. ASSUME NEW p \in Producers, PushWrite(p) PROVE NothingLost'
  BY <1>1, <1>3, WriteKeepsContents DEF NothingLost, PushWrite, history
<1>4. ASSUME NEW p \in Producers, PushPublish(p) PROVE NothingLost'
  <2>1. push[p].msg \in Slots
    BY <1>4 DEF IInv, RingTypeOK, PushPublish, PushIdle, Slots
  <2>2. Contents' = Append(Contents, push[p].msg)
    BY <1>4, PublishAppends
  <2>3. received \o Append(Contents, push[p].msg)
          = Append(received \o Contents, push[p].msg)
    BY <1>1, <2>1, ConcatAppend
  <2> QED BY <1>1, <1>4, <2>2, <2>3 DEF NothingLost, PushPublish
<1>5. CASE PopAdvance
  <2>1. /\ Contents # <<>>
        /\ Contents' = Tail(Contents)
        /\ pop.msg = Head(Contents)
    BY <1>5, PopTakesHead
  <2>2. received \o Contents = Append(received, Head(Contents)) \o Tail(Contents)
    BY <1>1, <2>1, ConcatHead
  <2> QED BY <1>1, <1>5, <2>1, <2>2 DEF NothingLost, PopAdvance
<1>6. CASE PopLoadHead \/ PopEmpty \/ PopNotEmpty \/ PopRead
  BY <1>2, <1>6 DEF PopLoadHead, PopEmpty, PopNotEmpty, PopRead, history
<1>7. ASSUME NEW p \in Producers, NEW m \in Msgs,
             PushLoadTail(p, m) \/ PushFull(p) \/ PushHasRoom(p)
      PROVE  NothingLost'
  BY <1>2, <1>7 DEF PushLoadTail, PushFull, PushHasRoom, history
<1>8. CASE UNCHANGED ringVars
  BY <1>2, <1>8 DEF ringVars, history
<1>9. ASSUME NEW p \in Producers, PushFull(p) \/ PushHasRoom(p) PROVE NothingLost'
  BY <1>2, <1>9 DEF PushFull, PushHasRoom, history
<1> QED BY <1>3, <1>4, <1>5, <1>6, <1>7, <1>8, <1>9 DEF RingNext, Push, Pop

LEMMA InvStep == SingleProducer /\ IInv /\ [RingNext]_ringVars => IInv'
BY TypeStep, ViewsStep, NothingLostStep DEF IInv

-----------------------------------------------------------------------------
(* The theorems *)

\* The indices stay inside the ring and the threads' locals keep their
\* types, with any number of senders.
THEOREM TypeCorrect == RingSpec => []RingTypeOK
<1>1. RingInit => RingTypeOK
  BY InitInv DEF IInv
<1> QED BY <1>1, TypeStep, PTL DEF RingSpec

\* try_push returning true is a promise the ring keeps when one thread sends.
THEOREM NothingIsLost ==
  ASSUME SingleProducer
  PROVE  RingSpec => []NothingLost
<1>1. RingInit => IInv
  BY InitInv
<1>2. IInv /\ [RingNext]_ringVars => IInv'
  BY InvStep
<1>3. IInv => NothingLost
  BY DEF IInv
<1> QED BY <1>1, <1>2, <1>3, PTL DEF RingSpec

\* The accesses to a slot never race when one thread sends.
THEOREM SlotsDoNotRace ==
  ASSUME SingleProducer
  PROVE  RingSpec => []NoSlotRace
<1>1. RingInit => IInv
  BY InitInv
<1>2. IInv /\ [RingNext]_ringVars => IInv'
  BY InvStep
<1>3. IInv => NoSlotRace
  BY DEF IInv, SendersView, PollersView, NoSlotRace, SingleProducer
<1> QED BY <1>1, <1>2, <1>3, PTL DEF RingSpec

-----------------------------------------------------------------------------
(* The ring implements the bounded FIFO *)

LEMMA ElementsAppend ==
  ASSUME NEW S, NEW s \in Seq(S), NEW m \in S
  PROVE  Fifo!Elements(Append(s, m)) = Fifo!Elements(s) \cup {m}
<1>1. /\ DOMAIN s = 1 .. Len(s) /\ DOMAIN Append(s, m) = 1 .. Len(s) + 1
      /\ \A i \in 1 .. Len(s) : Append(s, m)[i] = s[i]
      /\ Append(s, m)[Len(s) + 1] = m
      /\ Len(s) \in Nat
  BY AppendProperties, LenProperties
<1> QED BY <1>1 DEF Fifo!Elements

LEMMA ElementsConcat ==
  ASSUME NEW S, NEW s \in Seq(S), NEW t \in Seq(S)
  PROVE  Fifo!Elements(s \o t) = Fifo!Elements(s) \cup Fifo!Elements(t)
<1> DEFINE u == s \o t
<1>1. /\ u \in Seq(S) /\ Len(u) = Len(s) + Len(t)
      /\ \A i \in 1 .. Len(s) + Len(t) :
           u[i] = IF i <= Len(s) THEN s[i] ELSE t[i - Len(s)]
  BY ConcatProperties
<1>2. /\ DOMAIN s = 1 .. Len(s) /\ DOMAIN t = 1 .. Len(t)
      /\ DOMAIN u = 1 .. Len(s) + Len(t)
      /\ Len(s) \in Nat /\ Len(t) \in Nat
  BY <1>1, LenProperties
<1> HIDE DEF u
<1>3. ASSUME NEW i \in 1 .. Len(s) + Len(t) PROVE u[i] \in Fifo!Elements(s) \cup Fifo!Elements(t)
  <2>1. CASE i <= Len(s)
    BY <1>1, <1>2, <2>1 DEF Fifo!Elements
  <2>2. CASE i > Len(s)
    <3>1. i - Len(s) \in 1 .. Len(t) /\ u[i] = t[i - Len(s)]
      BY <1>1, <1>2, <2>2
    <3> QED BY <1>2, <3>1 DEF Fifo!Elements
  <2> QED BY <1>2, <2>1, <2>2
<1>4. ASSUME NEW i \in 1 .. Len(s) PROVE s[i] \in Fifo!Elements(u)
  <2>1. i \in 1 .. Len(s) + Len(t) /\ u[i] = s[i]
    BY <1>1, <1>2
  <2> QED BY <1>2, <2>1 DEF Fifo!Elements
<1>5. ASSUME NEW i \in 1 .. Len(t) PROVE t[i] \in Fifo!Elements(u)
  <2>1. i + Len(s) \in 1 .. Len(s) + Len(t) /\ u[i + Len(s)] = t[i]
    BY <1>1, <1>2
  <2> QED BY <1>2, <2>1 DEF Fifo!Elements
<1>6. Fifo!Elements(u) = Fifo!Elements(s) \cup Fifo!Elements(t)
  BY <1>2, <1>3, <1>4, <1>5 DEF Fifo!Elements
<1> QED BY <1>6 DEF u

LEMMA FreshStep ==
  ASSUME SingleProducer, IInv, Fresh, [RingNext]_ringVars
  PROVE  Fresh'
<1> USE DEF Fresh, history, SingleProducer
<1>1. accepted \in Seq(Msgs)
  BY DEF IInv, RingTypeOK
<1>2. ASSUME NEW p \in Producers, PushPublish(p) PROVE Fresh'
  <2>1. push[p].msg \in Msgs
    BY <1>2 DEF IInv, RingTypeOK, PushPublish, PushIdle
  <2>2. Fifo!Elements(accepted') = Fifo!Elements(accepted) \cup {push[p].msg}
    BY <1>1, <1>2, <2>1, ElementsAppend DEF PushPublish
  <2> QED BY <1>2, <2>2 DEF PushPublish, IInv, RingTypeOK, PushIdle
<1>3. ASSUME NEW p \in Producers, NEW m \in Msgs, PushLoadTail(p, m) PROVE Fresh'
  BY <1>3 DEF PushLoadTail, IInv, RingTypeOK
<1>4. ASSUME NEW p \in Producers, PushFull(p) PROVE Fresh'
  BY <1>4 DEF PushFull, PushIdle, IInv, RingTypeOK
<1>5. ASSUME NEW p \in Producers, PushHasRoom(p) \/ PushWrite(p) PROVE Fresh'
  <2>1. push[p].pc # "idle" /\ UNCHANGED <<unsent, accepted, dropped>>
    BY <1>5 DEF PushHasRoom, PushWrite
  <2>2. push[p] \in [pc : {"check", "write", "publish"}, tail : Index, msg : Msgs]
    BY <2>1 DEF IInv, RingTypeOK, PushIdle
  <2>3. \E c : push' = [push EXCEPT ![p].pc = c]
    BY <1>5 DEF PushHasRoom, PushWrite
  <2>4. push'[p].msg = push[p].msg
    BY <2>2, <2>3 DEF IInv, RingTypeOK
  <2> QED BY <2>1, <2>4
<1>6. CASE Pop
  BY <1>6 DEF Pop, PopLoadHead, PopEmpty, PopNotEmpty, PopRead, PopAdvance
<1>7. CASE UNCHANGED ringVars
  BY <1>7 DEF ringVars
<1> QED BY <1>2, <1>3, <1>4, <1>5, <1>6, <1>7 DEF RingNext, Push

\* Every step of the ring is a step of the FIFO or changes nothing it shows.
LEMMA StepImplements ==
  ASSUME SingleProducer, IInv, Fresh, RingTypeOK', [RingNext]_ringVars
  PROVE  [Fifo!Next]_(Fifo!vars)
<1> DEFINE fifoVars == <<Contents, received, dropped>>
<1>1. /\ Size \in 0 .. MAX_QUEUE_SIZE - 1
      /\ Contents \in Seq(Slots) /\ Len(Contents) = Size
  BY ContentsType DEF IInv
<1>2. Fifo!Settled = Fifo!Elements(accepted) \cup dropped
  <2>1. received \in Seq(Slots) /\ accepted = received \o Contents
    BY DEF IInv, RingTypeOK, NothingLost, Slots
  <2>2. Fifo!Elements(accepted) = Fifo!Elements(received) \cup Fifo!Elements(Contents)
    BY <1>1, <2>1, ElementsConcat
  <2> QED BY <2>2 DEF Fifo!Settled
<1>3. ASSUME NEW p \in Producers, PushPublish(p) PROVE Fifo!Next
  <2>1. push[p].msg \in Msgs \ Fifo!Settled
    BY <1>2, <1>3 DEF IInv, RingTypeOK, Fresh, PushPublish, PushIdle
  <2>2. Size < MAX_QUEUE_SIZE - 1
    <3>1. head_ \in Index /\ tail_ \in Index /\ Advance(tail_) # head_
      BY <1>3 DEF IInv, RingTypeOK, SendersView, PushPublish
    <3> QED BY <3>1, AdvanceCases, QueueSizeAssumption DEF Size, Index
  <2>3. Contents' = Append(Contents, push[p].msg)
    BY <1>3, PublishAppends
  <2>4. Fifo!Accept(push[p].msg)
    BY <1>1, <1>3, <2>1, <2>2, <2>3 DEF Fifo!Accept, PushPublish
  <2> QED BY <2>1, <2>4 DEF Fifo!Next
<1>4. ASSUME NEW p \in Producers, PushFull(p) PROVE Fifo!Next
  <2>1. push[p].msg \in Msgs \ Fifo!Settled
    BY <1>2, <1>4 DEF IInv, RingTypeOK, Fresh, PushFull, PushIdle
  <2>2. Size = MAX_QUEUE_SIZE - 1
    <3>1. head_ \in Index /\ tail_ \in Index /\ Advance(tail_) = head_
      BY <1>4 DEF IInv, RingTypeOK, SendersView, PushFull
    <3> QED BY <3>1, AdvanceCases, QueueSizeAssumption DEF Size, Index
  <2>3. Contents' = Contents
    BY <1>4, SameRing DEF PushFull
  <2>4. Fifo!Drop(push[p].msg)
    BY <1>1, <1>4, <2>1, <2>2, <2>3 DEF Fifo!Drop, PushFull
  <2> QED BY <2>1, <2>4 DEF Fifo!Next
<1>5. CASE PopAdvance
  <2>1. Contents # <<>> /\ Contents' = Tail(Contents) /\ pop.msg = Head(Contents)
    BY <1>5, PopTakesHead
  <2>2. Fifo!Take
    BY <1>5, <2>1 DEF Fifo!Take, PopAdvance
  <2> QED BY <2>2 DEF Fifo!Next
<1>6. ASSUME NEW p \in Producers, PushWrite(p) PROVE UNCHANGED fifoVars
  BY <1>6, WriteKeepsContents DEF PushWrite, history
<1>7. CASE \/ PopLoadHead \/ PopEmpty \/ PopNotEmpty \/ PopRead
           \/ \E p \in Producers :
                PushHasRoom(p) \/ \E m \in Msgs : PushLoadTail(p, m)
           \/ UNCHANGED ringVars
  <2>1. UNCHANGED queueVars /\ UNCHANGED <<received, dropped>>
    BY <1>7 DEF PopLoadHead, PopEmpty, PopNotEmpty, PopRead, PushHasRoom,
                PushLoadTail, history, ringVars
  <2>2. UNCHANGED fifoVars
    BY <2>1, SameRing
  <2> QED BY <2>2 DEF Fifo!vars
<1>8. UNCHANGED fifoVars => UNCHANGED Fifo!vars
  BY DEF Fifo!vars
<1> QED BY <1>3, <1>4, <1>5, <1>6, <1>7, <1>8 DEF RingNext, Push, Pop

\* With one sending thread the ring is a bounded FIFO queue of
\* MAX_QUEUE_SIZE - 1 messages.
THEOREM RingIsFifo ==
  ASSUME SingleProducer
  PROVE  RingSpec => ImplementsFifo
<1>1. RingInit => IInv /\ Fresh
  <2>1. RingInit => Fresh
    BY DEF RingInit, Fresh, PushIdle, Fifo!Elements
  <2> QED BY <2>1, InitInv
<1>2. IInv /\ Fresh /\ [RingNext]_ringVars => (IInv /\ Fresh)'
  BY InvStep, FreshStep
<1>3. RingInit => Fifo!Init
  <2>1. RingInit => Contents = <<>>
    BY DEF RingInit, Contents, Size
  <2> QED BY <2>1 DEF RingInit, Fifo!Init
<1>4. IInv /\ Fresh /\ (IInv /\ Fresh)' /\ [RingNext]_ringVars => [Fifo!Next]_(Fifo!vars)
  BY StepImplements DEF IInv
<1> QED BY <1>1, <1>2, <1>3, <1>4, PTL DEF RingSpec, ImplementsFifo, Fifo!Spec

-----------------------------------------------------------------------------
\* The router over the ring.

LEMMA StepsOfTheRing == [Next]_vars => [RingNext]_ringVars
<1> SUFFICES ASSUME [Next]_vars PROVE [RingNext]_ringVars
  OBVIOUS
<1>1. CASE PollingThread
  BY <1>1 DEF PollingThread, LoopTest, PollPop, PollCount, DispatchByType,
    DispatchBySender, DispatchExternal, RingNext, Pop
<1>2. CASE \E p \in Producers : SendPush(p) \/ SendCount(p)
  BY <1>2 DEF SendPush, SendCount, RingNext, Push
<1>3. CASE UNCHANGED ringVars
  BY <1>3
<1>4. CASE UNCHANGED vars
  BY <1>4 DEF vars
<1>5. CASE \/ \E c \in Callbacks : \/ \E t \in Types : Subscribe(t, c)
                                   \/ \E s \in Senders : SubscribeFrom(s, c)
                                   \/ ConnectExternalReceiver(c)
           \/ StartPolling \/ StopRequest \/ StopJoined
  BY <1>3, <1>5 DEF Subscribe, SubscribeFrom, ConnectExternalReceiver, StartPolling,
    StopRequest, StopJoined
<1> QED BY <1>1, <1>2, <1>4, <1>5 DEF Next

\* The router drives its ring only through try_push and try_pop.
THEOREM RouterUsesTheRing == Spec => RingSpec
<1>1. Init => RingInit
  BY DEF Init
<1> QED BY <1>1, StepsOfTheRing, PTL DEF Spec, RingSpec

\* With one sending thread no message that send() accepted is lost,
\* duplicated or reordered before the polling thread has it.
THEOREM RouterLosesNothing ==
  ASSUME SingleProducer
  PROVE  Spec => []NothingLost
  BY RouterUsesTheRing, NothingIsLost

(* Seen from outside, the router is a bounded FIFO, with one sender.           *)
THEOREM RouterIsFifo ==
  ASSUME SingleProducer
  PROVE  Spec => ImplementsFifo
  BY RouterUsesTheRing, RingIsFifo

-----------------------------------------------------------------------------
(* stop *)

\* Between stop() and start_polling() the polling thread does not exist.
PollingOff == poll = "off" \/ running \/ joining

LEMMA PollingOffStep == PollingOff /\ [Next]_vars => PollingOff'
<1> SUFFICES ASSUME PollingOff, [Next]_vars PROVE PollingOff'
  OBVIOUS
<1>1. CASE PollingThread
  BY <1>1 DEF PollingOff, PollingThread, LoopTest, PollPop, PollCount,
    DispatchByType, DispatchBySender, DispatchExternal, control
<1>2. CASE \E p \in Producers : SendPush(p) \/ SendCount(p)
  BY <1>2 DEF PollingOff, SendPush, SendCount, control
<1>3. CASE \E c \in Callbacks : \/ \E t \in Types : Subscribe(t, c)
                                \/ \E s \in Senders : SubscribeFrom(s, c)
                                \/ ConnectExternalReceiver(c)
  BY <1>3 DEF PollingOff, Subscribe, SubscribeFrom, ConnectExternalReceiver, control
<1>4. CASE StartPolling \/ StopRequest \/ StopJoined
  BY <1>4 DEF PollingOff, StartPolling, StopRequest, StopJoined
<1>5. CASE UNCHANGED vars
  BY <1>5 DEF PollingOff, vars, control
<1> QED BY <1>1, <1>2, <1>3, <1>4, <1>5 DEF Next

\* After stop() has returned no callback runs and no message is taken.
THEOREM StopIsQuiet == Spec => StopQuiesces
<1>1. PollingOff /\ [Next]_vars
        => [~running /\ ~joining => UNCHANGED <<delivered, received>>]_vars
  <2> SUFFICES ASSUME PollingOff, [Next]_vars, ~running, ~joining
               PROVE  UNCHANGED <<delivered, received>>
    OBVIOUS
  <2>0. poll = "off"
    BY DEF PollingOff
  <2>1. ~PollingThread
    BY <2>0 DEF PollingThread, LoopTest, PollPop, PollCount, DispatchByType,
      DispatchBySender, DispatchExternal
  <2>2. CASE \E p \in Producers : SendPush(p) \/ SendCount(p)
    BY <2>2 DEF SendPush, SendCount, PushLoadTail, PushFull, PushHasRoom, PushWrite,
      PushPublish, ringVars, history
  <2>3. CASE \E c \in Callbacks : \/ \E t \in Types : Subscribe(t, c)
                                  \/ \E s \in Senders : SubscribeFrom(s, c)
                                  \/ ConnectExternalReceiver(c)
    BY <2>3 DEF Subscribe, SubscribeFrom, ConnectExternalReceiver, ringVars, history
  <2>4. CASE StartPolling \/ StopRequest \/ StopJoined
    BY <2>4 DEF StartPolling, StopRequest, StopJoined, ringVars, history
  <2>5. CASE UNCHANGED vars
    BY <2>5 DEF vars, ringVars, history
  <2> QED BY <2>1, <2>2, <2>3, <2>4, <2>5 DEF Next
<1>2. Init => PollingOff
  BY DEF Init, PollingOff
<1> QED BY <1>1, <1>2, PollingOffStep, PTL DEF Spec, StopQuiesces

-----------------------------------------------------------------------------
(* The types and the counter.  Both rest on what the ring promises one     *)
(* sender: a message that is dispatched was accepted, and each accepted    *)
(* push and each pop moves the ring's size by one.                         *)

\* A message is being counted or dispatched only after one was popped.
Dispatching == poll \in {"count", "type", "sender", "external"} => received # <<>>

\* What queue_size is on its way to: without wrapping, it may be one below zero.
Behind == Size + (IF poll = "count" THEN 1 ELSE 0) - (IF counting = {} THEN 0 ELSE 1)

CounterAgrees == queue_size = IF Behind < 0 THEN Behind + SIZE_MODULUS ELSE Behind

RouterInv == IInv /\ TypeOK /\ PollingOff /\ Dispatching /\ CounterAgrees

\* The counter wraps in both directions.
LEMMA CountCases ==
  ASSUME NEW n \in 0 .. SIZE_MODULUS - 1
  PROVE  /\ (n + 1) % SIZE_MODULUS = IF n + 1 = SIZE_MODULUS THEN 0 ELSE n + 1
         /\ (n + SIZE_MODULUS - 1) % SIZE_MODULUS = IF n = 0 THEN SIZE_MODULUS - 1 ELSE n - 1
         /\ n % SIZE_MODULUS = n
BY SizeAssumption, QueueSizeAssumption, SMTT(30)

LEMMA CurrentIsMessage ==
  ASSUME RouterInv, received # <<>>
  PROVE  Current \in Msgs
<1> DEFINE n == Len(received)
<1>1. /\ received \in Seq(Slots) /\ Contents \in Seq(Slots)
      /\ accepted \in Seq(Msgs) /\ accepted = received \o Contents
  BY ContentsType DEF RouterInv, IInv, RingTypeOK, NothingLost, Slots
<1>2. n \in Nat /\ n >= 1
  BY <1>1
<1>3. accepted[n] = received[n] /\ n \in 1 .. Len(accepted)
  BY <1>1, <1>2, ConcatProperties
<1> QED BY <1>1, <1>3 DEF Current

LEMMA SizeSteps ==
  ASSUME IInv
  PROVE  /\ Size \in 0 .. MAX_QUEUE_SIZE - 1
         /\ \A p \in Producers : PushPublish(p) => Size' = Size + 1
         /\ PopAdvance => Size' = Size - 1
         /\ head_' = head_ /\ tail_' = tail_ => Size' = Size
<1>1. Size \in 0 .. MAX_QUEUE_SIZE - 1
  BY ContentsType DEF IInv
<1>2. ASSUME NEW p \in Producers, PushPublish(p) PROVE Size' = Size + 1
  <2>1. /\ head_ \in Index /\ tail_ \in Index /\ head_' = head_
        /\ tail_' = Advance(tail_) /\ Advance(tail_) # head_
    BY <1>2 DEF IInv, RingTypeOK, SendersView, PushPublish
  <2> QED BY <2>1, AdvanceCases, QueueSizeAssumption DEF Size, Index
<1>3. ASSUME PopAdvance PROVE Size' = Size - 1
  <2>1. /\ head_ \in Index /\ tail_ \in Index /\ tail_' = tail_
        /\ head_' = Advance(head_) /\ head_ # tail_
    BY <1>3 DEF IInv, RingTypeOK, PollersView, PopAdvance
  <2> QED BY <2>1, AdvanceCases, QueueSizeAssumption DEF Size, Index
<1> QED BY <1>1, <1>2, <1>3 DEF Size

\* A step of the registries or the flags.
RegistryTypes ==
  /\ counting \subseteq Producers
  /\ running \in BOOLEAN /\ joining \in BOOLEAN
  /\ poll \in {"off", "loop", "pop", "count", "type", "sender", "external"}
  /\ subscribers \in [Types -> Seq(Callbacks)]
  /\ sender_subscribers \in [Senders -> Seq(Callbacks)]
  /\ external_receivers \in Seq(Callbacks)
  /\ delivered \in [Callbacks -> Seq(Msgs)]

LEMMA DeliverTyped ==
  ASSUME RouterInv, received # <<>>, NEW cs, Deliver(cs)
  PROVE  delivered' \in [Callbacks -> Seq(Msgs)]
<1>1. Current \in Msgs
  BY CurrentIsMessage
<1>2. \A c \in Callbacks : delivered[c] \in Seq(Msgs) /\ Append(delivered[c], Current) \in Seq(Msgs)
  BY <1>1 DEF RouterInv, TypeOK
<1> QED BY <1>2 DEF Deliver

LEMMA RegistryStep ==
  ASSUME RouterInv, [Next]_vars
  PROVE  RegistryTypes' /\ Dispatching'
<1> USE DEF control, registry
<1>0. RegistryTypes /\ Dispatching /\ received \in Seq(Slots)
  BY DEF RouterInv, TypeOK, RingTypeOK, RegistryTypes, Slots
<1>1. ASSUME NEW p \in Producers, SendPush(p) \/ SendCount(p) PROVE RegistryTypes' /\ Dispatching'
  <2>1. received' = received
    BY <1>1 DEF SendPush, SendCount, PushLoadTail, PushFull, PushHasRoom, PushWrite, PushPublish,
                ringVars, history
  <2> QED BY <1>0, <1>1, <2>1 DEF SendPush, SendCount, RegistryTypes, Dispatching
<1>2. ASSUME NEW c \in Callbacks, NEW t \in Types, Subscribe(t, c) PROVE RegistryTypes' /\ Dispatching'
  BY <1>0, <1>2 DEF Subscribe, RegistryTypes, Dispatching, ringVars, history
<1>3. ASSUME NEW c \in Callbacks, NEW s \in Senders, SubscribeFrom(s, c)
      PROVE  RegistryTypes' /\ Dispatching'
  BY <1>0, <1>3 DEF SubscribeFrom, RegistryTypes, Dispatching, ringVars, history
<1>4. ASSUME NEW c \in Callbacks, ConnectExternalReceiver(c) PROVE RegistryTypes' /\ Dispatching'
  BY <1>0, <1>4 DEF ConnectExternalReceiver, RegistryTypes, Dispatching, ringVars, history
<1>5. CASE StartPolling \/ StopRequest \/ StopJoined
  BY <1>0, <1>5 DEF StartPolling, StopRequest, StopJoined, RegistryTypes, Dispatching, ringVars, history
<1>6. CASE LoopTest \/ PollCount
  BY <1>0, <1>6 DEF LoopTest, PollCount, RegistryTypes, Dispatching, ringVars, history
<1>7. CASE PollPop
  <2>1. poll' = "count" => received' # <<>>
    <3>1. CASE PopAdvance
      <4>1. pop.msg \in Slots
        BY DEF RouterInv, IInv, RingTypeOK, Slots
      <4>2. Append(received, pop.msg) # <<>>
        BY <1>0, <4>1, AppendProperties
      <4> QED BY <3>1, <4>2 DEF PopAdvance
    <3>2. CASE ~PopAdvance
      BY <1>7, <3>2 DEF PollPop
    <3> QED BY <3>1, <3>2
  <2> QED BY <1>0, <1>7, <2>1 DEF PollPop, RegistryTypes, Dispatching
<1>8. CASE DispatchByType \/ DispatchBySender \/ DispatchExternal
  <2>1. received # <<>> /\ received' = received
    BY <1>0, <1>8 DEF Dispatching, DispatchByType, DispatchBySender, DispatchExternal, ringVars, history
  <2>2. delivered' \in [Callbacks -> Seq(Msgs)]
    BY <1>8, <2>1, DeliverTyped DEF DispatchByType, DispatchBySender, DispatchExternal
  <2> QED BY <1>0, <1>8, <2>1, <2>2
          DEF DispatchByType, DispatchBySender, DispatchExternal, RegistryTypes, Dispatching
<1>9. CASE UNCHANGED vars
  BY <1>0, <1>9 DEF vars, ringVars, history, RegistryTypes, Dispatching
<1> QED BY <1>1, <1>2, <1>3, <1>4, <1>5, <1>6, <1>7, <1>8, <1>9 DEF Next, PollingThread

LEMMA CounterStep ==
  ASSUME SingleProducer, RouterInv, [Next]_vars
  PROVE  CounterAgrees' /\ queue_size' \in 0 .. SIZE_MODULUS - 1
<1> USE DEF control
<1>0. /\ IInv /\ CounterAgrees /\ counting \subseteq Producers
      /\ queue_size \in 0 .. SIZE_MODULUS - 1 /\ Size \in 0 .. MAX_QUEUE_SIZE - 1
      /\ SIZE_MODULUS \in Nat /\ SIZE_MODULUS > MAX_QUEUE_SIZE /\ MAX_QUEUE_SIZE \in Nat
  BY SizeAssumption, QueueSizeAssumption, SizeSteps DEF RouterInv, TypeOK
<1>1. ASSUME Behind' = Behind, queue_size' = queue_size
      PROVE  CounterAgrees' /\ queue_size' \in 0 .. SIZE_MODULUS - 1
  BY <1>0, <1>1 DEF CounterAgrees
<1>2. ASSUME NEW p \in Producers, SendPush(p) PROVE CounterAgrees' /\ queue_size' \in 0 .. SIZE_MODULUS - 1
  <2>0. counting = {}
    BY <1>0, <1>2 DEF SendPush, SingleProducer
  <2>1. CASE PushPublish(p) /\ counting' = {p}
    <3>1. Size' = Size + 1 /\ poll' = poll /\ queue_size' = queue_size
      BY <1>0, <1>2, <2>1, SizeSteps DEF SendPush
    <3> QED BY <1>0, <1>1, <2>0, <2>1, <3>1 DEF Behind
  <2>2. CASE ~PushPublish(p)
    <3>1. head_' = head_ /\ tail_' = tail_ /\ counting' = counting /\ poll' = poll
          /\ queue_size' = queue_size
      BY <1>2, <2>2 DEF SendPush, PushLoadTail, PushFull, PushHasRoom, PushWrite, queueVars
    <3>2. Size' = Size
      BY <1>0, <3>1, SizeSteps
    <3> QED BY <1>1, <3>1, <3>2 DEF Behind
  <2>3. PushPublish(p) => counting' = {p}
    BY <1>2, <2>0 DEF SendPush, PushPublish, PushLoadTail, PushFull, PushHasRoom, PushWrite
  <2> QED BY <2>1, <2>2, <2>3
<1>3. ASSUME NEW p \in Producers, SendCount(p) PROVE CounterAgrees' /\ queue_size' \in 0 .. SIZE_MODULUS - 1
  <2>1. counting # {} /\ counting' = {}
    BY <1>0, <1>3 DEF SendCount, SingleProducer
  <2>2. Size' = Size /\ poll' = poll /\ queue_size' = (queue_size + 1) % SIZE_MODULUS
    BY <1>0, <1>3, SizeSteps DEF SendCount, ringVars, queueVars
  <2>3. Behind' = Behind + 1
    BY <1>0, <2>1, <2>2 DEF Behind
  <2>4. Behind \in -1 .. MAX_QUEUE_SIZE /\ Behind < MAX_QUEUE_SIZE
    BY <1>0, <2>1 DEF Behind
  <2> HIDE DEF Behind
  <2> QED BY <1>0, <2>2, <2>3, <2>4, CountCases DEF CounterAgrees
<1>4. CASE PollCount
  <2>1. /\ Size' = Size /\ counting' = counting /\ poll = "count" /\ poll' = "type"
        /\ queue_size' = (queue_size + SIZE_MODULUS - 1) % SIZE_MODULUS
    BY <1>0, <1>4, SizeSteps DEF PollCount, ringVars, queueVars
  <2>2. Behind' = Behind - 1
    BY <1>0, <2>1 DEF Behind
  <2>3. Behind \in 0 .. MAX_QUEUE_SIZE
    BY <1>0, <2>1 DEF Behind
  <2> HIDE DEF Behind
  <2>4. queue_size = Behind
    BY <1>0, <2>3 DEF CounterAgrees
  <2>5. queue_size' = IF Behind = 0 THEN SIZE_MODULUS - 1 ELSE Behind - 1
    BY <1>0, <2>1, <2>4, CountCases
  <2>6. SIZE_MODULUS' = SIZE_MODULUS
    OBVIOUS
  <2>7. CASE Behind = 0
    BY <1>0, <2>2, <2>5, <2>7 DEF CounterAgrees
  <2>8. CASE Behind > 0
    BY <1>0, <2>2, <2>3, <2>5, <2>8 DEF CounterAgrees
  <2> QED BY <2>3, <2>7, <2>8
<1>5. CASE PollPop
  <2>0. poll = "pop" /\ counting' = counting /\ queue_size' = queue_size
    BY <1>5 DEF PollPop
  <2>1. CASE PopAdvance
    <3>1. poll' = "count" /\ Size' = Size - 1
      BY <1>0, <1>5, <2>1, SizeSteps DEF PollPop, PopAdvance, PopLoadHead, PopNotEmpty, PopRead, PopEmpty
    <3> QED BY <1>0, <1>1, <2>0, <3>1 DEF Behind
  <2>2. CASE ~PopAdvance
    <3>1. head_' = head_ /\ tail_' = tail_ /\ poll' \in {"pop", "loop"}
      BY <1>5, <2>2 DEF PollPop, PopLoadHead, PopNotEmpty, PopRead, PopEmpty, queueVars
    <3>2. Size' = Size
      BY <1>0, <3>1, SizeSteps
    <3> QED BY <1>1, <2>0, <3>1, <3>2 DEF Behind
  <2> QED BY <2>1, <2>2
<1>6. ASSUME UNCHANGED ringVars, UNCHANGED counting, UNCHANGED queue_size,
             poll # "count", poll' # "count"
      PROVE  CounterAgrees' /\ queue_size' \in 0 .. SIZE_MODULUS - 1
  <2>1. Size' = Size
    BY <1>0, <1>6, SizeSteps DEF ringVars, queueVars
  <2> QED BY <1>1, <1>6, <2>1 DEF Behind
<1>7. CASE LoopTest \/ DispatchByType \/ DispatchBySender \/ DispatchExternal
  BY <1>6, <1>7 DEF LoopTest, DispatchByType, DispatchBySender, DispatchExternal
<1>8. ASSUME UNCHANGED ringVars, UNCHANGED <<counting, queue_size, poll>>
      PROVE  CounterAgrees' /\ queue_size' \in 0 .. SIZE_MODULUS - 1
  <2>1. Size' = Size
    BY <1>0, <1>8, SizeSteps DEF ringVars, queueVars
  <2> QED BY <1>1, <1>8, <2>1 DEF Behind
<1>9. CASE \/ \E c \in Callbacks : \/ \E t \in Types : Subscribe(t, c)
                                   \/ \E s \in Senders : SubscribeFrom(s, c)
                                   \/ ConnectExternalReceiver(c)
           \/ StopRequest \/ StopJoined \/ UNCHANGED vars
  BY <1>8, <1>9 DEF Subscribe, SubscribeFrom, ConnectExternalReceiver, StopRequest, StopJoined, vars
<1>10. CASE StartPolling
  BY <1>6, <1>10 DEF StartPolling, RouterInv, PollingOff
<1> QED BY <1>2, <1>3, <1>4, <1>5, <1>7, <1>9, <1>10 DEF Next, PollingThread

LEMMA RouterInit == Init => RouterInv
<1> SUFFICES ASSUME Init PROVE RouterInv
  OBVIOUS
<1>1. IInv
  BY InitInv DEF Init
<1>2. TypeOK
  <2>1. 0 \in 0 .. SIZE_MODULUS - 1
    BY SizeAssumption, QueueSizeAssumption
  <2>2. RegistryTypes
    <3>1. /\ subscribers \in [Types -> Seq(Callbacks)]
          /\ sender_subscribers \in [Senders -> Seq(Callbacks)]
          /\ external_receivers \in Seq(Callbacks)
      BY DEF Init
    <3>2. delivered \in [Callbacks -> Seq(Msgs)]
      BY DEF Init
    <3>3. /\ counting \subseteq Producers /\ running \in BOOLEAN /\ joining \in BOOLEAN
          /\ poll \in {"off", "loop", "pop", "count", "type", "sender", "external"}
      BY DEF Init
    <3> QED BY <3>1, <3>2, <3>3 DEF RegistryTypes
  <2>3. RingTypeOK /\ queue_size \in 0 .. SIZE_MODULUS - 1
    BY <1>1, <2>1 DEF Init, IInv
  <2> QED BY <2>2, <2>3 DEF RegistryTypes, TypeOK
<1>3. PollingOff /\ Dispatching
  BY DEF Init, PollingOff, Dispatching
<1>4. CounterAgrees
  <2>1. Size = 0
    BY DEF Init, RingInit, Size
  <2>2. Behind = 0
    BY <2>1 DEF Init, Behind
  <2> QED BY <2>2 DEF Init, CounterAgrees
<1> QED BY <1>1, <1>2, <1>3, <1>4 DEF RouterInv

LEMMA RouterStep ==
  ASSUME SingleProducer, RouterInv, [Next]_vars
  PROVE  RouterInv'
<1>1. IInv'
  BY InvStep, StepsOfTheRing DEF RouterInv
<1>2. RegistryTypes' /\ Dispatching'
  BY RegistryStep
<1>3. CounterAgrees' /\ queue_size' \in 0 .. SIZE_MODULUS - 1
  BY CounterStep
<1>4. TypeOK'
  BY <1>1, <1>2, <1>3 DEF TypeOK, RegistryTypes, IInv
<1>5. PollingOff'
  BY PollingOffStep DEF RouterInv
<1> QED BY <1>1, <1>2, <1>3, <1>4, <1>5 DEF RouterInv

\* Only accepted messages are dispatched, to registered callbacks, when one
\* thread sends; with several a slot that was never filled may be popped.
THEOREM RouterTypeOK ==
  ASSUME SingleProducer
  PROVE  Spec => []TypeOK
<1>1. RouterInv /\ [Next]_vars => RouterInv'
  BY RouterStep
<1>2. RouterInv => TypeOK
  BY DEF RouterInv
<1> QED BY <1>1, <1>2, RouterInit, PTL DEF Spec

\* get_queue_size() is right but for the updates still to come, whatever
\* order the sender's and the polling thread's updates take: the counter
\* may wrap below zero and comes back.
THEOREM RouterCountsItsQueue ==
  ASSUME SingleProducer
  PROVE  Spec => []QueueSizeCounts
<1>1. RouterInv /\ [Next]_vars => RouterInv'
  BY RouterStep
<1>2. RouterInv => QueueSizeCounts
  <2> SUFFICES ASSUME RouterInv PROVE QueueSizeCounts
    OBVIOUS
  <2> DEFINE s == Size + (IF poll = "count" THEN 1 ELSE 0)
  <2>1. /\ s \in 0 .. MAX_QUEUE_SIZE /\ SIZE_MODULUS > MAX_QUEUE_SIZE
        /\ SIZE_MODULUS \in Nat /\ MAX_QUEUE_SIZE \in Nat
    BY SizeSteps, SizeAssumption, QueueSizeAssumption DEF RouterInv
  <2>2. CASE counting = {}
    <3>1. Cardinality(counting) = 0 /\ queue_size = s
      BY <2>1, <2>2, FS_EmptySet DEF RouterInv, CounterAgrees, Behind
    <3> QED BY <2>1, <3>1 DEF QueueSizeCounts
  <2>3. CASE counting # {}
    <3>0. PICK p : p \in counting
      BY <2>3
    <3>1. counting = {p}
      BY <3>0 DEF RouterInv, TypeOK, SingleProducer
    <3>2. Cardinality(counting) = 1
      BY <3>1, FS_Singleton
    <3>8. Behind = s - 1
      BY <2>3, SizeSteps DEF RouterInv, Behind
    <3>3. queue_size = IF s = 0 THEN SIZE_MODULUS - 1 ELSE s - 1
      <4> HIDE DEF s
      <4>1. queue_size = IF s - 1 < 0 THEN (s - 1) + SIZE_MODULUS ELSE s - 1
        BY <3>8 DEF RouterInv, CounterAgrees
      <4> QED BY <2>1, <4>1
    <3>4. queue_size \in 0 .. SIZE_MODULUS - 1 /\ s \in 0 .. SIZE_MODULUS - 1
      BY <2>1, <3>3
    <3>5. (queue_size + 1) % SIZE_MODULUS = IF queue_size + 1 = SIZE_MODULUS THEN 0 ELSE queue_size + 1
      BY <3>4, CountCases
    <3>6. s % SIZE_MODULUS = s
      BY <3>4, CountCases
    <3>7. (queue_size + 1) % SIZE_MODULUS = s
      BY <2>1, <3>3, <3>5
    <3> QED BY <3>2, <3>6, <3>7 DEF QueueSizeCounts
  <2> QED BY <2>2, <2>3
<1> QED BY <1>1, <1>2, RouterInit, PTL DEF Spec
=============================================================================
