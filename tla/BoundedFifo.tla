---------------------------- MODULE BoundedFifo ----------------------------
(***************************************************************************)
(* What the router's message queue promises to its callers: a first-in,    *)
(* first-out buffer of at most Capacity messages.  A push either puts the  *)
(* message at the end or, when the buffer is full, drops it; a pop returns *)
(* the oldest message.  Every message is settled at most once.             *)
(***************************************************************************)
EXTENDS Naturals, Sequences, FiniteSets

CONSTANTS
  Msgs,      \* the messages callers may offer
  Capacity   \* how many messages fit

VARIABLES
  fifo,      \* the messages accepted and not yet taken, oldest first
  taken,     \* every message taken so far, in the order it was returned
  dropped    \* the messages refused because the buffer was full

vars == <<fifo, taken, dropped>>

Elements(s) == {s[i] : i \in DOMAIN s}

Settled == Elements(fifo) \cup Elements(taken) \cup dropped

Init == fifo = <<>> /\ taken = <<>> /\ dropped = {}

Accept(m) ==
  /\ m \notin Settled
  /\ Len(fifo) < Capacity
  /\ fifo' = Append(fifo, m)
  /\ UNCHANGED <<taken, dropped>>

Drop(m) ==
  /\ m \notin Settled
  /\ Len(fifo) = Capacity
  /\ dropped' = dropped \cup {m}
  /\ UNCHANGED <<fifo, taken>>

Take ==
  /\ fifo # <<>>
  /\ taken' = Append(taken, Head(fifo))
  /\ fifo' = Tail(fifo)
  /\ UNCHANGED dropped

Next == Take \/ \E m \in Msgs : Accept(m) \/ Drop(m)

Spec == Init /\ [][Next]_vars
=============================================================================
