-------------------------- MODULE MCTimeoutManager --------------------------
(* Two timeouts, delays of one and two ticks and one that is refused. *)
EXTENDS TimeoutManager

MCDelays == {-1, 1, 2}
=============================================================================
