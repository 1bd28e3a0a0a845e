---------------------------- MODULE MCSchedulers ----------------------------
(* Two VMs; priorities of two classes and two weights. *)
EXTENDS Schedulers

MCPriorities == {0, 2}

\* A queue that two threads were in at once is not followed further.
MCUntilRace == ~raced

\* stop_scheduler only between two rounds of the loop, which reads running_
\* nowhere else: a stop in the middle of a round commutes with its steps.
MCStopBetweenRounds == running_ # running_' => loop \in {"off", "pick", "allocate"}
=============================================================================
