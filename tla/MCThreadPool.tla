---------------------------- MODULE MCThreadPool ----------------------------
(* Two workers, two submitters, two tasks, two threads that shut down. *)
EXTENDS ThreadPool

CONSTANTS w1, w2, c1, c2, t1, t2, s1, s2
=============================================================================
