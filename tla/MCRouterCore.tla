--------------------------- MODULE MCRouterCore ---------------------------
(* Small instances of the router: a ring of three slots, messages of two   *)
(* types from two senders, two callbacks.                                  *)
EXTENDS RouterCore, TLC

CONSTANTS p1, p2, m1, m2, m3, t1, t2, s1, s2, c1, c2

MCTypeOf   == (m1 :> t1) @@ (m2 :> t2) @@ (m3 :> t1)
MCSenderOf == (m1 :> s1) @@ (m2 :> s1) @@ (m3 :> s2)
=============================================================================
