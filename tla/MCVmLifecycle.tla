--------------------------- MODULE MCVmLifecycle ---------------------------
EXTENDS VmLifecycle, TLC

CONSTANTS w1, w2, c1, c2, t1, t2, s1, s2

MCVmOf == (t1 :> 1) @@ (t2 :> 1)
=============================================================================
