-------------------------- MODULE MCVmInterrupts --------------------------
(* Small instances of the interrupt path: one ordinary mVM, or one with    *)
(* the id of the manager's module, like the mVM of                         *)
(* tests/test_async_interrupt.cpp.                                         *)
EXTENDS VmInterrupts

MCOneVM == {2}
MCFirstVM == {1}

\* Bound: a VM is unregistered when its thread has ended, as mVM::stop does it.
MCStopped == \A v \in vms_ \ vms_' : thread[v] = "exited"
=============================================================================
