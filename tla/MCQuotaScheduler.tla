-------------------------- MODULE MCQuotaScheduler --------------------------
(* Two VMs of one priority under the default scheduler. *)
EXTENDS QuotaScheduler

MCPriorities == {0}
=============================================================================
