---------------------------- MODULE MCWorkflows ----------------------------
(* Values of the constants for the runs of WorkflowFeed. *)
EXTENDS WorkflowFeed

CONSTANTS i1, i2, i3, s1, a1, kyc, acc

MCWideLimits == [max_attestations_per_issuer |-> 9, max_attestations_per_subject |-> 9]

\* i1 may propose without being asked to sign; i3 is listed twice.
MCSignerLists == {<<i2, i3, i3>>}
=============================================================================
