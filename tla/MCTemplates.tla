---------------------------- MODULE MCTemplates ----------------------------
(* Values of the constants for the runs of Templates. *)
EXTENDS Templates

CONSTANTS i1, s1, a1, d1, kyc, aml, n1, n2

MCWideLimits == [max_attestations_per_issuer |-> 9, max_attestations_per_subject |-> 9]
=============================================================================
