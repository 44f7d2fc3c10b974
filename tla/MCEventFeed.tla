---------------------------- MODULE MCEventFeed ----------------------------
(* Values of the constants for the runs of EventFeed. *)
EXTENDS EventFeed

CONSTANTS i1, i2, b1, s1, s2, a1, d1, kyc, aml, tx1

MCWideLimits == [max_attestations_per_issuer |-> 9, max_attestations_per_subject |-> 9]

\* The digests of i1's attestations sort after those of i2: what i1 stores
\* first may come first or last in the order of the digests.
MCRank(id) == IF id.issuer = i1 THEN 2 ELSE 1
=============================================================================
