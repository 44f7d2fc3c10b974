--------------------------- MODULE MCAttestations ---------------------------
(* Values of the constants for the runs of Attestations. *)
EXTENDS Attestations, TLC

CONSTANTS i1, s1, s2, a1, d1, kyc, aml

MCTightLimits == [max_attestations_per_issuer |-> 2, max_attestations_per_subject |-> 1]
MCLimitChoices == {[max_attestations_per_issuer |-> 1, max_attestations_per_subject |-> 2]}

\* Nothing tells the two subjects apart, or the two claim types.
MCSymmetry == Permutations({s1, s2}) \cup Permutations({kyc, aml})
=============================================================================
