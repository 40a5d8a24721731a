-------------------------- MODULE MCPrivacyResidue --------------------------
(* Instances of PrivacyResidue: rows of an earlier release and of this one. *)
EXTENDS PrivacyResidue, TLC

CONSTANTS l1, n1, c1
=============================================================================
