----------------------------- MODULE MCGovernance -----------------------------
(* Instances of Governance for TLC. *)
EXTENDS Governance, TLC

Alike == Permutations(Readers)
=============================================================================
