------------------------ MODULE MCBranchArbitration ------------------------
(* Instances of BranchArbitration for TLC. *)
EXTENDS BranchArbitration, TLC
=============================================================================
