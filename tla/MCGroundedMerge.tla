--------------------------- MODULE MCGroundedMerge ---------------------------
(* Instances of GroundedMerge for TLC.                                     *)
EXTENDS GroundedMerge

=============================================================================
