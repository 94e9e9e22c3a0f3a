------------------------------ MODULE MCSfeCm ------------------------------
(* The connection manager with a clock of a few ticks. *)
EXTENDS SfeCm, TLC

MCSymmetry == Permutations(Cpus)
=============================================================================
