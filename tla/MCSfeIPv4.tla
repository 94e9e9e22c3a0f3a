----------------------------- MODULE MCSfeIPv4 -----------------------------
(* Instances of the forwarding engine for TLC. *)
EXTENDS SfeIPv4, TLC

CONSTANTS d1, d2, t1, t2, u1

\* Two rules behind the same source address translation: their original tuples
\* differ and their reply tuples are equal.
MCSics == {[tuple |-> t1, reply |-> u1, src_dev |-> d1, dest_dev |-> d2],
           [tuple |-> t2, reply |-> u1, src_dev |-> d1, dest_dev |-> d2]}

MCSymmetry == Permutations(Conns) \cup Permutations(Cpus)
=============================================================================
