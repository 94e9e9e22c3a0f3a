-------------------------- MODULE MCFastClassifier --------------------------
(* Two contexts and two objects for the fast classifier of one 5-tuple.    *)
EXTENDS FastClassifier, TLC

CONSTANTS c1, c2, o1, o2

McCpus    == {c1, c2}
McObjects == {o1, o2}
McOneCpu  == {c1}
Symmetric == Permutations(McCpus) \cup Permutations(McObjects)

=============================================================================
