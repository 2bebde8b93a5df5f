--------------------------- MODULE MCQueueExecutor ---------------------------
(* Instances of QueueExecutor for TLC. *)
EXTENDS QueueExecutor, TLC

\* What handlers may spawn: one child at once, or one now and one later.
OneChild == {<<0>>}
TwoChildren == {<<0, 0>>}
NoChildren == {}

Symmetry == Permutations(Cmd) \cup Permutations(Worker)
=============================================================================
