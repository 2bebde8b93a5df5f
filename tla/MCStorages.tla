----------------------------- MODULE MCStorages -----------------------------
(* Instances of Storages for TLC. *)
EXTENDS Storages, TLC

CONSTANTS a, b    \* names; LIKE takes a for b

Symmetry == Permutations(Id)

\* No action reads `call': it only tells the contract which action was taken.
WithoutCall == <<backend, now, open, rows, tx, held, answer, edits>>

MCAlike == {<<a, b>>}
MCLabels == {[key |-> a, tag |-> b, corr |-> b]}
MCQueries == {[status |-> None, tag |-> a, limit |-> 1, offset |-> 0],
              [status |-> "PENDING", tag |-> b, limit |-> 0, offset |-> 1]}
=============================================================================
