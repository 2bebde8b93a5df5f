------------------------------ MODULE MCPolling ------------------------------
(* Instances of Polling for TLC. *)
EXTENDS Polling, TLC

CONSTANTS w1, w2, p1, p2

Symmetry == Permutations(Cmd)

OnePerProcess == (w1 :> p1) @@ (w2 :> p2)
=============================================================================
