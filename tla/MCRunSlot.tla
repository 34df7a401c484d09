------------------------------ MODULE MCRunSlot -----------------------------
(* A small instance of RunSlot: two callers that start runs.               *)
EXTENDS RunSlot, TLC

StarterSymmetry == Permutations(Starter)
=============================================================================
