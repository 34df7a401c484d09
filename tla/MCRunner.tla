------------------------------ MODULE MCRunner ------------------------------
(* A small instance of Runner: two workers that are interchangeable.       *)
EXTENDS Runner, TLC

WorkerSymmetry == Permutations(Worker)
=============================================================================
