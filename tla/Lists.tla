--------------------------------- MODULE Lists ------------------------------
(***************************************************************************)
(* Lists that the code filters in a loop or sorts.  They are recursive     *)
(* functions, so that theorems can be proved about them by induction.      *)
(***************************************************************************)
EXTENDS Naturals, Sequences, FiniteSets, SequencesExt, FiniteSetsExt

(* The elements of a list that are in a set, in the order of the list.     *)
Filter(list, set) ==
  LET kept[n \in 0..Len(list)] ==
        IF n = 0 THEN <<>>
        ELSE IF list[n] \in set THEN Append(kept[n - 1], list[n]) ELSE kept[n - 1]
  IN kept[Len(list)]

(* Numbers from 1 on, sorted.                                              *)
Ascending(numbers) ==
  IF numbers = {} THEN <<>> ELSE Filter([n \in 1..Max(numbers) |-> n], numbers)
=============================================================================
