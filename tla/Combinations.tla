---------------------------- MODULE Combinations ----------------------------
(***************************************************************************)
(* The generation of test cases from axes (internal/combinations): an axis *)
(* is a property with the values to try, a case gives every axis one of    *)
(* its values.  Module PlanningPage says what a plan must be, and module   *)
(* PlanningPageProofs what these operators contribute to that.             *)
(*                                                                         *)
(* Abstractions.  A value is a natural number, in the order in which the   *)
(* code sorts the strings, 0 for the empty string; the values of an axis   *)
(* are a set until they are sorted.  The names of axes are distinct.  The  *)
(* random source is a choice: what GenerateWithStrategy may return is a    *)
(* set, and rows whose order is random are marked as shuffled.             *)
(***************************************************************************)
EXTENDS Lists

(* Axes that have a value, with their values in order.                     *)
NormalizeAxes(axes) ==
  LET unique == [i \in DOMAIN axes |->
                   [name |-> axes[i].name,
                    values |-> Ascending(axes[i].values \ {0})]]
  IN Filter(unique, {axis \in ToSet(unique) : axis.values # <<>>})

With(row, name, value) ==
  [n \in DOMAIN row \cup {name} |-> IF n = name THEN value ELSE row[n]]

UpTo(limit, rows) == SubSeq(rows, 1, Min({limit, Len(rows)}))

(* The first value of every axis.                                          *)
Single(axes, limit) ==
  IF axes = <<>> \/ limit = 0 THEN <<>>
  ELSE << [n \in {axes[i].name : i \in DOMAIN axes} |->
             LET i == CHOOSE i \in DOMAIN axes : axes[i].name = n IN axes[i].values[1]] >>

(* Every row with every value of one more axis, which runs fastest.        *)
Grown(rows, axis) ==
  LET size == Len(axis.values)
  IN [k \in 1..Len(rows) * size |->
        With(rows[((k - 1) \div size) + 1], axis.name, axis.values[((k - 1) % size) + 1])]

Product(axes) ==
  LET rows[n \in 0..Len(axes)] ==
        IF n = 0 THEN << <<>> >> ELSE Grown(rows[n - 1], axes[n])
  IN rows[Len(axes)]

Cartesian(axes, limit) ==
  IF axes = <<>> THEN <<>> ELSE UpTo(limit, Product(axes))

-----------------------------------------------------------------------------
(* Pairwise: axis by axis.  A pair stands for the value of an earlier axis *)
(* and that of the next one.                                               *)

PairsWithAxis(axes, next) ==
  UNION {[axis : {p}, value : ToSet(axes[p].values), with : ToSet(axes[next].values)] :
           p \in 1..next - 1}

Covered(row, axes, next) ==
  {[axis |-> p, value |-> row[axes[p].name], with |-> row[axes[next].name]] : p \in 1..next - 1}

(* The first of the values that covers the most pairs not covered yet.     *)
BestValue(row, axes, next, uncovered) ==
  LET values == axes[next].values
      Score(v) == Cardinality(uncovered \cap Covered(With(row, axes[next].name, v), axes, next))
      best == CHOOSE i \in DOMAIN values :
                /\ \A j \in DOMAIN values : Score(values[j]) <= Score(values[i])
                /\ \A j \in 1..i - 1 : Score(values[j]) < Score(values[i])
  IN values[best]

(* A row is added, and covers the pairs in it.                             *)
WithRow(done, row, axes, next) ==
  [rows |-> Append(done.rows, row), uncovered |-> done.uncovered \ Covered(row, axes, next)]

(* Every row is given a value on the next axis.                            *)
GrowHorizontally(rows, axes, next) ==
  LET Extended(row, uncovered) ==
        With(row, axes[next].name, BestValue(row, axes, next, uncovered))
      done[n \in 0..Len(rows)] ==
        IF n = 0 THEN [rows |-> <<>>, uncovered |-> PairsWithAxis(axes, next)]
        ELSE WithRow(done[n - 1], Extended(rows[n], done[n - 1].uncovered), axes, next)
  IN done[Len(rows)]

(* firstUncoveredPair: by the value on the next axis, then by the earlier  *)
(* axis, then by its value.                                                *)
Precedes(p, q) ==
  \/ p.with < q.with
  \/ p.with = q.with /\ p.axis < q.axis
  \/ p.with = q.with /\ p.axis = q.axis /\ p.value < q.value

FirstUncoveredPair(uncovered) ==
  CHOOSE p \in uncovered : \A q \in uncovered \ {p} : Precedes(p, q)

(* A whole row for that pair, which takes in other uncovered pairs of the  *)
(* same value on the next axis.                                            *)
RowFor(pair, axes, next, uncovered) ==
  LET Value(p) ==
        LET open == {v \in ToSet(axes[p].values) :
                       [axis |-> p, value |-> v, with |-> pair.with] \in uncovered}
        IN IF p = pair.axis THEN pair.value
           ELSE IF open # {} THEN Min(open) ELSE axes[p].values[1]
      Number(n) == CHOOSE i \in 1..next : axes[i].name = n
  IN [n \in {axes[i].name : i \in 1..next} |->
        IF Number(n) = next THEN pair.with ELSE Value(Number(n))]

(* Every uncovered pair gets a row, as far as the limit allows.            *)
GrowVertically(grown, axes, next, limit) ==
  LET Round(done) ==
        IF done.uncovered = {} \/ Len(done.rows) >= limit THEN done
        ELSE WithRow(done, RowFor(FirstUncoveredPair(done.uncovered), axes, next, done.uncovered),
                     axes, next)
      done[n \in 0..limit] == IF n = 0 THEN grown ELSE Round(done[n - 1])
  IN done[limit].rows

Pairwise(axes, limit) ==
  IF Len(axes) < 2 \/ limit = 0 THEN Cartesian(axes, limit)
  ELSE LET rows[n \in 2..Len(axes)] ==
             IF n = 2 THEN Cartesian(SubSeq(axes, 1, 2), limit)
             ELSE GrowVertically(GrowHorizontally(rows[n - 1], axes, n), axes, n, limit)
       IN rows[Len(axes)]

-----------------------------------------------------------------------------
InOrder(rows) == [rows |-> rows, shuffled |-> FALSE]
Shuffled(rows) == [rows |-> rows, shuffled |-> TRUE]

(* A sample is drawn only from a product that exceeds the limit, and only  *)
(* as long as rand.Int has no error.                                       *)
Random(axes, limit) ==
  LET all == Product(axes)
      samples == IF axes = <<>> \/ Len(all) <= limit THEN {}
                 ELSE {Shuffled(Filter(all, sample)) :
                        sample \in kSubset(limit, ToSet(all))}
  IN {InOrder(Cartesian(axes, limit))} \cup samples

GenerateWithStrategy(given, strategy, limit) ==
  LET axes == NormalizeAxes(given)
  IN CASE strategy = "single" -> {InOrder(Single(axes, limit))}
       [] strategy = "pairwise" -> {InOrder(Pairwise(axes, limit))}
       [] strategy = "random" -> Random(axes, limit)
       [] OTHER -> {InOrder(Cartesian(axes, limit))}
=============================================================================
