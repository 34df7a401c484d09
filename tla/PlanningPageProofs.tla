-------------------------- MODULE PlanningPageProofs ------------------------
(***************************************************************************)
(* Proofs about the automation page, the plans that are made of its inputs *)
(* and the checks of their cases.                                          *)
(*                                                                         *)
(* What a probe settles stays settled, for any number of workers.  The     *)
(* workers that passed the first look while nothing was known still wait   *)
(* for the mutex when the answer arrives, so the invariant speaks of the   *)
(* mutex, not of where each worker stands.                                 *)
(*                                                                         *)
(* The page and the service cross their calls.  The invariant says where   *)
(* every value of a form was offered, and which capabilities the service   *)
(* has when it plans with them; so what a plan may hold is a matter of one *)
(* model and one input, and is proved from the definitions of planning,    *)
(* bottom up: lists, the generators, the axes of a request, the cases that *)
(* are kept.  What the code does in a loop is a recursive function here,   *)
(* and is proved by induction over the number of rounds (SetInduction).    *)
(***************************************************************************)
EXTENDS PlanningPage, FiniteSetTheorems, WellFoundedInduction, SequenceTheorems, TLAPS

-----------------------------------------------------------------------------
(* Numbers.                                                                *)

(* Induction over numbers, for a set of them.                              *)
LEMMA SetInduction ==
  ASSUME NEW S \in SUBSET Nat, 0 \in S, \A n \in S : n + 1 \in S
  PROVE  S = Nat
<1> SUFFICES ASSUME Nat \ S # {} PROVE FALSE
  OBVIOUS
<1>1. OpToRel(<, Nat) = {p \in Nat \X Nat : p[1] < p[2]}
  BY DEF OpToRel
<1>2. PICK x \in Nat \ S : \A y \in Nat \ S : <<y, x>> \notin OpToRel(<, Nat)
  BY NatLessThanWellFounded, WFMin
<1>3. \A y \in Nat \ S : ~(y < x)
  BY <1>2 DEF OpToRel
<1>4. x # 0
  OBVIOUS
<1>5. x - 1 \in Nat /\ x - 1 < x
  BY <1>4
<1>6. x - 1 \in S
  BY <1>3, <1>5
<1>7. QED
  BY <1>6

(* A set of numbers has a least one.                                       *)
LEMMA LeastNumber ==
  ASSUME NEW S \in SUBSET Nat, S # {}
  PROVE  \E x \in S : \A y \in S : x <= y
<1>1. PICK x \in S : \A y \in S : <<y, x>> \notin OpToRel(<, Nat)
  BY NatLessThanWellFounded, WFMin
<1>2. \A y \in S : ~(y < x)
  BY <1>1 DEF OpToRel
<1>3. QED
  BY <1>2

(* Min of the community modules is that one.                               *)
LEMMA MinIsLeast ==
  ASSUME NEW S \in SUBSET Nat, S # {}
  PROVE  Min(S) \in S /\ \A y \in S : Min(S) <= y
BY LeastNumber DEF Min

(* Finitely many numbers have a bound, and a largest one.                  *)
LEMMA FiniteIsBounded ==
  ASSUME NEW S \in SUBSET Nat, IsFiniteSet(S)
  PROVE  \E m \in Nat : \A y \in S : y <= m
<1> DEFINE P == {n \in Nat : \A T \in SUBSET Nat : IsFiniteSet(T) /\ Cardinality(T) = n
                               => \E m \in Nat : \A y \in T : y <= m}
<1>1. 0 \in P
  <2> SUFFICES ASSUME NEW T \in SUBSET Nat, IsFiniteSet(T), Cardinality(T) = 0
               PROVE  \E m \in Nat : \A y \in T : y <= m
    OBVIOUS
  <2>1. T = {}
    BY FS_EmptySet
  <2>2. QED
    BY <2>1
<1>2. ASSUME NEW n \in P PROVE n + 1 \in P
  <2> SUFFICES ASSUME NEW T \in SUBSET Nat, IsFiniteSet(T), Cardinality(T) = n + 1
               PROVE  \E m \in Nat : \A y \in T : y <= m
    OBVIOUS
  <2>0. n \in Nat /\ Cardinality(T) # 0
    OBVIOUS
  <2> HIDE DEF P
  <2>1. PICK x \in T : TRUE
    BY <2>0, FS_EmptySet
  <2>2. IsFiniteSet(T \ {x}) /\ Cardinality(T \ {x}) = n
    <3>1. IsFiniteSet(T \ {x}) /\ Cardinality(T \ {x}) = Cardinality(T) - 1
      BY <2>1, FS_RemoveElement
    <3>2. QED
      BY <2>0, <3>1
  <2>3. PICK m \in Nat : \A y \in T \ {x} : y <= m
    BY <2>2 DEF P
  <2>4. CASE x <= m
    BY <2>3, <2>4
  <2>5. CASE ~(x <= m)
    <3>1. \A y \in T : y <= x
      BY <2>3, <2>5
    <3>2. QED
      BY <3>1
  <2>6. QED
    BY <2>4, <2>5
<1> HIDE DEF P
<1>3. P = Nat
  <2>1. P \in SUBSET Nat
    BY DEF P
  <2>2. QED
    BY <1>1, <1>2, <2>1, SetInduction
<1>4. Cardinality(S) \in P
  BY <1>3, FS_CardinalityType
<1>5. QED
  BY <1>4 DEF P

(* Max is the largest number of a finite set.                              *)
LEMMA MaxIsLargest ==
  ASSUME NEW S \in SUBSET Nat, S # {}, IsFiniteSet(S)
  PROVE  Max(S) \in S /\ \A y \in S : y <= Max(S)
<1>1. PICK m \in Nat : \A y \in S : y <= m
  BY FiniteIsBounded
<1> DEFINE D == {m - y : y \in S}
<1>2. D \in SUBSET Nat /\ D # {}
  <2>1. \A y \in S : m - y \in Nat
    BY <1>1
  <2>2. QED
    BY <2>1
<1>3. PICK d \in D : \A e \in D : d <= e
  BY <1>2, LeastNumber
<1>4. PICK x \in S : d = m - x
  BY <1>3
<1>5. \A y \in S : x >= y
  <2> TAKE y \in S
  <2>1. m - x <= m - y
    BY <1>3, <1>4
  <2>2. QED
    BY <2>1
<1>6. QED
  BY <1>4, <1>5 DEF Max

(* The smaller of two numbers.                                             *)
LEMMA MinOfTwo ==
  ASSUME NEW a \in Nat, NEW b \in Nat
  PROVE  Min({a, b}) = IF a <= b THEN a ELSE b
<1>1. {a, b} \in SUBSET Nat /\ {a, b} # {}
  OBVIOUS
<1>2. Min({a, b}) \in {a, b} /\ \A y \in {a, b} : Min({a, b}) <= y
  BY <1>1, MinIsLeast
<1>3. QED
  BY <1>2

(* Division with a remainder.                                              *)
LEMMA DivMod ==
  ASSUME NEW size \in Nat \ {0}, NEW k \in Nat
  PROVE  /\ k \div size \in Nat /\ k % size \in Nat /\ k % size < size
         /\ k = (k \div size) * size + (k % size)
<1>1. k % size \in Nat /\ k % size < size
  <2>0. k \in Int /\ size \in Int /\ size > 0
    OBVIOUS
  <2>1. k % size \in 0..size - 1
    BY <2>0
  <2>2. QED
    BY <2>1
<1>2. k = size * (k \div size) + (k % size)
  OBVIOUS
<1>3. k \div size \in Nat
  OBVIOUS
<1>4. QED
  BY <1>1, <1>2, <1>3

(* Quotient and remainder are unique.                                      *)
LEMMA DivIsUnique ==
  ASSUME NEW size \in Nat \ {0}, NEW q \in Nat, NEW r \in 0..size - 1
  PROVE  (q * size + r) \div size = q /\ (q * size + r) % size = r
OBVIOUS

(* Which row of a block a row belongs to (Grown).                          *)
LEMMA DivBound ==
  ASSUME NEW size \in Nat \ {0}, NEW len \in Nat, NEW k \in 0..len * size - 1
  PROVE  k \div size < len
OBVIOUS

(* Where a row of a block is (Grown).                                      *)
LEMMA DivBack ==
  ASSUME NEW size \in Nat \ {0}, NEW len \in Nat, NEW q \in 0..len - 1, NEW r \in 0..size - 1
  PROVE  q * size + r \in 0..len * size - 1
OBVIOUS

(* From a number on a grid, steps of the grid lead to others.              *)
LEMMA StepsStayOnGrid ==
  ASSUME NEW size \in Nat \ {0}, NEW min \in Nat, NEW a \in Nat, NEW b \in Nat, min <= a, a <= b,
         (a - min) % size = 0, (b - a) % size = 0
  PROVE  (b - min) % size = 0
<1> DEFINE x == a - min
           y == b - a
           p == x \div size
           q == y \div size
<1>1. x \in Nat /\ y \in Nat /\ b - min = x + y
  OBVIOUS
<1>2. x % size = 0 /\ y % size = 0
  OBVIOUS
<1> HIDE DEF x, y
<1>3. p \in Nat /\ x = p * size + (x % size)
  BY <1>1, DivMod
<1>4. q \in Nat /\ y = q * size + (y % size)
  BY <1>1, DivMod
<1> HIDE DEF p, q
<1>5. x = p * size /\ y = q * size
  BY <1>2, <1>3, <1>4
<1>6. p * size \in Nat /\ q * size \in Nat /\ (p + q) * size = p * size + q * size
  BY <1>3, <1>4
<1>7. x + y = (p + q) * size + 0
  BY <1>5, <1>6
<1>8. p + q \in Nat /\ 0 \in 0..size - 1
  BY <1>3, <1>4
<1>9. ((p + q) * size + 0) % size = 0
  BY <1>8, DivIsUnique
<1>10. QED
  BY <1>1, <1>7, <1>9

-----------------------------------------------------------------------------
(* Filter.                                                                 *)

(* The recursive function is there, and is what its definition says.       *)
LEMMA FilterUnfolds ==
  ASSUME NEW list, NEW set, Len(list) \in Nat
  PROVE  \E kept : /\ kept = [n \in 0..Len(list) |->
                                IF n = 0 THEN <<>>
                                ELSE IF list[n] \in set THEN Append(kept[n - 1], list[n]) ELSE kept[n - 1]]
                   /\ Filter(list, set) = kept[Len(list)]
<1> DEFINE Round(done, n) == IF list[n] \in set THEN Append(done, list[n]) ELSE done
           Is(f, m) == f = [n \in 0..m |-> IF n = 0 THEN <<>> ELSE Round(f[n - 1], n)]
           S == {m \in Nat : \E f : Is(f, m)}
<1> HIDE DEF Round
<1>1. 0 \in S
  <2>1. Is([n \in 0..0 |-> <<>>], 0)
    OBVIOUS
  <2>2. QED
    BY <2>1
<1>2. ASSUME NEW m \in S PROVE m + 1 \in S
  <2>1. PICK f : Is(f, m)
    OBVIOUS
  <2> DEFINE g == [n \in 0..m + 1 |-> IF n <= m THEN f[n] ELSE Round(f[m], m + 1)]
  <2>2. Is(g, m + 1)
    BY <2>1
  <2>3. \E f1 : Is(f1, m + 1)
    <3> HIDE DEF g, Is
    <3>1. QED
      BY <2>2
  <2>4. QED
    BY <2>3
<1>3. Len(list) \in S
  <2> HIDE DEF S
  <2>1. S \in SUBSET Nat
    BY DEF S
  <2>2. QED
    BY <1>1, <1>2, <2>1, SetInduction
<1> DEFINE kept == CHOOSE f : f = [n \in 0..Len(list) |->
                                IF n = 0 THEN <<>>
                                ELSE IF list[n] \in set THEN Append(f[n - 1], list[n]) ELSE f[n - 1]]
<1>4. PICK f : f = [n \in 0..Len(list) |->
                                IF n = 0 THEN <<>>
                                ELSE IF list[n] \in set THEN Append(f[n - 1], list[n]) ELSE f[n - 1]]
  BY <1>3 DEF Round
<1>5. kept = [n \in 0..Len(list) |->
                                IF n = 0 THEN <<>>
                                ELSE IF list[n] \in set THEN Append(kept[n - 1], list[n]) ELSE kept[n - 1]]
  BY <1>4
<1>6. Filter(list, set) = kept[Len(list)]
  BY DEF Filter
<1>7. QED
  BY <1>5, <1>6
(* What the filter keeps.                                                  *)
LEMMA FilterKeeps ==
  ASSUME NEW T, NEW list \in Seq(T), NEW set
  PROVE  /\ Filter(list, set) \in Seq(T \cap set)
         /\ ToSet(Filter(list, set)) = ToSet(list) \cap set
         /\ Len(Filter(list, set)) <= Len(list)
         /\ IsInjective(list) => IsInjective(Filter(list, set))
         /\ ToSet(list) \subseteq set => Filter(list, set) = list
<1>0. Len(list) \in Nat /\ DOMAIN list = 1..Len(list) /\ \A i \in 1..Len(list) : list[i] \in T
  OBVIOUS
<1>1. PICK kept : /\ kept = [n \in 0..Len(list) |->
                                IF n = 0 THEN <<>>
                                ELSE IF list[n] \in set THEN Append(kept[n - 1], list[n]) ELSE kept[n - 1]]
                  /\ Filter(list, set) = kept[Len(list)]
  BY <1>0, FilterUnfolds
<1>2. kept[0] = <<>>
  BY <1>0, <1>1
<1>3. \A n \in 0..Len(list) - 1 :
        kept[n + 1] = IF list[n + 1] \in set THEN Append(kept[n], list[n + 1]) ELSE kept[n]
  <2> TAKE n \in 0..Len(list) - 1
  <2> DEFINE Round(k) == IF k = 0 THEN <<>>
                        ELSE IF list[k] \in set THEN Append(kept[k - 1], list[k]) ELSE kept[k - 1]
  <2>1. n + 1 \in 0..Len(list) /\ (n + 1) - 1 = n /\ n + 1 # 0
    BY <1>0
  <2>2. kept = [k \in 0..Len(list) |-> Round(k)]
    BY <1>1
  <2>3. kept[n + 1] = Round(n + 1)
    <3> HIDE DEF Round
    <3>1. QED
      BY <2>1, <2>2
  <2>4. QED
    BY <2>1, <2>3
<1> DEFINE K(n) == /\ kept[n] \in Seq(T \cap set)
                   /\ \A x : x \in ToSet(kept[n]) <=> x \in set /\ \E i \in 1..n : list[i] = x
                   /\ Len(kept[n]) <= n
                   /\ IsInjective(list) => IsInjective(kept[n])
                   /\ ToSet(list) \subseteq set => kept[n] = SubSeq(list, 1, n)
           S == {n \in Nat : n <= Len(list) => K(n)}
<1>4. K(0)
  <2>1. ToSet(<<>>) = {}
    BY DEF ToSet
  <2>2. IsInjective(<<>>)
    BY DEF IsInjective
  <2>3. SubSeq(list, 1, 0) = <<>>
    BY <1>0
  <2>4. QED
    BY <1>2, <2>1, <2>2, <2>3
<1>5. ASSUME NEW n \in 0..Len(list) - 1, K(n)
      PROVE  K(n + 1)
  <2>0. n \in Nat /\ n + 1 \in 1..Len(list) /\ list[n + 1] \in T
    BY <1>0
  <2> DEFINE old == kept[n]
             x == list[n + 1]
  <2>1. /\ old \in Seq(T \cap set) /\ Len(old) \in Nat /\ Len(old) <= n
        /\ kept[n + 1] = IF x \in set THEN Append(old, x) ELSE old
    BY <1>3, <1>5, <2>0
  <2>2. \A y : y \in ToSet(old) <=> y \in set /\ \E i \in 1..n : list[i] = y
    BY <1>5
  <2>3. ToSet(list) \subseteq set => x \in set /\ old = SubSeq(list, 1, n)
    BY <1>0, <1>5, <2>0 DEF ToSet
  <2>4. IsInjective(list) => IsInjective(old)
    BY <1>5
  <2> HIDE DEF old
  <2>5. CASE x \notin set
    <3>1. kept[n + 1] = old
      BY <2>1, <2>5
    <3>2. \A y : y \in ToSet(old) <=> y \in set /\ \E i \in 1..n + 1 : list[i] = y
      BY <2>0, <2>2, <2>5
    <3> HIDE DEF x
    <3>3. QED
      BY <2>0, <2>1, <2>3, <2>4, <2>5, <3>1, <3>2
  <2>6. CASE x \in set
    <3>1. kept[n + 1] = Append(old, x)
      BY <2>1, <2>6
    <3>2. /\ Append(old, x) \in Seq(T \cap set) /\ Len(Append(old, x)) = Len(old) + 1
          /\ \A i \in 1..Len(old) : Append(old, x)[i] = old[i]
          /\ Append(old, x)[Len(old) + 1] = x
      BY <2>0, <2>1, <2>6
    <3>3. \A y : y \in ToSet(Append(old, x)) <=> y \in ToSet(old) \/ y = x
      <4>1. DOMAIN Append(old, x) = 1..Len(old) + 1 /\ DOMAIN old = 1..Len(old)
        BY <2>1, <3>2
      <4>2. QED
        BY <2>1, <3>2, <4>1 DEF ToSet
    <3>4. \A y : y \in ToSet(Append(old, x)) <=> y \in set /\ \E i \in 1..n + 1 : list[i] = y
      BY <2>0, <2>2, <2>6, <3>3
    <3>5. IsInjective(list) => IsInjective(Append(old, x))
      <4> SUFFICES ASSUME IsInjective(list) PROVE IsInjective(Append(old, x))
        OBVIOUS
      <4>1. x \notin ToSet(old)
        BY <1>0, <2>0, <2>2 DEF IsInjective
      <4>2. \A i \in 1..Len(old) : old[i] # x
        BY <2>1, <4>1 DEF ToSet
      <4>3. DOMAIN Append(old, x) = 1..Len(old) + 1 /\ DOMAIN old = 1..Len(old)
        BY <2>1, <3>2
      <4>4. QED
        BY <2>1, <2>4, <3>2, <4>2, <4>3 DEF IsInjective
    <3>6. ToSet(list) \subseteq set => Append(old, x) = SubSeq(list, 1, n + 1)
      BY <1>0, <2>0, <2>3
    <3> HIDE DEF x
    <3>7. QED
      BY <2>0, <2>1, <3>1, <3>2, <3>4, <3>5, <3>6
  <2>7. QED
    BY <2>5, <2>6
<1> HIDE DEF K
<1>6. S = Nat
  <2>1. 0 \in S
    BY <1>4
  <2>2. ASSUME NEW n \in S PROVE n + 1 \in S
    BY <1>0, <1>5
  <2> HIDE DEF S
  <2>3. S \in SUBSET Nat
    BY DEF S
  <2>4. QED
    BY <2>1, <2>2, <2>3, SetInduction
<1>7. K(Len(list))
  BY <1>0, <1>6
<1>8. Filter(list, set) = kept[Len(list)]
  BY <1>1
<1>9. QED
  <2>1. SubSeq(list, 1, Len(list)) = list
    BY <1>0
  <2>2. \A y : y \in ToSet(list) <=> \E i \in 1..Len(list) : list[i] = y
    BY <1>0 DEF ToSet
  <2>3. QED
    BY <1>7, <1>8, <2>1, <2>2 DEF K

(* Sorted numbers.                                                         *)
LEMMA AscendingSorts ==
  ASSUME NEW S \in SUBSET (Nat \ {0}), IsFiniteSet(S)
  PROVE  /\ Ascending(S) \in Seq(S)
         /\ ToSet(Ascending(S)) = S
         /\ IsInjective(Ascending(S))
         /\ Len(Ascending(S)) \in Nat
         /\ DOMAIN Ascending(S) = 1..Len(Ascending(S))
         /\ (S = {} <=> Ascending(S) = <<>>)
<1>1. CASE S = {}
  <2>1. Ascending(S) = <<>>
    BY <1>1 DEF Ascending
  <2>2. ToSet(<<>>) = {} /\ IsInjective(<<>>) /\ <<>> \in Seq(S) /\ Len(<<>>) = 0 /\ DOMAIN <<>> = 1..0
    BY DEF ToSet, IsInjective
  <2>3. QED
    BY <1>1, <2>1, <2>2
<1>2. CASE S # {}
  <2> DEFINE list == [n \in 1..Max(S) |-> n]
             up == Ascending(S)
  <2>0. Max(S) \in S /\ \A y \in S : y <= Max(S)
    BY <1>2, MaxIsLargest
  <2>1. Max(S) \in Nat /\ \A y \in S : y \in Nat /\ 1 <= y /\ y <= Max(S)
    <3>1. \A y \in S : y \in Nat /\ 1 <= y
      OBVIOUS
    <3> HIDE DEF list, up
    <3>2. QED
      BY <2>0, <3>1
  <2>2. list \in Seq(Nat) /\ ToSet(list) = 1..Max(S) /\ IsInjective(list)
    <3>1. Len(list) = Max(S) /\ DOMAIN list = 1..Max(S) /\ \A n \in 1..Max(S) : list[n] = n
      BY <2>1
    <3>2. list \in Seq(Nat)
      BY <2>1
    <3> HIDE DEF list
    <3>3. QED
      BY <3>1, <3>2 DEF ToSet, IsInjective
  <2>3. up = Filter(list, S)
    BY <1>2 DEF Ascending
  <2>4. S \subseteq 1..Max(S) /\ Nat \cap S = S
    <3> DEFINE m == Max(S)
    <3>1. m \in Nat /\ \A y \in S : y \in Nat /\ 1 <= y /\ y <= m
      BY <2>1
    <3> HIDE DEF m
    <3>2. S \subseteq 1..m
      BY <3>1
    <3>3. QED
      BY <3>2 DEF m
  <2> HIDE DEF list, up
  <2>5. up \in Seq(S) /\ ToSet(up) = S /\ IsInjective(up)
    <3>1. /\ up \in Seq(Nat \cap S) /\ ToSet(up) = ToSet(list) \cap S
          /\ IsInjective(list) => IsInjective(up)
      BY <2>2, <2>3, FilterKeeps
    <3>2. QED
      BY <2>2, <2>4, <3>1
  <2>6. Len(up) \in Nat /\ DOMAIN up = 1..Len(up)
    BY <2>5
  <2>7. up # <<>>
    <3>1. ToSet(<<>>) = {}
      BY DEF ToSet
    <3>2. QED
      BY <1>2, <2>5, <3>1
  <2>8. QED
    BY <1>2, <2>5, <2>6, <2>7 DEF up
<1>3. QED
  BY <1>1, <1>2

(* A part of an injective list of properties.                              *)
LEMMA PartOfList ==
  ASSUME NEW T, NEW list \in Seq(T), IsInjective(list), NEW set
  PROVE  /\ Filter(list, set) \in Seq(T \cap set) /\ IsInjective(Filter(list, set))
         /\ ToSet(Filter(list, set)) = ToSet(list) \cap set
<1>1. QED
  BY FilterKeeps

(* A list is one of its own elements.                                      *)
LEMMA InDomain ==
  ASSUME NEW list, NEW T, list \in Seq(T)
  PROVE  list \in Seq(ToSet(list)) /\ ToSet(list) \subseteq T /\ \A i \in DOMAIN list : list[i] \in ToSet(list)
<1>1. /\ Len(list) \in Nat /\ DOMAIN list = 1..Len(list) /\ list = [i \in 1..Len(list) |-> list[i]]
      /\ \A i \in 1..Len(list) : list[i] \in ToSet(list) /\ list[i] \in T
  BY DEF ToSet
<1>2. PICK n \in Nat : n = Len(list)
  BY <1>1
<1>3. list \in [1..n -> ToSet(list)]
  BY <1>1, <1>2
<1>4. list \in Seq(ToSet(list))
  BY <1>3
<1>5. QED
  BY <1>1, <1>4 DEF ToSet

(* A sequence without repetitions has as many elements as entries.         *)
LEMMA InjectiveCounts ==
  ASSUME NEW T, NEW list \in Seq(T), IsInjective(list)
  PROVE  IsFiniteSet(ToSet(list)) /\ Cardinality(ToSet(list)) = Len(list)
<1>1. Len(list) \in Nat /\ DOMAIN list = 1..Len(list)
  OBVIOUS
<1>2. list \in Surjection(1..Len(list), ToSet(list)) /\ list \in Injection(1..Len(list), ToSet(list))
  <2>1. list \in [1..Len(list) -> ToSet(list)]
    BY <1>1 DEF ToSet
  <2>2. QED
    BY <1>1, <2>1 DEF Surjection, Injection, IsInjective, ToSet
<1>3. IsFiniteSet(1..Len(list)) /\ Cardinality(1..Len(list)) = Len(list)
  <2>1. IsFiniteSet(1..Len(list)) /\ Cardinality(1..Len(list)) = IF 1 > Len(list) THEN 0 ELSE Len(list) - 1 + 1
    BY <1>1, FS_Interval
  <2>2. QED
    BY <1>1, <2>1
<1>4. QED
  BY <1>2, <1>3, FS_Surjection

(* A list of elements of a set is one of a larger set.                     *)
LEMMA LargerSeq ==
  ASSUME NEW S, NEW T, S \subseteq T, NEW list \in Seq(S)
  PROVE  list \in Seq(T)
  OBVIOUS

-----------------------------------------------------------------------------
(* What is typed, and how a page range is written back.                    *)

(* The pages of a range that can be read.                                  *)
LEMMA PagesAreRead ==
  ASSUME NEW input \in Seq(Entry), ParsePages(input).ok
  PROVE  LET pages == ParsePages(input).values
         IN /\ pages = UNION {input[i].from..input[i].to : i \in DOMAIN input}
            /\ pages \subseteq Nat \ {0} /\ pages # {} /\ IsFiniteSet(pages)
            /\ ~(Cardinality(pages) > ExpansionLimit)
<1> DEFINE pages == UNION {input[i].from..input[i].to : i \in DOMAIN input}
<1>0. Len(input) \in Nat /\ DOMAIN input = 1..Len(input) /\ \A i \in 1..Len(input) : input[i] \in Entry
  OBVIOUS
<1>1. /\ input # <<>> /\ ~(Cardinality(pages) > ExpansionLimit)
      /\ \A i \in DOMAIN input : ~(input[i].from < 1) /\ ~(input[i].from > input[i].to)
      /\ ParsePages(input).values = pages
  BY DEF ParsePages, Refused, Read
<1>2. \A i \in DOMAIN input : /\ input[i].from \in Nat /\ input[i].to \in Nat
                             /\ 1 <= input[i].from /\ input[i].from <= input[i].to
  BY <1>0, <1>1 DEF Entry
<1>3. pages \subseteq Nat \ {0}
  BY <1>2
<1>4. pages # {}
  <2>1. 1 \in DOMAIN input
    BY <1>0, <1>1
  <2>2. input[1].from \in input[1].from..input[1].to
    BY <1>2, <2>1
  <2>3. QED
    BY <2>1, <2>2
<1>5. IsFiniteSet(pages)
  <2> DEFINE F(i) == input[i].from..input[i].to
             parts == {F(i) : i \in DOMAIN input}
  <2>1. \A i \in DOMAIN input : IsFiniteSet(F(i))
    <3> TAKE i \in DOMAIN input
    <3>1. input[i].from \in Int /\ input[i].to \in Int
      BY <1>2
    <3>2. QED
      BY <3>1, FS_Interval
  <2>2. IsFiniteSet(DOMAIN input)
    BY <1>0, FS_Interval
  <2> HIDE DEF F
  <2>3. IsFiniteSet(parts)
    <3> DEFINE f == [i \in DOMAIN input |-> F(i)]
    <3>1. f \in Surjection(DOMAIN input, parts)
      BY DEF Surjection
    <3>2. QED
      BY <2>2, <3>1, FS_Surjection
  <2>4. IsFiniteSet(UNION parts)
    BY <2>1, <2>3, FS_UNION
  <2>5. QED
    BY <2>4 DEF F
<1>6. QED
  BY <1>1, <1>3, <1>4, <1>5

(* compact: a page belongs to one run, which ends before a page that is    *)
(* not asked for.                                                          *)
LEMMA CompactRuns ==
  ASSUME NEW pages \in SUBSET (Nat \ {0}), pages # {}, IsFiniteSet(pages)
  PROVE  /\ Compact(pages) \in Seq(Entry) /\ Compact(pages) # <<>>
         /\ \A i \in DOMAIN Compact(pages) : /\ 1 <= Compact(pages)[i].from
                                             /\ Compact(pages)[i].from <= Compact(pages)[i].to
         /\ UNION {Compact(pages)[i].from..Compact(pages)[i].to : i \in DOMAIN Compact(pages)} = pages
<1> DEFINE Ends(p) == {q \in pages : q >= p /\ q + 1 \notin pages}
           End(p) == Min(Ends(p))
           Run(p) == IF End(p) = p THEN One(p) ELSE Span(p, End(p))
           first == {p \in pages : p - 1 \notin pages}
           starts == Ascending(first)
           runs == Compact(pages)
<1>1. runs = [i \in DOMAIN starts |-> Run(starts[i])]
  BY DEF Compact
<1>2. ASSUME NEW p \in pages
      PROVE  End(p) \in Ends(p) /\ \A q \in Ends(p) : End(p) <= q
  <2>1. Max(pages) \in pages /\ \A y \in pages : y <= Max(pages)
    BY MaxIsLargest
  <2>2. Max(pages) \in Ends(p)
    <3> DEFINE m == Max(pages)
    <3>1. m \in pages /\ m \in Nat /\ p <= m /\ p \in Nat
      BY <2>1
    <3>2. m + 1 \notin pages
      <4> HIDE DEF m
      <4>1. ~(m + 1 <= m)
        BY <3>1
      <4>2. QED
        BY <2>1, <4>1 DEF m
    <3>3. QED
      BY <3>1, <3>2
  <2>3. Ends(p) \in SUBSET Nat /\ Ends(p) # {}
    BY <2>2
  <2> HIDE DEF Ends
  <2>4. QED
    BY <2>3, MinIsLeast
<1>3. ASSUME NEW p \in pages
      PROVE  p \in Nat \ {0} /\ End(p) \in Nat /\ p <= End(p) /\ Run(p) \in Entry
             /\ Run(p).from = p /\ Run(p).to = End(p)
  <2>1. p \in Nat \ {0} /\ End(p) \in Nat /\ p <= End(p)
    BY <1>2
  <2> HIDE DEF End
  <2>2. QED
    BY <2>1 DEF One, Span, Entry
<1>4. ASSUME NEW p \in pages, NEW x \in p..End(p)
      PROVE  x \in pages
  <2> DEFINE gap == {y \in p..End(p) : y \notin pages}
  <2> SUFFICES ASSUME gap # {} PROVE FALSE
    OBVIOUS
  <2>0. p \in Nat /\ End(p) \in Nat
    BY <1>3
  <2>1. PICK y \in gap : \A z \in gap : y <= z
    <3>1. gap \in SUBSET Nat
      BY <2>0
    <3> HIDE DEF gap
    <3>2. QED
      BY <3>1, LeastNumber
  <2> HIDE DEF End
  <2>2. y \in Nat /\ p <= y /\ y <= End(p) /\ y \notin pages /\ y # p
    BY <2>0, <2>1
  <2>3. y - 1 \in pages
    <3>1. y - 1 \in p..End(p) /\ ~(y <= y - 1)
      BY <2>0, <2>2
    <3>2. y - 1 \notin gap
      BY <2>1, <3>1
    <3>3. QED
      BY <3>1, <3>2
  <2>4. y - 1 \in Ends(p)
    BY <2>0, <2>2, <2>3
  <2>5. End(p) <= y - 1
    BY <1>2, <2>4
  <2>6. QED
    BY <2>0, <2>2, <2>5
<1>5. ASSUME NEW q \in pages
      PROVE  \E p \in first : q \in p..End(p)
  <2> DEFINE back == {p \in 1..q : p..q \subseteq pages}
  <2>1. q \in Nat /\ 1 <= q
    OBVIOUS
  <2>2. PICK p \in back : \A r \in back : p <= r
    <3>1. back \in SUBSET Nat
      BY <2>1
    <3>2. q \in back
      BY <2>1
    <3> HIDE DEF back
    <3>3. QED
      BY <3>1, <3>2, LeastNumber
  <2>3. p \in Nat /\ 1 <= p /\ p <= q /\ p..q \subseteq pages /\ p \in pages
    BY <2>1, <2>2
  <2>4. p - 1 \notin pages
    <3> SUFFICES ASSUME p - 1 \in pages PROVE FALSE
      OBVIOUS
    <3>1. p - 1 \in 1..q
      BY <2>1, <2>3
    <3>2. \A z \in (p - 1)..q : z = p - 1 \/ z \in p..q
      BY <2>1, <2>3
    <3>3. p - 1 \in back
      BY <2>3, <3>1, <3>2
    <3>4. p <= p - 1
      BY <2>2, <3>3
    <3>5. QED
      BY <2>3, <3>4
  <2>5. q <= End(p)
    <3>1. End(p) \in Nat /\ p <= End(p) /\ End(p) + 1 \notin pages
      BY <1>2, <1>3, <2>3
    <3> HIDE DEF End
    <3>2. ~(End(p) < q)
      <4> SUFFICES ASSUME End(p) < q PROVE FALSE
        OBVIOUS
      <4>1. End(p) + 1 \in p..q
        BY <2>1, <2>3, <3>1
      <4>2. QED
        BY <2>3, <3>1, <4>1
    <3>3. QED
      BY <2>1, <3>1, <3>2
  <2>6. End(p) \in Nat
    BY <1>3, <2>3
  <2> HIDE DEF End
  <2>7. QED
    BY <2>1, <2>3, <2>4, <2>5, <2>6
<1>6. /\ ToSet(starts) = first /\ DOMAIN starts = 1..Len(starts) /\ Len(starts) \in Nat
      /\ first # {} => starts # <<>>
  <2>1. IsFiniteSet(first) /\ first \in SUBSET (Nat \ {0})
    BY FS_Subset
  <2> HIDE DEF first
  <2>2. QED
    BY <2>1, AscendingSorts
<1> HIDE DEF End, Run, first, starts, runs
<1>7. \A i \in DOMAIN starts : starts[i] \in first
  BY <1>6 DEF ToSet
<1>8. first \subseteq pages
  BY DEF first
<1>9. /\ DOMAIN runs = DOMAIN starts
      /\ \A i \in DOMAIN starts : /\ runs[i] \in Entry /\ 1 <= runs[i].from /\ runs[i].from <= runs[i].to
                                 /\ runs[i].from = starts[i] /\ runs[i].to = End(starts[i])
                                 /\ starts[i] \in pages
  <2>1. DOMAIN runs = DOMAIN starts
    BY <1>1
  <2>2. ASSUME NEW i \in DOMAIN starts
        PROVE  /\ runs[i] \in Entry /\ 1 <= runs[i].from /\ runs[i].from <= runs[i].to
               /\ runs[i].from = starts[i] /\ runs[i].to = End(starts[i])
               /\ starts[i] \in pages
    <3>1. runs[i] = Run(starts[i]) /\ starts[i] \in pages
      BY <1>1, <1>7, <1>8
    <3> DEFINE p == starts[i]
    <3> HIDE DEF p
    <3>2. p \in pages /\ runs[i] = Run(p)
      BY <3>1 DEF p
    <3>3. p \in Nat \ {0} /\ p <= End(p) /\ Run(p) \in Entry /\ Run(p).from = p /\ Run(p).to = End(p)
      BY <1>3, <3>2
    <3>4. QED
      BY <3>2, <3>3 DEF p
  <2>3. QED
    BY <2>1, <2>2
<1>10. runs \in Seq(Entry)
  <2>1. runs = [i \in 1..Len(starts) |-> Run(starts[i])]
    BY <1>1, <1>6
  <2>2. \A i \in 1..Len(starts) : Run(starts[i]) \in Entry
    BY <1>3, <1>6, <1>7, <1>8
  <2>3. QED
    BY <1>6, <2>1, <2>2
<1>11. runs # <<>>
  <2>1. first # {}
    BY <1>5
  <2>2. starts # <<>>
    BY <1>6, <2>1
  <2>3. DOMAIN starts # {}
    <3>1. starts = <<>> \/ Len(starts) # 0
      <4>1. starts \in Seq(first)
        <5>1. IsFiniteSet(first) /\ first \in SUBSET (Nat \ {0})
          BY <1>8, FS_Subset
        <5>2. QED
          BY <5>1, AscendingSorts DEF starts
      <4>2. QED
        BY <4>1
    <3>2. QED
      BY SMTT(30), <1>6, <2>2, <3>1
  <2>4. QED
    BY <1>9, <2>3
<1>12. UNION {runs[i].from..runs[i].to : i \in DOMAIN runs} = pages
  <2>1. ASSUME NEW i \in DOMAIN runs, NEW x \in runs[i].from..runs[i].to
        PROVE  x \in pages
    BY <1>4, <1>9, <2>1
  <2>2. ASSUME NEW q \in pages
        PROVE  \E i \in DOMAIN runs : q \in runs[i].from..runs[i].to
    <3>1. PICK p \in first : q \in p..End(p)
      BY <1>5
    <3>2. PICK i \in DOMAIN starts : starts[i] = p
      BY <1>6 DEF ToSet
    <3>3. runs[i].from = p /\ runs[i].to = End(p) /\ i \in DOMAIN runs
      BY <1>9, <3>2
    <3>4. QED
      BY <3>1, <3>3
  <2>3. QED
    BY <2>1, <2>2
<1>13. QED
  BY <1>9, <1>10, <1>11, <1>12 DEF runs

(* A page range that is written back is read as the same pages.            *)
LEMMA CompactReadsBack ==
  ASSUME NEW pages \in SUBSET (Nat \ {0}), pages # {}, IsFiniteSet(pages),
         ~(Cardinality(pages) > ExpansionLimit)
  PROVE  ParsePages(Compact(pages)).ok /\ ParsePages(Compact(pages)).values = pages
<1> DEFINE input == Compact(pages)
<1>1. /\ input \in Seq(Entry) /\ input # <<>>
      /\ \A i \in DOMAIN input : 1 <= input[i].from /\ input[i].from <= input[i].to
      /\ UNION {input[i].from..input[i].to : i \in DOMAIN input} = pages
  BY CompactRuns
<1> HIDE DEF input
<1>2. \A i \in DOMAIN input : ~(input[i].from < 1 \/ input[i].from > input[i].to)
  <2> TAKE i \in DOMAIN input
  <2>1. input[i] \in Entry
    BY <1>1
  <2>2. input[i].from \in Nat /\ input[i].to \in Nat /\ 1 <= input[i].from /\ input[i].from <= input[i].to
    BY <1>1, <2>1 DEF Entry
  <2>3. QED
    BY <2>2
<1>3. ParsePages(input) = Read(pages, HasRange(input))
  BY <1>1, <1>2 DEF ParsePages
<1>4. QED
  BY <1>3 DEF Read, input

-----------------------------------------------------------------------------
(* The latch, whoever asks and when.                                       *)

LatchInv == LatchTypeOK /\ ProbeKnowsNothing

(* The end of a check writes the latch only for the worker that holds the  *)
(* mutex, and gives the mutex back.                                        *)
LEMMA SettleKeepsLatch ==
  ASSUME NEW c \in Checker, NEW found \in {"missing", "unknown", "present"},
         LatchInv, Settle(c, found)
  PROVE  /\ constraintStatus' \in {"missing", "unknown", "present"}
         /\ constraintProbe' \in Checker \cup {NoChecker}
         /\ ProbeKnowsNothing'
         /\ constraintStatus # "unknown" => UNCHANGED constraintStatus
  BY CheckerAssumption DEF Settle, LatchInv, LatchTypeOK, ProbeKnowsNothing

(* A check that returns leaves its worker idle and the rest type correct.  *)
LEMMA AnswersKeepsTypes ==
  ASSUME NEW c \in Checker, NEW a \in Answer, LatchTypeOK, Answers(c, a)
  PROVE  /\ check' \in [Checker -> CheckStep]
         /\ failures' \in [Checker -> SUBSET Failure]
         /\ answer' \in [Checker -> Answer]
  BY DEF Answers, CheckAt, LatchTypeOK, CheckStep

(* Every step of a check keeps the invariant and what was settled.         *)
LEMMA LatchStep ==
  LatchInv /\ [LatchNext]_latchVars
    => LatchInv' /\ (constraintStatus # "unknown" => UNCHANGED constraintStatus)
<1> SUFFICES ASSUME LatchInv, [LatchNext]_latchVars
             PROVE  /\ LatchInv'
                    /\ constraintStatus # "unknown" => UNCHANGED constraintStatus
  OBVIOUS
<1> USE DEF LatchInv
<1>1. ASSUME NEW c \in Checker, BeginCheck(c)
      PROVE  LatchInv' /\ UNCHANGED constraintStatus
  <2>1. CASE constraintStatus = "missing"
    <3>1. LatchTypeOK'
      BY <1>1, <2>1, AnswersKeepsTypes DEF BeginCheck, LatchTypeOK, Answer
    <3>2. QED
      BY <1>1, <3>1 DEF BeginCheck, ProbeKnowsNothing
  <2>2. CASE constraintStatus # "missing"
    BY <1>1, <2>2 DEF BeginCheck, CheckAt, LatchTypeOK, ProbeKnowsNothing, CheckStep
  <2>3. QED
    BY <2>1, <2>2
<1>2. ASSUME NEW c \in Checker, LookAgain(c)
      PROVE  LatchInv' /\ UNCHANGED constraintStatus
  BY <1>2 DEF LookAgain, CheckAt, LatchTypeOK, ProbeKnowsNothing, CheckStep
<1>3. ASSUME NEW c \in Checker, LockProbe(c)
      PROVE  LatchInv' /\ UNCHANGED constraintStatus
  <2>1. CASE constraintStatus = "missing"
    <3>1. Answers(c, "unsupported") /\ UNCHANGED <<constraintProbe, constraintStatus>>
      BY <1>3, <2>1 DEF LockProbe
    <3>2. LatchTypeOK'
      BY <3>1, AnswersKeepsTypes DEF LatchTypeOK, Answer
    <3>3. QED
      BY <3>1, <3>2 DEF ProbeKnowsNothing
  <2>2. CASE constraintStatus = "present"
    <3>1. CheckAt(c, "POST") /\ UNCHANGED <<failures, answer, constraintProbe, constraintStatus>>
      BY <1>3, <2>2 DEF LockProbe
    <3>2. QED
      BY <3>1 DEF CheckAt, LatchTypeOK, ProbeKnowsNothing, CheckStep
  <2>3. CASE constraintStatus = "unknown"
    <3>1. /\ CheckAt(c, "POST") /\ constraintProbe' = c
          /\ UNCHANGED <<failures, answer, constraintStatus>>
      BY <1>3, <2>3 DEF LockProbe
    <3>2. QED
      BY <2>3, <3>1 DEF CheckAt, LatchTypeOK, ProbeKnowsNothing, CheckStep
  <2>4. QED
    BY <2>1, <2>2, <2>3 DEF LatchTypeOK
<1>4. ASSUME NEW c \in Checker, Answered(c)
      PROVE  LatchInv' /\ (constraintStatus # "unknown" => UNCHANGED constraintStatus)
  <2>1. Answers(c, "answered") /\ Settle(c, "present")
    BY <1>4 DEF Answered
  <2>2. QED
    BY <2>1, AnswersKeepsTypes, SettleKeepsLatch DEF LatchTypeOK, Answer
<1>5. ASSUME NEW c \in Checker, BreaksOff(c)
      PROVE  LatchInv' /\ (constraintStatus # "unknown" => UNCHANGED constraintStatus)
  <2>1. Answers(c, "error") /\ Settle(c, constraintStatus)
    BY <1>5 DEF BreaksOff
  <2>2. QED
    BY <2>1, AnswersKeepsTypes, SettleKeepsLatch DEF LatchTypeOK, Answer
<1>6. ASSUME NEW c \in Checker, NEW failure \in Failure, TryPut(c, failure)
      PROVE  LatchInv' /\ UNCHANGED constraintStatus
  BY <1>6 DEF TryPut, CheckAt, LatchTypeOK, ProbeKnowsNothing, CheckStep
<1>7. ASSUME NEW c \in Checker, NEW failure \in Failure, FailsTwice(c, failure)
      PROVE  LatchInv' /\ (constraintStatus # "unknown" => UNCHANGED constraintStatus)
  <2>1. PICK found \in {"missing", "unknown", "present"} :
          Answers(c, "unsupported") /\ Settle(c, found)
    BY <1>7 DEF FailsTwice, LatchTypeOK
  <2>2. QED
    BY <2>1, AnswersKeepsTypes, SettleKeepsLatch DEF LatchTypeOK, Answer
<1>8. CASE UNCHANGED latchVars
  BY <1>8 DEF latchVars, LatchTypeOK, ProbeKnowsNothing
<1>9. QED
  BY <1>1, <1>2, <1>3, <1>4, <1>5, <1>6, <1>7, <1>8 DEF LatchNext, CheckStepOf

(* The latch is type correct, and the mutex is only held while nothing is  *)
(* known, for any number of workers.                                       *)
THEOREM LatchInvariant == LatchSpec => []LatchInv
<1>1. LatchInit => LatchInv
  BY DEF LatchInit, LatchInv, LatchTypeOK, ProbeKnowsNothing, CheckStep, Answer
<1>2. LatchInv /\ [LatchNext]_latchVars => LatchInv'
  BY LatchStep
<1>3. QED
  BY <1>1, <1>2, PTL DEF LatchSpec

(* However the checks of the workers interleave and however late a reply   *)
(* comes, what one probe has settled is never settled again.               *)
THEOREM LatchStaysSettled == LatchSpec => LatchIsFinal
<1>1. LatchInv /\ [LatchNext]_latchVars
        => [constraintStatus # "unknown" => UNCHANGED constraintStatus]_latchVars
  BY LatchStep
<1>2. QED
  BY <1>1, LatchInvariant, PTL DEF LatchSpec, LatchIsFinal

-----------------------------------------------------------------------------
(* The page and its cases.                                                 *)

(* The workers of a run use the latch as ConstraintCheck allows, and       *)
(* nobody else does (CheckJobConstraints).                                 *)
THEOREM RunUsesLatch == Spec => LatchSpec
<1>1. Init => LatchInit
  BY DEF Init
<1>2. [Next]_vars => [LatchNext]_latchVars
  BY DEF Next, vars, latchVars, TakeCase, LatchNext, MakePlan, StartRun
<1>3. QED
  BY <1>1, <1>2, PTL DEF Spec, LatchSpec

(* In every run that a page may start, what one probe has settled about    *)
(* the endpoint is never settled again (CheckJobConstraints).              *)
THEOREM RunSettlesOnce == Spec => LatchIsFinal
BY RunUsesLatch, LatchStaysSettled, PTL

-----------------------------------------------------------------------------
(* What is offered of a snapshot.                                          *)

(* A scale without bounds gets some, nothing else changes.                 *)
LEMMA ScaleGetsBounds ==
  ASSUME NEW s \in DOMAIN Snapshot, NEW id \in DOMAIN Snapshot[s]
  PROVE  LET of == Snapshot[s][id]
             got == WithScale(Snapshot[s])[id]
         IN /\ got.value = of.value /\ got.excludes = of.excludes /\ got.group = of.group
            /\ got.values = of.values
            /\ got = of \/ HasBounds(got)
            /\ DOMAIN got = DOMAIN of
<1> DEFINE of == Snapshot[s][id]
           got == WithScale(Snapshot[s])[id]
<1>1. of \in Published
  BY SnapshotAssumption
<1>2. CASE id \in ScaleIds /\ ~HasBounds(of)
  <2>1. got = [of EXCEPT !.range = SyntheticScale.range, !.type = "range",
                         !.editable = IF @ = "unsaid" THEN @ ELSE "yes"]
    BY <1>2 DEF WithScale
  <2> HIDE DEF got, of
  <2>2. got.range = SyntheticScale.range
    BY <1>1, <2>1 DEF Published
  <2>3. HasBounds(got)
    BY <2>2, ScaleAssumption DEF HasBounds
  <2>4. got.value = of.value /\ got.excludes = of.excludes /\ got.group = of.group /\ got.values = of.values
    BY <1>1, <2>1 DEF Published
  <2>5. DOMAIN got = DOMAIN of
    BY <2>1
  <2>6. QED
    BY <2>3, <2>4, <2>5 DEF got, of
<1>3. CASE ~(id \in ScaleIds /\ ~HasBounds(of))
  BY <1>3 DEF WithScale
<1>4. QED
  BY <1>2, <1>3

(* So the installed configuration rules out the same values.               *)
LEMMA ScaleKeepsConfiguration ==
  ASSUME NEW s \in DOMAIN Snapshot
  PROVE  LET p == WithScale(Snapshot[s])
         IN /\ DOMAIN p = DOMAIN Snapshot[s]
            /\ Fixed(p) = Fixed(Snapshot[s])
            /\ \A id \in DOMAIN p : \A v : RuledOut(p, id, v) <=> RuledOut(Snapshot[s], id, v)
<1> DEFINE p == WithScale(Snapshot[s])
<1>1. DOMAIN p = DOMAIN Snapshot[s]
  BY DEF WithScale
<1>2. \A id \in DOMAIN p : /\ p[id].value = Snapshot[s][id].value
                          /\ p[id].excludes = Snapshot[s][id].excludes
                          /\ p[id].group = Snapshot[s][id].group
  BY <1>1, ScaleGetsBounds
<1> HIDE DEF p
<1>3. Fixed(p) = Fixed(Snapshot[s])
  BY <1>1, <1>2 DEF Fixed, Of
<1>4. Fixed(p) \subseteq DOMAIN p
  BY DEF Fixed, Of
<1>5. \A id \in DOMAIN p : \A v : RuledOut(p, id, v) <=> RuledOut(Snapshot[s], id, v)
  BY <1>2, <1>3, <1>4 DEF RuledOut
<1>6. QED
  BY <1>1, <1>3, <1>5 DEF p

(* What is added to the properties of the server has bounds.               *)
LEMMA AddedHaveBounds ==
  ASSUME NEW options, NEW id \in DOMAIN WithSynthetics(options)
  PROVE  IF id \in DOMAIN options THEN WithSynthetics(options)[id] = ForPlanning(options[id])
         ELSE HasBounds(WithSynthetics(options)[id])
<1> DEFINE copies == [min |-> 1, max |-> MaximumCopies, increment |-> 1]
           copiesOption == Synthetic(1, {1, 2, 5, 10}, copies)
           scaleOption == Synthetic(SyntheticScale.value, {}, SyntheticScale.range)
<1>1. WithSynthetics(options)[id] = CASE id \in DOMAIN options -> ForPlanning(options[id])
                                      [] id \notin DOMAIN options /\ id = "num copies" -> copiesOption
                                      [] OTHER -> scaleOption
  BY DEF WithSynthetics
<1>2. HasBounds(copiesOption)
  <2>1. copies # NoRange
    BY CopiesAssumption DEF NoRange
  <2>2. QED
    BY <2>1 DEF HasBounds, Synthetic
<1>3. HasBounds(scaleOption)
  BY ScaleAssumption DEF HasBounds, Synthetic
<1> HIDE DEF copiesOption, scaleOption
<1>4. QED
  BY <1>1, <1>2, <1>3

(* What the configuration leaves of a property are some of its values.     *)
LEMMA ConfiguredValues ==
  ASSUME NEW p, NEW id \in DOMAIN ApplyFixedConfiguration(p), "values" \in DOMAIN p[id]
  PROVE  id \in DOMAIN p /\ ApplyFixedConfiguration(p)[id].values \subseteq p[id].values
<1> DEFINE kept == {v \in p[id].values : ~RuledOut(p, id, v)}
           exempt == p[id].values = {} \/ p[id].excludes = {} \/ p[id].group = "installable"
<1>1. /\ id \in DOMAIN p
      /\ ApplyFixedConfiguration(p)[id] = IF exempt THEN p[id] ELSE [p[id] EXCEPT !.values = kept]
  BY DEF ApplyFixedConfiguration
<1> HIDE DEF exempt
<1>2. QED
  BY <1>1

(* Of two names of one property preferJobProperty never prefers both, in   *)
(* whatever order it compares them: at most one is offered.                *)
THEOREM OneNamePerProperty ==
  ASSUME NEW s \in DOMAIN Snapshot,
         NEW id \in DOMAIN EligibleJobProperties(ApplyFixedConfiguration(WithScale(Snapshot[s]))),
         NEW other \in DOMAIN EligibleJobProperties(ApplyFixedConfiguration(WithScale(Snapshot[s]))),
         Alias[id] = Alias[other]
  PROVE  id = other
<1> SUFFICES ASSUME id # other PROVE FALSE
  OBVIOUS
<1> DEFINE configured == ApplyFixedConfiguration(WithScale(Snapshot[s]))
           jobs == Only(configured, {i \in DOMAIN configured :
                     IsJobProperty(i, configured[i]) /\ FamilyInstalled(configured, i)})
<1>1. /\ id \in DOMAIN jobs /\ other \in DOMAIN jobs
      /\ Outranks(jobs, id, other) /\ Outranks(jobs, other, id)
  BY DEF EligibleJobProperties, CollapseAliases, Only
<1>2. \A i \in DOMAIN jobs : /\ i \in ToSet(PropertyId)
                            /\ Cardinality(jobs[i].values) \in Nat
  <2> TAKE i \in DOMAIN jobs
  <2>1. i \in DOMAIN configured /\ jobs[i] = configured[i]
    BY DEF Only
  <2>2. i \in DOMAIN WithScale(Snapshot[s]) => i \in DOMAIN Snapshot[s]
    BY DEF WithScale
  <2>3. i \in DOMAIN WithScale(Snapshot[s])
    BY <2>1 DEF ApplyFixedConfiguration
  <2>4. Snapshot[s][i] \in Published /\ IsFiniteSet(Snapshot[s][i].values) /\ i \in ToSet(PropertyId)
    BY <2>2, <2>3, SnapshotAssumption
  <2>5. /\ "values" \in DOMAIN WithScale(Snapshot[s])[i]
        /\ WithScale(Snapshot[s])[i].values = Snapshot[s][i].values
    <3>1. DOMAIN WithScale(Snapshot[s])[i] = DOMAIN Snapshot[s][i]
      BY <2>2, <2>3, ScaleGetsBounds
    <3>2. WithScale(Snapshot[s])[i].values = Snapshot[s][i].values
      BY <2>2, <2>3, ScaleGetsBounds
    <3>3. QED
      BY <2>4, <3>1, <3>2 DEF Published
  <2>6. configured[i].values \subseteq Snapshot[s][i].values
    BY <2>1, <2>5, ConfiguredValues
  <2>7. QED
    BY <2>1, <2>4, <2>6, FS_Subset, FS_CardinalityType
<1> HIDE DEF jobs
<1> DEFINE Place(i) == CHOOSE n \in DOMAIN PropertyId : PropertyId[n] = i
<1>3. \A i \in ToSet(PropertyId) : Place(i) \in DOMAIN PropertyId /\ PropertyId[Place(i)] = i
  BY DEF ToSet
<1>4. Place(id) # Place(other)
  BY <1>1, <1>2, <1>3
<1>5. Place(id) \in Nat /\ Place(other) \in Nat
  BY <1>1, <1>2, <1>3, PropertyAssumption
<1>6. QED
  <2> HIDE DEF Place
  <2>1. Cardinality(jobs[id].values) \in Nat /\ Cardinality(jobs[other].values) \in Nat
    BY <1>1, <1>2
  <2>2. QED
    BY <1>1, <1>4, <1>5, <2>1 DEF Outranks, Place

(* A model has no other properties than those that may be published.       *)
LEMMA ModelIsKnown ==
  ASSUME NEW s \in DOMAIN Snapshot
  PROVE  DOMAIN Model[s] \subseteq ToSet(PropertyId)
<1> DEFINE configured == ApplyFixedConfiguration(WithScale(Snapshot[s]))
           eligible == EligibleJobProperties(configured)
<1>1. DOMAIN eligible \subseteq DOMAIN configured
  BY DEF EligibleJobProperties, CollapseAliases, Only
<1>2. DOMAIN configured \subseteq DOMAIN WithScale(Snapshot[s])
  BY DEF ApplyFixedConfiguration
<1>3. DOMAIN WithScale(Snapshot[s]) = DOMAIN Snapshot[s]
  BY DEF WithScale
<1> HIDE DEF eligible, configured
<1>4. DOMAIN WithSynthetics(eligible) \subseteq DOMAIN eligible \cup {"num copies", "Scaling"}
  BY DEF WithSynthetics
<1>5. Model[s] = WithSynthetics(eligible)
  BY DEF Model, FromSnapshot, eligible, configured
<1>6. QED
  BY <1>1, <1>2, <1>3, <1>4, <1>5, SnapshotAssumption, AliasAssumption

(* The bounds that a property gets, and that it may still be edited.       *)
LEMMA ScaleGivesBounds ==
  ASSUME NEW s \in DOMAIN Snapshot, NEW id \in DOMAIN Snapshot[s]
  PROVE  LET of == Snapshot[s][id]
             got == WithScale(Snapshot[s])[id]
         IN /\ got.range = BoundsOf(s, {}, id)
            /\ got.available = of.available /\ got.hidden = of.hidden
            /\ got.editable = of.editable \/ (id \in ScaleIds /\ ~HasBounds(of))
<1> DEFINE of == Snapshot[s][id]
           got == WithScale(Snapshot[s])[id]
<1>1. of \in Published
  BY SnapshotAssumption
<1>2. CASE id \in ScaleIds /\ ~HasBounds(of)
  <2>1. got = [of EXCEPT !.range = SyntheticScale.range, !.type = "range",
                         !.editable = IF @ = "unsaid" THEN @ ELSE "yes"]
    BY <1>2 DEF WithScale
  <2>2. BoundsOf(s, {}, id) = SyntheticScale.range
    BY <1>2 DEF BoundsOf
  <2> HIDE DEF got, of
  <2>3. got.range = SyntheticScale.range /\ got.available = of.available /\ got.hidden = of.hidden
    BY <1>1, <2>1 DEF Published
  <2>4. QED
    BY <1>2, <2>2, <2>3 DEF got, of
<1>3. CASE ~(id \in ScaleIds /\ ~HasBounds(of))
  <2>1. got = of
    BY <1>3 DEF WithScale
  <2>2. BoundsOf(s, {}, id) = of.range
    BY <1>3 DEF BoundsOf, HasBounds
  <2>3. QED
    BY <2>1, <2>2
<1>4. QED
  BY <1>2, <1>3

(* A property of the server, with what the configuration leaves of it.     *)
OwnOption(s, id) ==
  LET option == Model[s][id] IN
  /\ id \in DOMAIN Snapshot[s] /\ IsControl(s, {}, id)
  /\ ~option.synthetic
  /\ option.value = Snapshot[s][id].value /\ option.excludes = Snapshot[s][id].excludes
  /\ option.range = BoundsOf(s, {}, id)
  /\ \A v \in option.values : v \in Snapshot[s][id].values /\ ~RuledOut(Snapshot[s], id, v)
  /\ HasBounds(option) \/ option.values # {}

(* Copies or a scale that the application adds.                            *)
CopiesRange == [min |-> 1, max |-> MaximumCopies, increment |-> 1]
AddedOption(s, id) ==
  LET option == Model[s][id] IN
  \/ /\ id = "num copies" /\ option = Synthetic(1, {1, 2, 5, 10}, CopiesRange)
  \/ /\ id = "Scaling" /\ option = Synthetic(SyntheticScale.value, {}, SyntheticScale.range)

Eligible(s) == EligibleJobProperties(ApplyFixedConfiguration(WithScale(Snapshot[s])))

(* What the server publishes and the model keeps is a control of a job.    *)
LEMMA OwnOptions ==
  ASSUME NEW s \in DOMAIN Snapshot, NEW id \in DOMAIN Model[s], id \in DOMAIN Eligible(s)
  PROVE  OwnOption(s, id)
<1> DEFINE scaled == WithScale(Snapshot[s])
           configured == ApplyFixedConfiguration(scaled)
           eligible == EligibleJobProperties(configured)
<1>1. Model[s] = WithSynthetics(eligible) /\ id \in DOMAIN eligible
  BY DEF Model, FromSnapshot, Eligible
<1>2. /\ DOMAIN scaled = DOMAIN Snapshot[s]
      /\ \A v : id \in DOMAIN scaled => (RuledOut(scaled, id, v) <=> RuledOut(Snapshot[s], id, v))
  BY ScaleKeepsConfiguration
<1>3. Model[s][id] = ForPlanning(eligible[id])
  <2> HIDE DEF eligible
  <2>1. QED
    BY <1>1, AddedHaveBounds
<1>4. /\ id \in DOMAIN configured /\ eligible[id] = configured[id]
      /\ IsJobProperty(id, configured[id])
  BY <1>1 DEF EligibleJobProperties, CollapseAliases, Only
<1> DEFINE of == Snapshot[s][id]
           got == scaled[id]
           Kept == {v \in got.values : ~RuledOut(scaled, id, v)}
           exempt == got.values = {} \/ got.excludes = {} \/ got.group = "installable"
           option == configured[id]
<1>5. id \in DOMAIN scaled /\ option = IF exempt THEN got ELSE [got EXCEPT !.values = Kept]
  BY <1>4 DEF ApplyFixedConfiguration
<1>6. of \in Published /\ id \in DOMAIN Snapshot[s]
  BY <1>2, <1>5, SnapshotAssumption
<1>7. /\ got.value = of.value /\ got.excludes = of.excludes /\ got.group = of.group
      /\ got.values = of.values /\ DOMAIN got = DOMAIN of
  BY <1>6, ScaleGetsBounds
<1>8. /\ got.range = BoundsOf(s, {}, id)
      /\ got.available = of.available /\ got.hidden = of.hidden
      /\ got.editable = of.editable \/ (id \in ScaleIds /\ ~HasBounds(of))
  BY <1>6, ScaleGivesBounds
<1> HIDE DEF scaled, configured, eligible, got
<1>9. /\ option.value = got.value /\ option.excludes = got.excludes /\ option.group = got.group
      /\ option.range = got.range /\ option.available = got.available
      /\ option.hidden = got.hidden /\ option.editable = got.editable
      /\ option.values = IF exempt THEN got.values ELSE Kept
  <2>1. CASE exempt
    BY <1>5, <2>1
  <2>2. CASE ~exempt
    <3>1. {"value", "values", "excludes", "group", "range", "available", "hidden", "editable"} \subseteq DOMAIN got
      BY <1>6, <1>7 DEF Published
    <3>2. option = [got EXCEPT !.values = Kept]
      BY <1>5, <2>2
    <3>3. option.values = Kept
      BY <3>1, <3>2
    <3> HIDE DEF option, Kept, exempt
    <3>4. QED
      BY <2>2, <3>1, <3>2, <3>3
  <2>3. QED
    BY <2>1, <2>2
<1>10. IsJobProperty(id, option)
  BY <1>4
<1> HIDE DEF option
<1>11. \A v \in option.values : v \in of.values /\ ~RuledOut(Snapshot[s], id, v)
  <2>1. CASE exempt
    <3>1. option.values = {} \/ of.excludes = {}
      BY <1>7, <1>9, <1>10, <2>1 DEF IsJobProperty
    <3>2. option.values = of.values
      BY <1>7, <1>9, <2>1
    <3>3. QED
      BY <3>1, <3>2 DEF RuledOut
  <2>2. CASE ~exempt
    BY <1>2, <1>5, <1>7, <1>9, <2>2
  <2>3. QED
    BY <2>1, <2>2
<1>12. IsControl(s, {}, id)
  <2>1. of.available # "no" /\ ~of.hidden /\ of.group \in {"job", "colorant"}
    BY <1>7, <1>8, <1>9, <1>10 DEF IsJobProperty
  <2>2. of.editable # "no" \/ (id \in ScaleIds /\ ~HasBounds(of))
    BY <1>8, <1>9, <1>10 DEF IsJobProperty
  <2>3. QED
    BY <1>6, <2>1, <2>2 DEF IsControl, Installed
<1>13. eligible[id] = option
  BY <1>4 DEF option
<1>14. Model[s][id] = ForPlanning(option)
  BY <1>3, <1>13
<1>15. /\ Model[s][id].value = option.value /\ Model[s][id].values = option.values
       /\ Model[s][id].range = option.range /\ Model[s][id].excludes = option.excludes
       /\ ~Model[s][id].synthetic
  BY <1>14 DEF ForPlanning
<1>16. HasBounds(option) \/ option.values # {}
  BY <1>10, FS_EmptySet DEF IsJobProperty
<1>17. HasBounds(Model[s][id]) \/ Model[s][id].values # {}
  BY <1>15, <1>16 DEF HasBounds
<1>18. QED
  BY <1>6, <1>7, <1>8, <1>9, <1>11, <1>12, <1>15, <1>17 DEF OwnOption

(* The rest of a model was added, in place of names that are not there.    *)
LEMMA AddedOptions ==
  ASSUME NEW s \in DOMAIN Snapshot, NEW id \in DOMAIN Model[s], id \notin DOMAIN Eligible(s)
  PROVE  /\ AddedOption(s, id)
         /\ id = "num copies" => CopiesIds \cap DOMAIN Eligible(s) = {}
         /\ id = "Scaling" => ScaleIds \cap DOMAIN Eligible(s) = {}
<1> DEFINE options == Eligible(s)
           copies == Synthetic(1, {1, 2, 5, 10}, CopiesRange)
           scale == Synthetic(SyntheticScale.value, {}, SyntheticScale.range)
           added == (IF CopiesIds \cap DOMAIN options = {} THEN {"num copies"} ELSE {})
                    \cup (IF ScaleIds \cap DOMAIN options = {} THEN {"Scaling"} ELSE {})
<1>1. Model[s] = WithSynthetics(options)
  BY DEF Model, FromSnapshot, Eligible
<1> HIDE DEF options
<1>2. WithSynthetics(options) = [i \in DOMAIN options \cup added |->
                                   CASE i \in DOMAIN options -> ForPlanning(options[i])
                                     [] i \notin DOMAIN options /\ i = "num copies" -> copies
                                     [] OTHER -> scale]
  BY DEF WithSynthetics, CopiesRange
<1>3. id \in added /\ id \notin DOMAIN options
  BY <1>1, <1>2 DEF options
<1> HIDE DEF copies, scale
<1>4. Model[s][id] = IF id = "num copies" THEN copies ELSE scale
  <2> HIDE DEF added
  <2>1. QED
    BY <1>1, <1>2, <1>3
<1>5. /\ id = "num copies" \/ id = "Scaling"
      /\ id = "num copies" => CopiesIds \cap DOMAIN options = {}
      /\ id = "Scaling" => ScaleIds \cap DOMAIN options = {}
  BY <1>3
<1>6. AddedOption(s, id)
  <2>1. CASE id = "num copies"
    BY <1>4, <2>1 DEF AddedOption, copies
  <2>2. CASE id # "num copies"
    BY <1>4, <1>5, <2>2 DEF AddedOption, scale
  <2>3. QED
    BY <2>1, <2>2
<1>7. QED
  BY <1>5, <1>6 DEF options

(* Added(s) are those that the server does not offer.                      *)
LEMMA OwnOrAdded ==
  ASSUME NEW s \in DOMAIN Snapshot, NEW id \in DOMAIN Model[s]
  PROVE  IF id \in Added(s) THEN AddedOption(s, id) /\ id \notin DOMAIN Eligible(s)
         ELSE OwnOption(s, id) /\ id \in DOMAIN Eligible(s)
<1>1. CASE id \in DOMAIN Eligible(s)
  <2>1. OwnOption(s, id)
    BY <1>1, OwnOptions
  <2>2. id \notin Added(s)
    BY <2>1 DEF OwnOption, Added
  <2>3. QED
    BY <1>1, <2>1, <2>2
<1>2. CASE id \notin DOMAIN Eligible(s)
  <2>1. AddedOption(s, id)
    BY <1>2, AddedOptions
  <2>2. Model[s][id].synthetic /\ id \in {"num copies", "Scaling"}
    <3>1. PICK option : option = Model[s][id]
      OBVIOUS
    <3>2. /\ id \in {"num copies", "Scaling"}
          /\ \E value, values, range : option = Synthetic(value, values, range)
      BY <2>1, <3>1 DEF AddedOption
    <3>3. PICK value, values, range : option = Synthetic(value, values, range)
      BY <3>2
    <3>4. option.synthetic = TRUE
      BY <3>3 DEF Synthetic
    <3>5. option.synthetic
      BY <3>4
    <3>6. QED
      BY <3>1, <3>2, <3>5
  <2>3. id \in Added(s)
    BY <2>2 DEF Added
  <2>4. QED
    BY <1>2, <2>1, <2>3
<1>3. QED
  BY <1>1, <1>2

(* No two names of one property are in a model.                            *)
LEMMA ModelHasOneName ==
  ASSUME NEW s \in DOMAIN Snapshot, NEW id \in DOMAIN Model[s], NEW other \in DOMAIN Model[s],
         Alias[id] = Alias[other]
  PROVE  id = other
<1>1. DOMAIN Model[s] \subseteq ToSet(PropertyId)
  BY ModelIsKnown
<1>2. ASSUME NEW a \in DOMAIN Model[s], NEW b \in DOMAIN Model[s], Alias[a] = Alias[b],
             a \notin DOMAIN Eligible(s)
      PROVE  a = b
  <2>1. /\ AddedOption(s, a)
        /\ a = "num copies" => CopiesIds \cap DOMAIN Eligible(s) = {}
        /\ a = "Scaling" => ScaleIds \cap DOMAIN Eligible(s) = {}
    BY <1>2, AddedOptions
  <2>2. a = "num copies" \/ a = "Scaling"
    BY <2>1 DEF AddedOption
  <2>3. b \in ToSet(PropertyId)
    BY <1>1
  <2>4. CASE a = "num copies"
    <3>1. b \in CopiesIds
      <4>1. Alias[b] = Alias["num copies"]
        BY <1>2, <2>4
      <4>2. QED
        BY <2>3, <4>1, AliasAssumption
    <3>2. b \notin DOMAIN Eligible(s)
      BY <2>1, <2>4, <3>1
    <3>3. b = "num copies" \/ b = "Scaling"
      <4>1. AddedOption(s, b)
        BY <3>2, AddedOptions
      <4>2. QED
        BY <4>1 DEF AddedOption
    <3>4. QED
      BY <2>4, <3>1, <3>3 DEF CopiesIds
  <2>5. CASE a = "Scaling"
    <3>1. b \in ScaleIds
      <4>1. Alias[b] = Alias["Scaling"]
        BY <1>2, <2>5
      <4>2. QED
        BY <2>3, <4>1, AliasAssumption
    <3>2. b \notin DOMAIN Eligible(s)
      BY <2>1, <2>5, <3>1
    <3>3. b = "num copies" \/ b = "Scaling"
      <4>1. AddedOption(s, b)
        BY <3>2, AddedOptions
      <4>2. QED
        BY <4>1 DEF AddedOption
    <3>4. QED
      BY <2>5, <3>1, <3>3 DEF ScaleIds
  <2>6. QED
    BY <2>2, <2>4, <2>5
<1>3. CASE id \notin DOMAIN Eligible(s)
  BY <1>2, <1>3
<1>4. CASE other \notin DOMAIN Eligible(s)
  BY <1>2, <1>4
<1>5. CASE id \in DOMAIN Eligible(s) /\ other \in DOMAIN Eligible(s)
  BY <1>5, OneNamePerProperty DEF Eligible
<1>6. QED
  BY <1>3, <1>4, <1>5

(* A menu is offered with the values that the server publishes for a       *)
(* control of jobs and its configuration does not rule out, and there is   *)
(* one of them at least.                                                   *)
Offers(s, id, v) ==
  /\ IsControl(s, {}, id) /\ id \in DOMAIN Snapshot[s]
  /\ v \in Snapshot[s][id].values /\ ~RuledOut(Snapshot[s], id, v)

LEMMA Menus ==
  ASSUME NEW s \in DOMAIN Snapshot, NEW id \in DOMAIN Model[s], ~HasBounds(Model[s][id])
  PROVE  /\ Model[s][id].values # {}
         /\ \A v \in Model[s][id].values : Offers(s, id, v)
<1>1. id \in DOMAIN Eligible(s)
  <2>1. PICK options : options = Eligible(s)
    OBVIOUS
  <2>2. Model[s] = WithSynthetics(options)
    BY <2>1 DEF Model, FromSnapshot, Eligible
  <2>3. QED
    BY <2>1, <2>2, AddedHaveBounds
<1>2. OwnOption(s, id)
  BY <1>1, OwnOptions
<1>3. QED
  BY <1>2 DEF OwnOption, Offers

-----------------------------------------------------------------------------
(* The invariant of the page.                                              *)

Known == DOMAIN Snapshot \cup {Unknown}

(* What the page shows is what the service has, unless the reply of a      *)
(* discovery is on its way.                                                *)
ServerInv ==
  /\ published \in DOMAIN Snapshot
  /\ capability \in Known /\ shown \in Known
  /\ arriving \in {Unknown, capability}
  /\ arriving = Unknown => shown = capability
  /\ capability = Unknown => shown = Unknown /\ ~preset.saved
  /\ request # EmptyForm => shown # Unknown

(* Every value of a menu was offered by one of the capabilities that the   *)
(* values of the form are from.                                            *)
Offered(inputs) ==
  \A id \in ToSet(PropertyId) : \A v \in inputs.input.selected[id] :
    \E s \in inputs.for : /\ id \in DOMAIN Model[s] /\ ~HasBounds(Model[s][id])
                         /\ v \in Model[s][id].values

(* Numbers are typed where there is a field for them.                      *)
HasField(inputs) ==
  \A id \in ToSet(PropertyId) : inputs.input.numeric[id] # <<>> =>
    \E s \in inputs.for : id \in DOMAIN Model[s] /\ HasBounds(Model[s][id])

TypedInput(input) ==
  /\ DOMAIN input = InputField
  /\ input.selected \in [ToSet(PropertyId) -> Selection]
  /\ input.numeric \in [ToSet(PropertyId) -> Seq(Entry)]
  /\ input.pages \in Seq(Entry) /\ input.copies \in Seq(Entry)
  /\ input.limit \in Nat

FormInv(inputs) ==
  /\ TypedInput(inputs.input)
  /\ inputs.for \subseteq DOMAIN Snapshot
  /\ Offered(inputs) /\ HasField(inputs)

(* Only a preset brings values of other capabilities than those shown.     *)
FromShown(inputs) == ~inputs.loaded => inputs.for \subseteq {shown}

PlanInv ==
  phase = "planned" =>
    /\ capability \in DOMAIN Snapshot /\ request # EmptyForm
    /\ plan \in BuildPlan(Model[capability], request.input)

(* The preset is that of its form, and what LoadPreset returns is made of  *)
(* it for the capabilities the service had.                                *)
PresetInv ==
  /\ preset.saved => /\ preset.by \in DOMAIN Snapshot /\ FormInv(preset)
                     /\ preset.file = BuildSafePreset(Model[preset.by], preset.input)
  /\ ~preset.saved => preset = NoPreset
  /\ loading # EmptyForm => /\ preset.saved
                            /\ \E s \in DOMAIN Snapshot :
                                 /\ loading.input = ReconcilePreset(Model[s], preset.file)
                                 /\ loading.for = {s}

PageInv ==
  /\ ServerInv /\ PresetInv
  /\ FormInv(form) /\ FormInv(loading) /\ FormInv(request)
  /\ FromShown(form) /\ FromShown(request)
  /\ loading.loaded \/ loading.for = {}
  /\ PlanInv

-----------------------------------------------------------------------------
(* What becomes of a form.                                                 *)

(* Fewer of the values that are selected are a selection.                  *)
LEMMA SmallerSelection ==
  ASSUME NEW S \in Selection, NEW T, T \subseteq S
  PROVE  T \in Selection
  BY FS_Subset DEF Selection

(* A blank form is an input.                                               *)
LEMMA BlankIsTyped ==
  TypedInput(Blank) /\ \A id \in ToSet(PropertyId) : Blank.selected[id] = {} /\ Blank.numeric[id] = <<>>
<1>1. One(1) \in Entry
  BY DEF One, Entry
<1>2. Blank.copies \in Seq(Entry) /\ Blank.pages \in Seq(Entry)
  BY <1>1 DEF Blank
<1>3. DefaultCaseLimit \in Nat
  BY LimitAssumption
<1>4. {} \in Selection
  BY FS_EmptySet DEF Selection
<1>5. QED
  BY <1>2, <1>3, <1>4 DEF Blank, TypedInput, InputField

(* A form without values has none that was not offered.                    *)
LEMMA NothingSelected ==
  ASSUME NEW f, TypedInput(f.input), f.for \subseteq DOMAIN Snapshot,
         f.input.selected = Blank.selected, f.input.numeric = Blank.numeric
  PROVE  FormInv(f)
  BY BlankIsTyped DEF FormInv, Offered, HasField

(* That is how a form begins.                                              *)
LEMMA EmptyFormIsOffered ==
  FormInv(EmptyForm) /\ EmptyForm.for = {}
<1>1. EmptyForm.input = Blank /\ EmptyForm.for = {}
  BY DEF EmptyForm, Filled
<1>2. QED
  BY <1>1, BlankIsTyped, NothingSelected

(* discoverCapabilities and resetProperties.                               *)
LEMMA EmptiedIsOffered ==
  ASSUME NEW input, TypedInput(input), NEW s \in DOMAIN Snapshot
  PROVE  FormInv(Filled(Emptied(input), {s}, FALSE))
<1> DEFINE e == Emptied(input)
           g == Filled(e, {s}, FALSE)
<1>1. DOMAIN input = InputField
  BY DEF TypedInput
<1>2. /\ DOMAIN e = InputField /\ e.selected = Blank.selected /\ e.numeric = Blank.numeric
      /\ e.pages = Blank.pages /\ e.copies = Blank.copies /\ e.limit = input.limit
  <2> HIDE DEF Blank
  <2>1. QED
    BY <1>1 DEF Emptied, InputField
<1> HIDE DEF e
<1>3. TypedInput(e)
  BY <1>2, BlankIsTyped DEF TypedInput
<1>4. g.input = e /\ g.for = {s}
  BY DEF Filled
<1> HIDE DEF g
<1>5. FormInv(g)
  BY <1>2, <1>3, <1>4, NothingSelected
<1>6. QED
  BY <1>5 DEF g, e

(* The listeners of renderCapabilities.                                    *)
LEMMA EnteredIsOffered ==
  ASSUME NEW f, FormInv(f), NEW input \in Input, NEW s \in DOMAIN Snapshot,
         CanEnter(Model[s], input)
  PROVE  FormInv(Filled(Entered(f.input, input), f.for \cup {s}, f.loaded))
<1> DEFINE e == Entered(f.input, input)
<1>1. TypedInput(input)
  BY InputAssumption DEF TypedInput
<1>2. DOMAIN input = InputField
  BY <1>1 DEF TypedInput
<1>3. /\ DOMAIN e = InputField
      /\ e.selected = [id \in DOMAIN input.selected |->
                        IF input.selected[id] = {} THEN f.input.selected[id] ELSE input.selected[id]]
      /\ e.numeric = [id \in DOMAIN input.numeric |->
                        IF input.numeric[id] = <<>> THEN f.input.numeric[id] ELSE input.numeric[id]]
      /\ e.pages = IF input.pages = <<>> THEN f.input.pages ELSE input.pages
      /\ e.copies = IF input.copies = Blank.copies THEN f.input.copies ELSE input.copies
      /\ e.limit = input.limit
  <2> HIDE DEF Blank
  <2>1. QED
    BY <1>2 DEF Entered, InputField
<1>4. /\ DOMAIN input.selected = ToSet(PropertyId) /\ DOMAIN input.numeric = ToSet(PropertyId)
      /\ \A id \in ToSet(PropertyId) : /\ input.selected[id] \in Selection
                                       /\ f.input.selected[id] \in Selection
                                       /\ input.numeric[id] \in Seq(Entry)
                                       /\ f.input.numeric[id] \in Seq(Entry)
  BY <1>1 DEF TypedInput, FormInv
<1> HIDE DEF e
<1>5. TypedInput(e)
  <2>1. e.selected \in [ToSet(PropertyId) -> Selection]
    BY <1>3, <1>4
  <2>2. e.numeric \in [ToSet(PropertyId) -> Seq(Entry)]
    BY <1>3, <1>4
  <2>3. e.pages \in Seq(Entry) /\ e.copies \in Seq(Entry) /\ e.limit \in Nat
    BY <1>1, <1>3 DEF TypedInput, FormInv
  <2>4. QED
    BY <1>3, <2>1, <2>2, <2>3 DEF TypedInput
<1>6. ASSUME NEW id \in ToSet(PropertyId), NEW v \in e.selected[id]
      PROVE  \E t \in f.for \cup {s} : /\ id \in DOMAIN Model[t] /\ ~HasBounds(Model[t][id])
                                      /\ v \in Model[t][id].values
  <2>1. CASE input.selected[id] = {}
    BY <1>3, <1>4, <1>6, <2>1 DEF FormInv, Offered
  <2>2. CASE input.selected[id] # {}
    BY <1>3, <1>4, <1>6, <2>2 DEF CanEnter
  <2>3. QED
    BY <2>1, <2>2
<1>7. ASSUME NEW id \in ToSet(PropertyId), e.numeric[id] # <<>>
      PROVE  \E t \in f.for \cup {s} : id \in DOMAIN Model[t] /\ HasBounds(Model[t][id])
  <2>1. CASE input.numeric[id] = <<>>
    BY <1>3, <1>4, <1>7, <2>1 DEF FormInv, HasField
  <2>2. CASE input.numeric[id] # <<>>
    BY <1>3, <1>4, <1>7, <2>2 DEF CanEnter
  <2>3. QED
    BY <2>1, <2>2
<1>8. f.for \cup {s} \subseteq DOMAIN Snapshot
  BY DEF FormInv
<1> DEFINE g == Filled(e, f.for \cup {s}, f.loaded)
<1>9. g.input = e /\ g.for = f.for \cup {s}
  BY DEF Filled
<1> HIDE DEF g
<1>10. FormInv(g)
  BY <1>5, <1>6, <1>7, <1>8, <1>9 DEF FormInv, Offered, HasField
<1>11. QED
  BY <1>10 DEF g, e

(* A limit is within bounds after normalizeCaseLimit, and stays as it is.  *)
LEMMA LimitIsNormal ==
  ASSUME NEW limit \in Nat
  PROVE  /\ NormalizeCaseLimit(limit) \in 1..MaximumCaseLimit
         /\ NormalizeCaseLimit(limit) \in Nat
         /\ NormalizeCaseLimit(NormalizeCaseLimit(limit)) = NormalizeCaseLimit(limit)
<1>1. MaximumCaseLimit \in Nat /\ DefaultCaseLimit \in 1..MaximumCaseLimit
  BY LimitAssumption
<1>2. \A n \in Nat \ {0} : Min({n, MaximumCaseLimit}) = IF n <= MaximumCaseLimit THEN n ELSE MaximumCaseLimit
  <2> TAKE n \in Nat \ {0}
  <2>1. {n, MaximumCaseLimit} \in SUBSET Nat
    BY <1>1
  <2>2. Min({n, MaximumCaseLimit}) \in {n, MaximumCaseLimit}
        /\ \A y \in {n, MaximumCaseLimit} : Min({n, MaximumCaseLimit}) <= y
    BY <2>1, MinIsLeast
  <2>3. QED
    BY <1>1, <2>2
<1>3. QED
  BY <1>1, <1>2 DEF NormalizeCaseLimit

(* BuildSafePreset.                                                        *)
LEMMA PresetIsTyped ==
  ASSUME NEW m, NEW input, TypedInput(input)
  PROVE  LET p == BuildSafePreset(m, input)
         IN /\ p.selected \in [ToSet(PropertyId) -> Selection]
            /\ p.numeric \in [ToSet(PropertyId) -> Seq(Entry)]
            /\ p.limit \in Nat
<1> DEFINE p == BuildSafePreset(m, input)
           Text(id) ==
             CASE id \in DOMAIN m /\ HasBounds(m[id]) /\ input.numeric[id] # <<>> -> input.numeric[id]
               [] id = PageRange /\ input.pages # <<>> /\ CustomPageRangeSupported(m) -> input.pages
               [] HasCopies(m) /\ id = CopiesOption(m) -> input.copies
               [] OTHER -> <<>>
<1>1. p.selected = [id \in ToSet(PropertyId) |->
                      IF id \in DOMAIN m /\ ~HasBounds(m[id]) THEN input.selected[id] \ {0} ELSE {}]
  BY DEF BuildSafePreset
<1>2. p.numeric = [id \in ToSet(PropertyId) |-> Text(id)]
  BY DEF BuildSafePreset
<1>3. p.limit \in Nat
  BY DEF BuildSafePreset, TypedInput
<1>4. \A id \in ToSet(PropertyId) : input.selected[id] \in Selection
  BY DEF TypedInput
<1>5. \A id \in ToSet(PropertyId) : Text(id) \in Seq(Entry)
  <2>1. /\ \A id \in ToSet(PropertyId) : input.numeric[id] \in Seq(Entry)
        /\ input.pages \in Seq(Entry) /\ input.copies \in Seq(Entry) /\ <<>> \in Seq(Entry)
    BY DEF TypedInput
  <2>2. QED
    BY <2>1
<1> HIDE DEF p, Text
<1>6. p.selected \in [ToSet(PropertyId) -> Selection]
  <2>1. ASSUME NEW id \in ToSet(PropertyId) PROVE p.selected[id] \in Selection
    <3>1. p.selected[id] \subseteq input.selected[id]
      BY <1>1, <2>1
    <3>2. QED
      BY <1>4, <3>1, SmallerSelection
  <2>2. QED
    BY <1>1, <2>1
<1>7. p.numeric \in [ToSet(PropertyId) -> Seq(Entry)]
  BY <1>2, <1>5
<1>8. QED
  BY <1>3, <1>6, <1>7 DEF p

(* LoadPreset.                                                             *)
LEMMA ReconciledIsOffered ==
  ASSUME NEW s \in DOMAIN Snapshot, NEW file, DOMAIN Model[s] \subseteq ToSet(PropertyId),
         file.selected \in [ToSet(PropertyId) -> Selection],
         file.numeric \in [ToSet(PropertyId) -> Seq(Entry)],
         file.copiesId \subseteq ToSet(PropertyId), file.limit \in Nat
  PROVE  FormInv(Filled(ReconcilePreset(Model[s], file), {s}, TRUE))
<1> DEFINE m == Model[s]
           r == ReconcilePreset(m, file)
           g == Filled(r, {s}, TRUE)
           pages == ParsePages(file.numeric[PageRange])
           saved == {id \in file.copiesId : ParseCopies(file.numeric[id]).ok}
<1>1. /\ DOMAIN r = InputField
      /\ r.selected = [id \in ToSet(PropertyId) |-> file.selected[id] \cap
                         (IF id \in DOMAIN m /\ ~HasBounds(m[id]) THEN OptionValues(m[id]) ELSE {})]
      /\ r.numeric = [id \in ToSet(PropertyId) |->
                        IF /\ id # PageRange /\ id \notin CopiesIds
                           /\ id \in DOMAIN m /\ HasBounds(m[id])
                           /\ ParseRange(file.numeric[id], m[id].range).ok
                        THEN file.numeric[id] ELSE <<>>]
      /\ r.pages = IF CustomPageRangeSupported(m) /\ pages.ok THEN Compact(pages.values) ELSE <<>>
      /\ r.copies = IF saved = {} THEN <<One(1)>> ELSE file.numeric[CHOOSE id \in saved : TRUE]
      /\ r.limit = NormalizeCaseLimit(file.limit)
  <2> HIDE DEF m
  <2>1. QED
    BY DEF ReconcilePreset, InputField
<1> HIDE DEF r
<1>2. \A id \in ToSet(PropertyId) : /\ file.selected[id] \in Selection
                                    /\ file.numeric[id] \in Seq(Entry)
  OBVIOUS
<1>3. TypedInput(r)
  <2>1. r.selected \in [ToSet(PropertyId) -> Selection]
    <3>1. ASSUME NEW id \in ToSet(PropertyId) PROVE r.selected[id] \in Selection
      <4>1. r.selected[id] \subseteq file.selected[id]
        BY <1>1, <3>1
      <4>2. QED
        BY <1>2, <4>1, SmallerSelection
    <3>2. QED
      BY <1>1, <3>1
  <2>2. r.numeric \in [ToSet(PropertyId) -> Seq(Entry)]
    <3>1. <<>> \in Seq(Entry)
      OBVIOUS
    <3>2. QED
      BY <1>1, <1>2, <3>1
  <2>3. r.pages \in Seq(Entry)
    <3>1. CASE CustomPageRangeSupported(m) /\ pages.ok
      <4>1. file.numeric[PageRange] \in Seq(Entry)
        BY <1>2, <3>1 DEF CustomPageRangeSupported
      <4>2. pages.values \in SUBSET (Nat \ {0}) /\ pages.values # {} /\ IsFiniteSet(pages.values)
        BY <3>1, <4>1, PagesAreRead
      <4>3. Compact(pages.values) \in Seq(Entry)
        BY <4>2, CompactRuns
      <4>4. QED
        BY <1>1, <3>1, <4>3
    <3>2. CASE ~(CustomPageRangeSupported(m) /\ pages.ok)
      BY <1>1, <3>2
    <3>3. QED
      BY <3>1, <3>2
  <2>4. r.copies \in Seq(Entry)
    <3>1. <<One(1)>> \in Seq(Entry)
      BY DEF One, Entry
    <3>2. saved # {} => (CHOOSE id \in saved : TRUE) \in ToSet(PropertyId)
      OBVIOUS
    <3>3. QED
      BY <1>1, <1>2, <3>1, <3>2
  <2>5. r.limit \in Nat
    BY <1>1, LimitIsNormal
  <2>6. QED
    BY <1>1, <2>1, <2>2, <2>3, <2>4, <2>5 DEF TypedInput
<1>4. ASSUME NEW id \in ToSet(PropertyId), NEW v \in r.selected[id]
      PROVE  id \in DOMAIN m /\ ~HasBounds(m[id]) /\ v \in m[id].values
  <2>1. id \in DOMAIN m /\ ~HasBounds(m[id]) /\ v \in OptionValues(m[id])
    BY <1>1, <1>4
  <2>2. m[id].values # {}
    BY <2>1, Menus
  <2>3. QED
    BY <2>1, <2>2 DEF OptionValues
<1>5. ASSUME NEW id \in ToSet(PropertyId), r.numeric[id] # <<>>
      PROVE  id \in DOMAIN m /\ HasBounds(m[id])
  BY <1>1, <1>5
<1>6. g.input = r /\ g.for = {s}
  BY DEF Filled
<1> HIDE DEF g
<1>7. FormInv(g)
  BY <1>3, <1>4, <1>5, <1>6 DEF FormInv, Offered, HasField
<1>8. QED
  BY <1>7 DEF g, r

-----------------------------------------------------------------------------
(* Every step keeps the invariant.                                         *)

(* What a step leaves alone keeps its part of the invariant.               *)
LEMMA FormStays ==
  /\ FormInv(form) /\ UNCHANGED form => FormInv(form)'
  /\ FormInv(loading) /\ UNCHANGED loading => FormInv(loading)'
  /\ FormInv(request) /\ UNCHANGED request => FormInv(request)'
  /\ PresetInv /\ UNCHANGED <<preset, loading>> => PresetInv'
<1>1. FormInv(form) /\ UNCHANGED form => FormInv(form)'
  BY DEF FormInv, Offered, HasField, TypedInput
<1>2. FormInv(loading) /\ UNCHANGED loading => FormInv(loading)'
  BY DEF FormInv, Offered, HasField, TypedInput
<1>3. FormInv(request) /\ UNCHANGED request => FormInv(request)'
  BY DEF FormInv, Offered, HasField, TypedInput
<1>4. FormInv(preset) /\ UNCHANGED preset => FormInv(preset)'
  BY DEF FormInv, Offered, HasField, TypedInput
<1>5. PresetInv /\ UNCHANGED <<preset, loading>> => PresetInv'
  BY <1>4 DEF PresetInv
<1>6. QED
  BY <1>1, <1>2, <1>3, <1>5

(* The invariant of a form after a step.                                   *)
LEMMA FormBecomes ==
  /\ FormInv(form') => FormInv(form)'
  /\ FormInv(loading') => FormInv(loading)'
  /\ FormInv(request') => FormInv(request)'
BY DEF FormInv, Offered, HasField, TypedInput

(* The operations of the page keep the invariant.                          *)
LEMMA PageKeepsInv ==
  ASSUME PageInv, Page, UNCHANGED <<phase, plan, toCheck, latchVars>>
  PROVE  PageInv'
<1> USE DEF PageInv
<1>1. phase' = "page" /\ request = EmptyForm
  BY DEF Page, ShowCapabilities, Edit, ResetProperties, SavePreset, LoadPreset, ShowPreset, Submit, InUse
<1>2. PlanInv'
  BY <1>1 DEF PlanInv
<1>3. TypedInput(form.input)
  BY DEF FormInv
<1>4. CASE ShowCapabilities
  <2>1. /\ shown' = arriving /\ arriving' = Unknown /\ arriving \in DOMAIN Snapshot
        /\ form' = Filled(Emptied(form.input), {arriving}, FALSE)
        /\ UNCHANGED <<published, capability, preset, loading, request>>
    BY <1>4, SnapshotAssumption DEF ShowCapabilities, ServerInv, Known
  <2>2. FormInv(form')
    BY <1>3, <2>1, EmptiedIsOffered
  <2>3. form'.for = {arriving}
    BY <2>1 DEF Filled
  <2>4. ServerInv'
    BY <1>1, <2>1, SnapshotAssumption DEF ServerInv, Known
  <2>5. FromShown(form)' /\ FromShown(request)'
    BY <1>1, <2>1, <2>3, EmptyFormIsOffered DEF FromShown
  <2>6. QED
    BY <1>2, <2>1, <2>2, <2>4, <2>5, FormStays, FormBecomes
<1>5. CASE Edit
  <2>1. PICK input \in Input :
          /\ CanEnter(Model[shown], input)
          /\ form' = Filled(Entered(form.input, input), form.for \cup {shown}, form.loaded)
    BY <1>5 DEF Edit
  <2>2. /\ shown \in DOMAIN Snapshot
        /\ UNCHANGED <<published, capability, arriving, shown, preset, loading, request>>
    BY <1>5 DEF Edit, ServerInv, Known
  <2>3. FormInv(form')
    BY <2>1, <2>2, EnteredIsOffered
  <2>4. form'.for = form.for \cup {shown} /\ form'.loaded = form.loaded
    BY <2>1 DEF Filled
  <2>5. FromShown(form)' /\ FromShown(request)'
    BY <2>2, <2>4 DEF FromShown
  <2>6. ServerInv'
    BY <2>2 DEF ServerInv
  <2>7. QED
    BY <1>2, <2>2, <2>3, <2>5, <2>6, FormStays, FormBecomes
<1>6. CASE ResetProperties
  <2>1. /\ shown \in DOMAIN Snapshot
        /\ form' = Filled(Emptied(form.input), {shown}, FALSE)
        /\ UNCHANGED <<published, capability, arriving, shown, preset, loading, request>>
    BY <1>6 DEF ResetProperties, ServerInv, Known
  <2>2. FormInv(form')
    BY <1>3, <2>1, EmptiedIsOffered
  <2>3. form'.for = {shown}
    BY <2>1 DEF Filled
  <2>4. FromShown(form)' /\ FromShown(request)'
    BY <2>1, <2>3 DEF FromShown
  <2>5. ServerInv'
    BY <2>1 DEF ServerInv
  <2>6. QED
    BY <1>2, <2>1, <2>2, <2>4, <2>5, FormStays, FormBecomes
<1>7. CASE SavePreset
  <2>1. /\ shown # Unknown /\ preset = NoPreset
        /\ preset' = [saved |-> TRUE, file |-> BuildSafePreset(Model[capability], form.input),
                      input |-> form.input, for |-> form.for, by |-> capability]
        /\ UNCHANGED <<published, capability, arriving, shown, form, loading, request>>
    BY <1>7 DEF SavePreset
  <2>2. /\ preset'.saved /\ preset'.file = BuildSafePreset(Model[capability], form.input)
        /\ preset'.input = form.input /\ preset'.for = form.for /\ preset'.by = capability
    BY <2>1
  <2>3. ServerInv' /\ FromShown(form)' /\ FromShown(request)'
    BY <2>1 DEF ServerInv, FromShown
  <2>4. capability \in DOMAIN Snapshot
    BY <2>1 DEF ServerInv, Known
  <2>5. FormInv(preset)'
    BY <2>2 DEF FormInv, Offered, HasField, TypedInput
  <2>6. loading = EmptyForm
    BY <2>1 DEF PresetInv, NoPreset
  <2>7. PresetInv'
    BY <2>1, <2>2, <2>4, <2>5, <2>6 DEF PresetInv
  <2>8. QED
    BY <1>2, <2>1, <2>3, <2>7, FormStays
<1>8. CASE LoadPreset
  <2> DEFINE read == ReconcilePreset(Model[capability], preset.file)
  <2>1. /\ preset.saved /\ loading' = Filled(read, {capability}, TRUE)
        /\ UNCHANGED <<published, capability, arriving, shown, form, preset, request>>
    BY <1>8 DEF LoadPreset
  <2>2. capability \in DOMAIN Snapshot
    BY <2>1 DEF ServerInv, Known
  <2>3. /\ preset.by \in DOMAIN Snapshot /\ TypedInput(preset.input)
        /\ preset.file = BuildSafePreset(Model[preset.by], preset.input)
    BY <2>1 DEF PresetInv, FormInv
  <2>4. FormInv(loading')
    <3>1. PICK s, m : s = capability /\ m = Model[preset.by]
      OBVIOUS
    <3>2. PICK file : file = BuildSafePreset(m, preset.input)
      OBVIOUS
    <3>3. /\ file.selected \in [ToSet(PropertyId) -> Selection]
          /\ file.numeric \in [ToSet(PropertyId) -> Seq(Entry)] /\ file.limit \in Nat
      BY <2>3, <3>2, PresetIsTyped
    <3>4. file.copiesId \subseteq ToSet(PropertyId)
      <4>1. HasCopies(m) => CopiesOption(m) \in DOMAIN m
        BY DEF HasCopies, CopiesOption, CopiesIds
      <4>2. DOMAIN m \subseteq ToSet(PropertyId)
        BY <2>3, <3>1, ModelIsKnown
      <4>3. file.copiesId = IF HasCopies(m) THEN {CopiesOption(m)} ELSE {}
        BY <3>2 DEF BuildSafePreset
      <4>4. QED
        BY <4>1, <4>2, <4>3
    <3>5. FormInv(Filled(ReconcilePreset(Model[s], file), {s}, TRUE))
      BY <2>2, <3>1, <3>3, <3>4, ModelIsKnown, ReconciledIsOffered
    <3>6. QED
      BY <2>1, <2>3, <3>1, <3>2, <3>5
  <2>5. loading'.loaded /\ loading'.for = {capability} /\ loading'.input = read
    BY <2>1 DEF Filled
  <2>6. ServerInv' /\ FromShown(form)' /\ FromShown(request)'
    BY <2>1 DEF ServerInv, FromShown
  <2>7. FormInv(preset)'
    BY <2>1 DEF PresetInv, FormInv, Offered, HasField, TypedInput
  <2>8. PresetInv'
    BY <2>1, <2>2, <2>5, <2>7 DEF PresetInv
  <2>9. QED
    BY <1>2, <2>1, <2>4, <2>5, <2>6, <2>8, FormStays, FormBecomes
<1>9. CASE ShowPreset
  <2>1. /\ form' = loading /\ loading' = EmptyForm
        /\ UNCHANGED <<published, capability, arriving, shown, preset, request>>
    BY <1>9 DEF ShowPreset
  <2>2. FromShown(form)' /\ FromShown(request)'
    BY <2>1 DEF FromShown
  <2>3. FormInv(loading') /\ loading'.for = {}
    BY <2>1, EmptyFormIsOffered
  <2>4. FormInv(preset) => FormInv(preset)'
    BY <2>1 DEF FormInv, Offered, HasField, TypedInput
  <2>5. ServerInv' /\ PresetInv'
    BY <2>1, <2>4 DEF ServerInv, PresetInv
  <2>6. FormInv(form')
    BY <2>1
  <2>7. QED
    BY <1>2, <2>1, <2>2, <2>3, <2>5, <2>6, FormStays, FormBecomes
<1>10. CASE Submit
  <2>1. /\ shown # Unknown /\ request' = form
        /\ UNCHANGED <<published, capability, arriving, shown, form, preset, loading>>
    BY <1>10 DEF Submit
  <2>2. FormInv(request')
    BY <2>1
  <2>3. ServerInv' /\ FromShown(form)' /\ FromShown(request)'
    BY <2>1 DEF ServerInv, FromShown
  <2>4. QED
    BY <1>2, <2>1, <2>2, <2>3, FormStays, FormBecomes
<1>11. QED
  BY <1>4, <1>5, <1>6, <1>7, <1>8, <1>9, <1>10 DEF Page

(* So do those of the server and the service.                              *)
LEMMA ServerKeepsInv ==
  ASSUME PageInv, Server, UNCHANGED <<phase, plan, toCheck, latchVars>>
  PROVE  PageInv'
<1> USE DEF PageInv
<1>1. phase = "page" /\ UNCHANGED <<shown, form, preset, loading, request>>
  BY DEF Server, Discover, Reconfigure
<1>2. FormInv(form)' /\ FormInv(loading)' /\ FormInv(request)' /\ PresetInv'
  BY <1>1, FormStays
<1>3. FromShown(form)' /\ FromShown(request)' /\ PlanInv'
  BY <1>1 DEF FromShown, PlanInv
<1>4. ServerInv'
  <2>1. CASE Discover
    BY <1>1, <2>1, SnapshotAssumption DEF Discover, ServerInv, Known
  <2>2. ASSUME NEW server \in DOMAIN Snapshot, Reconfigure(server)
        PROVE  ServerInv'
    BY <1>1, <2>2 DEF Reconfigure, ServerInv
  <2>3. QED
    BY <2>1, <2>2 DEF Server
<1>5. QED
  BY <1>1, <1>2, <1>3, <1>4

(* Every step keeps the invariant.                                         *)
LEMMA PageStep ==
  ASSUME PageInv, [Next]_vars
  PROVE  PageInv'
<1> USE DEF PageInv
<1>1. CASE (Page \/ Server) /\ UNCHANGED <<phase, plan, toCheck, latchVars>>
  BY <1>1, PageKeepsInv, ServerKeepsInv
<1>2. CASE MakePlan
  <2>1. /\ request # EmptyForm /\ plan' \in BuildPlan(Model[capability], request.input)
        /\ UNCHANGED <<published, capability, arriving, shown, form, preset, loading, request>>
    BY <1>2 DEF MakePlan, pageVars
  <2>2. capability \in DOMAIN Snapshot
    BY <2>1 DEF ServerInv, Known
  <2>3. PlanInv'
    BY <2>1, <2>2 DEF PlanInv
  <2>4. ServerInv' /\ FromShown(form)' /\ FromShown(request)'
    BY <2>1 DEF ServerInv, FromShown
  <2>5. QED
    BY <2>1, <2>3, <2>4, FormStays
<1>3. CASE StartRun
  <2>1. /\ phase' = "running" /\ published' = published
        /\ capability' = Unknown /\ arriving' = Unknown /\ shown' = Unknown
        /\ form' = EmptyForm /\ loading' = EmptyForm /\ request' = EmptyForm
        /\ preset' = NoPreset
    BY <1>3 DEF StartRun
  <2>2. FormInv(form') /\ FormInv(loading') /\ FormInv(request') /\ loading'.for = {}
    BY <2>1, EmptyFormIsOffered
  <2>3. FromShown(form)' /\ FromShown(request)'
    BY <2>1, EmptyFormIsOffered DEF FromShown
  <2>4. ServerInv' /\ PlanInv' /\ PresetInv'
    BY <2>1 DEF ServerInv, PlanInv, Known, NoPreset, PresetInv
  <2>5. QED
    BY <2>2, <2>3, <2>4, FormBecomes
<1>4. CASE UNCHANGED <<pageVars, phase, plan>>
  <2>1. UNCHANGED <<published, capability, arriving, shown, form, preset, loading, request, phase, plan>>
    BY <1>4 DEF pageVars
  <2>2. ServerInv' /\ FromShown(form)' /\ FromShown(request)' /\ PlanInv'
    BY <2>1 DEF ServerInv, FromShown, PlanInv
  <2>3. QED
    BY <2>1, <2>2, FormStays
<1>5. QED
  BY <1>1, <1>2, <1>3, <1>4 DEF Next, TakeCase, vars

(* The invariant of the page, whatever servers publish and operators       *)
(* enter, and however replies cross (app.js over the bindings).            *)
THEOREM PageInvariant == Spec => []PageInv
<1>1. Init => PageInv
  <2> SUFFICES ASSUME Init PROVE PageInv
    OBVIOUS
  <2>1. FormInv(form) /\ FormInv(loading) /\ FormInv(request)
    BY EmptyFormIsOffered DEF Init
  <2>2. FromShown(form) /\ FromShown(request) /\ loading.for = {}
    BY EmptyFormIsOffered DEF Init, FromShown
  <2>3. ServerInv /\ PlanInv /\ PresetInv
    BY DEF Init, ServerInv, PlanInv, Known, NoPreset, PresetInv
  <2>4. QED
    BY <2>1, <2>2, <2>3 DEF PageInv
<1>2. PageInv /\ [Next]_vars => PageInv'
  BY PageStep
<1>3. QED
  BY <1>1, <1>2, PTL DEF Spec

(* A plan is one that BuildPlan makes of the inputs that were submitted    *)
(* for the capabilities that the service has (StartAutomation).            *)
PlansAreMade ==
  phase = "planned" => plan \in BuildPlan(Model[capability], request.input)

THEOREM PlansAreOfTheirRequest == Spec => []PlansAreMade
<1>1. PageInv => PlansAreMade
  BY DEF PageInv, PlanInv, PlansAreMade
<1>2. QED
  BY <1>1, PageInvariant, PTL

(* The values that are planned with are of other capabilities than those   *)
(* of the service in two cases only: a preset was loaded, or the form was  *)
(* sent while the reply of a discovery was on its way (discoverCapabilities*)
(* resets the form).                                                       *)
StaleTwoWays ==
  phase = "planned" /\ ~request.loaded /\ arriving = Unknown => request.for \subseteq {capability}

THEOREM ValuesAreStaleInTwoWays == Spec => []StaleTwoWays
<1>1. PageInv => StaleTwoWays
  BY DEF PageInv, ServerInv, FromShown, StaleTwoWays
<1>2. QED
  BY <1>1, PageInvariant, PTL

(* A value of a menu in a form is one that a server published for a        *)
(* control of jobs, its configuration did not rule it out, and the form    *)
(* knows which server's it is: whatever was entered, saved, loaded, reset  *)
(* and discovered in between (FromSnapshot, ReconcilePreset,               *)
(* renderCapabilities).                                                    *)
SelectionsOffered ==
  \A inputs \in {form, loading, request} : \A id \in ToSet(PropertyId) :
    \A v \in inputs.input.selected[id] : \E s \in inputs.for : Offers(s, id, v)

THEOREM SelectionsAreOffered == Spec => []SelectionsOffered
<1>1. ASSUME NEW inputs, FormInv(inputs)
      PROVE  \A id \in ToSet(PropertyId) : \A v \in inputs.input.selected[id] :
               \E s \in inputs.for : Offers(s, id, v)
  BY <1>1, Menus DEF FormInv, Offered
<1>2. PageInv => SelectionsOffered
  BY <1>1 DEF PageInv, SelectionsOffered
<1>3. QED
  BY <1>2, PageInvariant, PTL

(* So a plan that was asked for outside those two ways is made of values   *)
(* that the server offers now.                                             *)
PlansCurrentValues ==
  phase = "planned" /\ ~request.loaded /\ arriving = Unknown =>
    \A id \in ToSet(PropertyId) : \A v \in request.input.selected[id] : Offers(capability, id, v)

THEOREM PlannedValuesAreCurrent == Spec => []PlansCurrentValues
<1>1. SelectionsOffered /\ StaleTwoWays => PlansCurrentValues
  BY DEF SelectionsOffered, StaleTwoWays, PlansCurrentValues
<1>2. QED
  BY <1>1, SelectionsAreOffered, ValuesAreStaleInTwoWays, PTL

-----------------------------------------------------------------------------
(* A preset plans what its form did.                                       *)

(* What a plan depends on: of the pages, only how planning reads them, of  *)
(* the limit, only what it is taken for.                                   *)
Agree(m, one, other) ==
  /\ one.selected = other.selected /\ one.numeric = other.numeric
  /\ one.source = other.source /\ one.strategy = other.strategy /\ one.intent = other.intent
  /\ HasCopies(m) => one.copies = other.copies
  /\ one.pages = <<>> <=> other.pages = <<>>
  /\ CustomPages(m, one) = CustomPages(m, other)
  /\ NormalizeCaseLimit(one.limit) = NormalizeCaseLimit(other.limit)

(* Inputs that agree have the same axes...                                 *)
LEMMA AgreeOnAxes ==
  ASSUME NEW m, NEW one, NEW other, Agree(m, one, other)
  PROVE  PlanAxes(m, one) = PlanAxes(m, other)
<1>1. IncludedPropertyIDs(m, one) = IncludedPropertyIDs(m, other)
  BY DEF Agree, IncludedPropertyIDs
<1>2. \A id : ValuesForSource(m, id, one) = ValuesForSource(m, id, other)
  <2> TAKE id
  <2>1. CASE one.source = "defaults"
    BY <2>1 DEF Agree, ValuesForSource
  <2>2. CASE one.source # "defaults" /\ HasBounds(m[id])
    BY <2>2 DEF Agree, ValuesForSource
  <2>3. CASE one.source # "defaults" /\ ~HasBounds(m[id]) /\ id = PageRange /\ one.pages # <<>>
    BY <2>3 DEF Agree, ValuesForSource
  <2>4. CASE one.source # "defaults" /\ ~HasBounds(m[id]) /\ ~(id = PageRange /\ one.pages # <<>>)
    <3>1. ValuesForSource(m, id, one) =
            Read(IF one.source = "advertised" THEN OptionValues(m[id]) ELSE one.selected[id] \ {0}, FALSE)
      BY <2>4 DEF ValuesForSource
    <3>2. ValuesForSource(m, id, other) =
            Read(IF other.source = "advertised" THEN OptionValues(m[id]) ELSE other.selected[id] \ {0}, FALSE)
      BY <2>4 DEF ValuesForSource, Agree
    <3>3. QED
      BY <3>1, <3>2 DEF Agree
  <2>5. QED
    BY <2>1, <2>2, <2>3, <2>4
<1>3. SuiteAxes(m, one) = SuiteAxes(m, other)
  BY DEF Agree, SuiteAxes
<1>4. HasCopies(m) => CopiesValues(m, one) = CopiesValues(m, other)
  BY DEF Agree, CopiesValues
<1>5. one.source = other.source
  BY DEF Agree
<1>6. QED
  BY ZenonT(30), <1>1, <1>2, <1>3, <1>4, <1>5 DEF PlanAxes

(* ...and the same plans.                                                  *)
LEMMA AgreeOnPlans ==
  ASSUME NEW m, NEW one, NEW other, Agree(m, one, other)
  PROVE  BuildPlan(m, one) = BuildPlan(m, other)
<1>1. PlanAxes(m, one) = PlanAxes(m, other)
  BY AgreeOnAxes
<1>2. /\ one.source = other.source /\ one.strategy = other.strategy /\ one.intent = other.intent
      /\ NormalizeCaseLimit(one.limit) = NormalizeCaseLimit(other.limit)
  BY DEF Agree
<1>3. \A ranged : EffectiveStrategy(one, ranged) = EffectiveStrategy(other, ranged)
  BY <1>2 DEF EffectiveStrategy
<1>4. \A axes : CandidateLimit(m, axes, one) = CandidateLimit(m, axes, other)
  BY <1>2 DEF CandidateLimit
<1>5. \A row : Wanted(m, one, row) <=> Wanted(m, other, row)
  BY <1>2 DEF Wanted
<1>6. \A axes, generated : FilterPlans(m, one, axes, generated) = FilterPlans(m, other, axes, generated)
  <2> TAKE axes, generated
  <2> DEFINE rows == generated.rows
             Kept(set) ==
               LET wanted == Filter(rows, set)
                   size == Min({NormalizeCaseLimit(one.limit), Len(wanted)})
                   kept == IF generated.shuffled THEN kSubset(size, ToSet(wanted))
                           ELSE {ToSet(UpTo(size, wanted))}
               IN IF wanted = <<>> THEN {NoPlan}
                  ELSE {[ok |-> TRUE, cases |-> cases, axes |-> axes,
                         skipped |-> IF one.intent = "constraint" THEN 0
                                     ELSE Len(rows) - Len(wanted)] : cases \in kept}
  <2>1. {row \in ToSet(rows) : Wanted(m, one, row)} = {row \in ToSet(rows) : Wanted(m, other, row)}
    BY <1>5
  <2>2. FilterPlans(m, one, axes, generated) = Kept({row \in ToSet(rows) : Wanted(m, one, row)})
    BY DEF FilterPlans
  <2>3. FilterPlans(m, other, axes, generated) = Kept({row \in ToSet(rows) : Wanted(m, other, row)})
    BY <1>2 DEF FilterPlans
  <2> HIDE DEF Kept
  <2>4. QED
    BY <2>1, <2>2, <2>3
<1>7. QED
  <2> DEFINE planned == PlanAxes(m, one)
             strategy == EffectiveStrategy(one, planned.ranged)
             generated == GenerateWithStrategy(planned.axes, strategy, CandidateLimit(m, planned.axes, one))
             Mixed(rows) == [rows EXCEPT !.shuffled = @ \/ (planned.ranged /\ strategy # "pairwise")]
             Plans(r) == UNION {FilterPlans(m, r, planned.axes, Mixed(rows)) : rows \in generated}
             Built(r) ==
               CASE one.source = "baseline" \/ (planned.ok /\ planned.axes = <<>>) ->
                      IF one.intent = "constraint" THEN {NoPlan} ELSE {BaselinePlan}
                 [] one.source # "baseline" /\ ~planned.ok -> {NoPlan}
                 [] OTHER -> Plans(r)
  <2>1. BuildPlan(m, one) = Built(one)
    BY DEF BuildPlan
  <2>2. /\ PlanAxes(m, other) = planned /\ EffectiveStrategy(other, planned.ranged) = strategy
        /\ CandidateLimit(m, planned.axes, other) = CandidateLimit(m, planned.axes, one)
    BY <1>1, <1>3, <1>4
  <2>3. BuildPlan(m, other) = Built(other)
    BY <1>2, <2>2 DEF BuildPlan
  <2>4. Plans(one) = Plans(other)
    BY <1>6
  <2> HIDE DEF Plans
  <2>5. QED
    BY <2>1, <2>3, <2>4

(* BuildSafePreset and ReconcilePreset of the same capabilities.           *)
LEMMA PresetAgrees ==
  ASSUME NEW s \in DOMAIN Snapshot, NEW made, FormInv(made), made.for \subseteq {s},
         made.input.pages # <<>> => CustomPageRangeSupported(Model[s]),
         \A id \in CopiesIds \cup {PageRange} : made.input.numeric[id] = <<>>,
         ~Skipped(Model[s], BuildSafePreset(Model[s], made.input))
  PROVE  Agree(Model[s], ReconcilePreset(Model[s], BuildSafePreset(Model[s], made.input)), made.input)
<1> DEFINE m == Model[s]
           other == made.input
           file == BuildSafePreset(m, other)
           one == ReconcilePreset(m, file)
           Text(id) ==
             CASE id \in DOMAIN m /\ HasBounds(m[id]) /\ other.numeric[id] # <<>> -> other.numeric[id]
               [] id = PageRange /\ other.pages # <<>> /\ CustomPageRangeSupported(m) -> other.pages
               [] HasCopies(m) /\ id = CopiesOption(m) -> other.copies
               [] OTHER -> <<>>
           pages == ParsePages(file.numeric[PageRange])
           saved == {id \in file.copiesId : ParseCopies(file.numeric[id]).ok}
<1>1. /\ file.selected = [id \in ToSet(PropertyId) |->
                      IF id \in DOMAIN m /\ ~HasBounds(m[id]) THEN other.selected[id] \ {0} ELSE {}]
      /\ file.numeric = [id \in ToSet(PropertyId) |-> Text(id)]
      /\ file.copiesId = IF HasCopies(m) THEN {CopiesOption(m)} ELSE {}
      /\ file.strategy = other.strategy /\ file.source = other.source /\ file.intent = other.intent
      /\ file.limit = other.limit
  <2> HIDE DEF m, other
  <2>1. QED
    BY DEF BuildSafePreset
<1>2. /\ one.selected = [id \in ToSet(PropertyId) |-> file.selected[id] \cap
                         (IF id \in DOMAIN m /\ ~HasBounds(m[id]) THEN OptionValues(m[id]) ELSE {})]
      /\ one.numeric = [id \in ToSet(PropertyId) |->
                        IF /\ id # PageRange /\ id \notin CopiesIds
                           /\ id \in DOMAIN m /\ HasBounds(m[id])
                           /\ ParseRange(file.numeric[id], m[id].range).ok
                        THEN file.numeric[id] ELSE <<>>]
      /\ one.pages = IF CustomPageRangeSupported(m) /\ pages.ok THEN Compact(pages.values) ELSE <<>>
      /\ one.copies = IF saved = {} THEN <<One(1)>> ELSE file.numeric[CHOOSE id \in saved : TRUE]
      /\ one.limit = NormalizeCaseLimit(file.limit)
      /\ one.strategy = file.strategy /\ one.source = file.source /\ one.intent = file.intent
  <2> HIDE DEF m, file
  <2>1. QED
    BY DEF ReconcilePreset
<1>3. ASSUME NEW id \in ToSet(PropertyId)
      PROVE  /\ \A v \in file.selected[id] :
                   id \in DOMAIN m /\ ~HasBounds(m[id]) /\ v \in OptionValues(m[id])
             /\ id = PageRange /\ file.numeric[id] # <<>> => CustomPageRangeSupported(m) /\ pages.ok
             /\ id \in CopiesIds /\ id \in file.copiesId => ParseCopies(file.numeric[id]).ok
             /\ id # PageRange /\ id \notin CopiesIds /\ file.numeric[id] # <<>> =>
                  id \in DOMAIN m /\ HasBounds(m[id]) /\ ParseRange(file.numeric[id], m[id].range).ok
  <2>1. ~Skipped(m, file)
    OBVIOUS
  <2> HIDE DEF m, file
  <2>2. PageRange \notin CopiesIds
    BY DEF PageRange, CopiesIds
  <2>3. QED
    BY <2>1, <2>2 DEF Skipped
<1>4. DOMAIN m \subseteq ToSet(PropertyId)
  BY ModelIsKnown
<1>5. /\ TypedInput(other)
      /\ \A id \in ToSet(PropertyId) :
           /\ \A v \in other.selected[id] : id \in DOMAIN m /\ ~HasBounds(m[id]) /\ v \in m[id].values
           /\ other.numeric[id] # <<>> => id \in DOMAIN m /\ HasBounds(m[id])
  BY DEF FormInv, Offered, HasField
<1>6. /\ other.pages # <<>> => CustomPageRangeSupported(m)
      /\ \A id \in CopiesIds \cup {PageRange} : other.numeric[id] = <<>>
  OBVIOUS
<1> HIDE DEF m, other, file, one
<1>7. one.selected = other.selected
  <2>1. other.selected \in [ToSet(PropertyId) -> Selection]
    BY <1>5 DEF TypedInput
  <2>2. \A id \in ToSet(PropertyId) : one.selected[id] = other.selected[id]
    <3> TAKE id \in ToSet(PropertyId)
    <3>1. file.selected[id] = other.selected[id]
      <4>1. 0 \notin other.selected[id]
        BY <2>1 DEF Value, Selection
      <4>2. other.selected[id] # {} => id \in DOMAIN m /\ ~HasBounds(m[id])
        BY <1>5
      <4>3. file.selected[id] = IF id \in DOMAIN m /\ ~HasBounds(m[id]) THEN other.selected[id] \ {0} ELSE {}
        <5> HIDE DEF Text
        <5>1. QED
          BY <1>1
      <4>4. other.selected[id] \ {0} = other.selected[id]
        BY <4>1
      <4>5. CASE other.selected[id] = {}
        BY <4>3, <4>4, <4>5
      <4>6. CASE other.selected[id] # {}
        BY <4>2, <4>3, <4>4, <4>6
      <4>7. QED
        BY <4>5, <4>6
    <3>2. \A v \in file.selected[id] : id \in DOMAIN m /\ ~HasBounds(m[id]) /\ v \in OptionValues(m[id])
      BY <1>3
    <3>3. QED
      BY <1>2, <3>1, <3>2
  <2>3. DOMAIN one.selected = ToSet(PropertyId) /\ one.selected = [id \in ToSet(PropertyId) |-> one.selected[id]]
    BY <1>2
  <2>4. QED
    BY <2>1, <2>2, <2>3
<1>8. one.numeric = other.numeric
  <2>1. other.numeric \in [ToSet(PropertyId) -> Seq(Entry)]
    BY <1>5 DEF TypedInput
  <2>2. \A id \in ToSet(PropertyId) : one.numeric[id] = other.numeric[id]
    <3> TAKE id \in ToSet(PropertyId)
    <3>1. CASE id \in CopiesIds \cup {PageRange}
      BY <1>2, <1>6, <3>1
    <3>2. CASE id \notin CopiesIds \cup {PageRange}
      <4>1. HasCopies(m) => CopiesOption(m) \in CopiesIds
        BY DEF CopiesOption, CopiesIds
      <4>2. file.numeric[id] = other.numeric[id]
        <5>1. file.numeric[id] = Text(id) /\ id # PageRange
          <6> HIDE DEF Text
          <6>1. QED
            BY <1>1, <3>2
        <5>2. ~(HasCopies(m) /\ id = CopiesOption(m))
          BY <3>2, <4>1
        <5>3. CASE other.numeric[id] # <<>>
          <6>1. id \in DOMAIN m /\ HasBounds(m[id])
            BY <1>5, <5>3
          <6>2. QED
            BY <5>1, <5>2, <5>3, <6>1
        <5>4. CASE other.numeric[id] = <<>>
          BY <5>1, <5>2, <5>4
        <5>5. QED
          BY <5>3, <5>4
      <4>3. ParseRange(<<>>, m[id].range).ok = FALSE
        BY DEF ParseRange, Refused
      <4>4. QED
        BY <1>2, <1>3, <3>2, <4>2, <4>3
    <3>3. QED
      BY <3>1, <3>2
  <2>3. DOMAIN one.numeric = ToSet(PropertyId) /\ one.numeric = [id \in ToSet(PropertyId) |-> one.numeric[id]]
    BY <1>2
  <2>4. QED
    BY <2>1, <2>2, <2>3
<1>9. HasCopies(m) => one.copies = other.copies
  <2> SUFFICES ASSUME HasCopies(m) PROVE one.copies = other.copies
    OBVIOUS
  <2> DEFINE c == CopiesOption(m)
  <2>1. c \in CopiesIds /\ c \in DOMAIN m
    BY DEF CopiesOption, CopiesIds, HasCopies
  <2>2. c # PageRange /\ c \in ToSet(PropertyId) /\ other.numeric[c] = <<>>
    BY <1>4, <1>6, <2>1 DEF CopiesIds, PageRange
  <2>3. file.copiesId = {c}
    BY <1>1
  <2>4. file.numeric[c] = other.copies
    BY <1>1, <2>2
  <2>5. ParseCopies(file.numeric[c]).ok
    BY <1>3, <2>1, <2>2, <2>3
  <2> HIDE DEF c
  <2>6. saved = {c}
    BY <2>3, <2>5
  <2>7. QED
    BY <1>2, <2>4, <2>6
<1>10. /\ one.pages = <<>> <=> other.pages = <<>>
       /\ CustomPages(m, one) = CustomPages(m, other)
  <2>1. CASE other.pages = <<>>
    <3>1. one.pages = <<>>
      <4> SUFFICES ASSUME CustomPageRangeSupported(m) PROVE ~pages.ok
        BY <1>2
      <4>1. PageRange \in DOMAIN m /\ PageRange \in ToSet(PropertyId)
        BY <1>4 DEF CustomPageRangeSupported
      <4>2. HasCopies(m) => CopiesOption(m) # PageRange
        BY DEF CopiesOption, PageRange
      <4>3. file.numeric[PageRange] = <<>>
        BY <1>1, <1>6, <2>1, <4>1, <4>2
      <4>4. QED
        BY <4>3 DEF ParsePages, Refused
    <3>2. QED
      BY <2>1, <3>1 DEF CustomPages
  <2>2. CASE other.pages # <<>>
    <3>1. CustomPageRangeSupported(m)
      BY <1>6, <2>2
    <3>2. PageRange \in DOMAIN m /\ PageRange \in ToSet(PropertyId)
      BY <1>4, <3>1 DEF CustomPageRangeSupported
    <3>3. file.numeric[PageRange] = other.pages
      <4>1. file.numeric[PageRange] = Text(PageRange)
        <5> HIDE DEF Text
        <5>1. QED
          BY <1>1, <3>2
      <4>2. other.numeric[PageRange] = <<>> /\ ~(HasCopies(m) /\ PageRange = CopiesOption(m))
        BY <1>6 DEF CopiesOption, PageRange
      <4>3. QED
        BY <2>2, <3>1, <4>1, <4>2
    <3>4. pages.ok /\ pages = ParsePages(other.pages)
      BY <1>3, <2>2, <3>2, <3>3
    <3>5. other.pages \in Seq(Entry)
      BY <1>5 DEF TypedInput
    <3> DEFINE P == ParsePages(other.pages).values
    <3>6. P \in SUBSET (Nat \ {0}) /\ P # {} /\ IsFiniteSet(P) /\ ~(Cardinality(P) > ExpansionLimit)
      BY <3>4, <3>5, PagesAreRead
    <3>7. one.pages = Compact(P)
      BY <1>2, <3>1, <3>4
    <3>8. ParsePages(other.pages).ok
      BY <3>4
    <3> HIDE DEF P
    <3>9. ParsePages(Compact(P)).ok /\ ParsePages(Compact(P)).values = P /\ Compact(P) # <<>>
      BY <3>6, CompactReadsBack, CompactRuns
    <3>10. CustomPages(m, one) = CustomPages(m, other)
      BY <3>1, <3>7, <3>8, <3>9 DEF CustomPages, P
    <3>11. QED
      BY <2>2, <3>7, <3>9, <3>10
  <2>3. QED
    BY <2>1, <2>2
<1>11. NormalizeCaseLimit(one.limit) = NormalizeCaseLimit(other.limit)
  BY <1>1, <1>2, <1>5, LimitIsNormal DEF TypedInput
<1>12. one.strategy = other.strategy /\ one.source = other.source /\ one.intent = other.intent
  BY <1>1, <1>2
<1>13. Agree(m, one, other)
  BY <1>7, <1>8, <1>9, <1>10, <1>11, <1>12 DEF Agree
<1>14. QED
  BY <1>13 DEF m, other, file, one

(* A preset plans the very same cases, whatever was entered, discovered    *)
(* and loaded before (BuildSafePreset, ReconcilePreset, BuildPlan).        *)
THEOREM PresetsPlanTheSame == Spec => []PresetPlansSame
<1>1. PageInv => PresetPlansSame
  <2> SUFFICES ASSUME PageInv, loading # EmptyForm, loading.for \cup preset.for \subseteq {preset.by},
                      preset.input.pages # <<>> => CustomPageRangeSupported(Model[preset.by]),
                      \A id \in CopiesIds \cup {PageRange} : preset.input.numeric[id] = <<>>,
                      ~Skipped(Model[preset.by], preset.file)
               PROVE  BuildPlan(Model[preset.by], loading.input) = BuildPlan(Model[preset.by], preset.input)
    BY DEF PresetPlansSame
  <2>1. PICK made : made = preset
    OBVIOUS
  <2>2. PICK s : s = preset.by
    OBVIOUS
  <2>3. /\ s \in DOMAIN Snapshot /\ FormInv(made) /\ made.for \subseteq {s}
        /\ made.file = BuildSafePreset(Model[s], made.input)
        /\ loading.input = ReconcilePreset(Model[s], made.file)
    <3>1. PresetInv
      BY DEF PageInv
    <3>2. PICK t \in DOMAIN Snapshot : /\ loading.input = ReconcilePreset(Model[t], preset.file)
                                      /\ loading.for = {t}
      BY <3>1 DEF PresetInv
    <3>3. t = s
      BY <2>2, <3>2
    <3>4. FormInv(preset) /\ preset.saved
      BY <3>1 DEF PresetInv
    <3>5. QED
      BY <2>1, <2>2, <3>1, <3>2, <3>3, <3>4 DEF PresetInv
  <2>4. Agree(Model[s], ReconcilePreset(Model[s], BuildSafePreset(Model[s], made.input)), made.input)
    BY <2>1, <2>2, <2>3, PresetAgrees
  <2>5. PICK m, one : m = Model[s] /\ one = loading.input
    OBVIOUS
  <2>6. Agree(m, one, made.input)
    BY <2>3, <2>4, <2>5
  <2>7. BuildPlan(m, one) = BuildPlan(m, made.input)
    BY <2>6, AgreeOnPlans
  <2>8. QED
    BY <2>1, <2>2, <2>5, <2>7
<1>2. QED
  BY <1>1, PageInvariant, PTL

-----------------------------------------------------------------------------
(* The generators: every row gives every axis one of its values.           *)

(* Axes as NormalizeAxes leaves them.                                      *)
IsNormal(axes) ==
  /\ Len(axes) \in Nat /\ DOMAIN axes = 1..Len(axes)
  /\ \A i \in 1..Len(axes) : /\ axes[i].values \in Seq(Nat \ {0}) /\ axes[i].values # <<>>
                             /\ IsInjective(axes[i].values)
  /\ \A i, j \in 1..Len(axes) : axes[i].name = axes[j].name => i = j

(* The rows over the first n of the axes.                                  *)
Names(axes, n) == {axes[i].name : i \in 1..n}
RowsOver(axes, n) ==
  {row \in [Names(axes, n) -> UNION {ToSet(axes[i].values) : i \in 1..n}] :
     \A i \in 1..n : row[axes[i].name] \in ToSet(axes[i].values)}

(* How to know a row.                                                      *)
LEMMA RowIsOver ==
  ASSUME NEW axes, NEW n \in Nat, NEW row,
         row = [x \in Names(axes, n) |-> row[x]],
         \A i \in 1..n : row[axes[i].name] \in ToSet(axes[i].values)
  PROVE  row \in RowsOver(axes, n)
<1>1. \A x \in Names(axes, n) : row[x] \in UNION {ToSet(axes[i].values) : i \in 1..n}
  BY DEF Names
<1>2. QED
  BY <1>1 DEF RowsOver

(* What is known of a row.                                                 *)
LEMMA RowOver ==
  ASSUME NEW axes, NEW n \in Nat, NEW row \in RowsOver(axes, n)
  PROVE  /\ DOMAIN row = Names(axes, n) /\ row = [x \in Names(axes, n) |-> row[x]]
         /\ \A i \in 1..n : row[axes[i].name] \in ToSet(axes[i].values)
  BY DEF RowsOver

(* The values of an axis in order.                                         *)
LEMMA AxisValues ==
  ASSUME NEW axes, IsNormal(axes), NEW i \in 1..Len(axes)
  PROVE  /\ Len(axes[i].values) \in Nat \ {0} /\ DOMAIN axes[i].values = 1..Len(axes[i].values)
         /\ \A k \in 1..Len(axes[i].values) : /\ axes[i].values[k] \in Nat \ {0}
                                             /\ axes[i].values[k] \in ToSet(axes[i].values)
         /\ ToSet(axes[i].values) \subseteq Nat \ {0} /\ ToSet(axes[i].values) # {}
         /\ IsFiniteSet(ToSet(axes[i].values))
<1> DEFINE v == axes[i].values
<1>1. v \in Seq(Nat \ {0}) /\ v # <<>>
  BY DEF IsNormal
<1> HIDE DEF v
<1>2. Len(v) \in Nat \ {0} /\ DOMAIN v = 1..Len(v) /\ \A k \in 1..Len(v) : v[k] \in Nat \ {0}
  BY <1>1
<1>3. /\ \A k \in 1..Len(v) : v[k] \in ToSet(v)
      /\ ToSet(v) \subseteq Nat \ {0} /\ ToSet(v) # {}
  BY <1>2 DEF ToSet
<1>4. IsFiniteSet(ToSet(v))
  <2>1. v \in Surjection(DOMAIN v, ToSet(v))
    BY <1>1, <1>2 DEF Surjection, ToSet
  <2>2. IsFiniteSet(DOMAIN v)
    BY <1>2, FS_Interval
  <2>3. QED
    BY <2>1, <2>2, FS_Surjection
<1>5. QED
  BY <1>2, <1>3, <1>4 DEF v

(* A row with a value of the next axis; what it was without it.            *)
LEMMA WithIsOver ==
  ASSUME NEW axes, IsNormal(axes), NEW n \in 1..Len(axes),
         NEW row \in RowsOver(axes, n - 1), NEW v \in ToSet(axes[n].values)
  PROVE  /\ With(row, axes[n].name, v) \in RowsOver(axes, n)
         /\ With(row, axes[n].name, v)[axes[n].name] = v
         /\ \A i \in 1..n - 1 : With(row, axes[n].name, v)[axes[i].name] = row[axes[i].name]
<1> DEFINE new == With(row, axes[n].name, v)
<1>0. Len(axes) \in Nat /\ n - 1 \in Nat /\ n \in Nat
  BY DEF IsNormal
<1>1. DOMAIN row = Names(axes, n - 1) /\ \A i \in 1..n - 1 : row[axes[i].name] \in ToSet(axes[i].values)
  BY <1>0, RowOver
<1>2. Names(axes, n) = Names(axes, n - 1) \cup {axes[n].name}
  BY <1>0 DEF Names
<1>3. new = [x \in Names(axes, n) |-> IF x = axes[n].name THEN v ELSE row[x]]
  BY <1>1, <1>2 DEF With
<1>4. \A i \in 1..n - 1 : axes[i].name # axes[n].name
  BY <1>0 DEF IsNormal
<1> HIDE DEF new
<1>5. \A i \in 1..n : axes[i].name \in Names(axes, n)
  BY DEF Names
<1>6. new[axes[n].name] = v
  BY <1>0, <1>3, <1>5
<1>7. \A i \in 1..n - 1 : new[axes[i].name] = row[axes[i].name]
  BY <1>0, <1>3, <1>4, <1>5
<1>8. \A i \in 1..n : new[axes[i].name] \in ToSet(axes[i].values)
  BY <1>0, <1>1, <1>6, <1>7
<1>9. new = [x \in Names(axes, n) |-> new[x]]
  BY <1>3
<1>10. new \in RowsOver(axes, n)
  BY <1>0, <1>8, <1>9, RowIsOver
<1>11. QED
  BY <1>6, <1>7, <1>10 DEF new

(* A row is one without its last axis, with that value.                    *)
LEMMA RowIsWith ==
  ASSUME NEW axes, IsNormal(axes), NEW n \in 1..Len(axes), NEW row \in RowsOver(axes, n)
  PROVE  \E old \in RowsOver(axes, n - 1) : row = With(old, axes[n].name, row[axes[n].name])
<1> DEFINE old == [x \in Names(axes, n - 1) |-> row[x]]
<1>0. Len(axes) \in Nat /\ n - 1 \in Nat /\ n \in Nat
  BY DEF IsNormal
<1>1. /\ row = [x \in Names(axes, n) |-> row[x]]
      /\ \A i \in 1..n : row[axes[i].name] \in ToSet(axes[i].values)
  BY <1>0, RowOver
<1>2. Names(axes, n) = Names(axes, n - 1) \cup {axes[n].name}
  BY <1>0 DEF Names
<1>3. \A i \in 1..n - 1 : axes[i].name \in Names(axes, n - 1)
  BY DEF Names
<1>4. old \in RowsOver(axes, n - 1)
  <2>1. \A i \in 1..n - 1 : old[axes[i].name] \in ToSet(axes[i].values)
    <3> TAKE i \in 1..n - 1
    <3>1. i \in 1..n /\ axes[i].name \in Names(axes, n - 1)
      BY <1>0, <1>3
    <3>2. old[axes[i].name] = row[axes[i].name]
      BY <3>1
    <3> HIDE DEF old
    <3>3. QED
      BY <1>1, <3>1, <3>2
  <2>2. old = [x \in Names(axes, n - 1) |-> old[x]]
    OBVIOUS
  <2> HIDE DEF old
  <2>3. QED
    BY <1>0, <2>1, <2>2, RowIsOver
<1>5. row = With(old, axes[n].name, row[axes[n].name])
  BY <1>1, <1>2 DEF With
<1>6. QED
  BY <1>4, <1>5

(* Every row with every value, each once.                                  *)
LEMMA GrownRows ==
  ASSUME NEW axes, IsNormal(axes), NEW n \in 1..Len(axes), NEW rows \in Seq(RowsOver(axes, n - 1))
  PROVE  LET g == Grown(rows, axes[n])
         IN /\ g \in Seq(RowsOver(axes, n))
            /\ IsInjective(rows) => IsInjective(g)
            /\ ToSet(rows) = RowsOver(axes, n - 1) => ToSet(g) = RowsOver(axes, n)
<1> DEFINE values == axes[n].values
           name == axes[n].name
           size == Len(values)
           len == Len(rows)
           g == Grown(rows, axes[n])
           q(k) == (k - 1) \div size
           r(k) == (k - 1) % size
<1>0. /\ len \in Nat /\ DOMAIN rows = 1..len /\ \A k \in 1..len : rows[k] \in RowsOver(axes, n - 1)
      /\ size \in Nat \ {0} /\ DOMAIN values = 1..size /\ len * size \in Nat
      /\ \A k \in 1..size : values[k] \in ToSet(values)
  BY AxisValues
<1>1. g = [k \in 1..len * size |-> With(rows[q(k) + 1], name, values[r(k) + 1])]
  BY DEF Grown
<1>2. ASSUME NEW k \in 1..len * size
      PROVE  /\ q(k) + 1 \in 1..len /\ r(k) + 1 \in 1..size
             /\ k - 1 = q(k) * size + r(k)
  <2> HIDE DEF len, size
  <2>0. k - 1 \in 0..len * size - 1 /\ k - 1 \in Nat
    BY <1>0
  <2>1. (k - 1) \div size < len
    BY <1>0, <2>0, DivBound
  <2>2. /\ (k - 1) \div size \in Nat /\ (k - 1) % size \in Nat /\ (k - 1) % size < size
        /\ k - 1 = ((k - 1) \div size) * size + ((k - 1) % size)
    BY <1>0, <2>0, DivMod
  <2> DEFINE a == (k - 1) \div size
             b == (k - 1) % size
  <2>3. a < len /\ a \in Nat /\ b \in Nat /\ b < size /\ k - 1 = a * size + b /\ q(k) = a /\ r(k) = b
    BY <2>1, <2>2
  <2> HIDE DEF a, b, q, r
  <2>4. QED
    BY SMTT(30), <1>0, <2>3
<1> HIDE DEF g, q, r, len, size, values, name
<1>3. ASSUME NEW k \in 1..len * size
      PROVE  /\ g[k] = With(rows[q(k) + 1], name, values[r(k) + 1]) /\ g[k] \in RowsOver(axes, n)
             /\ g[k][name] = values[r(k) + 1]
             /\ \A i \in 1..n - 1 : g[k][axes[i].name] = rows[q(k) + 1][axes[i].name]
  <2>1. q(k) + 1 \in 1..len /\ r(k) + 1 \in 1..size
    BY <1>2
  <2>2. rows[q(k) + 1] \in RowsOver(axes, n - 1) /\ values[r(k) + 1] \in ToSet(axes[n].values)
    BY <1>0, <2>1 DEF values
  <2>3. g[k] = With(rows[q(k) + 1], axes[n].name, values[r(k) + 1])
    BY <1>1 DEF name
  <2>4. QED
    BY <2>2, <2>3, WithIsOver DEF name
<1>4. g \in Seq(RowsOver(axes, n)) /\ DOMAIN g = 1..len * size
  <2> DEFINE m == len * size
  <2>1. m \in Nat
    BY <1>0
  <2>2. g = [k \in 1..m |-> g[k]] /\ \A k \in 1..m : g[k] \in RowsOver(axes, n)
    BY <1>1, <1>3
  <2> HIDE DEF m
  <2>3. g \in Seq(RowsOver(axes, n)) /\ DOMAIN g = 1..m
    BY <2>1, <2>2
  <2>4. QED
    BY <2>3 DEF m
<1>5. ASSUME IsInjective(rows) PROVE IsInjective(g)
  <2> SUFFICES ASSUME NEW k \in 1..len * size, NEW l \in 1..len * size, g[k] = g[l]
               PROVE  k = l
    BY <1>4 DEF IsInjective
  <2>1. q(k) + 1 \in 1..len /\ q(l) + 1 \in 1..len /\ r(k) + 1 \in 1..size /\ r(l) + 1 \in 1..size
    BY <1>2
  <2>2. values[r(k) + 1] = values[r(l) + 1]
    BY <1>3
  <2>3. r(k) + 1 = r(l) + 1
    <3>1. IsInjective(values)
      BY DEF IsNormal, values
    <3>2. QED
      BY <1>0, <2>1, <2>2, <3>1 DEF IsInjective
  <2>4. rows[q(k) + 1] = rows[q(l) + 1]
    <3>0. n - 1 \in Nat
      BY DEF IsNormal
    <3>1. PICK a, b : a = rows[q(k) + 1] /\ b = rows[q(l) + 1]
      OBVIOUS
    <3>2. a \in RowsOver(axes, n - 1) /\ b \in RowsOver(axes, n - 1)
      BY <1>0, <2>1, <3>1
    <3>3. /\ a = [x \in Names(axes, n - 1) |-> a[x]]
          /\ b = [x \in Names(axes, n - 1) |-> b[x]]
      BY <3>0, <3>2, RowOver
    <3>4. \A i \in 1..n - 1 : a[axes[i].name] = b[axes[i].name]
      <4> TAKE i \in 1..n - 1
      <4>1. g[k][axes[i].name] = a[axes[i].name] /\ g[l][axes[i].name] = b[axes[i].name]
        BY <1>3, <3>1
      <4>2. QED
        BY <4>1
    <3>5. \A x \in Names(axes, n - 1) : a[x] = b[x]
      BY <3>4 DEF Names
    <3>6. a = b
      BY <3>3, <3>5
    <3>7. QED
      BY <3>1, <3>6
  <2>5. q(k) + 1 = q(l) + 1
    BY <1>0, <1>5, <2>1, <2>4 DEF IsInjective
  <2>6. k - 1 = q(k) * size + r(k) /\ l - 1 = q(l) * size + r(l)
    BY <1>2
  <2>7. q(k) = q(l) /\ r(k) = r(l)
    <3>1. q(k) \in Int /\ q(l) \in Int /\ r(k) \in Int /\ r(l) \in Int
      BY <1>0 DEF q, r
    <3>2. QED
      BY <2>3, <2>5, <3>1
  <2>8. k - 1 = l - 1
    BY <2>6, <2>7
  <2>9. k \in Nat /\ l \in Nat
    BY <1>0
  <2>10. QED
    BY <2>8, <2>9
<1>6. ASSUME ToSet(rows) = RowsOver(axes, n - 1) PROVE ToSet(g) = RowsOver(axes, n)
  <2>1. ToSet(g) \subseteq RowsOver(axes, n)
    BY <1>3, <1>4 DEF ToSet
  <2>2. ASSUME NEW row \in RowsOver(axes, n) PROVE row \in ToSet(g)
    <3>1. PICK old \in RowsOver(axes, n - 1) : row = With(old, name, row[name])
      BY RowIsWith DEF name
    <3>2. PICK a \in 1..len : rows[a] = old
      BY <1>0, <1>6 DEF ToSet
    <3>3. row[name] \in ToSet(values)
      <4>1. n \in Nat /\ n \in 1..n
        BY DEF IsNormal
      <4>2. QED
        BY <4>1, RowOver DEF name, values
    <3>4. PICK b \in 1..size : values[b] = row[name]
      BY <1>0, <3>3 DEF ToSet
    <3>5. a - 1 \in 0..len - 1 /\ b - 1 \in 0..size - 1 /\ a - 1 \in Nat /\ a \in Nat /\ b \in Nat
      BY <1>0
    <3>6. (a - 1) * size + (b - 1) \in 0..len * size - 1
      BY <1>0, <3>5, DivBack
    <3>7. ((a - 1) * size + (b - 1)) \div size = a - 1 /\ ((a - 1) * size + (b - 1)) % size = b - 1
      BY <1>0, <3>5, DivIsUnique
    <3> DEFINE j == (a - 1) * size + (b - 1)
    <3>8. j \in Int /\ j + 1 \in 1..len * size /\ (j + 1) - 1 = j
      BY <1>0, <3>6
    <3>9. q(j + 1) = a - 1 /\ r(j + 1) = b - 1
      <4>1. j \div size = a - 1 /\ j % size = b - 1
        BY <3>7
      <4> HIDE DEF j
      <4>2. QED
        BY <3>8, <4>1 DEF q, r
    <3> HIDE DEF j
    <3>10. q(j + 1) + 1 = a /\ r(j + 1) + 1 = b
      BY <3>5, <3>9
    <3>11. g[j + 1] = row
      BY <1>3, <3>1, <3>2, <3>4, <3>8, <3>10
    <3>12. QED
      BY <1>4, <3>8, <3>11 DEF ToSet
  <2>3. QED
    BY <2>1, <2>2
<1>7. QED
  BY <1>4, <1>5, <1>6 DEF g

(* The product of all axes is every row over them, each once.              *)
LEMMA ProductUnfolds ==
  ASSUME NEW axes, Len(axes) \in Nat
  PROVE  \E rows : /\ rows = [n \in 0..Len(axes) |-> IF n = 0 THEN << <<>> >> ELSE Grown(rows[n - 1], axes[n])]
                   /\ Product(axes) = rows[Len(axes)]
<1> DEFINE Round(done, n) == Grown(done, axes[n])
           Is(f, m) == f = [n \in 0..m |-> IF n = 0 THEN << <<>> >> ELSE Round(f[n - 1], n)]
           S == {m \in Nat : \E f : Is(f, m)}
<1> HIDE DEF Round
<1>1. 0 \in S
  <2>1. Is([n \in 0..0 |-> << <<>> >>], 0)
    OBVIOUS
  <2>2. QED
    BY <2>1
<1>2. ASSUME NEW m \in S PROVE m + 1 \in S
  <2>1. PICK f : Is(f, m)
    OBVIOUS
  <2> DEFINE g == [n \in 0..m + 1 |-> IF n <= m THEN f[n] ELSE Round(f[m], m + 1)]
  <2>2. Is(g, m + 1)
    BY <2>1
  <2>3. \E f1 : Is(f1, m + 1)
    <3> HIDE DEF g, Is
    <3>1. QED
      BY <2>2
  <2>4. QED
    <3> HIDE DEF Is
    <3>1. QED
      BY <2>3
<1>3. Len(axes) \in S
  <2> HIDE DEF S
  <2>1. S \in SUBSET Nat
    BY DEF S
  <2>2. QED
    BY <1>1, <1>2, <2>1, SetInduction
<1> DEFINE rows == CHOOSE f : f = [n \in 0..Len(axes) |->
                                     IF n = 0 THEN << <<>> >> ELSE Grown(f[n - 1], axes[n])]
<1>4. PICK f : f = [n \in 0..Len(axes) |-> IF n = 0 THEN << <<>> >> ELSE Grown(f[n - 1], axes[n])]
  BY <1>3 DEF Round
<1>5. rows = [n \in 0..Len(axes) |-> IF n = 0 THEN << <<>> >> ELSE Grown(rows[n - 1], axes[n])]
  BY <1>4
<1>6. Product(axes) = rows[Len(axes)]
  BY DEF Product
<1>7. QED
  BY <1>5, <1>6

(* Product has every row over the axes, each once.                         *)
LEMMA ProductRows ==
  ASSUME NEW axes, IsNormal(axes)
  PROVE  /\ Product(axes) \in Seq(RowsOver(axes, Len(axes)))
         /\ IsInjective(Product(axes))
         /\ ToSet(Product(axes)) = RowsOver(axes, Len(axes))
<1>0. Len(axes) \in Nat
  BY DEF IsNormal
<1>1. PICK rows : /\ rows = [n \in 0..Len(axes) |-> IF n = 0 THEN << <<>> >> ELSE Grown(rows[n - 1], axes[n])]
                  /\ Product(axes) = rows[Len(axes)]
  BY <1>0, ProductUnfolds
<1> DEFINE Round(k) == IF k = 0 THEN << <<>> >> ELSE Grown(rows[k - 1], axes[k])
<1>2. rows = [k \in 0..Len(axes) |-> Round(k)]
  BY <1>1
<1>3. rows[0] = << <<>> >>
  <2>1. 0 \in 0..Len(axes)
    BY <1>0
  <2>2. rows[0] = Round(0)
    <3> HIDE DEF Round
    <3>1. QED
      BY <1>2, <2>1
  <2>3. QED
    BY <2>2
<1>4. \A n \in 0..Len(axes) - 1 : rows[n + 1] = Grown(rows[n], axes[n + 1])
  <2> TAKE n \in 0..Len(axes) - 1
  <2>1. n + 1 \in 0..Len(axes) /\ (n + 1) - 1 = n /\ n + 1 # 0
    BY <1>0
  <2>2. rows[n + 1] = Round(n + 1)
    <3> HIDE DEF Round
    <3>1. QED
      BY <1>2, <2>1
  <2>3. QED
    BY <2>1, <2>2
<1> DEFINE K(n) == /\ rows[n] \in Seq(RowsOver(axes, n)) /\ IsInjective(rows[n])
                   /\ ToSet(rows[n]) = RowsOver(axes, n)
           S == {n \in Nat : n <= Len(axes) => K(n)}
<1>5. K(0)
  <2>1. RowsOver(axes, 0) = {<<>>}
    <3>1. Names(axes, 0) = {} /\ 1..0 = {}
      BY DEF Names
    <3>2. <<>> = [x \in {} |-> <<>>[x]] /\ \A row : row = [x \in {} |-> row[x]] => row = <<>>
      OBVIOUS
    <3>3. <<>> \in RowsOver(axes, 0)
      BY <3>1, <3>2, RowIsOver
    <3>4. \A row \in RowsOver(axes, 0) : row = <<>>
      BY <3>1, <3>2, RowOver
    <3>5. QED
      BY <3>3, <3>4
  <2>2. << <<>> >> \in Seq({<<>>}) /\ IsInjective(<< <<>> >>) /\ ToSet(<< <<>> >>) = {<<>>}
    <3>1. Len(<< <<>> >>) = 1 /\ DOMAIN << <<>> >> = 1..1 /\ << <<>> >>[1] = <<>>
      OBVIOUS
    <3>2. QED
      BY <3>1 DEF IsInjective, ToSet
  <2>3. QED
    BY <1>3, <2>1, <2>2
<1>6. ASSUME NEW n \in 0..Len(axes) - 1, K(n) PROVE K(n + 1)
  <2>1. n + 1 \in 1..Len(axes) /\ (n + 1) - 1 = n
    BY <1>0
  <2>2. rows[n + 1] = Grown(rows[n], axes[n + 1])
    BY <1>4
  <2>3. PICK m, old : m = n + 1 /\ old = rows[n]
    OBVIOUS
  <2>4. /\ m \in 1..Len(axes) /\ old \in Seq(RowsOver(axes, m - 1)) /\ IsInjective(old)
        /\ ToSet(old) = RowsOver(axes, m - 1)
    BY <1>6, <2>1, <2>3
  <2>5. /\ Grown(old, axes[m]) \in Seq(RowsOver(axes, m)) /\ IsInjective(Grown(old, axes[m]))
        /\ ToSet(Grown(old, axes[m])) = RowsOver(axes, m)
    BY <2>4, GrownRows
  <2>6. QED
    BY <2>2, <2>3, <2>5
<1> HIDE DEF K
<1>7. S = Nat
  <2>1. 0 \in S
    BY <1>5
  <2>2. ASSUME NEW n \in S PROVE n + 1 \in S
    BY <1>0, <1>6
  <2> HIDE DEF S
  <2>3. S \in SUBSET Nat
    BY DEF S
  <2>4. QED
    BY <2>1, <2>2, <2>3, SetInduction
<1>8. K(Len(axes))
  BY <1>0, <1>7
<1>9. QED
  BY <1>1, <1>8 DEF K

(* The first rows.                                                         *)
LEMMA UpToRows ==
  ASSUME NEW T, NEW rows \in Seq(T), NEW limit \in Nat
  PROVE  /\ UpTo(limit, rows) \in Seq(T)
         /\ Len(UpTo(limit, rows)) = IF limit <= Len(rows) THEN limit ELSE Len(rows)
         /\ ToSet(UpTo(limit, rows)) \subseteq ToSet(rows)
         /\ Len(rows) <= limit => UpTo(limit, rows) = rows
         /\ IsInjective(rows) => IsInjective(UpTo(limit, rows))
<1> DEFINE len == Len(rows)
           n == Min({limit, len})
           u == UpTo(limit, rows)
<1>0. len \in Nat /\ DOMAIN rows = 1..len /\ \A i \in 1..len : rows[i] \in T
  OBVIOUS
<1>1. u = SubSeq(rows, 1, n)
  BY DEF UpTo
<1>2. n = IF limit <= len THEN limit ELSE len
  <2> HIDE DEF len, u
  <2>1. {limit, len} \in SUBSET Nat
    BY <1>0
  <2>2. n \in {limit, len} /\ \A y \in {limit, len} : n <= y
    BY <2>1, MinIsLeast
  <2> HIDE DEF n
  <2>3. QED
    BY <1>0, <2>2
<1> HIDE DEF n, u
<1>3. n \in Nat /\ n <= len
  <2> HIDE DEF len
  <2>1. QED
    BY <1>0, <1>2
<1>4. u \in Seq(T) /\ Len(u) = n /\ DOMAIN u = 1..n /\ \A i \in 1..n : u[i] = rows[i]
  BY <1>0, <1>1, <1>3
<1>5. ToSet(u) \subseteq ToSet(rows)
  BY <1>0, <1>3, <1>4 DEF ToSet
<1>6. IsInjective(rows) => IsInjective(u)
  BY <1>0, <1>3, <1>4 DEF IsInjective
<1>7. len <= limit => u = rows
  <2> SUFFICES ASSUME len <= limit PROVE u = rows
    OBVIOUS
  <2>1. n = len
    <3> HIDE DEF len
    <3>1. QED
      BY <1>0, <1>2
  <2>2. QED
    BY <1>0, <1>1, <2>1
<1>8. QED
  BY <1>2, <1>4, <1>5, <1>6, <1>7 DEF u

(* Below the limit the generator leaves none out (cartesian.go).           *)
LEMMA CartesianRows ==
  ASSUME NEW axes, IsNormal(axes), NEW limit \in Nat
  PROVE  LET rows == Cartesian(axes, limit)
         IN /\ rows \in Seq(RowsOver(axes, Len(axes))) /\ IsInjective(rows) /\ Len(rows) <= limit
            /\ Len(axes) # 0 /\ Len(rows) < limit => ToSet(rows) = RowsOver(axes, Len(axes))
<1>1. CASE axes = <<>>
  <2>1. Cartesian(axes, limit) = <<>>
    BY <1>1 DEF Cartesian
  <2>2. <<>> \in Seq(RowsOver(axes, Len(axes))) /\ IsInjective(<<>>) /\ Len(<<>>) = 0 /\ Len(axes) = 0
    BY <1>1 DEF IsInjective
  <2>3. QED
    BY <2>1, <2>2
<1>2. CASE axes # <<>>
  <2> DEFINE rows == Product(axes)
  <2>1. /\ rows \in Seq(RowsOver(axes, Len(axes))) /\ IsInjective(rows)
        /\ ToSet(rows) = RowsOver(axes, Len(axes))
    BY ProductRows
  <2>2. Cartesian(axes, limit) = UpTo(limit, rows)
    BY <1>2 DEF Cartesian
  <2> HIDE DEF rows
  <2>3. Len(rows) \in Nat
    BY <2>1
  <2>4. /\ UpTo(limit, rows) \in Seq(RowsOver(axes, Len(axes)))
        /\ Len(UpTo(limit, rows)) = IF limit <= Len(rows) THEN limit ELSE Len(rows)
        /\ Len(rows) <= limit => UpTo(limit, rows) = rows
        /\ IsInjective(UpTo(limit, rows))
    BY <2>1, UpToRows
  <2>5. Len(UpTo(limit, rows)) < limit => Len(rows) <= limit
    BY <2>3, <2>4
  <2>6. QED
    BY <2>1, <2>2, <2>3, <2>4, <2>5
<1>3. QED
  BY <1>1, <1>2

(* The one case of the first values.                                       *)
LEMMA SingleRows ==
  ASSUME NEW axes, IsNormal(axes), NEW limit \in Nat
  PROVE  /\ Single(axes, limit) \in Seq(RowsOver(axes, Len(axes)))
         /\ Len(Single(axes, limit)) <= limit
         /\ IsInjective(Single(axes, limit))
<1>0. Len(axes) \in Nat /\ DOMAIN axes = 1..Len(axes)
  BY DEF IsNormal
<1>1. CASE axes = <<>> \/ limit = 0
  <2>1. Single(axes, limit) = <<>>
    BY <1>1 DEF Single
  <2>2. <<>> \in Seq(RowsOver(axes, Len(axes))) /\ Len(<<>>) = 0 /\ IsInjective(<<>>)
    BY DEF IsInjective
  <2>3. QED
    BY <2>1, <2>2
<1>2. CASE ~(axes = <<>> \/ limit = 0)
  <2> DEFINE At(x) == CHOOSE i \in DOMAIN axes : axes[i].name = x
             row == [x \in Names(axes, Len(axes)) |-> axes[At(x)].values[1]]
  <2>1. Single(axes, limit) = <<row>>
    BY <1>0, <1>2 DEF Single, Names
  <2>2. \A i \in 1..Len(axes) : At(axes[i].name) = i /\ axes[i].name \in Names(axes, Len(axes))
    BY <1>0 DEF IsNormal, Names
  <2>3. row \in RowsOver(axes, Len(axes))
    <3>1. \A i \in 1..Len(axes) : row[axes[i].name] \in ToSet(axes[i].values)
      <4> TAKE i \in 1..Len(axes)
      <4>1. row[axes[i].name] = axes[i].values[1]
        <5>1. row[axes[i].name] = axes[At(axes[i].name)].values[1]
          BY <2>2
        <5>2. QED
          BY <2>2, <5>1
      <4>2. axes[i].values[1] \in ToSet(axes[i].values)
        BY AxisValues
      <4>3. QED
        BY <4>1, <4>2
    <3>2. row = [x \in Names(axes, Len(axes)) |-> row[x]]
      OBVIOUS
    <3> HIDE DEF row
    <3>3. QED
      BY <1>0, <3>1, <3>2, RowIsOver
  <2> HIDE DEF row
  <2>4. <<row>> \in Seq(RowsOver(axes, Len(axes))) /\ Len(<<row>>) = 1 /\ DOMAIN <<row>> = 1..1
    BY <2>3
  <2>5. QED
    BY <1>2, <2>1, <2>4 DEF IsInjective
<1>3. QED
  BY <1>1, <1>2

-----------------------------------------------------------------------------
(* The pairs of an axis with the earlier ones.                             *)

IsPair(axes, next, pair) ==
  /\ pair.axis \in 1..next - 1 /\ pair.value \in ToSet(axes[pair.axis].values)
  /\ pair.with \in ToSet(axes[next].values)
  /\ pair = [axis |-> pair.axis, value |-> pair.value, with |-> pair.with]

(* A pair is the value of an earlier axis with one of the next.            *)
LEMMA PairIs ==
  ASSUME NEW axes, NEW next
  PROVE  \A pair : pair \in PairsWithAxis(axes, next) <=> IsPair(axes, next, pair)
<1>1. ASSUME NEW pair \in PairsWithAxis(axes, next) PROVE IsPair(axes, next, pair)
  BY DEF PairsWithAxis, IsPair
<1>2. ASSUME NEW pair, IsPair(axes, next, pair) PROVE pair \in PairsWithAxis(axes, next)
  <2>1. pair \in [axis : {pair.axis}, value : ToSet(axes[pair.axis].values), with : ToSet(axes[next].values)]
    BY <1>2 DEF IsPair
  <2>2. QED
    BY <1>2, <2>1 DEF PairsWithAxis, IsPair
<1>3. QED
  BY <1>1, <1>2

(* There are finitely many.                                                *)
LEMMA PairsAreFinite ==
  ASSUME NEW axes, IsNormal(axes), NEW next \in 1..Len(axes)
  PROVE  IsFiniteSet(PairsWithAxis(axes, next))
<1> DEFINE V(p) == ToSet(axes[p].values)
           PairsOf(p) == [axis : {p}, value : V(p), with : V(next)]
           parts == {PairsOf(p) : p \in 1..next - 1}
<1>0. Len(axes) \in Nat /\ next \in Nat /\ \A p \in 1..Len(axes) : IsFiniteSet(V(p))
  <2>1. Len(axes) \in Nat
    BY DEF IsNormal
  <2>2. \A p \in 1..Len(axes) : IsFiniteSet(V(p))
    BY AxisValues
  <2> HIDE DEF V
  <2>3. QED
    BY <2>1, <2>2
<1>1. ASSUME NEW p \in 1..next - 1 PROVE IsFiniteSet(PairsOf(p))
  <2> DEFINE f == [x \in V(p) \X V(next) |-> [axis |-> p, value |-> x[1], with |-> x[2]]]
  <2>1. IsFiniteSet(V(p)) /\ IsFiniteSet(V(next))
    BY <1>0
  <2>2. IsFiniteSet(V(p) \X V(next))
    BY <2>1, FS_Product
  <2>3. f \in Surjection(V(p) \X V(next), PairsOf(p))
    <3> HIDE DEF V
    <3>1. f \in [V(p) \X V(next) -> PairsOf(p)]
      OBVIOUS
    <3>2. ASSUME NEW y \in PairsOf(p) PROVE \E x \in V(p) \X V(next) : f[x] = y
      <4>1. <<y.value, y.with>> \in V(p) \X V(next) /\ y = [axis |-> p, value |-> y.value, with |-> y.with]
        OBVIOUS
      <4>2. f[<<y.value, y.with>>] = y
        BY <4>1
      <4>3. QED
        BY <4>1, <4>2
    <3> HIDE DEF f, Of
    <3>3. QED
      BY <3>1, <3>2 DEF Surjection
  <2> HIDE DEF f, Of
  <2>4. QED
    BY <2>2, <2>3, FS_Surjection
<1>2. IsFiniteSet(parts)
  <2> DEFINE f == [p \in 1..next - 1 |-> PairsOf(p)]
  <2> HIDE DEF Of
  <2>1. f \in Surjection(1..next - 1, parts)
    BY DEF Surjection
  <2>2. IsFiniteSet(1..next - 1)
    BY <1>0, FS_Interval
  <2> HIDE DEF f, parts
  <2>3. QED
    BY <2>1, <2>2, FS_Surjection
<1>3. IsFiniteSet(UNION parts)
  <2> HIDE DEF Of
  <2>1. \A part \in parts : IsFiniteSet(part)
    BY <1>1
  <2> HIDE DEF parts
  <2>2. QED
    BY <1>2, <2>1, FS_UNION
<1>4. QED
  BY <1>3 DEF PairsWithAxis

(* There is a value that covers the most, and the first such is chosen.    *)
LEMMA BestValueIsValue ==
  ASSUME NEW axes, IsNormal(axes), NEW next \in 1..Len(axes), NEW row,
         NEW uncovered \in SUBSET PairsWithAxis(axes, next)
  PROVE  BestValue(row, axes, next, uncovered) \in ToSet(axes[next].values)
<1> DEFINE values == axes[next].values
           Score(v) == Cardinality(uncovered \cap Covered(With(row, axes[next].name, v), axes, next))
           Best(i) == /\ \A j \in DOMAIN values : Score(values[j]) <= Score(values[i])
                      /\ \A j \in 1..i - 1 : Score(values[j]) < Score(values[i])
           size == Len(values)
           T == {Score(values[j]) : j \in 1..size}
<1>0. /\ size \in Nat \ {0} /\ DOMAIN values = 1..size
      /\ \A j \in 1..size : values[j] \in ToSet(values)
  BY AxisValues
<1>1. BestValue(row, axes, next, uncovered) = values[CHOOSE i \in DOMAIN values : Best(i)]
  BY DEF BestValue
<1>2. IsFiniteSet(uncovered) /\ Cardinality(uncovered) \in Nat
  BY PairsAreFinite, FS_Subset, FS_CardinalityType
<1>3. \A v : Score(v) \in Nat /\ Score(v) <= Cardinality(uncovered)
  <2> TAKE v
  <2> DEFINE c == Covered(With(row, axes[next].name, v), axes, next)
  <2> HIDE DEF c
  <2>1. IsFiniteSet(uncovered \cap c) /\ Cardinality(uncovered \cap c) <= Cardinality(uncovered)
    BY <1>2, FS_Intersection
  <2>2. Cardinality(uncovered \cap c) \in Nat
    BY <2>1, FS_CardinalityType
  <2>3. QED
    BY <2>1, <2>2 DEF c
<1> HIDE DEF Score, values, size
<1>4. T \in SUBSET Nat /\ T # {} /\ \A t \in T : t <= Cardinality(uncovered)
  <2>1. 1 \in 1..size
    BY <1>0
  <2>2. QED
    BY <1>3, <2>1
<1> HIDE DEF T
<1>5. Max(T) \in T /\ \A y \in T : y <= Max(T)
  <2>1. IsFiniteSet(T)
    BY <1>2, <1>4, FS_BoundedSetOfNaturals
  <2>2. QED
    BY <1>4, <2>1, MaxIsLargest
<1> DEFINE m == Max(T)
           I == {j \in 1..size : Score(values[j]) = m}
<1>6. PICK i \in I : \A j \in I : i <= j
  <2>1. PICK t \in T : t = m
    BY <1>5
  <2>2. PICK j \in 1..size : Score(values[j]) = t
    BY DEF T
  <2> HIDE DEF m
  <2>3. j \in I
    BY <2>1, <2>2
  <2>4. I \in SUBSET Nat
    BY <1>0
  <2> HIDE DEF I
  <2>5. QED
    BY <2>3, <2>4, LeastNumber
<1>7. Best(i)
  <2>0. i \in 1..size /\ Score(values[i]) = m /\ m \in Nat
    BY <1>4, <1>5, <1>6
  <2>1. \A j \in 1..size : Score(values[j]) <= m
    BY <1>5 DEF T
  <2> HIDE DEF m
  <2>2. ASSUME NEW j \in 1..i - 1 PROVE Score(values[j]) < m
    <3>1. j \in 1..size /\ j \in Nat /\ i \in Nat /\ j < i
      BY <1>0, <2>0
    <3>2. j \notin I
      BY <1>6, <3>1
    <3>3. Score(values[j]) # m
      BY <3>1, <3>2
    <3>4. Score(values[j]) \in Nat /\ Score(values[j]) <= m
      BY <1>3, <2>1, <3>1
    <3>5. QED
      BY <2>0, <3>3, <3>4
  <2>3. QED
    BY <1>0, <2>0, <2>1, <2>2
<1>8. i \in DOMAIN values
  BY <1>0, <1>6
<1> HIDE DEF Best, I
<1>9. (CHOOSE k \in DOMAIN values : Best(k)) \in DOMAIN values
  BY <1>7, <1>8
<1>10. QED
  BY <1>0, <1>1, <1>9 DEF values

(* There is a first pair.                                                  *)
LEMMA FirstPairIsUncovered ==
  ASSUME NEW axes, IsNormal(axes), NEW next \in 1..Len(axes),
         NEW uncovered \in SUBSET PairsWithAxis(axes, next), uncovered # {}
  PROVE  FirstUncoveredPair(uncovered) \in uncovered
<1>0. /\ Len(axes) \in Nat /\ next \in Nat
      /\ \A i \in 1..Len(axes) : ToSet(axes[i].values) \subseteq Nat \ {0}
  <2>1. Len(axes) \in Nat
    BY DEF IsNormal
  <2>2. \A i \in 1..Len(axes) : ToSet(axes[i].values) \subseteq Nat \ {0}
    BY AxisValues
  <2>3. QED
    BY <2>1, <2>2
<1>1. \A p \in uncovered : /\ p.axis \in Nat /\ p.value \in Nat /\ p.with \in Nat
                           /\ p = [axis |-> p.axis, value |-> p.value, with |-> p.with]
  <2> TAKE p \in uncovered
  <2>1. IsPair(axes, next, p)
    BY PairIs
  <2>2. p.axis \in 1..Len(axes)
    BY <1>0, <2>1 DEF IsPair
  <2>3. QED
    BY <1>0, <2>1, <2>2 DEF IsPair
<1> DEFINE W == {p.with : p \in uncovered}
<1>2. PICK w \in W : \A x \in W : w <= x
  <2>1. W \in SUBSET Nat /\ W # {}
    BY <1>1
  <2> HIDE DEF W
  <2>2. QED
    BY <2>1, LeastNumber
<1> DEFINE A == {p.axis : p \in {q \in uncovered : q.with = w}}
<1>3. PICK a \in A : \A x \in A : a <= x
  <2>1. A \in SUBSET Nat /\ A # {}
    BY <1>1, <1>2
  <2> HIDE DEF A
  <2>2. QED
    BY <2>1, LeastNumber
<1> DEFINE V == {p.value : p \in {q \in uncovered : q.with = w /\ q.axis = a}}
<1>4. PICK v \in V : \A x \in V : v <= x
  <2>1. V \in SUBSET Nat /\ V # {}
    BY <1>1, <1>3
  <2> HIDE DEF V
  <2>2. QED
    BY <2>1, LeastNumber
<1>5. PICK p \in uncovered : p.with = w /\ p.axis = a /\ p.value = v
  BY <1>4
<1>6. \A q \in uncovered \ {p} : Precedes(p, q)
  <2> TAKE q \in uncovered \ {p}
  <2>1. w <= q.with /\ (q.with = w => a <= q.axis) /\ (q.with = w /\ q.axis = a => v <= q.value)
    BY <1>2, <1>3, <1>4
  <2>2. q.with = w /\ q.axis = a => q.value # v
    BY <1>1, <1>5
  <2>3. /\ q.axis \in Nat /\ q.value \in Nat /\ q.with \in Nat
        /\ p.axis \in Nat /\ p.value \in Nat /\ p.with \in Nat
    BY <1>1
  <2>4. QED
    BY <1>5, <2>1, <2>2, <2>3 DEF Precedes
<1>7. \E q \in uncovered : \A r \in uncovered \ {q} : Precedes(q, r)
  BY <1>6
<1>8. QED
  BY <1>7 DEF FirstUncoveredPair

(* The row for a pair is a row, and has the pair.                          *)
LEMMA RowForIsOver ==
  ASSUME NEW axes, IsNormal(axes), NEW next \in 1..Len(axes),
         NEW pair \in PairsWithAxis(axes, next), NEW uncovered
  PROVE  /\ RowFor(pair, axes, next, uncovered) \in RowsOver(axes, next)
         /\ pair \in Covered(RowFor(pair, axes, next, uncovered), axes, next)
<1> DEFINE Open(p) == {v \in ToSet(axes[p].values) :
                         [axis |-> p, value |-> v, with |-> pair.with] \in uncovered}
           Chosen(p) == IF p = pair.axis THEN pair.value
                       ELSE IF Open(p) # {} THEN Min(Open(p)) ELSE axes[p].values[1]
           Number(x) == CHOOSE i \in 1..next : axes[i].name = x
           row == RowFor(pair, axes, next, uncovered)
<1>0. Len(axes) \in Nat /\ next \in Nat /\ next \in 1..next
  BY DEF IsNormal
<1>1. row = [x \in Names(axes, next) |-> IF Number(x) = next THEN pair.with ELSE Chosen(Number(x))]
  BY DEF RowFor, Names
<1>2. \A i \in 1..next : Number(axes[i].name) = i /\ axes[i].name \in Names(axes, next) /\ i \in 1..Len(axes)
  BY <1>0 DEF IsNormal, Names
<1>3. /\ pair.axis \in 1..next - 1 /\ pair.value \in ToSet(axes[pair.axis].values)
      /\ pair.with \in ToSet(axes[next].values)
      /\ pair = [axis |-> pair.axis, value |-> pair.value, with |-> pair.with]
  BY PairIs DEF IsPair
<1>4. \A p \in 1..Len(axes) : Chosen(p) \in ToSet(axes[p].values)
  <2> TAKE p \in 1..Len(axes)
  <2>1. CASE p = pair.axis
    BY <1>3, <2>1
  <2>2. CASE p # pair.axis /\ Open(p) # {}
    <3>1. Open(p) \in SUBSET Nat
      BY AxisValues
    <3>2. Min(Open(p)) \in Open(p)
      <4> HIDE DEF Open
      <4>1. QED
        BY <2>2, <3>1, MinIsLeast
    <3>3. QED
      BY <2>2, <3>2
  <2>3. CASE p # pair.axis /\ Open(p) = {}
    <3>1. axes[p].values[1] \in ToSet(axes[p].values)
      BY AxisValues
    <3>2. QED
      BY <2>3, <3>1
  <2>4. QED
    BY <2>1, <2>2, <2>3
<1>5. Chosen(pair.axis) = pair.value
  OBVIOUS
<1> HIDE DEF row, Value, Number
<1>6. \A i \in 1..next : row[axes[i].name] = IF i = next THEN pair.with ELSE Chosen(i)
  <2> TAKE i \in 1..next
  <2>1. Number(axes[i].name) = i /\ axes[i].name \in Names(axes, next)
    BY <1>2
  <2>2. row[axes[i].name] = IF Number(axes[i].name) = next THEN pair.with ELSE Chosen(Number(axes[i].name))
    BY <1>1, <2>1
  <2>3. QED
    BY <2>1, <2>2
<1>7. \A i \in 1..next : row[axes[i].name] \in ToSet(axes[i].values)
  BY <1>2, <1>3, <1>4, <1>6
<1>8. row \in RowsOver(axes, next)
  <2>1. row = [x \in Names(axes, next) |-> row[x]]
    BY <1>1
  <2>2. QED
    BY <1>0, <1>7, <2>1, RowIsOver
<1>9. pair \in Covered(row, axes, next)
  <2>1. pair.axis \in 1..next /\ pair.axis # next
    BY <1>0, <1>3
  <2>2. row[axes[pair.axis].name] = pair.value /\ row[axes[next].name] = pair.with
    BY <1>0, <1>5, <1>6, <2>1
  <2>3. QED
    BY <1>3, <2>2 DEF Covered
<1>10. QED
  BY <1>8, <1>9 DEF row

-----------------------------------------------------------------------------
(* Pairwise generation.                                                    *)

(* The pairs of an axis that no row has.                                   *)
OpenPairs(rows, axes, next) ==
  {pair \in PairsWithAxis(axes, next) : \A i \in 1..Len(rows) : pair \notin Covered(rows[i], axes, next)}

(* Rows are the same when they give every axis the same value.             *)
LEMMA SameRow ==
  ASSUME NEW axes, NEW n \in Nat, NEW row \in RowsOver(axes, n), NEW other \in RowsOver(axes, n),
         \A i \in 1..n : row[axes[i].name] = other[axes[i].name]
  PROVE  row = other
<1>1. /\ row = [x \in Names(axes, n) |-> row[x]] /\ other = [x \in Names(axes, n) |-> other[x]]
  BY RowOver
<1>2. \A x \in Names(axes, n) : row[x] = other[x]
  BY DEF Names
<1>3. QED
  BY <1>1, <1>2

(* What is not covered yet is kept.                                        *)
LEMMA WithRowKeeps ==
  ASSUME NEW T, NEW done, NEW axes, NEW next, NEW row \in T, done.rows \in Seq(T),
         done.uncovered = OpenPairs(done.rows, axes, next)
  PROVE  LET w == WithRow(done, row, axes, next)
         IN /\ w.rows \in Seq(T) /\ Len(w.rows) = Len(done.rows) + 1
            /\ w.rows[Len(done.rows) + 1] = row
            /\ \A i \in 1..Len(done.rows) : w.rows[i] = done.rows[i]
            /\ w.uncovered = OpenPairs(w.rows, axes, next)
<1> DEFINE w == WithRow(done, row, axes, next)
           old == done.rows
<1>1. w.rows = Append(old, row) /\ w.uncovered = done.uncovered \ Covered(row, axes, next)
  BY DEF WithRow
<1>2. Len(old) \in Nat
  OBVIOUS
<1> HIDE DEF w, old
<1>3. /\ w.rows \in Seq(T) /\ Len(w.rows) = Len(old) + 1 /\ w.rows[Len(old) + 1] = row
      /\ \A i \in 1..Len(old) : w.rows[i] = old[i]
  BY <1>1 DEF old
<1>4. \A pair : (\A i \in 1..Len(w.rows) : pair \notin Covered(w.rows[i], axes, next))
                  <=> /\ \A i \in 1..Len(old) : pair \notin Covered(old[i], axes, next)
                      /\ pair \notin Covered(row, axes, next)
  <2> DEFINE n == Len(old)
  <2>1. \A i : i \in 1..n + 1 <=> i \in 1..n \/ i = n + 1
    BY <1>2
  <2>2. Len(w.rows) = n + 1
    BY <1>3
  <2> HIDE DEF n
  <2>3. QED
    BY <1>3, <2>1, <2>2 DEF n
<1>5. w.uncovered = OpenPairs(w.rows, axes, next)
  BY <1>1, <1>4 DEF OpenPairs, old
<1>6. QED
  BY <1>3, <1>5 DEF w, old

(* The rounds of the two ways to grow rows.                                *)
HorizontalRounds(done, rows, axes, next) ==
  done = [n \in 0..Len(rows) |->
             IF n = 0 THEN [rows |-> <<>>, uncovered |-> PairsWithAxis(axes, next)]
             ELSE WithRow(done[n - 1],
                          With(rows[n], axes[next].name,
                               BestValue(rows[n], axes, next, done[n - 1].uncovered)),
                          axes, next)]

(* The recursive function of GrowHorizontally is there.                    *)
LEMMA HorizontalUnfolds ==
  ASSUME NEW rows, Len(rows) \in Nat, NEW axes, NEW next
  PROVE  \E done : /\ HorizontalRounds(done, rows, axes, next)
                   /\ GrowHorizontally(rows, axes, next) = done[Len(rows)]
<1> DEFINE base == [rows |-> <<>>, uncovered |-> PairsWithAxis(axes, next)]
           Round(done, n) == WithRow(done, With(rows[n], axes[next].name,
                                               BestValue(rows[n], axes, next, done.uncovered)), axes, next)
           Is(f, m) == f = [n \in 0..m |-> IF n = 0 THEN base ELSE Round(f[n - 1], n)]
           S == {m \in Nat : \E f : Is(f, m)}
<1> HIDE DEF Round, base
<1>1. 0 \in S
  <2>1. Is([n \in 0..0 |-> base], 0)
    OBVIOUS
  <2>2. QED
    BY <2>1
<1>2. ASSUME NEW m \in S PROVE m + 1 \in S
  <2>1. PICK f : Is(f, m)
    OBVIOUS
  <2> DEFINE g == [n \in 0..m + 1 |-> IF n <= m THEN f[n] ELSE Round(f[m], m + 1)]
  <2>2. Is(g, m + 1)
    BY <2>1
  <2>3. \E f1 : Is(f1, m + 1)
    <3> HIDE DEF g, Is
    <3>1. QED
      BY <2>2
  <2>4. QED
    <3> HIDE DEF Is
    <3>1. QED
      BY <2>3
<1>3. Len(rows) \in S
  <2> HIDE DEF S
  <2>1. S \in SUBSET Nat
    BY DEF S
  <2>2. QED
    BY <1>1, <1>2, <2>1, SetInduction
<1>4. PICK f : f = [n \in 0..Len(rows) |-> IF n = 0 THEN base ELSE Round(f[n - 1], n)]
  BY <1>3
<1> DEFINE done == CHOOSE g : g = [n \in 0..Len(rows) |-> IF n = 0 THEN base ELSE Round(g[n - 1], n)]
<1>5. done = [n \in 0..Len(rows) |-> IF n = 0 THEN base ELSE Round(done[n - 1], n)]
  BY <1>4
<1>6. GrowHorizontally(rows, axes, next) = done[Len(rows)]
  BY DEF GrowHorizontally, base, Round
<1>7. HorizontalRounds(done, rows, axes, next)
  BY <1>5 DEF HorizontalRounds, base, Round
<1> HIDE DEF done
<1>8. QED
  BY <1>6, <1>7

(* Every row goes on, and no two become one.                               *)
LEMMA HorizontalRows ==
  ASSUME NEW axes, IsNormal(axes), NEW next \in 1..Len(axes),
         NEW rows \in Seq(RowsOver(axes, next - 1)), IsInjective(rows)
  PROVE  LET g == GrowHorizontally(rows, axes, next)
         IN /\ g.rows \in Seq(RowsOver(axes, next)) /\ Len(g.rows) = Len(rows)
            /\ IsInjective(g.rows)
            /\ g.uncovered = OpenPairs(g.rows, axes, next)
            /\ \A i \in 1..Len(rows) : \A j \in 1..next - 1 :
                 g.rows[i][axes[j].name] = rows[i][axes[j].name]
<1>0. Len(rows) \in Nat /\ DOMAIN rows = 1..Len(rows) /\ next \in Nat /\ next - 1 \in Nat
  BY DEF IsNormal
<1>1. PICK done : /\ HorizontalRounds(done, rows, axes, next)
                  /\ GrowHorizontally(rows, axes, next) = done[Len(rows)]
  BY <1>0, HorizontalUnfolds
<1> DEFINE len == Len(rows)
           name == axes[next].name
           base == [rows |-> <<>>, uncovered |-> PairsWithAxis(axes, next)]
           Extended(n) == With(rows[n], name, BestValue(rows[n], axes, next, done[n - 1].uncovered))
           Round(n) == IF n = 0 THEN base ELSE WithRow(done[n - 1], Extended(n), axes, next)
<1>2. done = [n \in 0..len |-> Round(n)]
  BY <1>1 DEF HorizontalRounds
<1>3. done[0] = base
  <2>1. 0 \in 0..len
    BY <1>0
  <2>2. done[0] = Round(0)
    <3> HIDE DEF Round
    <3>1. QED
      BY <1>2, <2>1
  <2>3. QED
    BY <2>2
<1>4. \A n \in 1..len : done[n] = WithRow(done[n - 1], Extended(n), axes, next)
  <2> TAKE n \in 1..len
  <2>1. n \in 0..len /\ n # 0
    BY <1>0
  <2>2. done[n] = Round(n)
    <3> HIDE DEF Round
    <3>1. QED
      BY <1>2, <2>1
  <2>3. QED
    BY <2>1, <2>2
<1> DEFINE Kept(new, old) == \A j \in 1..next - 1 : new[axes[j].name] = old[axes[j].name]
           K(n) == /\ done[n].rows \in Seq(RowsOver(axes, next)) /\ Len(done[n].rows) = n
                   /\ done[n].uncovered = OpenPairs(done[n].rows, axes, next)
                   /\ \A i \in 1..n : Kept(done[n].rows[i], rows[i])
           S == {n \in Nat : n <= len => K(n)}
<1>5. K(0)
  <2>1. OpenPairs(<<>>, axes, next) = PairsWithAxis(axes, next)
    BY DEF OpenPairs
  <2>2. base.rows = <<>> /\ base.uncovered = PairsWithAxis(axes, next)
    OBVIOUS
  <2> HIDE DEF base
  <2>3. QED
    BY <1>3, <2>1, <2>2
<1>6. ASSUME NEW n \in 1..len, K(n - 1) PROVE K(n)
  <2>1. PICK k, old : k = n - 1 /\ old = done[k]
    OBVIOUS
  <2>2. /\ old.rows \in Seq(RowsOver(axes, next)) /\ Len(old.rows) = k
        /\ old.uncovered = OpenPairs(old.rows, axes, next)
        /\ \A i \in 1..k : Kept(old.rows[i], rows[i])
        /\ k \in Nat /\ k + 1 = n
    BY SMTT(30), <1>0, <1>6, <2>1
  <2> DEFINE v == BestValue(rows[n], axes, next, old.uncovered)
             row == With(rows[n], name, v)
  <2>3. v \in ToSet(axes[next].values)
    <3>1. old.uncovered \in SUBSET PairsWithAxis(axes, next)
      BY <2>2 DEF OpenPairs
    <3>2. QED
      BY <3>1, BestValueIsValue
  <2>4. row \in RowsOver(axes, next) /\ Kept(row, rows[n])
    <3>1. rows[n] \in RowsOver(axes, next - 1)
      BY <1>0
    <3> HIDE DEF v
    <3>2. QED
      BY <2>3, <3>1, WithIsOver
  <2>5. done[n] = WithRow(old, row, axes, next)
    BY <1>4, <2>1
  <2> HIDE DEF row, Kept, K
  <2>9. PICK w : w = WithRow(old, row, axes, next)
    OBVIOUS
  <2>10. PICK T : T = RowsOver(axes, next)
    OBVIOUS
  <2>11. old.rows \in Seq(T) /\ row \in T /\ old.uncovered = OpenPairs(old.rows, axes, next)
    BY <2>2, <2>4, <2>10
  <2>12. /\ w.rows \in Seq(T) /\ Len(w.rows) = Len(old.rows) + 1
         /\ w.rows[Len(old.rows) + 1] = row
         /\ \A i \in 1..Len(old.rows) : w.rows[i] = old.rows[i]
         /\ w.uncovered = OpenPairs(w.rows, axes, next)
    BY <2>9, <2>11, WithRowKeeps
  <2>6. /\ done[n].rows \in Seq(RowsOver(axes, next)) /\ Len(done[n].rows) = k + 1
        /\ done[n].rows[k + 1] = row
        /\ \A i \in 1..k : done[n].rows[i] = old.rows[i]
        /\ done[n].uncovered = OpenPairs(done[n].rows, axes, next)
    BY <2>2, <2>5, <2>9, <2>10, <2>12
  <2>7. \A i \in 1..n : Kept(done[n].rows[i], rows[i])
    <3> TAKE i \in 1..n
    <3>1. i = k + 1 \/ i \in 1..k
      BY <2>2
    <3>2. QED
      BY <2>2, <2>4, <2>6, <3>1
  <2>8. QED
    BY <2>2, <2>6, <2>7 DEF K
<1> HIDE DEF K
<1>7. S = Nat
  <2>1. 0 \in S
    BY <1>5
  <2>2. ASSUME NEW n \in S PROVE n + 1 \in S
    <3>1. ASSUME n + 1 <= len PROVE K(n + 1)
      <4>1. PICK m : m = n + 1
        OBVIOUS
      <4>2. m \in 1..len /\ m - 1 = n /\ n <= len
        BY <1>0, <3>1, <4>1
      <4>3. K(m - 1)
        BY <4>2
      <4>4. QED
        BY <1>6, <4>1, <4>2, <4>3
    <3>2. QED
      BY <3>1
  <2> HIDE DEF S
  <2>3. S \in SUBSET Nat
    BY DEF S
  <2>4. QED
    BY <2>1, <2>2, <2>3, SetInduction
<1>8. K(len)
  BY <1>0, <1>7
<1>9. PICK g : g = done[len] /\ g = GrowHorizontally(rows, axes, next)
  BY <1>1
<1> HIDE DEF len
<1>10. /\ g.rows \in Seq(RowsOver(axes, next)) /\ Len(g.rows) = len
       /\ g.uncovered = OpenPairs(g.rows, axes, next)
       /\ \A i \in 1..len : Kept(g.rows[i], rows[i])
  BY <1>8, <1>9 DEF K
<1>11. IsInjective(g.rows)
  <2> SUFFICES ASSUME NEW a \in 1..len, NEW b \in 1..len, g.rows[a] = g.rows[b] PROVE a = b
    BY <1>10 DEF IsInjective
  <2>1. rows[a] \in RowsOver(axes, next - 1) /\ rows[b] \in RowsOver(axes, next - 1)
    BY <1>0 DEF len
  <2>2. \A j \in 1..next - 1 : rows[a][axes[j].name] = rows[b][axes[j].name]
    BY SMTT(30), <1>10
  <2>3. rows[a] = rows[b]
    BY <1>0, <2>1, <2>2, SameRow
  <2>4. QED
    BY <1>0, <2>3 DEF IsInjective, len
<1>12. \A i \in 1..len : \A j \in 1..next - 1 : g.rows[i][axes[j].name] = rows[i][axes[j].name]
  BY <1>10
<1>13. QED
  BY <1>9, <1>10, <1>11, <1>12 DEF len

NextRound(done, axes, next, limit) ==
  IF done.uncovered = {} \/ Len(done.rows) >= limit THEN done
  ELSE WithRow(done, RowFor(FirstUncoveredPair(done.uncovered), axes, next, done.uncovered), axes, next)

VerticalRounds(done, grown, axes, next, limit) ==
  done = [n \in 0..limit |-> IF n = 0 THEN grown ELSE NextRound(done[n - 1], axes, next, limit)]

(* The recursive function of GrowVertically is there.                      *)
LEMMA VerticalUnfolds ==
  ASSUME NEW grown, NEW axes, NEW next, NEW limit \in Nat
  PROVE  \E done : /\ VerticalRounds(done, grown, axes, next, limit)
                   /\ GrowVertically(grown, axes, next, limit) = done[limit].rows
<1> DEFINE Round(done) == NextRound(done, axes, next, limit)
           Is(f, m) == f = [n \in 0..m |-> IF n = 0 THEN grown ELSE Round(f[n - 1])]
           S == {m \in Nat : \E f : Is(f, m)}
<1> HIDE DEF Round
<1>1. 0 \in S
  <2>1. Is([n \in 0..0 |-> grown], 0)
    OBVIOUS
  <2>2. QED
    BY <2>1
<1>2. ASSUME NEW m \in S PROVE m + 1 \in S
  <2>1. PICK f : Is(f, m)
    OBVIOUS
  <2> DEFINE g == [n \in 0..m + 1 |-> IF n <= m THEN f[n] ELSE Round(f[m])]
  <2>2. Is(g, m + 1)
    BY <2>1
  <2>3. \E f1 : Is(f1, m + 1)
    <3> HIDE DEF g, Is
    <3>1. QED
      BY <2>2
  <2>4. QED
    <3> HIDE DEF Is
    <3>1. QED
      BY <2>3
<1>3. limit \in S
  <2> HIDE DEF S
  <2>1. S \in SUBSET Nat
    BY DEF S
  <2>2. QED
    BY <1>1, <1>2, <2>1, SetInduction
<1>4. PICK f : f = [n \in 0..limit |-> IF n = 0 THEN grown ELSE Round(f[n - 1])]
  BY <1>3
<1> DEFINE done == CHOOSE g : g = [n \in 0..limit |-> IF n = 0 THEN grown ELSE Round(g[n - 1])]
<1>5. done = [n \in 0..limit |-> IF n = 0 THEN grown ELSE Round(done[n - 1])]
  BY <1>4
<1>6. GrowVertically(grown, axes, next, limit) = done[limit].rows
  BY DEF GrowVertically, Round, NextRound
<1>7. VerticalRounds(done, grown, axes, next, limit)
  BY <1>5 DEF VerticalRounds, Round
<1> HIDE DEF done
<1>8. QED
  BY <1>6, <1>7

(* What the rounds keep.                                                   *)
Covering(done, grown, axes, next, limit) ==
  /\ done.rows \in Seq(RowsOver(axes, next)) /\ IsInjective(done.rows)
  /\ Len(grown.rows) <= Len(done.rows) /\ Len(done.rows) <= limit
  /\ \A i \in 1..Len(grown.rows) : done.rows[i] = grown.rows[i]
  /\ done.uncovered = OpenPairs(done.rows, axes, next)

(* A round keeps that, and adds a row unless it is done.                   *)
LEMMA RoundKeeps ==
  ASSUME NEW axes, IsNormal(axes), NEW next \in 1..Len(axes), NEW limit \in Nat,
         NEW grown, Len(grown.rows) \in Nat,
         NEW done, Covering(done, grown, axes, next, limit)
  PROVE  LET after == NextRound(done, axes, next, limit)
         IN /\ Covering(after, grown, axes, next, limit)
            /\ IF done.uncovered = {} \/ Len(done.rows) >= limit THEN after = done
               ELSE Len(after.rows) = Len(done.rows) + 1
<1> DEFINE after == NextRound(done, axes, next, limit)
<1>1. CASE done.uncovered = {} \/ Len(done.rows) >= limit
  BY <1>1 DEF NextRound
<1>2. CASE ~(done.uncovered = {} \/ Len(done.rows) >= limit)
  <2> DEFINE pair == FirstUncoveredPair(done.uncovered)
             row == RowFor(pair, axes, next, done.uncovered)
  <2>1. after = WithRow(done, row, axes, next)
    BY <1>2 DEF NextRound
  <2>2. done.uncovered \in SUBSET PairsWithAxis(axes, next) /\ done.uncovered # {}
    BY <1>2 DEF Covering, OpenPairs
  <2>3. pair \in done.uncovered
    BY <2>2, FirstPairIsUncovered
  <2>4. /\ pair \in PairsWithAxis(axes, next)
        /\ \A i \in 1..Len(done.rows) : pair \notin Covered(done.rows[i], axes, next)
    <3> HIDE DEF pair
    <3>1. QED
      BY <2>3 DEF Covering, OpenPairs
  <2> HIDE DEF pair
  <2>5. row \in RowsOver(axes, next) /\ pair \in Covered(row, axes, next)
    BY <2>4, RowForIsOver
  <2> HIDE DEF row, after
  <2>6. PICK T : T = RowsOver(axes, next)
    OBVIOUS
  <2>7. /\ done.rows \in Seq(T) /\ row \in T /\ done.uncovered = OpenPairs(done.rows, axes, next)
        /\ Len(done.rows) \in Nat /\ DOMAIN done.rows = 1..Len(done.rows)
    BY <2>5, <2>6 DEF Covering
  <2>8. /\ after.rows \in Seq(T) /\ Len(after.rows) = Len(done.rows) + 1
        /\ after.rows[Len(done.rows) + 1] = row
        /\ \A i \in 1..Len(done.rows) : after.rows[i] = done.rows[i]
        /\ after.uncovered = OpenPairs(after.rows, axes, next)
    BY SMTT(30), <2>1, <2>7, WithRowKeeps
  <2> DEFINE len == Len(done.rows)
  <2>9. \A i \in 1..len : done.rows[i] # row
    BY <2>4, <2>5
  <2>10. IsInjective(after.rows)
    <3>1. DOMAIN after.rows = 1..len + 1
      BY <2>8
    <3>2. IsInjective(done.rows)
      BY DEF Covering
    <3>3. \A i \in 1..len + 1 : i \in 1..len \/ i = len + 1
      BY <2>7
    <3>4. \A a, b \in 1..len + 1 : after.rows[a] = after.rows[b] => a = b
      <4> HIDE DEF len
      <4> TAKE a, b \in 1..len + 1
      <4>1. CASE a \in 1..len /\ b \in 1..len
        BY <2>7, <2>8, <3>2, <4>1 DEF IsInjective, len
      <4>2. CASE a = len + 1 /\ b \in 1..len
        BY <2>8, <2>9, <4>2 DEF len
      <4>3. CASE b = len + 1 /\ a \in 1..len
        BY <2>8, <2>9, <4>3 DEF len
      <4>4. QED
        BY <3>3, <4>1, <4>2, <4>3
    <3>5. QED
      BY <3>1, <3>4 DEF IsInjective
  <2>11. \A i \in 1..Len(grown.rows) : after.rows[i] = grown.rows[i]
    BY <2>7, <2>8 DEF Covering
  <2>12. Len(grown.rows) <= Len(after.rows) /\ Len(after.rows) <= limit
    BY <1>2, <2>7, <2>8 DEF Covering
  <2>13. Covering(after, grown, axes, next, limit)
    BY <2>6, <2>8, <2>10, <2>11, <2>12 DEF Covering
  <2>14. QED
    BY <1>2, <2>8, <2>13 DEF after
<1>3. QED
  BY <1>1, <1>2

(* Rows are added until every pair is covered or the limit is reached.     *)
LEMMA VerticalRows ==
  ASSUME NEW axes, IsNormal(axes), NEW next \in 1..Len(axes), NEW limit \in Nat,
         NEW grown, grown.rows \in Seq(RowsOver(axes, next)), IsInjective(grown.rows),
         Len(grown.rows) <= limit, grown.uncovered = OpenPairs(grown.rows, axes, next)
  PROVE  LET v == GrowVertically(grown, axes, next, limit)
         IN /\ v \in Seq(RowsOver(axes, next)) /\ IsInjective(v)
            /\ Len(grown.rows) <= Len(v) /\ Len(v) <= limit
            /\ \A i \in 1..Len(grown.rows) : v[i] = grown.rows[i]
            /\ Len(v) < limit => OpenPairs(v, axes, next) = {}
<1>1. PICK done : /\ VerticalRounds(done, grown, axes, next, limit)
                  /\ GrowVertically(grown, axes, next, limit) = done[limit].rows
  BY VerticalUnfolds
<1> DEFINE Round(n) == IF n = 0 THEN grown ELSE NextRound(done[n - 1], axes, next, limit)
<1>2. done = [n \in 0..limit |-> Round(n)]
  BY <1>1 DEF VerticalRounds
<1>3. done[0] = grown
  <2>1. done[0] = Round(0)
    <3> HIDE DEF Round
    <3>1. QED
      BY <1>2
  <2>2. QED
    BY <2>1
<1>4. \A n \in 1..limit : done[n] = NextRound(done[n - 1], axes, next, limit)
  <2> TAKE n \in 1..limit
  <2>1. done[n] = Round(n)
    <3> HIDE DEF Round
    <3>1. QED
      BY <1>2
  <2>2. QED
    BY <2>1
<1> HIDE DEF Round
<1>5. Len(grown.rows) \in Nat
  OBVIOUS
<1> DEFINE Ended(d) == d.uncovered = {} \/ Len(d.rows) >= limit
           K(n) == /\ Covering(done[n], grown, axes, next, limit)
                   /\ Ended(done[n]) \/ Len(done[n].rows) >= n
           S == {n \in Nat : n <= limit => K(n)}
<1>6. K(0)
  BY <1>3, <1>5 DEF Covering
<1>7. ASSUME NEW n \in 1..limit, K(n - 1) PROVE K(n)
  <2>1. PICK k, old, new : k = n - 1 /\ old = done[k] /\ new = done[n]
    OBVIOUS
  <2>2. new = NextRound(old, axes, next, limit)
    BY <1>4, <2>1
  <2>3. Covering(old, grown, axes, next, limit) /\ (Ended(old) \/ Len(old.rows) >= k)
    BY <1>7, <2>1
  <2>4. /\ Covering(new, grown, axes, next, limit)
        /\ IF Ended(old) THEN new = old ELSE Len(new.rows) = Len(old.rows) + 1
    BY <1>5, <2>2, <2>3, RoundKeeps
  <2>5. Len(old.rows) \in Nat
    BY <2>3 DEF Covering
  <2>6. Ended(new) \/ Len(new.rows) >= n
    BY <2>1, <2>3, <2>4, <2>5
  <2>7. QED
    BY <2>1, <2>4, <2>6
<1> HIDE DEF K
<1>8. S = Nat
  <2>1. 0 \in S
    BY <1>6
  <2>2. ASSUME NEW n \in S PROVE n + 1 \in S
    <3>1. ASSUME n + 1 <= limit PROVE K(n + 1)
      <4>1. PICK m : m = n + 1
        OBVIOUS
      <4>2. m \in 1..limit /\ m - 1 = n /\ n <= limit
        BY <3>1, <4>1
      <4>3. K(m - 1)
        BY <4>2
      <4>4. QED
        BY <1>7, <4>1, <4>2, <4>3
    <3>2. QED
      BY <3>1
  <2> HIDE DEF S
  <2>3. S \in SUBSET Nat
    BY DEF S
  <2>4. QED
    BY <2>1, <2>2, <2>3, SetInduction
<1>9. PICK last : last = done[limit]
  OBVIOUS
<1>10. Covering(last, grown, axes, next, limit) /\ (last.uncovered = {} \/ Len(last.rows) >= limit)
  BY <1>8, <1>9 DEF K
<1>11. Len(last.rows) \in Nat
  BY <1>10 DEF Covering
<1>12. QED
  BY <1>1, <1>9, <1>10, <1>11 DEF Covering

PairwiseRounds(rows, axes, limit) ==
  rows = [n \in 2..Len(axes) |->
            IF n = 2 THEN Cartesian(SubSeq(axes, 1, 2), limit)
            ELSE GrowVertically(GrowHorizontally(rows[n - 1], axes, n), axes, n, limit)]

(* The recursive function of Pairwise is there.                            *)
LEMMA PairwiseUnfolds ==
  ASSUME NEW axes, Len(axes) \in Nat, Len(axes) >= 2, NEW limit \in Nat, limit # 0
  PROVE  \E rows : PairwiseRounds(rows, axes, limit) /\ Pairwise(axes, limit) = rows[Len(axes)]
<1>0. PICK size \in Nat : size = Len(axes) /\ size >= 2
  OBVIOUS
<1> DEFINE first == Cartesian(SubSeq(axes, 1, 2), limit)
           Round(rows, n) == GrowVertically(GrowHorizontally(rows, axes, n), axes, n, limit)
           Is(f, m) == f = [n \in 2..m |-> IF n = 2 THEN first ELSE Round(f[n - 1], n)]
           S == {m \in Nat : \E f : Is(f, m + 2)}
<1> HIDE DEF Round, first
<1>1. 0 \in S
  <2>1. Is([n \in 2..2 |-> first], 2)
    OBVIOUS
  <2>2. \E f : Is(f, 0 + 2)
    <3>1. 0 + 2 = 2
      OBVIOUS
    <3> HIDE DEF Is
    <3>2. QED
      BY <2>1, <3>1
  <2>3. QED
    BY <2>2
<1>2. ASSUME NEW m \in S PROVE m + 1 \in S
  <2>0. PICK k \in Nat : k = m + 2 /\ k >= 2 /\ k + 1 = (m + 1) + 2
    OBVIOUS
  <2>1. PICK f : Is(f, k)
    BY <2>0
  <2> DEFINE g == [n \in 2..k + 1 |-> IF n <= k THEN f[n] ELSE Round(f[k], k + 1)]
  <2>2. Is(g, k + 1)
    <3>1. f = [n \in 2..k |-> IF n = 2 THEN first ELSE Round(f[n - 1], n)]
      BY <2>1
    <3>2. ASSUME NEW n \in 2..k + 1
          PROVE  g[n] = IF n = 2 THEN first ELSE Round(g[n - 1], n)
      <4>1. CASE n = k + 1
        <5>1. n # 2 /\ n - 1 = k /\ k \in 2..k + 1 /\ ~(n <= k)
          BY <2>0, <4>1
        <5>2. g[n] = Round(f[k], n) /\ g[k] = f[k]
          BY <2>0, <4>1, <5>1
        <5>3. QED
          BY <5>1, <5>2
      <4>2. CASE n \in 2..k
        <5>1. g[n] = f[n] /\ (n # 2 => n - 1 \in 2..k)
          BY <2>0, <4>2
        <5>2. n # 2 => g[n - 1] = f[n - 1]
          BY <2>0, <5>1
        <5>3. QED
          BY <3>1, <4>2, <5>1, <5>2
      <4>3. QED
        BY <2>0, <4>1, <4>2
    <3>3. g = [n \in 2..k + 1 |-> g[n]]
      OBVIOUS
    <3> HIDE DEF g
    <3>4. QED
      BY <3>2, <3>3
  <2>3. \E f1 : Is(f1, (m + 1) + 2)
    <3> HIDE DEF g, Is
    <3>1. QED
      BY <2>0, <2>2
  <2>4. QED
    <3> HIDE DEF Is
    <3>1. QED
      BY <2>3
<1>3. size - 2 \in S
  <2>0. size - 2 \in Nat
    BY <1>0
  <2> HIDE DEF S
  <2>1. S \in SUBSET Nat
    BY DEF S
  <2>2. QED
    BY <1>1, <1>2, <2>0, <2>1, SetInduction
<1>4. PICK f : f = [n \in 2..Len(axes) |-> IF n = 2 THEN first ELSE Round(f[n - 1], n)]
  <2>1. (size - 2) + 2 = size
    BY <1>0
  <2>2. \E f : Is(f, size)
    BY <1>3, <2>1
  <2>3. QED
    BY <1>0, <2>2
<1> DEFINE rows == CHOOSE g : g = [n \in 2..Len(axes) |-> IF n = 2 THEN first ELSE Round(g[n - 1], n)]
<1>5. rows = [n \in 2..Len(axes) |-> IF n = 2 THEN first ELSE Round(rows[n - 1], n)]
  BY <1>4
<1>6. ~(Len(axes) < 2 \/ limit = 0)
  BY <1>0
<1>7. Pairwise(axes, limit) = rows[Len(axes)]
  BY <1>6 DEF Pairwise, Round, first
<1>8. PairwiseRounds(rows, axes, limit)
  BY <1>5 DEF PairwiseRounds, Round, first
<1> HIDE DEF rows
<1>9. QED
  BY <1>7, <1>8

(* Every pair of values of two of the first n axes is in a row.            *)
HasPair(rows, name, a, other, b) == \E k \in 1..Len(rows) : rows[k][name] = a /\ rows[k][other] = b
CoversPairs(rows, axes, n) ==
  \A i, j \in 1..n : i < j =>
    \A a \in ToSet(axes[i].values), b \in ToSet(axes[j].values) :
      HasPair(rows, axes[i].name, a, axes[j].name, b)

(* The first two axes are combined in every way.                           *)
LEMMA FirstTwoAxes ==
  ASSUME NEW axes, IsNormal(axes), Len(axes) >= 2, NEW limit \in Nat
  PROVE  LET rows == Cartesian(SubSeq(axes, 1, 2), limit)
         IN /\ rows \in Seq(RowsOver(axes, 2)) /\ IsInjective(rows) /\ Len(rows) <= limit
            /\ Len(rows) < limit => CoversPairs(rows, axes, 2)
<1> DEFINE two == SubSeq(axes, 1, 2)
           rows == Cartesian(two, limit)
<1>0. Len(axes) \in Nat /\ 1 \in 1..Len(axes) /\ 2 \in 1..Len(axes)
  BY DEF IsNormal
<1>1. Len(two) = 2 /\ DOMAIN two = 1..2 /\ two[1] = axes[1] /\ two[2] = axes[2]
  <2>1. two = [i \in 1..2 |-> axes[i]]
    <3>1. two = [i \in 1..(2 - 1 + 1) |-> axes[i + 1 - 1]]
      OBVIOUS
    <3>2. QED
      BY <3>1
  <2>2. QED
    BY <2>1
<1> HIDE DEF two
<1>2. \A i \in 1..2 : i \in 1..Len(axes) /\ two[i] = axes[i]
  BY <1>0, <1>1
<1>3. IsNormal(two)
  BY <1>1, <1>2 DEF IsNormal
<1>4. RowsOver(two, 2) = RowsOver(axes, 2)
  <2>1. {two[i].name : i \in 1..2} = {axes[i].name : i \in 1..2}
    BY <1>2
  <2>2. UNION {ToSet(two[i].values) : i \in 1..2} = UNION {ToSet(axes[i].values) : i \in 1..2}
    BY <1>2
  <2>3. \A row : (\A i \in 1..2 : row[two[i].name] \in ToSet(two[i].values))
                   <=> (\A i \in 1..2 : row[axes[i].name] \in ToSet(axes[i].values))
    BY <1>2
  <2>4. QED
    BY <2>1, <2>2, <2>3 DEF RowsOver, Names
<1>5. /\ rows \in Seq(RowsOver(axes, 2)) /\ IsInjective(rows) /\ Len(rows) <= limit
      /\ Len(rows) < limit => ToSet(rows) = RowsOver(axes, 2)
  <2>1. PICK n : n = Len(two)
    OBVIOUS
  <2>2. /\ rows \in Seq(RowsOver(two, n)) /\ IsInjective(rows) /\ Len(rows) <= limit
        /\ n # 0 /\ Len(rows) < limit => ToSet(rows) = RowsOver(two, n)
    BY <1>3, <2>1, CartesianRows
  <2>3. n = 2
    BY <1>1, <2>1
  <2> HIDE DEF rows
  <2>4. QED
    BY <1>4, <2>2, <2>3
<1> HIDE DEF rows
<1>6. ASSUME Len(rows) < limit PROVE CoversPairs(rows, axes, 2)
  <2> SUFFICES ASSUME NEW i \in 1..2, NEW j \in 1..2, i < j,
                      NEW a \in ToSet(axes[i].values), NEW b \in ToSet(axes[j].values)
               PROVE  \E k \in 1..Len(rows) : rows[k][axes[i].name] = a /\ rows[k][axes[j].name] = b
    BY DEF CoversPairs, HasPair
  <2>1. i = 1 /\ j = 2
    OBVIOUS
  <2> DEFINE row == [x \in Names(axes, 2) |-> IF x = axes[1].name THEN a ELSE b]
  <2>2. axes[1].name # axes[2].name
    BY <1>0 DEF IsNormal
  <2>3. axes[1].name \in Names(axes, 2) /\ axes[2].name \in Names(axes, 2)
    BY DEF Names
  <2>4. row[axes[1].name] = a /\ row[axes[2].name] = b
    BY <2>2, <2>3
  <2>5. row = [x \in Names(axes, 2) |-> row[x]]
    OBVIOUS
  <2> HIDE DEF row
  <2>6. \A n \in 1..2 : row[axes[n].name] \in ToSet(axes[n].values)
    <3>1. \A n \in 1..2 : n = 1 \/ n = 2
      OBVIOUS
    <3>2. QED
      BY <2>1, <2>4, <3>1
  <2>7. row \in RowsOver(axes, 2)
    BY <2>5, <2>6, RowIsOver
  <2>8. row \in ToSet(rows)
    BY <1>5, <1>6, <2>7
  <2>9. PICK k \in 1..Len(rows) : rows[k] = row
    BY <1>5, <2>8 DEF ToSet
  <2>10. QED
    BY <2>1, <2>4, <2>9
<1>7. QED
  BY <1>5, <1>6 DEF rows, two

(* One more axis.                                                          *)
LEMMA PairwiseStep ==
  ASSUME NEW axes, IsNormal(axes), NEW next \in 1..Len(axes), NEW limit \in Nat,
         NEW rows \in Seq(RowsOver(axes, next - 1)), IsInjective(rows), Len(rows) <= limit,
         Len(rows) < limit => CoversPairs(rows, axes, next - 1)
  PROVE  LET v == GrowVertically(GrowHorizontally(rows, axes, next), axes, next, limit)
         IN /\ v \in Seq(RowsOver(axes, next)) /\ IsInjective(v) /\ Len(v) <= limit
            /\ Len(v) < limit => CoversPairs(v, axes, next)
<1>1. PICK g : g = GrowHorizontally(rows, axes, next)
  OBVIOUS
<1>2. /\ g.rows \in Seq(RowsOver(axes, next)) /\ Len(g.rows) = Len(rows)
      /\ IsInjective(g.rows) /\ g.uncovered = OpenPairs(g.rows, axes, next)
      /\ \A i \in 1..Len(rows) : \A j \in 1..next - 1 :
           g.rows[i][axes[j].name] = rows[i][axes[j].name]
  BY <1>1, HorizontalRows
<1>3. PICK v : v = GrowVertically(g, axes, next, limit)
  OBVIOUS
<1>4. /\ v \in Seq(RowsOver(axes, next)) /\ IsInjective(v)
      /\ Len(g.rows) <= Len(v) /\ Len(v) <= limit
      /\ \A i \in 1..Len(g.rows) : v[i] = g.rows[i]
      /\ Len(v) < limit => OpenPairs(v, axes, next) = {}
  <2>1. /\ g.rows \in Seq(RowsOver(axes, next)) /\ IsInjective(g.rows)
        /\ Len(g.rows) <= limit /\ g.uncovered = OpenPairs(g.rows, axes, next)
    BY <1>2
  <2>2. QED
    BY <1>3, <2>1, VerticalRows
<1>5. Len(v) \in Nat /\ Len(rows) \in Nat /\ next \in Nat
  BY <1>4 DEF IsNormal
<1>6. ASSUME Len(v) < limit PROVE CoversPairs(v, axes, next)
  <2> SUFFICES ASSUME NEW i \in 1..next, NEW j \in 1..next, i < j,
                      NEW a \in ToSet(axes[i].values), NEW b \in ToSet(axes[j].values)
               PROVE  \E k \in 1..Len(v) : v[k][axes[i].name] = a /\ v[k][axes[j].name] = b
    BY DEF CoversPairs, HasPair
  <2>1. CASE j # next
    <3>1. i \in 1..next - 1 /\ j \in 1..next - 1
      BY <1>5, <2>1
    <3>2. CoversPairs(rows, axes, next - 1)
      BY <1>2, <1>4, <1>5, <1>6
    <3>3. PICK k \in 1..Len(rows) : rows[k][axes[i].name] = a /\ rows[k][axes[j].name] = b
      <4>1. PICK m : m = next - 1
        OBVIOUS
      <4>2. CoversPairs(rows, axes, m) /\ i \in 1..m /\ j \in 1..m
        BY <3>1, <3>2, <4>1
      <4>3. HasPair(rows, axes[i].name, a, axes[j].name, b)
        BY <4>2 DEF CoversPairs
      <4>4. QED
        BY <4>3 DEF HasPair
    <3>4. v[k] = g.rows[k] /\ k \in 1..Len(v)
      BY <1>2, <1>4, <1>5
    <3>5. QED
      BY <1>2, <3>1, <3>3, <3>4
  <2>2. CASE j = next
    <3> DEFINE pair == [axis |-> i, value |-> a, with |-> b]
    <3>1. i \in 1..next - 1
      BY <1>5, <2>2
    <3>2. IsPair(axes, next, pair)
      BY <2>2, <3>1 DEF IsPair
    <3>3. pair \in PairsWithAxis(axes, next)
      BY <3>2, PairIs
    <3>4. PICK k \in 1..Len(v) : pair \in Covered(v[k], axes, next)
      BY <1>4, <1>6, <3>3 DEF OpenPairs
    <3>5. PICK p \in 1..next - 1 :
            pair = [axis |-> p, value |-> v[k][axes[p].name], with |-> v[k][axes[next].name]]
      BY <3>4 DEF Covered
    <3>6. pair.axis = p /\ pair.value = v[k][axes[p].name] /\ pair.with = v[k][axes[next].name]
      <4> HIDE DEF pair
      <4>1. QED
        BY <3>5
    <3>7. QED
      BY <2>2, <3>6
  <2>3. QED
    BY <2>1, <2>2
<1>7. QED
  BY <1>1, <1>3, <1>4, <1>6

(* Rows are different, as many as the limit allows, and below it every     *)
(* pair of values is covered.                                              *)
LEMMA PairwiseRows ==
  ASSUME NEW axes, IsNormal(axes), NEW limit \in Nat
  PROVE  LET rows == Pairwise(axes, limit)
         IN /\ rows \in Seq(RowsOver(axes, Len(axes))) /\ IsInjective(rows) /\ Len(rows) <= limit
            /\ Len(rows) < limit => CoversPairs(rows, axes, Len(axes))
<1>0. Len(axes) \in Nat
  BY DEF IsNormal
<1>1. CASE Len(axes) < 2 \/ limit = 0
  <2>1. PICK rows : rows = Pairwise(axes, limit)
    OBVIOUS
  <2>2. rows = Cartesian(axes, limit)
    BY <1>1, <2>1 DEF Pairwise
  <2>3. rows \in Seq(RowsOver(axes, Len(axes))) /\ IsInjective(rows) /\ Len(rows) <= limit
    BY <2>2, CartesianRows
  <2>4. Len(rows) \in Nat
    BY <2>3
  <2>5. Len(rows) < limit => Len(axes) < 2
    BY <1>1, <2>4
  <2>6. Len(axes) < 2 => \A i, j \in 1..Len(axes) : ~(i < j)
    BY <1>0
  <2>7. Len(rows) < limit => CoversPairs(rows, axes, Len(axes))
    BY <2>5, <2>6 DEF CoversPairs
  <2>8. QED
    BY <2>1, <2>3, <2>7
<1>2. CASE ~(Len(axes) < 2 \/ limit = 0)
  <2>0. Len(axes) \in Nat /\ limit # 0 /\ Len(axes) >= 2
    BY <1>0, <1>2
  <2>1. PICK rows : PairwiseRounds(rows, axes, limit) /\ Pairwise(axes, limit) = rows[Len(axes)]
    BY <2>0, PairwiseUnfolds
  <2> DEFINE Round(n) == IF n = 2 THEN Cartesian(SubSeq(axes, 1, 2), limit)
                        ELSE GrowVertically(GrowHorizontally(rows[n - 1], axes, n), axes, n, limit)
  <2>2. rows = [n \in 2..Len(axes) |-> Round(n)]
    BY <2>1 DEF PairwiseRounds
  <2>3. \A n \in 2..Len(axes) : rows[n] = Round(n)
    <3> HIDE DEF Round
    <3>1. QED
      BY <2>2
  <2> DEFINE Good(list, n) == /\ list \in Seq(RowsOver(axes, n)) /\ IsInjective(list) /\ Len(list) <= limit
                              /\ Len(list) < limit => CoversPairs(list, axes, n)
             S == {n \in Nat : n + 2 <= Len(axes) => Good(rows[n + 2], n + 2)}
  <2>4. 0 \in S
    <3>1. rows[2] = Cartesian(SubSeq(axes, 1, 2), limit)
      BY <2>0, <2>3
    <3>2. Good(Cartesian(SubSeq(axes, 1, 2), limit), 2)
      BY <2>0, FirstTwoAxes
    <3>3. Good(rows[2], 2)
      <4> HIDE DEF Good
      <4>1. QED
        BY <3>1, <3>2
    <3>4. Good(rows[0 + 2], 0 + 2)
      <4> HIDE DEF Good
      <4>1. QED
        BY <3>3
    <3> HIDE DEF Good
    <3>5. QED
      BY <3>4
  <2>5. ASSUME NEW n \in S PROVE n + 1 \in S
    <3>1. ASSUME (n + 1) + 2 <= Len(axes) PROVE Good(rows[(n + 1) + 2], (n + 1) + 2)
      <4>1. PICK m : m = n + 3
        OBVIOUS
      <4>2. m \in 1..Len(axes) /\ m \in 2..Len(axes) /\ m # 2 /\ m - 1 = n + 2 /\ n + 2 <= Len(axes)
            /\ (n + 1) + 2 = m
        BY <1>0, <3>1, <4>1
      <4>3. PICK old : old = rows[m - 1]
        OBVIOUS
      <4>4. Good(old, m - 1)
        <5> HIDE DEF Good
        <5>1. QED
          BY <4>2, <4>3
      <4>5. PICK new : new = GrowVertically(GrowHorizontally(old, axes, m), axes, m, limit)
        OBVIOUS
      <4>6. Good(new, m)
        BY <4>2, <4>4, <4>5, PairwiseStep
      <4>7. rows[m] = new
        BY <2>3, <4>2, <4>3, <4>5
      <4> HIDE DEF Good
      <4>8. QED
        BY <4>2, <4>6, <4>7
    <3> HIDE DEF Good
    <3>2. QED
      BY <3>1
  <2> HIDE DEF Good
  <2>6. S = Nat
    <3> HIDE DEF S
    <3>1. S \in SUBSET Nat
      BY DEF S
    <3>2. QED
      BY <2>4, <2>5, <3>1, SetInduction
  <2>7. Good(rows[Len(axes)], Len(axes))
    <3>1. PICK n \in Nat : n + 2 = Len(axes)
      <4>1. Len(axes) - 2 \in Nat /\ (Len(axes) - 2) + 2 = Len(axes)
        BY <2>0
      <4>2. QED
        BY <4>1
    <3>2. n \in S
      BY <2>6
    <3>3. QED
      BY <2>0, <3>1, <3>2
  <2>8. QED
    BY <2>1, <2>7 DEF Good
<1>3. QED
  BY <1>1, <1>2

-----------------------------------------------------------------------------
(* What is generated of the axes of a plan.                                *)

(* Axes as planning makes them.                                            *)
WellFormed(axes) ==
  /\ Len(axes) \in Nat /\ DOMAIN axes = 1..Len(axes)
  /\ \A i \in 1..Len(axes) : /\ axes[i].values \subseteq Nat \ {0} /\ axes[i].values # {}
                             /\ IsFiniteSet(axes[i].values)
  /\ \A i, j \in 1..Len(axes) : axes[i].name = axes[j].name => i = j

(* They are kept, with their values in order.                              *)
LEMMA NormalizedAxes ==
  ASSUME NEW axes, WellFormed(axes)
  PROVE  LET n == NormalizeAxes(axes)
         IN /\ IsNormal(n) /\ Len(n) = Len(axes)
            /\ \A i \in 1..Len(axes) : n[i].name = axes[i].name /\ ToSet(n[i].values) = axes[i].values
<1> DEFINE V(i) == Ascending(axes[i].values \ {0})
           unique == [i \in DOMAIN axes |-> [name |-> axes[i].name, values |-> V(i)]]
           filled == {axis \in ToSet(unique) : axis.values # <<>>}
<1>0. Len(axes) \in Nat /\ DOMAIN axes = 1..Len(axes)
  BY DEF WellFormed
<1>1. \A i \in 1..Len(axes) : /\ V(i) \in Seq(Nat \ {0}) /\ V(i) # <<>> /\ IsInjective(V(i))
                              /\ ToSet(V(i)) = axes[i].values
  <2> TAKE i \in 1..Len(axes)
  <2>1. PICK S : S = axes[i].values
    OBVIOUS
  <2>2. S \in SUBSET (Nat \ {0}) /\ IsFiniteSet(S) /\ S # {} /\ S \ {0} = S
    BY <2>1 DEF WellFormed
  <2>3. /\ Ascending(S) \in Seq(S) /\ ToSet(Ascending(S)) = S /\ IsInjective(Ascending(S))
        /\ Ascending(S) # <<>>
    BY <2>2, AscendingSorts
  <2>4. Ascending(S) \in Seq(Nat \ {0})
    <3>1. PICK T : T = Nat \ {0}
      OBVIOUS
    <3>2. Ascending(S) \in Seq(T)
      BY <2>2, <2>3, <3>1, LargerSeq
    <3>3. QED
      BY <3>1, <3>2
  <2>5. QED
    BY <2>1, <2>2, <2>3, <2>4
<1>2. NormalizeAxes(axes) = Filter(unique, filled)
  BY DEF NormalizeAxes
<1> HIDE DEF V
<1>3. unique \in Seq(ToSet(unique)) /\ Len(unique) = Len(axes)
      /\ \A i \in 1..Len(axes) : unique[i].name = axes[i].name /\ unique[i].values = V(i)
  <2>1. DOMAIN unique = 1..Len(axes) /\ \A i \in 1..Len(axes) : unique[i] = [name |-> axes[i].name, values |-> V(i)]
    BY <1>0
  <2>2. unique = [i \in 1..Len(axes) |-> unique[i]]
    BY <1>0
  <2> HIDE DEF unique
  <2>3. \A i \in 1..Len(axes) : unique[i] \in ToSet(unique)
    BY <2>1 DEF ToSet
  <2>4. QED
    BY <1>0, <2>1, <2>2, <2>3
<1>4. ToSet(unique) \subseteq filled
  <2>1. \A i \in 1..Len(axes) : unique[i].values # <<>>
    BY <1>1, <1>3
  <2>2. DOMAIN unique = 1..Len(axes)
    BY <1>0
  <2> HIDE DEF unique
  <2>3. QED
    BY <2>1, <2>2 DEF ToSet
<1> HIDE DEF unique, filled
<1>5. NormalizeAxes(axes) = unique
  BY <1>2, <1>3, <1>4, FilterKeeps
<1>6. IsNormal(unique)
  <2>1. Len(unique) \in Nat /\ DOMAIN unique = 1..Len(unique)
    BY <1>0, <1>3
  <2>2. \A i, j \in 1..Len(unique) : unique[i].name = unique[j].name => i = j
    BY <1>3 DEF WellFormed
  <2>3. \A i \in 1..Len(unique) : /\ unique[i].values \in Seq(Nat \ {0}) /\ unique[i].values # <<>>
                                  /\ IsInjective(unique[i].values)
    BY <1>1, <1>3
  <2>4. QED
    BY <2>1, <2>2, <2>3 DEF IsNormal
<1>7. QED
  BY <1>1, <1>3, <1>5, <1>6

(* A random sample is of the size asked for.                               *)
LEMMA RandomRows ==
  ASSUME NEW axes, IsNormal(axes), Len(axes) # 0, NEW limit \in Nat, NEW g \in Random(axes, limit)
  PROVE  /\ g.rows \in Seq(RowsOver(axes, Len(axes))) /\ IsInjective(g.rows) /\ Len(g.rows) <= limit
         /\ Len(g.rows) < limit => ToSet(g.rows) = RowsOver(axes, Len(axes))
<1> DEFINE all == Product(axes)
<1>1. all \in Seq(RowsOver(axes, Len(axes))) /\ IsInjective(all)
  BY ProductRows
<1>2. CASE g = InOrder(Cartesian(axes, limit))
  <2>1. g.rows = Cartesian(axes, limit)
    BY <1>2 DEF InOrder
  <2>2. QED
    BY <2>1, CartesianRows
<1>3. CASE g # InOrder(Cartesian(axes, limit))
  <2>1. PICK sample \in kSubset(limit, ToSet(all)) : g = Shuffled(Filter(all, sample))
    BY <1>3 DEF Random
  <2>2. sample \subseteq ToSet(all) /\ Cardinality(sample) = limit
    BY <2>1 DEF kSubset
  <2>3. g.rows = Filter(all, sample)
    BY <2>1 DEF Shuffled
  <2> HIDE DEF all
  <2>4. PICK T : T = RowsOver(axes, Len(axes))
    OBVIOUS
  <2>5. /\ g.rows \in Seq(T \cap sample) /\ IsInjective(g.rows)
        /\ ToSet(g.rows) = ToSet(all) \cap sample
    BY <1>1, <2>3, <2>4, FilterKeeps
  <2>6. g.rows \in Seq(T)
    BY <2>5
  <2>7. ToSet(g.rows) = sample
    BY <2>2, <2>5
  <2>8. Cardinality(ToSet(g.rows)) = Len(g.rows)
    BY <2>5, <2>6, InjectiveCounts
  <2>9. Len(g.rows) = limit
    BY <2>2, <2>7, <2>8
  <2>10. QED
    BY <2>4, <2>5, <2>6, <2>9
<1>4. QED
  BY <1>2, <1>3

(* The rows of every strategy.                                             *)
LEMMA GeneratedRows ==
  ASSUME NEW given, WellFormed(given), Len(given) # 0, NEW strategy, NEW limit \in Nat,
         NEW g \in GenerateWithStrategy(given, strategy, limit)
  PROVE  LET axes == NormalizeAxes(given)
         IN /\ g.rows \in Seq(RowsOver(axes, Len(given))) /\ IsInjective(g.rows) /\ Len(g.rows) <= limit
            /\ strategy \notin {"single", "pairwise"} /\ Len(g.rows) < limit
                 => ToSet(g.rows) = RowsOver(axes, Len(given))
            /\ strategy = "pairwise" => ~g.shuffled
            /\ strategy = "pairwise" /\ Len(g.rows) < limit => CoversPairs(g.rows, axes, Len(given))
<1>1. PICK axes : axes = NormalizeAxes(given)
  OBVIOUS
<1>2. IsNormal(axes) /\ Len(axes) = Len(given)
  BY <1>1, NormalizedAxes
<1>3. g \in CASE strategy = "single" -> {InOrder(Single(axes, limit))}
              [] strategy = "pairwise" -> {InOrder(Pairwise(axes, limit))}
              [] strategy = "random" -> Random(axes, limit)
              [] OTHER -> {InOrder(Cartesian(axes, limit))}
  BY <1>1 DEF GenerateWithStrategy
<1>4. CASE strategy = "single"
  <2>1. g.rows = Single(axes, limit)
    BY <1>3, <1>4 DEF InOrder
  <2>2. QED
    BY <1>1, <1>2, <1>4, <2>1, SingleRows
<1>5. CASE strategy = "pairwise"
  <2>1. g.rows = Pairwise(axes, limit) /\ ~g.shuffled
    BY <1>3, <1>5 DEF InOrder
  <2>2. PICK rows : rows = Pairwise(axes, limit)
    OBVIOUS
  <2>3. /\ rows \in Seq(RowsOver(axes, Len(axes))) /\ IsInjective(rows) /\ Len(rows) <= limit
        /\ Len(rows) < limit => CoversPairs(rows, axes, Len(axes))
    BY <1>2, <2>2, PairwiseRows
  <2>4. QED
    BY <1>1, <1>2, <1>5, <2>1, <2>2, <2>3
<1>6. CASE strategy = "random"
  <2>1. g \in Random(axes, limit)
    BY <1>3, <1>6
  <2>2. QED
    BY <1>1, <1>2, <1>6, <2>1, RandomRows
<1>7. CASE strategy \notin {"single", "pairwise", "random"}
  <2>1. g.rows = Cartesian(axes, limit)
    BY <1>3, <1>7 DEF InOrder
  <2>2. QED
    BY <1>1, <1>2, <1>7, <2>1, CartesianRows
<1>8. QED
  BY <1>4, <1>5, <1>6, <1>7

-----------------------------------------------------------------------------
(* The values of an axis.                                                  *)

(* What is read as numbers within bounds is within them, and on the grid.  *)
OnGrid(bounds, v) == v \in bounds.min..bounds.max /\ (v - bounds.min) % bounds.increment = 0

(* rangevalues: what can be read is finite and on the grid.                *)
LEMMA RangeIsOnGrid ==
  ASSUME NEW input \in Seq(Entry), NEW bounds \in Bounds
  PROVE  LET read == ParseRange(input, bounds)
         IN /\ read.values \subseteq Nat \ {0} /\ IsFiniteSet(read.values)
            /\ \A v \in read.values : OnGrid(bounds, v)
<1> DEFINE read == ParseRange(input, bounds)
           Follows(n) == n \in bounds.min..bounds.max /\ (n - bounds.min) % bounds.increment = 0
           refused == \/ input = <<>>
                      \/ \E i \in DOMAIN input : \/ ~Follows(input[i].from) \/ ~Follows(input[i].to)
                                                 \/ input[i].from > input[i].to
                                                 \/ Overruns(input, i, bounds)
           all == UNION {Expand(input[i], bounds) : i \in DOMAIN input}
<1>1. bounds.min \in Nat \ {0} /\ bounds.max \in Nat /\ bounds.increment \in Nat \ {0}
  BY DEF Bounds
<1>2. read = IF refused THEN Refused ELSE Read(all, HasRange(input))
  BY DEF ParseRange
<1> HIDE DEF read, refused
<1>3. \A v \in read.values : ~refused /\ v \in all
  BY <1>2 DEF Refused, Read
<1>4. ASSUME NEW v \in read.values
      PROVE  OnGrid(bounds, v)
  <2>1. PICK i \in DOMAIN input : v \in Expand(input[i], bounds)
    BY <1>3, <1>4
  <2>2. input[i] \in Entry
    BY <2>1
  <2>3. PICK a \in Nat, b \in Nat : input[i].from = a /\ input[i].to = b
    BY <2>2 DEF Entry
  <2>4. Follows(a) /\ Follows(b)
    BY <1>3, <1>4, <2>1, <2>3 DEF refused
  <2>5. v \in a..b /\ (v - a) % bounds.increment = 0
    BY <2>1, <2>3 DEF Expand
  <2>6. v \in Nat /\ bounds.min <= a /\ a <= v /\ v <= b /\ b <= bounds.max
    BY <1>1, <2>3, <2>4, <2>5
  <2>7. (v - bounds.min) % bounds.increment = 0
    BY <1>1, <2>3, <2>4, <2>5, <2>6, StepsStayOnGrid
  <2>8. QED
    BY <1>1, <2>6, <2>7 DEF OnGrid
<1>5. read.values \subseteq bounds.min..bounds.max
  BY <1>4 DEF OnGrid
<1>6. IsFiniteSet(bounds.min..bounds.max)
  <2>1. PICK a \in Int, b \in Int : bounds.min = a /\ bounds.max = b
    BY <1>1
  <2>2. IsFiniteSet(a..b)
    BY FS_Interval
  <2>3. QED
    BY <2>1, <2>2
<1>7. IsFiniteSet(read.values)
  BY <1>5, <1>6, FS_Subset
<1>8. read.values \subseteq Nat \ {0}
  BY <1>1, <1>5
<1>9. QED
  BY <1>4, <1>7, <1>8 DEF read

(* copyvalues: what can be read is within the maximum.                     *)
LEMMA CopiesAreCounted ==
  ASSUME NEW input \in Seq(Entry)
  PROVE  LET read == ParseCopies(input)
         IN read.values \subseteq 1..MaximumCopies /\ IsFiniteSet(read.values)
<1> DEFINE read == ParseCopies(input)
           refused == input = <<>> \/ \E i \in DOMAIN input :
                         \/ ~({input[i].from, input[i].to} \subseteq 1..MaximumCopies)
                         \/ input[i].from > input[i].to
           all == UNION {input[i].from..input[i].to : i \in DOMAIN input}
<1>1. read = IF refused THEN Refused ELSE Read(all, HasRange(input))
  BY DEF ParseCopies
<1> HIDE DEF read, refused
<1>2. \A v \in read.values : ~refused /\ v \in all
  BY <1>1 DEF Refused, Read
<1>3. ASSUME NEW v \in read.values
      PROVE  v \in 1..MaximumCopies
  <2>1. PICK i \in DOMAIN input : v \in input[i].from..input[i].to
    BY <1>2, <1>3
  <2>2. input[i] \in Entry
    BY <2>1
  <2>3. PICK a \in Nat, b \in Nat : input[i].from = a /\ input[i].to = b
    BY <2>2 DEF Entry
  <2>4. a \in 1..MaximumCopies /\ b \in 1..MaximumCopies
    BY <1>2, <1>3, <2>1, <2>3 DEF refused
  <2>5. QED
    BY <2>1, <2>3, <2>4, CopiesAssumption
<1>4. IsFiniteSet(1..MaximumCopies)
  BY CopiesAssumption, FS_Interval
<1>5. IsFiniteSet(read.values)
  BY <1>3, <1>4, FS_Subset
<1>6. QED
  BY <1>3, <1>5 DEF read

(* The number of a custom page expression is none of the values that the   *)
(* server publishes.                                                       *)
LEMMA CustomIsApart ==
  ASSUME NEW pages \in SUBSET (Nat \ {0}), pages # {}, IsFiniteSet(pages)
  PROVE  Custom(pages) \in Nat /\ Custom(pages) >= FirstCustom
<1> DEFINE last == Max(pages)
           digits[n \in 0..last] ==
             IF n = 0 THEN 0 ELSE 2 * digits[n - 1] + (IF last + 1 - n \in pages THEN 1 ELSE 0)
           Round(done, n) == 2 * done + (IF last + 1 - n \in pages THEN 1 ELSE 0)
           Is(f, m) == f = [n \in 0..m |-> IF n = 0 THEN 0 ELSE Round(f[n - 1], n)]
           S == {m \in Nat : \E f : Is(f, m)}
<1>1. last \in Nat
  BY MaxIsLargest
<1>2. \A done \in Nat : \A n : Round(done, n) \in Nat
  OBVIOUS
<1>3. Custom(pages) = FirstCustom + digits[last]
  BY DEF Custom
<1>4. digits = CHOOSE f : Is(f, last)
  BY DEF digits
<1> HIDE DEF Round, last, digits
<1>5. 0 \in S
  <2>1. Is([n \in 0..0 |-> 0], 0)
    OBVIOUS
  <2>2. QED
    BY <2>1
<1>6. ASSUME NEW m \in S PROVE m + 1 \in S
  <2>1. PICK f : Is(f, m)
    OBVIOUS
  <2> DEFINE g == [n \in 0..m + 1 |-> IF n <= m THEN f[n] ELSE Round(f[m], m + 1)]
  <2>2. Is(g, m + 1)
    BY <2>1
  <2>3. \E f1 : Is(f1, m + 1)
    <3> HIDE DEF g, Is
    <3>1. QED
      BY <2>2
  <2>4. QED
    BY <2>3
<1> HIDE DEF S
<1>7. S = Nat
  <2>1. S \in SUBSET Nat
    BY DEF S
  <2>2. QED
    BY <1>5, <1>6, <2>1, SetInduction
<1>8. \E f : Is(f, last)
  BY <1>1, <1>7 DEF S
<1>9. Is(digits, last)
  <2> HIDE DEF Is
  <2>1. QED
    BY <1>4, <1>8
<1>10. \A n \in 0..last : digits[n] \in Nat
  <2> DEFINE P == {n \in Nat : n <= last => digits[n] \in Nat}
  <2>1. 0 \in P
    BY <1>1, <1>9
  <2>2. \A n \in P : n + 1 \in P
    <3> SUFFICES ASSUME NEW n \in P, n + 1 <= last PROVE digits[n + 1] \in Nat
      OBVIOUS
    <3>1. n \in Nat /\ digits[n] \in Nat
      BY <1>1
    <3>2. n + 1 \in 0..last /\ n + 1 # 0 /\ n + 1 - 1 = n
      BY <1>1, <3>1
    <3>3. digits[n + 1] = Round(digits[n], n + 1)
      BY <1>9, <3>2
    <3>4. QED
      BY <1>2, <3>1, <3>3
  <2> HIDE DEF P
  <2>3. P = Nat
    <3>1. P \in SUBSET Nat
      BY DEF P
    <3>2. QED
      BY <2>1, <2>2, <3>1, SetInduction
  <2>4. QED
    BY <1>1, <2>3 DEF P
<1>11. QED
  BY <1>1, <1>3, <1>10, CustomAssumption

-----------------------------------------------------------------------------
(* The axes of a request.                                                  *)

(* What planning reads of an option is a number, a finite menu and bounds. *)
IsOption(option) ==
  /\ option.value \in Nat /\ option.range \in Bounds
  /\ option.values \subseteq Value /\ IsFiniteSet(option.values)

(* Every property of a model is one.                                       *)
LEMMA ModelIsTyped ==
  ASSUME NEW s \in DOMAIN Snapshot, NEW id \in DOMAIN Model[s]
  PROVE  IsOption(Model[s][id])
<1>1. NoRange \in Bounds
  BY DEF NoRange, Bounds
<1>2. CASE id \in Added(s)
  <2>1. AddedOption(s, id)
    BY <1>2, OwnOrAdded
  <2>2. CASE Model[s][id] = Synthetic(1, {1, 2, 5, 10}, CopiesRange)
    <3>1. /\ Model[s][id].value = 1 /\ Model[s][id].values = {1, 2, 5, 10}
          /\ Model[s][id].range = CopiesRange
      BY <2>2 DEF Synthetic
    <3>2. CopiesRange \in Bounds
      BY CopiesAssumption DEF CopiesRange, Bounds
    <3>3. IsFiniteSet({1, 2, 5, 10})
      <4>1. {1, 2, 5, 10} \subseteq 1..10
        OBVIOUS
      <4>2. IsFiniteSet(1..10)
        <5>1. PICK a \in Int, b \in Int : a = 1 /\ b = 10
          OBVIOUS
        <5>2. IsFiniteSet(a..b)
          BY FS_Interval
        <5>3. QED
          BY <5>1, <5>2
      <4>3. QED
        BY <4>1, <4>2, FS_Subset
    <3>4. {1, 2, 5, 10} \subseteq Value
      BY DEF Value
    <3> HIDE DEF CopiesRange
    <3>5. QED
      BY <3>1, <3>2, <3>3, <3>4 DEF IsOption
  <2>3. CASE Model[s][id] = Synthetic(SyntheticScale.value, {}, SyntheticScale.range)
    <3>1. /\ Model[s][id].value = SyntheticScale.value /\ Model[s][id].values = {}
          /\ Model[s][id].range = SyntheticScale.range
      BY <2>3 DEF Synthetic
    <3>2. SyntheticScale.range \in Bounds
      BY ScaleAssumption
    <3>3. SyntheticScale.value \in Nat
      BY <3>2, ScaleAssumption DEF Bounds
    <3>4. QED
      BY <3>1, <3>2, <3>3, FS_EmptySet DEF IsOption
  <2>4. QED
    BY <2>1, <2>2, <2>3 DEF AddedOption
<1>3. CASE id \notin Added(s)
  <2>1. OwnOption(s, id)
    BY <1>3, OwnOrAdded
  <2>2. id \in DOMAIN Snapshot[s]
    BY <2>1 DEF OwnOption
  <2>3. Snapshot[s][id] \in Published /\ IsFiniteSet(Snapshot[s][id].values)
    BY <2>2, SnapshotAssumption
  <2>4. /\ Snapshot[s][id].value \in Nat /\ Snapshot[s][id].values \subseteq Value
        /\ Snapshot[s][id].range \in Bounds
    BY <2>3 DEF Published
  <2>5. BoundsOf(s, {}, id) \in Bounds
    BY <1>1, <2>4, ScaleAssumption DEF BoundsOf
  <2>6. /\ Model[s][id].value \in Nat /\ Model[s][id].range \in Bounds
        /\ Model[s][id].values \subseteq Snapshot[s][id].values
    BY <2>1, <2>4, <2>5 DEF OwnOption
  <2>7. IsFiniteSet(Model[s][id].values)
    BY <2>3, <2>6, FS_Subset
  <2>8. QED
    BY <2>4, <2>6, <2>7 DEF IsOption
<1>4. QED
  BY <1>2, <1>3

(* Where a value of an axis may be from.                                   *)
OriginOfOption(m, input, id, v) ==
  \/ input.source = "defaults" /\ v = m[id].value
  \/ HasBounds(m[id]) /\ (OnGrid(m[id].range, v) \/ v = m[id].value)
  \/ v \in m[id].values
  \/ ~HasBounds(m[id]) /\ v \in input.selected[id]
  \/ ~HasBounds(m[id]) /\ id = PageRange /\ CustomPageRangeSupported(m) /\ v >= FirstCustom
  \/ ~HasBounds(m[id]) /\ v = m[id].value /\ m[id].values = {}

Origin(m, input, id, v) ==
  IF id \in CopiesIds THEN (input.source = "defaults" /\ v = m[id].value) \/ v \in 1..MaximumCopies
  ELSE OriginOfOption(m, input, id, v)

IsAxis(m, input, id, values) ==
  /\ values \subseteq Value /\ IsFiniteSet(values)
  /\ \A v \in values : Origin(m, input, id, v)

(* A default, and the values of an option.                                 *)
LEMMA DefaultIsFinite ==
  ASSUME NEW option, IsOption(option)
  PROVE  /\ Default(option) \subseteq Value /\ IsFiniteSet(Default(option))
         /\ \A v \in Default(option) : v = option.value
         /\ OptionValues(option) \subseteq Value /\ IsFiniteSet(OptionValues(option))
         /\ \A v \in OptionValues(option) :
              v \in option.values \/ (option.values = {} /\ v = option.value)
<1>1. Default(option) \subseteq {option.value} /\ option.value \in Nat
  BY DEF Default, IsOption
<1>2. IsFiniteSet({option.value})
  BY FS_Singleton
<1>3. IsFiniteSet(Default(option))
  BY <1>1, <1>2, FS_Subset
<1>4. QED
  BY <1>1, <1>3 DEF Default, OptionValues, IsOption, Value

(* The values of a property that is included (valuesForSource).            *)
LEMMA ChosenValues ==
  ASSUME NEW s \in DOMAIN Snapshot, NEW input, TypedInput(input),
         NEW id \in DOMAIN Model[s] \ CopiesIds
  PROVE  IsAxis(Model[s], input, id, ValuesForSource(Model[s], id, input).values)
<1>1. PICK m : m = Model[s]
  OBVIOUS
<1>2. PICK option : option = m[id]
  OBVIOUS
<1>3. IsOption(option)
  BY <1>1, <1>2, ModelIsTyped
<1>4. id \in ToSet(PropertyId)
  BY ModelIsKnown
<1>5. IsAxis(m, input, id, {})
  BY FS_EmptySet DEF IsAxis
<1> DEFINE read == ValuesForSource(m, id, input)
<1>6. CASE input.source = "defaults"
  <2>1. read.values = Default(option)
    BY <1>2, <1>6 DEF ValuesForSource, Read
  <2>2. QED
    BY <1>1, <1>2, <1>3, <1>6, <2>1, DefaultIsFinite DEF IsAxis, Origin, OriginOfOption
<1>7. CASE input.source # "defaults" /\ HasBounds(option)
  <2>1. read = NumericValues(option, input.numeric[id], input.source)
    BY <1>2, <1>7 DEF ValuesForSource
  <2>2. input.numeric[id] \in Seq(Entry) /\ option.range \in Bounds
    BY <1>3, <1>4 DEF TypedInput, IsOption
  <2>3. CASE input.numeric[id] # <<>>
    <3>1. read = ParseRange(input.numeric[id], option.range)
      BY <2>1, <2>3 DEF NumericValues
    <3> HIDE DEF read
    <3>2. /\ read.values \subseteq Nat \ {0} /\ IsFiniteSet(read.values)
          /\ \A v \in read.values : OnGrid(option.range, v)
      BY <2>2, <3>1, RangeIsOnGrid
    <3>3. QED
      BY <1>1, <1>2, <1>7, <3>2 DEF IsAxis, Origin, OriginOfOption, Value, read
  <2>4. CASE input.numeric[id] = <<>>
    <3>1. read.values = IF input.source = "advertised" THEN Default(option) ELSE {}
      BY <2>1, <2>4 DEF NumericValues, Read
    <3>2. IsAxis(m, input, id, Default(option))
      BY <1>2, <1>3, <1>7, DefaultIsFinite DEF IsAxis, Origin, OriginOfOption
    <3>3. QED
      BY <1>1, <1>5, <3>1, <3>2
  <2>5. QED
    BY <2>3, <2>4
<1>8. CASE input.source # "defaults" /\ ~HasBounds(option) /\ id = PageRange /\ input.pages # <<>>
  <2>1. read = CustomPages(m, input)
    BY <1>2, <1>8 DEF ValuesForSource
  <2> HIDE DEF read
  <2>2. CASE CustomPageRangeSupported(m) /\ ParsePages(input.pages).ok
    <3>1. PICK pages : pages = ParsePages(input.pages).values
      OBVIOUS
    <3>2. input.pages \in Seq(Entry)
      BY DEF TypedInput
    <3>3. pages \subseteq Nat \ {0} /\ pages # {} /\ IsFiniteSet(pages)
      BY <2>2, <3>1, <3>2, PagesAreRead
    <3>4. Custom(pages) \in Nat /\ Custom(pages) >= FirstCustom
      BY <3>3, CustomIsApart
    <3>5. read.values = {Custom(pages)}
      BY <2>1, <2>2, <3>1 DEF CustomPages, Read
    <3>6. Custom(pages) \in Value
      BY <3>4, CustomAssumption DEF Value
    <3>7. IsFiniteSet({Custom(pages)})
      BY FS_Singleton
    <3>8. QED
      BY <1>1, <1>2, <1>8, <2>2, <3>4, <3>5, <3>6, <3>7 DEF IsAxis, Origin, OriginOfOption, read
  <2>3. CASE ~(CustomPageRangeSupported(m) /\ ParsePages(input.pages).ok)
    <3>1. read.values = {}
      BY <2>1, <2>3 DEF CustomPages, Refused
    <3>2. QED
      BY <1>1, <1>5, <3>1 DEF read
  <2>4. QED
    BY <2>2, <2>3
<1>9. CASE input.source # "defaults" /\ ~HasBounds(option) /\ ~(id = PageRange /\ input.pages # <<>>)
  <2>1. read.values = IF input.source = "advertised" THEN OptionValues(option)
                      ELSE input.selected[id] \ {0}
    BY <1>2, <1>9 DEF ValuesForSource, Read
  <2>2. IsAxis(m, input, id, OptionValues(option))
    BY <1>2, <1>3, <1>9, DefaultIsFinite DEF IsAxis, Origin, OriginOfOption
  <2>3. IsAxis(m, input, id, input.selected[id] \ {0})
    <3>1. input.selected[id] \in Selection
      BY <1>4 DEF TypedInput
    <3>2. input.selected[id] \ {0} \in Selection
      BY <3>1, SmallerSelection
    <3>3. QED
      BY <1>2, <1>9, <3>2 DEF IsAxis, Origin, OriginOfOption, Selection
  <2>4. QED
    BY <1>1, <2>1, <2>2, <2>3
<1>10. QED
  BY <1>6, <1>7, <1>8, <1>9

(* A list of axes, one for each property of a list.                        *)
LEMMA ListOfAxes ==
  ASSUME NEW T, NEW ids \in Seq(T), IsInjective(ids), NEW V,
         \A id \in ToSet(ids) : V[id] \subseteq Value /\ V[id] # {} /\ IsFiniteSet(V[id]),
         NEW axes, axes = [i \in DOMAIN ids |-> Axis(ids[i], V[ids[i]])]
  PROVE  /\ WellFormed(axes) /\ Len(axes) = Len(ids) /\ axes \in Seq({Axis(id, V[id]) : id \in ToSet(ids)})
         /\ \A i \in 1..Len(ids) : axes[i].name = ids[i] /\ axes[i].values = V[ids[i]]
<1>1. Len(ids) \in Nat /\ DOMAIN ids = 1..Len(ids) /\ \A i \in 1..Len(ids) : ids[i] \in ToSet(ids)
  BY DEF ToSet
<1>2. PICK n \in Nat : n = Len(ids)
  BY <1>1
<1> DEFINE A == {Axis(id, V[id]) : id \in ToSet(ids)}
<1>3. \A i \in 1..n : Axis(ids[i], V[ids[i]]) \in A
  BY <1>1, <1>2
<1>4. axes = [i \in 1..n |-> Axis(ids[i], V[ids[i]])]
  BY <1>1, <1>2
<1>5. axes \in [1..n -> A]
  <2> HIDE DEF A
  <2>1. QED
    BY <1>3, <1>4
<1> HIDE DEF A
<1>6. axes \in Seq(A) /\ Len(axes) = n /\ DOMAIN axes = 1..n
  BY <1>2, <1>5
<1>7. \A i \in 1..n : axes[i].name = ids[i] /\ axes[i].values = V[ids[i]]
  BY <1>4 DEF Axis
<1>8. \A i \in 1..n : /\ axes[i].values \subseteq Nat \ {0} /\ axes[i].values # {}
                      /\ IsFiniteSet(axes[i].values)
  BY <1>1, <1>2, <1>7 DEF Value
<1>9. \A i, j \in 1..n : axes[i].name = axes[j].name => i = j
  BY <1>1, <1>2, <1>7 DEF IsInjective
<1>10. WellFormed(axes)
  BY <1>6, <1>8, <1>9 DEF WellFormed
<1>11. QED
  BY <1>2, <1>6, <1>7, <1>10 DEF A

(* An axis is added after the others.                                      *)
LEMMA OneMoreAxis ==
  ASSUME NEW T, NEW own \in Seq(T), WellFormed(own), NEW name, NEW values,
         values \subseteq Value, values # {}, IsFiniteSet(values),
         \A i \in 1..Len(own) : own[i].name # name
  PROVE  LET axes == Append(own, Axis(name, values))
         IN /\ WellFormed(axes) /\ Len(axes) = Len(own) + 1
            /\ axes[Len(own) + 1].name = name /\ axes[Len(own) + 1].values = values
            /\ \A i \in 1..Len(own) : axes[i] = own[i]
<1>1. PICK new : new = Axis(name, values)
  OBVIOUS
<1>2. new.name = name /\ new.values = values
  BY <1>1 DEF Axis
<1>3. PICK n \in Nat : n = Len(own)
  OBVIOUS
<1>4. PICK axes : axes = Append(own, new)
  OBVIOUS
<1>5. /\ Len(axes) = n + 1 /\ DOMAIN axes = 1..n + 1 /\ axes[n + 1] = new
      /\ \A i \in 1..n : axes[i] = own[i]
  BY <1>3, <1>4
<1>6. /\ \A i \in 1..n : /\ own[i].values \subseteq Nat \ {0} /\ own[i].values # {}
                         /\ IsFiniteSet(own[i].values) /\ own[i].name # name
      /\ \A i, j \in 1..n : own[i].name = own[j].name => i = j
  BY <1>3 DEF WellFormed
<1>7. \A i \in 1..n + 1 : i \in 1..n \/ i = n + 1
  OBVIOUS
<1>8. \A i \in 1..n + 1 : /\ axes[i].values \subseteq Nat \ {0} /\ axes[i].values # {}
                          /\ IsFiniteSet(axes[i].values)
  BY <1>2, <1>5, <1>6, <1>7 DEF Value
<1>9. \A i, j \in 1..n + 1 : axes[i].name = axes[j].name => i = j
  BY <1>2, <1>5, <1>6, <1>7
<1>10. WellFormed(axes)
  BY <1>5, <1>8, <1>9 DEF WellFormed
<1>11. QED
  BY <1>1, <1>2, <1>3, <1>4, <1>5, <1>10

(* Axes of a input other than copies.                                    *)
OwnAxes(m, input, axes) ==
  /\ WellFormed(axes) /\ \E T : axes \in Seq(T)
  /\ \A i \in 1..Len(axes) : /\ axes[i].name \in DOMAIN m \ CopiesIds
                             /\ IsAxis(m, input, axes[i].name, axes[i].values)

(* A list of properties with values makes such axes.                       *)
LEMMA OwnAxesOf ==
  ASSUME NEW m, NEW input, NEW T, T \subseteq DOMAIN m \ CopiesIds,
         NEW ids \in Seq(T), IsInjective(ids), NEW V,
         \A id \in ToSet(ids) : V[id] # {} /\ IsAxis(m, input, id, V[id]),
         NEW axes, axes = [i \in DOMAIN ids |-> Axis(ids[i], V[ids[i]])]
  PROVE  OwnAxes(m, input, axes)
<1>1. \A id \in ToSet(ids) : V[id] \subseteq Value /\ V[id] # {} /\ IsFiniteSet(V[id])
  BY DEF IsAxis
<1>2. /\ WellFormed(axes) /\ Len(axes) = Len(ids) /\ axes \in Seq({Axis(id, V[id]) : id \in ToSet(ids)})
      /\ \A i \in 1..Len(ids) : axes[i].name = ids[i] /\ axes[i].values = V[ids[i]]
  BY <1>1, ListOfAxes
<1>3. \A i \in 1..Len(ids) : ids[i] \in T /\ ids[i] \in ToSet(ids)
  BY DEF ToSet
<1>4. \E U : axes \in Seq(U)
  BY <1>2
<1>5. \A i \in 1..Len(axes) : /\ axes[i].name \in DOMAIN m \ CopiesIds
                              /\ IsAxis(m, input, axes[i].name, axes[i].values)
  BY ZenonT(30), <1>2, <1>3
<1>6. QED
  BY <1>2, <1>4, <1>5 DEF OwnAxes

Explicit(m, input) ==
  LET included == Ordered(IncludedPropertyIDs(m, input) \ CopiesIds)
      filled == Filter(included, {id \in ToSet(included) : ValuesForSource(m, id, input).values # {}})
  IN [i \in DOMAIN filled |-> Axis(filled[i], ValuesForSource(m, filled[i], input).values)]

(* The properties that the operator chose.                                 *)
LEMMA ExplicitIsOwn ==
  ASSUME NEW s \in DOMAIN Snapshot, NEW input, TypedInput(input), NEW m, m = Model[s]
  PROVE  OwnAxes(m, input, Explicit(m, input))
<1> DEFINE wanted == IncludedPropertyIDs(m, input) \ CopiesIds
           included == Ordered(wanted)
           V == [id \in DOMAIN m |-> ValuesForSource(m, id, input).values]
<1>1. PropertyId \in Seq(STRING) /\ IsInjective(PropertyId)
  BY PropertyAssumption
<1>2. wanted \subseteq DOMAIN m \ CopiesIds
  BY DEF IncludedPropertyIDs
<1> HIDE DEF wanted
<1>3. /\ included \in Seq(STRING \cap wanted) /\ IsInjective(included)
      /\ ToSet(included) \subseteq wanted
  BY <1>1, PartOfList DEF Ordered
<1>4. PICK T : T = STRING \cap wanted
  OBVIOUS
<1>5. PICK set : set = {id \in ToSet(included) : ValuesForSource(m, id, input).values # {}}
  OBVIOUS
<1>6. PICK filled : filled = Filter(included, set)
  OBVIOUS
<1>7. PICK axes : axes = Explicit(m, input)
  OBVIOUS
<1>8. axes = [i \in DOMAIN filled |-> Axis(filled[i], ValuesForSource(m, filled[i], input).values)]
  BY <1>5, <1>6, <1>7 DEF Explicit, wanted
<1> HIDE DEF included
<1>9. /\ filled \in Seq(T \cap set) /\ IsInjective(filled)
      /\ ToSet(filled) = ToSet(included) \cap set
  <2>1. included \in Seq(T)
    BY <1>3, <1>4
  <2>2. /\ Filter(included, set) \in Seq(T \cap set) /\ IsInjective(Filter(included, set))
        /\ ToSet(Filter(included, set)) = ToSet(included) \cap set
    BY <1>3, <2>1, PartOfList
  <2>3. QED
    BY <1>6, <2>2
<1>10. filled \in Seq(ToSet(filled)) /\ \A i \in DOMAIN filled : filled[i] \in ToSet(filled)
  BY <1>9, InDomain
<1>11. ToSet(filled) \subseteq DOMAIN m \ CopiesIds
  BY <1>2, <1>3, <1>9
<1>12. \A id \in ToSet(filled) : V[id] # {} /\ IsAxis(m, input, id, V[id])
  BY <1>5, <1>9, <1>11, ChosenValues
<1>13. axes = [i \in DOMAIN filled |-> Axis(filled[i], V[filled[i]])]
  BY <1>10, <1>11, <1>8
<1>14. PICK U : U = ToSet(filled)
  OBVIOUS
<1>15. PICK W : W = V
  OBVIOUS
<1> HIDE DEF V
<1>16. /\ filled \in Seq(U) /\ U \subseteq DOMAIN m \ CopiesIds
       /\ \A id \in ToSet(filled) : W[id] # {} /\ IsAxis(m, input, id, W[id])
       /\ axes = [i \in DOMAIN filled |-> Axis(filled[i], W[filled[i]])]
  BY <1>10, <1>11, <1>12, <1>13, <1>14, <1>15
<1>17. OwnAxes(m, input, axes)
  BY <1>9, <1>16, OwnAxesOf
<1>18. QED
  BY <1>7, <1>17

(* The suite of DefaultPermutationAxes.                                    *)
LEMMA SuiteIsOwn ==
  ASSUME NEW s \in DOMAIN Snapshot, NEW input, NEW m, m = Model[s]
  PROVE  OwnAxes(m, input, SuiteAxes(m, input))
<1> DEFINE offered == {id \in DOMAIN m : Cardinality(OptionValues(m[id])) > 1}
           small == {id \in offered \ CopiesIds : /\ Cardinality(OptionValues(m[id])) <= FallbackValues
                                                  /\ m[id].likely}
           preferred == Filter(Preferred, offered)
           rest == UpTo(FallbackAxes, Ordered(small))
           suite == DefaultPermutationAxes(m)
           V == [id \in DOMAIN m |-> IF input.source = "defaults" THEN Default(m[id])
                                     ELSE OptionValues(m[id])]
<1>1. suite = IF preferred # <<>> THEN preferred ELSE rest
  BY DEF DefaultPermutationAxes
<1>2. offered \subseteq DOMAIN m /\ small \subseteq DOMAIN m \ CopiesIds
  OBVIOUS
<1> HIDE DEF offered, small
<1>3. preferred \in Seq(ToSet(preferred)) /\ IsInjective(preferred) /\ ToSet(preferred) \subseteq DOMAIN m \ CopiesIds
  <2>1. Preferred \in Seq(STRING) /\ IsInjective(Preferred) /\ ToSet(Preferred) \cap CopiesIds = {}
    BY PropertyAssumption
  <2>2. /\ preferred \in Seq(STRING \cap offered) /\ IsInjective(preferred)
        /\ ToSet(preferred) = ToSet(Preferred) \cap offered
    BY <2>1, PartOfList
  <2>3. preferred \in Seq(ToSet(preferred))
    BY <2>2, InDomain
  <2>4. QED
    BY <1>2, <2>1, <2>2, <2>3
<1>4. rest \in Seq(ToSet(rest)) /\ IsInjective(rest) /\ ToSet(rest) \subseteq DOMAIN m \ CopiesIds
  <2>1. PICK list : list = Ordered(small)
    OBVIOUS
  <2>2. PropertyId \in Seq(STRING) /\ IsInjective(PropertyId)
    BY PropertyAssumption
  <2>3. list \in Seq(STRING \cap small) /\ IsInjective(list) /\ ToSet(list) \subseteq small
    <3>1. list = Filter(PropertyId, small)
      BY <2>1 DEF Ordered
    <3>2. /\ Filter(PropertyId, small) \in Seq(STRING \cap small) /\ IsInjective(Filter(PropertyId, small))
          /\ ToSet(Filter(PropertyId, small)) = ToSet(PropertyId) \cap small
      BY <2>2, PartOfList
    <3>3. QED
      BY <3>1, <3>2
  <2>4. FallbackAxes \in Nat
    BY LimitAssumption
  <2>5. /\ rest \in Seq(STRING \cap small) /\ ToSet(rest) \subseteq ToSet(list)
        /\ IsInjective(rest)
    BY <2>1, <2>3, <2>4, UpToRows
  <2>6. rest \in Seq(ToSet(rest))
    BY <2>5, InDomain
  <2>7. QED
    BY <1>2, <2>3, <2>5, <2>6
<1> HIDE DEF preferred, rest
<1>5. suite \in Seq(ToSet(suite)) /\ IsInjective(suite) /\ ToSet(suite) \subseteq DOMAIN m \ CopiesIds
  BY <1>1, <1>3, <1>4
<1> HIDE DEF suite
<1>6. PICK set : set = {id \in ToSet(suite) : V[id] # {}}
  OBVIOUS
<1>7. PICK ids : ids = Filter(suite, set)
  OBVIOUS
<1>8. ids \in Seq(ToSet(suite) \cap set) /\ IsInjective(ids) /\ ToSet(ids) = ToSet(suite) \cap set
  BY <1>5, <1>7, PartOfList
<1>9. ids \in Seq(ToSet(ids)) /\ \A i \in DOMAIN ids : ids[i] \in ToSet(ids)
  BY <1>8, InDomain
<1>10. ToSet(ids) \subseteq DOMAIN m \ CopiesIds
  BY <1>5, <1>8
<1>11. \A id \in ToSet(ids) : V[id] # {} /\ IsAxis(m, input, id, V[id])
  <2> SUFFICES ASSUME NEW id \in ToSet(ids) PROVE V[id] # {} /\ IsAxis(m, input, id, V[id])
    OBVIOUS
  <2>1. id \in DOMAIN m \ CopiesIds /\ V[id] # {}
    BY <1>6, <1>8, <1>10
  <2>2. PICK option : option = m[id]
    OBVIOUS
  <2>3. IsOption(option)
    BY <2>1, <2>2, ModelIsTyped
  <2>4. CASE input.source = "defaults"
    BY <2>1, <2>2, <2>3, <2>4, DefaultIsFinite DEF IsAxis, Origin, OriginOfOption
  <2>5. CASE input.source # "defaults"
    <3>1. V[id] = OptionValues(option)
      BY <2>1, <2>2, <2>5
    <3>2. QED
      BY <2>1, <2>2, <2>3, <3>1, DefaultIsFinite DEF IsAxis, Origin, OriginOfOption
  <2>6. QED
    BY <2>4, <2>5
<1>12. SuiteAxes(m, input) = [i \in DOMAIN ids |-> Axis(ids[i], V[ids[i]])]
  <2> DEFINE Content(id) == IF input.source = "defaults" THEN Default(m[id]) ELSE OptionValues(m[id])
             list == Filter(suite, {id \in ToSet(suite) : Content(id) # {}})
  <2>1. SuiteAxes(m, input) = [i \in DOMAIN list |-> Axis(list[i], Content(list[i]))]
    BY DEF SuiteAxes, suite
  <2>2. {id \in ToSet(suite) : Content(id) # {}} = set
    BY <1>5, <1>6
  <2>3. list = ids
    BY <1>7, <2>2
  <2>4. \A i \in DOMAIN ids : Content(ids[i]) = V[ids[i]]
    BY <1>9, <1>10
  <2> HIDE DEF list, Of, V
  <2>5. QED
    BY <2>1, <2>3, <2>4
<1>13. PICK U : U = ToSet(ids)
  OBVIOUS
<1>14. PICK W : W = V
  OBVIOUS
<1> HIDE DEF V
<1>15. PICK axes : axes = SuiteAxes(m, input)
  OBVIOUS
<1>16. /\ ids \in Seq(U) /\ U \subseteq DOMAIN m \ CopiesIds
       /\ \A id \in ToSet(ids) : W[id] # {} /\ IsAxis(m, input, id, W[id])
       /\ axes = [i \in DOMAIN ids |-> Axis(ids[i], W[ids[i]])]
  BY <1>9, <1>10, <1>11, <1>12, <1>13, <1>14, <1>15
<1>17. OwnAxes(m, input, axes)
  BY <1>8, <1>16, OwnAxesOf
<1>18. QED
  BY <1>15, <1>17

(* The axes of a input are ready for the generators: finitely many       *)
(* values each, one axis for a property, and every value has an origin.    *)
LEMMA AxesHaveOrigins ==
  ASSUME NEW s \in DOMAIN Snapshot, NEW input, TypedInput(input), NEW m, m = Model[s],
         NEW axes, axes = PlanAxes(m, input).axes
  PROVE  /\ WellFormed(axes) /\ (Len(axes) = 0 => axes = <<>>)
         /\ \A i \in 1..Len(axes) : /\ axes[i].name \in DOMAIN m
                                    /\ IsAxis(m, input, axes[i].name, axes[i].values)
<1> DEFINE explicit == Explicit(m, input)
           copies == CopiesValues(m, input)
           number == IF copies.values = {} THEN {1} ELSE copies.values
<1>1. PICK own : own = IF explicit = <<>> /\ input.source # "selected"
                       THEN SuiteAxes(m, input) ELSE explicit
  OBVIOUS
<1>2. PlanAxes(m, input).axes = IF HasCopies(m) THEN Append(own, Axis(CopiesOption(m), number)) ELSE own
  BY <1>1 DEF PlanAxes, Explicit
<1>3. OwnAxes(m, input, explicit)
  BY ExplicitIsOwn
<1>4. OwnAxes(m, input, SuiteAxes(m, input))
  BY SuiteIsOwn
<1> HIDE DEF explicit
<1>5. OwnAxes(m, input, own)
  BY <1>1, <1>3, <1>4
<1>6. PICK T : own \in Seq(T)
  BY <1>5 DEF OwnAxes
<1>7. /\ WellFormed(own)
      /\ \A i \in 1..Len(own) : /\ own[i].name \in DOMAIN m \ CopiesIds
                                /\ IsAxis(m, input, own[i].name, own[i].values)
  BY <1>5 DEF OwnAxes
<1>8. CASE HasCopies(m)
  <2>1. PICK name : name = CopiesOption(m)
    OBVIOUS
  <2>2. name \in DOMAIN m /\ name \in CopiesIds
    BY <1>8, <2>1 DEF HasCopies, CopiesOption, CopiesIds
  <2>3. IsAxis(m, input, name, copies.values)
    <3>1. CASE input.source = "defaults"
      <4>1. copies.values = Default(m[name])
        BY <2>1, <3>1 DEF CopiesValues, Read
      <4>2. IsOption(m[name])
        BY <2>2, ModelIsTyped
      <4>3. QED
        BY <2>2, <3>1, <4>1, <4>2, DefaultIsFinite DEF IsAxis, Origin
    <3>2. CASE input.source # "defaults"
      <4>1. copies = ParseCopies(input.copies)
        BY <3>2 DEF CopiesValues
      <4>2. input.copies \in Seq(Entry)
        BY DEF TypedInput
      <4> HIDE DEF copies
      <4>3. copies.values \subseteq 1..MaximumCopies /\ IsFiniteSet(copies.values)
        BY <4>1, <4>2, CopiesAreCounted
      <4>4. 1..MaximumCopies \subseteq Value
        BY CopiesAssumption DEF Value
      <4>5. QED
        BY <2>2, <4>3, <4>4 DEF IsAxis, Origin
    <3>3. QED
      BY <3>1, <3>2
  <2>4. IsAxis(m, input, name, {1})
    <3>1. 1 \in 1..MaximumCopies /\ {1} \subseteq Value
      BY CopiesAssumption DEF Value
    <3>2. IsFiniteSet({1})
      BY FS_Singleton
    <3>3. QED
      BY <2>2, <3>1, <3>2 DEF IsAxis, Origin
  <2> HIDE DEF copies
  <2>5. PICK values : values = number
    OBVIOUS
  <2>6. values # {} /\ IsAxis(m, input, name, values)
    BY <2>3, <2>4, <2>5
  <2>7. axes = Append(own, Axis(name, values))
    BY <1>2, <1>8, <2>1, <2>5
  <2>8. values \subseteq Value /\ IsFiniteSet(values)
    BY <2>6 DEF IsAxis
  <2>9. \A i \in 1..Len(own) : own[i].name # name
    BY <1>7, <2>2
  <2> HIDE DEF number
  <2>10. PICK all : all = Append(own, Axis(name, values))
    OBVIOUS
  <2>11. /\ WellFormed(all) /\ Len(all) = Len(own) + 1
         /\ all[Len(own) + 1].name = name /\ all[Len(own) + 1].values = values
         /\ \A i \in 1..Len(own) : all[i] = own[i]
    BY <1>6, <1>7, <2>6, <2>8, <2>9, <2>10, OneMoreAxis
  <2>12. \A i \in 1..Len(all) : i \in 1..Len(own) \/ i = Len(own) + 1
    BY <1>6, <2>11
  <2>13. \A i \in 1..Len(all) : /\ all[i].name \in DOMAIN m
                                /\ IsAxis(m, input, all[i].name, all[i].values)
    BY <1>7, <2>2, <2>6, <2>11, <2>12
  <2>14. Len(all) # 0
    BY <1>6, <2>11
  <2>15. QED
    BY <2>7, <2>10, <2>11, <2>13, <2>14
<1>9. CASE ~HasCopies(m)
  <2>1. Len(own) = 0 => own = <<>>
    BY <1>6
  <2>2. QED
    BY <1>2, <1>7, <1>9, <2>1
<1>10. QED
  BY <1>8, <1>9

-----------------------------------------------------------------------------
(* The cases of a plan.                                                    *)

(* What is generated has rows, and says whether they are shuffled.         *)
LEMMA GeneratedIsRecord ==
  ASSUME NEW given, NEW strategy, NEW limit, NEW g \in GenerateWithStrategy(given, strategy, limit)
  PROVE  DOMAIN g = {"rows", "shuffled"}
<1>1. \A rows : DOMAIN InOrder(rows) = {"rows", "shuffled"} /\ DOMAIN Shuffled(rows) = {"rows", "shuffled"}
  BY DEF InOrder, Shuffled
<1>2. \/ \E rows : g = InOrder(rows)
      \/ \E rows : g = Shuffled(rows)
  BY DEF GenerateWithStrategy, Random
<1>3. QED
  BY <1>1, <1>2

(* What a plan keeps of generated rows: those that are wanted, as many as  *)
(* the limit allows.                                                       *)
FilteredFrom(m, input, p, axes, rows) ==
  LET wanted == {row \in ToSet(rows) : Wanted(m, input, row)}
      limit == NormalizeCaseLimit(input.limit)
  IN /\ p.axes = axes /\ p.cases \subseteq wanted /\ IsFiniteSet(wanted) /\ IsFiniteSet(p.cases)
     /\ Cardinality(p.cases) = Min({limit, Cardinality(wanted)})
     /\ Cardinality(p.cases) \in 1..limit
     /\ Cardinality(p.cases) = Cardinality(wanted) => p.cases = wanted
     /\ p.skipped = IF input.intent = "constraint" THEN 0 ELSE Len(rows) - Cardinality(wanted)

(* A plan of FilterPlans is that.                                          *)
LEMMA FilteredPlan ==
  ASSUME NEW m, NEW input, input.limit \in Nat, NEW axes,
         NEW T, NEW generated, generated.rows \in Seq(T), IsInjective(generated.rows),
         NEW p \in FilterPlans(m, input, axes, generated), p.ok
  PROVE  FilteredFrom(m, input, p, axes, generated.rows)
<1>1. PICK set : set = {row \in ToSet(generated.rows) : Wanted(m, input, row)}
  OBVIOUS
<1>2. PICK rows \in Seq(T) : rows = generated.rows /\ IsInjective(rows)
  OBVIOUS
<1>3. PICK list : list = Filter(rows, set)
  OBVIOUS
<1>4. /\ Filter(rows, set) \in Seq(T \cap set) /\ IsInjective(Filter(rows, set))
      /\ ToSet(Filter(rows, set)) = ToSet(rows) \cap set
  BY <1>2, PartOfList
<1>5. PICK U : U = T \cap set
  OBVIOUS
<1>6. list \in Seq(U) /\ IsInjective(list) /\ ToSet(list) = set
  BY <1>1, <1>2, <1>3, <1>4, <1>5
<1>7. IsFiniteSet(set) /\ Cardinality(set) = Len(list)
  BY <1>6, InjectiveCounts
<1>8. PICK limit \in Nat : limit = NormalizeCaseLimit(input.limit) /\ limit >= 1
  BY LimitIsNormal
<1>9. PICK n \in Nat : n = Len(list)
  BY <1>6
<1>10. PICK size \in Nat : size = Min({limit, n}) /\ size = (IF limit <= n THEN limit ELSE n)
  BY MinOfTwo
<1>11. PICK kept : kept = IF generated.shuffled THEN kSubset(size, set) ELSE {ToSet(UpTo(size, list))}
  OBVIOUS
<1>12. p \in IF list = <<>> THEN {NoPlan}
             ELSE {[ok |-> TRUE, cases |-> cases, axes |-> axes,
                    skipped |-> IF input.intent = "constraint" THEN 0
                                ELSE Len(rows) - Len(list)] : cases \in kept}
  <2> DEFINE skip == IF input.intent = "constraint" THEN 0 ELSE Len(rows) - Len(list)
  <2>1. FilterPlans(m, input, axes, generated) =
          LET wanted == Filter(generated.rows, {row \in ToSet(generated.rows) : Wanted(m, input, row)})
              most == Min({NormalizeCaseLimit(input.limit), Len(wanted)})
              some == IF generated.shuffled THEN kSubset(most, ToSet(wanted))
                      ELSE {ToSet(UpTo(most, wanted))}
          IN IF wanted = <<>> THEN {NoPlan}
             ELSE {[ok |-> TRUE, cases |-> cases, axes |-> axes,
                    skipped |-> IF input.intent = "constraint" THEN 0
                                ELSE Len(generated.rows) - Len(wanted)] : cases \in some}
    BY DEF FilterPlans
  <2>2. Filter(generated.rows, {row \in ToSet(generated.rows) : Wanted(m, input, row)}) = list
    BY <1>1, <1>2, <1>3
  <2>3. Min({NormalizeCaseLimit(input.limit), Len(list)}) = size
    BY <1>8, <1>9, <1>10
  <2>4. QED
    BY ZenonT(30), <1>2, <1>6, <1>11, <2>1, <2>2, <2>3
<1>13. list # <<>>
  BY <1>12 DEF NoPlan
<1>14. PICK cases \in kept : p = [ok |-> TRUE, cases |-> cases, axes |-> axes,
                                  skipped |-> IF input.intent = "constraint" THEN 0
                                              ELSE Len(rows) - Len(list)]
  BY <1>12, <1>13
<1>15. p.cases = cases /\ p.axes = axes
       /\ p.skipped = IF input.intent = "constraint" THEN 0 ELSE Len(rows) - Len(list)
  BY <1>14
<1>16. n >= 1
  BY <1>6, <1>9, <1>13
<1>17. size \in 1..limit /\ size <= n
  BY <1>8, <1>10, <1>16
<1>18. cases \subseteq set /\ Cardinality(cases) = size
  <2>1. CASE generated.shuffled
    BY <1>11, <1>14, <2>1 DEF kSubset
  <2>2. CASE ~generated.shuffled
    <3>1. cases = ToSet(UpTo(size, list))
      BY <1>11, <1>14, <2>2
    <3>2. PICK first : first = UpTo(size, list)
      OBVIOUS
    <3>3. /\ UpTo(size, list) \in Seq(U)
          /\ Len(UpTo(size, list)) = IF size <= Len(list) THEN size ELSE Len(list)
          /\ ToSet(UpTo(size, list)) \subseteq ToSet(list)
          /\ IsInjective(UpTo(size, list))
      BY <1>6, UpToRows
    <3>4. first \in Seq(U) /\ IsInjective(first) /\ Len(first) = size /\ ToSet(first) \subseteq set
      BY <1>6, <1>9, <1>17, <3>2, <3>3
    <3>5. Cardinality(ToSet(first)) = Len(first)
      BY <3>4, InjectiveCounts
    <3>6. QED
      BY <3>1, <3>2, <3>4, <3>5
  <2>3. QED
    BY <2>1, <2>2
<1>19. IsFiniteSet(cases) /\ (Cardinality(cases) = Cardinality(set) => cases = set)
  BY <1>7, <1>18, FS_Subset
<1>20. QED
  BY <1>1, <1>2, <1>7, <1>8, <1>9, <1>10, <1>15, <1>17, <1>18, <1>19 DEF FilteredFrom

(* Sorting the values of axes does not change the rows over them.          *)
LEMMA RowsOfAxes ==
  ASSUME NEW axes, WellFormed(axes)
  PROVE  Rows(axes) = RowsOver(NormalizeAxes(axes), Len(axes))
<1>1. PICK sorted : sorted = NormalizeAxes(axes)
  OBVIOUS
<1>2. \A i \in 1..Len(axes) : sorted[i].name = axes[i].name /\ ToSet(sorted[i].values) = axes[i].values
  BY <1>1, NormalizedAxes
<1>3. DOMAIN axes = 1..Len(axes)
  BY DEF WellFormed
<1>4. PICK n : n = Len(axes)
  OBVIOUS
<1>5. {axes[i].name : i \in DOMAIN axes} = {sorted[i].name : i \in 1..n}
  BY <1>2, <1>3, <1>4
<1>6. UNION {axes[i].values : i \in DOMAIN axes} = UNION {ToSet(sorted[i].values) : i \in 1..n}
  BY <1>2, <1>3, <1>4
<1>7. PICK D, V : D = {axes[i].name : i \in DOMAIN axes} /\ V = UNION {axes[i].values : i \in DOMAIN axes}
  OBVIOUS
<1>8. Rows(axes) = {row \in [D -> V] : \A i \in DOMAIN axes : row[axes[i].name] \in axes[i].values}
  BY <1>7 DEF Rows
<1>9. RowsOver(sorted, n) = {row \in [D -> V] : \A i \in 1..n : row[sorted[i].name] \in ToSet(sorted[i].values)}
  BY <1>5, <1>6, <1>7 DEF RowsOver, Names
<1>10. \A row : (\A i \in DOMAIN axes : row[axes[i].name] \in axes[i].values)
                  <=> (\A i \in 1..n : row[sorted[i].name] \in ToSet(sorted[i].values))
  BY <1>2, <1>3, <1>4
<1>11. QED
  BY <1>1, <1>4, <1>8, <1>9, <1>10

(* A plan with axes, and the rows it was filtered from.                    *)
PlanOver(m, input, p, axes, rows) ==
  LET candidates == CandidateLimit(m, axes, input)
      strategy == EffectiveStrategy(input, PlanAxes(m, input).ranged)
  IN /\ Len(axes) # 0 /\ rows \in Seq(Rows(axes)) /\ IsInjective(rows) /\ Len(rows) <= candidates
     /\ strategy \notin {"single", "pairwise"} /\ Len(rows) < candidates => ToSet(rows) = Rows(axes)
     /\ strategy = "pairwise" /\ Len(rows) < candidates => CoversPairs(rows, NormalizeAxes(axes), Len(axes))
     /\ FilteredFrom(m, input, p, axes, rows)

(* Never fewer candidates than cases, and never more than the maximum.     *)
LEMMA CandidateLimitIs ==
  ASSUME NEW m, NEW axes, NEW input, input.limit \in Nat
  PROVE  /\ CandidateLimit(m, axes, input) \in Nat
         /\ NormalizeCaseLimit(input.limit) <= CandidateLimit(m, axes, input)
         /\ CandidateLimit(m, axes, input) <= MaximumCaseLimit
<1>1. PICK limit : limit = NormalizeCaseLimit(input.limit)
  OBVIOUS
<1>2. limit \in 1..MaximumCaseLimit
  BY <1>1, LimitIsNormal
<1>3. QED
  BY <1>1, <1>2, LimitAssumption DEF CandidateLimit

(* A plan is the baseline, or is filtered from the rows over its axes.     *)
LEMMA PlanIs ==
  ASSUME NEW s \in DOMAIN Snapshot, NEW input, TypedInput(input), NEW m, m = Model[s],
         NEW p \in BuildPlan(m, input), p.ok
  PROVE  \/ p.cases = {<<>>} /\ p.axes = <<>> /\ input.intent # "constraint"
         \/ \E rows : PlanOver(m, input, p, PlanAxes(m, input).axes, rows)
<1> DEFINE planned == PlanAxes(m, input)
           mixes(strategy, g) == [g EXCEPT !.shuffled = @ \/ (planned.ranged /\ strategy # "pairwise")]
<1>1. PICK axes : axes = planned.axes
  OBVIOUS
<1>2. PICK strategy : strategy = EffectiveStrategy(input, planned.ranged)
  OBVIOUS
<1>3. input.limit \in Nat
  BY DEF TypedInput
<1>4. PICK limit : limit = CandidateLimit(m, axes, input)
  OBVIOUS
<1>5. limit \in Nat
  BY <1>3, <1>4, CandidateLimitIs
<1>6. PICK generated : generated = GenerateWithStrategy(axes, strategy, limit)
  OBVIOUS
<1>7. BuildPlan(m, input) =
        CASE input.source = "baseline" \/ (planned.ok /\ axes = <<>>) ->
               IF input.intent = "constraint" THEN {NoPlan} ELSE {BaselinePlan}
          [] input.source # "baseline" /\ ~planned.ok -> {NoPlan}
          [] OTHER -> UNION {FilterPlans(m, input, axes, mixes(strategy, g)) : g \in generated}
  BY <1>1, <1>2, <1>4, <1>6 DEF BuildPlan
<1>8. p # NoPlan
  BY DEF NoPlan
<1> HIDE DEF planned
<1>9. CASE input.source = "baseline" \/ (planned.ok /\ axes = <<>>)
  <2>1. p = BaselinePlan /\ input.intent # "constraint"
    BY <1>7, <1>8, <1>9
  <2>2. QED
    BY <2>1 DEF BaselinePlan
<1>10. CASE input.source # "baseline" /\ ~planned.ok
  BY <1>7, <1>8, <1>10
<1>11. CASE input.source # "baseline" /\ planned.ok /\ axes # <<>>
  <2>1. PICK g \in generated : p \in FilterPlans(m, input, axes, mixes(strategy, g))
    BY <1>7, <1>11
  <2>2. WellFormed(axes)
    BY <1>1, AxesHaveOrigins DEF planned
  <2>3. DOMAIN g = {"rows", "shuffled"}
    BY <1>6, <2>1, GeneratedIsRecord
  <2>4. PICK mixed : mixed = mixes(strategy, g)
    OBVIOUS
  <2>5. mixed.rows = g.rows
    BY <2>3, <2>4
  <2>6. Len(axes) # 0
    <3>1. Len(axes) = 0 => axes = <<>>
      BY <1>1, AxesHaveOrigins DEF planned
    <3>2. QED
      BY <1>11, <3>1
  <2>7. PICK sorted : sorted = NormalizeAxes(axes)
    OBVIOUS
  <2>8. PICK over : over = RowsOver(sorted, Len(axes)) /\ over = Rows(axes)
    BY <2>2, <2>7, RowsOfAxes
  <2>9. /\ g.rows \in Seq(over) /\ IsInjective(g.rows) /\ Len(g.rows) <= limit
        /\ strategy \notin {"single", "pairwise"} /\ Len(g.rows) < limit => ToSet(g.rows) = over
        /\ strategy = "pairwise" /\ Len(g.rows) < limit => CoversPairs(g.rows, sorted, Len(axes))
    BY <1>5, <1>6, <2>1, <2>2, <2>6, <2>7, <2>8, GeneratedRows
  <2>10. PICK rows : rows = g.rows
    OBVIOUS
  <2>11. /\ mixed.rows \in Seq(over) /\ IsInjective(mixed.rows) /\ mixed.rows = rows
         /\ p \in FilterPlans(m, input, axes, mixed)
    BY <2>1, <2>4, <2>5, <2>9, <2>10
  <2>12. FilteredFrom(m, input, p, axes, rows)
    <3>1. FilteredFrom(m, input, p, axes, mixed.rows)
      BY <1>3, <2>11, FilteredPlan
    <3>2. QED
      BY <2>11, <3>1
  <2>13. PlanOver(m, input, p, axes, rows)
    BY <1>2, <1>4, <2>6, <2>7, <2>8, <2>9, <2>10, <2>12 DEF PlanOver, planned
  <2>14. QED
    BY <1>1, <2>13 DEF planned
<1>12. QED
  BY <1>9, <1>10, <1>11

-----------------------------------------------------------------------------
(* A plan is complete.                                                     *)

(* There are finitely many rows over axes.                                 *)
LEMMA RowsAreFinite ==
  ASSUME NEW axes, WellFormed(axes)
  PROVE  IsFiniteSet(Rows(axes)) /\ Cardinality(Rows(axes)) \in Nat
<1>1. PICK sorted : sorted = NormalizeAxes(axes)
  OBVIOUS
<1>2. IsNormal(sorted) /\ Len(sorted) = Len(axes)
  BY <1>1, NormalizedAxes
<1>3. PICK over : over = RowsOver(sorted, Len(sorted))
  OBVIOUS
<1>4. over = Rows(axes)
  BY <1>1, <1>2, <1>3, RowsOfAxes
<1>5. PICK all : all = Product(sorted)
  OBVIOUS
<1>6. all \in Seq(over) /\ IsInjective(all) /\ ToSet(all) = over
  BY <1>2, <1>3, <1>5, ProductRows
<1>7. IsFiniteSet(over)
  BY <1>6, InjectiveCounts
<1>8. QED
  BY <1>4, <1>7, FS_CardinalityType

(* Axes without a published dependency between them have no conflict.      *)
LEMMA WithoutDependencies ==
  ASSUME NEW m, NEW axes, ~HasExplicitConstraintDependencies(m, {axes[i].name : i \in DOMAIN axes}),
         NEW row \in Rows(axes)
  PROVE  Conflicts(m, row) = {}
<1>1. DOMAIN row = {axes[i].name : i \in DOMAIN axes}
  BY DEF Rows
<1>2. QED
  BY <1>1 DEF Conflicts, HasExplicitConstraintDependencies

AllThatFit(m, input, p, axes) ==
  Cardinality(p.cases) = Min({NormalizeCaseLimit(input.limit),
                              Cardinality({row \in Rows(axes) : Wanted(m, input, row)})})

(* With all or random cases, constraints take none away that the limit     *)
(* would have had room for.                                                *)
LEMMA EveryCaseThereIs ==
  ASSUME NEW m, NEW input, input.limit \in Nat, NEW p, NEW axes, WellFormed(axes), NEW rows,
         PlanOver(m, input, p, axes, rows),
         input.strategy \in {"selected", "all", "random"},
         Cardinality(Rows(axes)) <= MaximumCaseLimit
  PROVE  AllThatFit(m, input, p, axes)
<1>1. PICK limit \in Nat : limit = NormalizeCaseLimit(input.limit)
  BY LimitIsNormal
<1>2. PICK candidates : candidates = CandidateLimit(m, axes, input)
  OBVIOUS
<1>3. candidates \in Nat
  BY <1>2, CandidateLimitIs
<1>4. PICK every : every = Rows(axes)
  OBVIOUS
<1>5. IsFiniteSet(every) /\ Cardinality(every) \in Nat /\ Cardinality(every) <= MaximumCaseLimit
  BY <1>4, RowsAreFinite
<1>6. EffectiveStrategy(input, PlanAxes(m, input).ranged) \notin {"single", "pairwise"}
  BY DEF EffectiveStrategy
<1>7. /\ rows \in Seq(every) /\ IsInjective(rows) /\ Len(rows) <= candidates
      /\ Len(rows) < candidates => ToSet(rows) = every
      /\ FilteredFrom(m, input, p, axes, rows)
  BY <1>2, <1>4, <1>6 DEF PlanOver
<1>8. /\ Cardinality(p.cases) =
           Min({limit, Cardinality({row \in ToSet(rows) : Wanted(m, input, row)})})
      /\ Cardinality(p.cases) \in 1..limit
      /\ p.cases \subseteq {row \in ToSet(rows) : Wanted(m, input, row)}
  BY <1>1, <1>7 DEF FilteredFrom
<1>9. CASE ToSet(rows) = every
  BY <1>1, <1>4, <1>8, <1>9 DEF AllThatFit
<1>10. CASE ToSet(rows) # every
  <2>1. PICK n \in Nat : n = Len(rows)
    BY <1>7
  <2>2. n = candidates
    BY <1>3, <1>7, <1>10, <2>1
  <2>3. Cardinality(ToSet(rows)) = n /\ IsFiniteSet(ToSet(rows))
    BY <1>7, <2>1, InjectiveCounts
  <2>4. ToSet(rows) \subseteq every
    BY <1>7, InDomain
  <2>5. n <= Cardinality(every) /\ (Cardinality(every) = n => every = ToSet(rows))
    BY <1>5, <2>3, <2>4, FS_Subset
  <2>6. n < MaximumCaseLimit
    BY <1>5, <1>10, <2>1, <2>5, LimitAssumption
  <2>7. /\ ~HasExplicitConstraintDependencies(m, {axes[i].name : i \in DOMAIN axes})
        /\ candidates = limit
    BY <1>1, <1>2, <2>2, <2>6, LimitAssumption DEF CandidateLimit
  <2>8. \A row \in every : Conflicts(m, row) = {}
    BY <1>4, <2>7, WithoutDependencies
  <2>9. p.cases # {}
    <3>1. Cardinality(p.cases) # 0
      BY <1>1, <1>8
    <3>2. QED
      BY <3>1, FS_EmptySet
  <2>10. PICK case \in p.cases : case \in ToSet(rows) /\ Wanted(m, input, case)
    BY <1>8, <2>9
  <2>11. input.intent # "constraint"
    BY <2>4, <2>8, <2>10 DEF Wanted
  <2>12. \A row \in every : Wanted(m, input, row)
    BY <2>8, <2>11 DEF Wanted
  <2>13. {row \in every : Wanted(m, input, row)} = every
    BY <2>12
  <2>14. Min({limit, Cardinality(every)}) = limit
    <3>1. limit <= Cardinality(every)
      BY <2>2, <2>5, <2>7
    <3>2. Min({limit, Cardinality(every)}) = IF limit <= Cardinality(every) THEN limit ELSE Cardinality(every)
      BY <1>1, <1>5, MinOfTwo
    <3>3. QED
      BY <3>1, <3>2
  <2>15. {row \in ToSet(rows) : Wanted(m, input, row)} = ToSet(rows)
    BY <2>4, <2>12
  <2>16. Cardinality(p.cases) = Min({limit, limit})
    BY <1>8, <2>2, <2>3, <2>7, <2>15
  <2>17. Min({limit, limit}) = limit
    BY <1>1, MinOfTwo
  <2>18. QED
    BY <1>1, <1>4, <2>13, <2>14, <2>16, <2>17 DEF AllThatFit
<1>11. QED
  BY <1>9, <1>10

(* A pairwise plan that is neither cut off nor filtered has every pair.    *)
LEMMA EveryPairThereIs ==
  ASSUME NEW m, NEW input, input.limit \in Nat, NEW p, NEW axes, WellFormed(axes), NEW rows,
         PlanOver(m, input, p, axes, rows),
         input.strategy = "pairwise", input.intent = "positive",
         Cardinality(p.cases) < NormalizeCaseLimit(input.limit), p.skipped = 0,
         NEW i \in DOMAIN axes, NEW j \in DOMAIN axes, i < j,
         NEW a \in axes[i].values, NEW b \in axes[j].values
  PROVE  Together(p.cases, axes[i].name, a, axes[j].name, b)
<1>1. PICK limit \in Nat : limit = NormalizeCaseLimit(input.limit)
  BY LimitIsNormal
<1>2. PICK candidates : candidates = CandidateLimit(m, axes, input)
  OBVIOUS
<1>3. candidates \in Nat /\ limit <= candidates
  BY <1>1, <1>2, CandidateLimitIs
<1>4. EffectiveStrategy(input, PlanAxes(m, input).ranged) = "pairwise"
  BY DEF EffectiveStrategy
<1>5. PICK sorted : sorted = NormalizeAxes(axes)
  OBVIOUS
<1>6. PICK every : every = Rows(axes)
  OBVIOUS
<1>7. /\ rows \in Seq(every) /\ IsInjective(rows) /\ Len(rows) <= candidates
      /\ Len(rows) < candidates => CoversPairs(rows, sorted, Len(axes))
      /\ FilteredFrom(m, input, p, axes, rows)
  BY <1>2, <1>4, <1>5, <1>6 DEF PlanOver
<1>8. PICK n \in Nat : n = Len(rows)
  BY <1>7
<1>9. Cardinality(ToSet(rows)) = n /\ IsFiniteSet(ToSet(rows))
  BY <1>7, <1>8, InjectiveCounts
<1>10. PICK wanted : wanted = {row \in ToSet(rows) : Wanted(m, input, row)}
  OBVIOUS
<1>11. /\ IsFiniteSet(wanted) /\ Cardinality(p.cases) = Min({limit, Cardinality(wanted)})
       /\ Cardinality(p.cases) = Cardinality(wanted) => p.cases = wanted
       /\ n - Cardinality(wanted) = 0
  BY <1>1, <1>7, <1>8, <1>10 DEF FilteredFrom
<1>12. Cardinality(wanted) \in Nat
  BY <1>11, FS_CardinalityType
<1>13. Cardinality(wanted) = n
  BY <1>8, <1>11, <1>12
<1>14. wanted = ToSet(rows)
  BY <1>9, <1>10, <1>13, FS_Subset
<1>15. Min({limit, n}) = IF limit <= n THEN limit ELSE n
  BY <1>1, <1>8, MinOfTwo
<1>16. Cardinality(p.cases) = n /\ n < limit
  BY <1>1, <1>8, <1>11, <1>13, <1>15
<1>17. p.cases = ToSet(rows)
  BY <1>11, <1>13, <1>14, <1>16
<1>18. CoversPairs(rows, sorted, Len(axes))
  BY <1>1, <1>3, <1>7, <1>8, <1>16
<1>19. DOMAIN axes = 1..Len(axes)
  BY DEF WellFormed
<1>20. /\ sorted[i].name = axes[i].name /\ ToSet(sorted[i].values) = axes[i].values
       /\ sorted[j].name = axes[j].name /\ ToSet(sorted[j].values) = axes[j].values
  BY <1>5, <1>19, NormalizedAxes
<1>21. HasPair(rows, sorted[i].name, a, sorted[j].name, b)
  BY <1>18, <1>19, <1>20 DEF CoversPairs
<1>22. PICK k \in 1..Len(rows) : rows[k][axes[i].name] = a /\ rows[k][axes[j].name] = b
  BY <1>20, <1>21 DEF HasPair
<1>23. rows[k] \in p.cases
  BY <1>7, <1>17, InDomain
<1>24. QED
  BY <1>22, <1>23 DEF Together

CompletePlan(m, input, p) ==
  LET rows == Rows(p.axes)
      limit == NormalizeCaseLimit(input.limit)
      wanted == {row \in rows : Wanted(m, input, row)}
      n == Cardinality(p.cases)
  IN /\ p.cases \subseteq wanted
     /\ n \in 1..limit
     /\ input.strategy \in {"selected", "all", "random"} /\ Cardinality(rows) <= MaximumCaseLimit
          => n = Min({limit, Cardinality(wanted)})
     /\ input.strategy = "pairwise" /\ input.intent = "positive"
        /\ n < limit /\ p.skipped = 0
          => \A i, j \in DOMAIN p.axes : i < j =>
               \A a \in p.axes[i].values, b \in p.axes[j].values :
                 Together(p.cases, p.axes[i].name, a, p.axes[j].name, b)

(* Every plan with axes is complete.                                       *)
LEMMA PlanIsFull ==
  ASSUME NEW s \in DOMAIN Snapshot, NEW input, TypedInput(input), NEW m, m = Model[s],
         NEW p \in BuildPlan(m, input), p.ok, p.axes # <<>>
  PROVE  CompletePlan(m, input, p)
<1>1. PICK axes : axes = PlanAxes(m, input).axes
  OBVIOUS
<1>2. PICK rows : PlanOver(m, input, p, axes, rows)
  BY <1>1, PlanIs
<1>3. WellFormed(axes)
  BY <1>1, AxesHaveOrigins
<1>4. input.limit \in Nat
  BY DEF TypedInput
<1>5. /\ p.axes = axes /\ p.cases \subseteq {row \in ToSet(rows) : Wanted(m, input, row)}
      /\ Cardinality(p.cases) \in 1..NormalizeCaseLimit(input.limit)
  BY <1>2 DEF PlanOver, FilteredFrom
<1>6. ToSet(rows) \subseteq Rows(axes)
  <2>1. PICK every : every = Rows(axes)
    OBVIOUS
  <2>2. rows \in Seq(every)
    BY <1>2, <2>1 DEF PlanOver
  <2>3. ToSet(rows) \subseteq every
    BY <2>2, InDomain
  <2>4. QED
    BY <2>1, <2>3
<1>7. input.strategy \in {"selected", "all", "random"} /\ Cardinality(Rows(axes)) <= MaximumCaseLimit
        => AllThatFit(m, input, p, axes)
  BY <1>2, <1>3, <1>4, EveryCaseThereIs
<1>8. input.strategy = "pairwise" /\ input.intent = "positive"
      /\ Cardinality(p.cases) < NormalizeCaseLimit(input.limit) /\ p.skipped = 0
        => \A i, j \in DOMAIN axes : i < j =>
             \A a \in axes[i].values, b \in axes[j].values :
               Together(p.cases, axes[i].name, a, axes[j].name, b)
  BY <1>2, <1>3, <1>4, EveryPairThereIs
<1>9. QED
  BY <1>5, <1>6, <1>7, <1>8 DEF CompletePlan, AllThatFit

(* A plan misses no case it could have, for any axes, limits, constraints  *)
(* and choices of the random generator: as many cases as the limit allows  *)
(* when all or random ones are asked for, and every pair of values in a    *)
(* pairwise plan that was neither cut off nor filtered (BuildPlan,         *)
(* internal/combinations).                                                 *)
THEOREM PlansAreComplete == Spec => []PlanIsComplete
<1>1. ASSUME PageInv, Planned, plan.axes # <<>> PROVE CompletePlan(Model[capability], request.input, plan)
  <2>1. /\ capability \in DOMAIN Snapshot /\ plan \in BuildPlan(Model[capability], request.input)
        /\ plan.ok /\ TypedInput(request.input)
    BY <1>1 DEF PageInv, PlanInv, FormInv, Planned
  <2>2. PICK s, input, m, p : s = capability /\ input = request.input /\ m = Model[s] /\ p = plan
    OBVIOUS
  <2>3. s \in DOMAIN Snapshot /\ TypedInput(input) /\ p \in BuildPlan(m, input) /\ p.ok /\ p.axes # <<>>
    BY <1>1, <2>1, <2>2
  <2>4. CompletePlan(m, input, p)
    BY <2>2, <2>3, PlanIsFull
  <2>5. QED
    BY <2>2, <2>4
<1>2. PageInv => PlanIsComplete
  BY <1>1 DEF PlanIsComplete, CompletePlan
<1>3. QED
  BY <1>2, PageInvariant, PTL

-----------------------------------------------------------------------------
(* A plan respects the server.                                             *)

PlannedRow(m, input, row) ==
  /\ DOMAIN row \subseteq DOMAIN m
  /\ \A id \in DOMAIN row : row[id] \in Value /\ Origin(m, input, id, row[id])
  /\ Wanted(m, input, row)

(* A case sets properties of the model to values that have an origin.      *)
LEMMA CasesArePlanned ==
  ASSUME NEW s \in DOMAIN Snapshot, NEW input, TypedInput(input), NEW m, m = Model[s],
         NEW p \in BuildPlan(m, input), p.ok, NEW row \in p.cases
  PROVE  PlannedRow(m, input, row)
<1>1. PICK axes : axes = PlanAxes(m, input).axes
  OBVIOUS
<1>2. CASE p.cases = {<<>>} /\ input.intent # "constraint"
  <2>1. DOMAIN row = {}
    BY <1>2
  <2>2. Conflicts(m, row) = {}
    BY <2>1 DEF Conflicts
  <2>3. QED
    BY <1>2, <2>1, <2>2 DEF PlannedRow, Wanted
<1>3. CASE \E rows : PlanOver(m, input, p, axes, rows)
  <2>1. PICK rows : PlanOver(m, input, p, axes, rows)
    BY <1>3
  <2>2. PICK every : every = Rows(axes)
    OBVIOUS
  <2>3. rows \in Seq(every) /\ row \in ToSet(rows) /\ Wanted(m, input, row)
    BY <2>1, <2>2 DEF PlanOver, FilteredFrom
  <2>4. row \in every
    BY <2>3, InDomain
  <2>5. /\ DOMAIN row = {axes[i].name : i \in DOMAIN axes}
        /\ \A i \in DOMAIN axes : row[axes[i].name] \in axes[i].values
    BY <2>2, <2>4 DEF Rows
  <2>6. /\ DOMAIN axes = 1..Len(axes)
        /\ \A i \in 1..Len(axes) : /\ axes[i].name \in DOMAIN m
                                   /\ IsAxis(m, input, axes[i].name, axes[i].values)
    BY <1>1, AxesHaveOrigins DEF WellFormed
  <2>7. \A id \in DOMAIN row : id \in DOMAIN m /\ row[id] \in Value /\ Origin(m, input, id, row[id])
    <3> SUFFICES ASSUME NEW id \in DOMAIN row
                 PROVE  id \in DOMAIN m /\ row[id] \in Value /\ Origin(m, input, id, row[id])
      OBVIOUS
    <3>1. PICK i \in 1..Len(axes) : id = axes[i].name /\ row[id] \in axes[i].values
      BY <2>5, <2>6
    <3>2. id \in DOMAIN m /\ IsAxis(m, input, id, axes[i].values)
      BY <2>6, <3>1
    <3>3. QED
      BY <3>1, <3>2 DEF IsAxis
  <2>8. QED
    BY <2>3, <2>7 DEF PlannedRow
<1>4. QED
  BY <1>1, <1>2, <1>3, PlanIs

(* ValidateCombination reads the exclusions that the server published.     *)
LEMMA ConflictsAreExclusions ==
  ASSUME NEW s \in DOMAIN Snapshot, NEW row, DOMAIN row \subseteq DOMAIN Model[s]
  PROVE  Conflicts(Model[s], row) # {} <=> \E id \in DOMAIN row \ Added(s) : Excludes(s, row, id)
<1>1. \A id \in DOMAIN row : id \in Added(s) => Model[s][id].excludes = {}
  <2> SUFFICES ASSUME NEW id \in DOMAIN row, id \in Added(s) PROVE Model[s][id].excludes = {}
    OBVIOUS
  <2>1. AddedOption(s, id)
    BY OwnOrAdded
  <2>2. CASE Model[s][id] = Synthetic(1, {1, 2, 5, 10}, CopiesRange)
    BY <2>2 DEF Synthetic
  <2>3. CASE Model[s][id] = Synthetic(SyntheticScale.value, {}, SyntheticScale.range)
    BY <2>3 DEF Synthetic
  <2>4. QED
    BY <2>1, <2>2, <2>3 DEF AddedOption
<1>2. \A id \in DOMAIN row : id \notin Added(s) =>
         /\ id \in DOMAIN Snapshot[s] /\ Model[s][id].excludes = Snapshot[s][id].excludes
         /\ \A e \in Snapshot[s][id].excludes : e.option = id
  <2> SUFFICES ASSUME NEW id \in DOMAIN row, id \notin Added(s)
               PROVE  /\ id \in DOMAIN Snapshot[s] /\ Model[s][id].excludes = Snapshot[s][id].excludes
                      /\ \A e \in Snapshot[s][id].excludes : e.option = id
    OBVIOUS
  <2>1. OwnOption(s, id)
    BY OwnOrAdded
  <2>2. id \in DOMAIN Snapshot[s] /\ Model[s][id].excludes = Snapshot[s][id].excludes
    BY <2>1 DEF OwnOption
  <2>3. QED
    BY <2>2, SnapshotAssumption
<1>3. ASSUME NEW e \in Conflicts(Model[s], row)
      PROVE  \E id \in DOMAIN row \ Added(s) : Excludes(s, row, id)
  <2>1. PICK id \in DOMAIN row : e \in Model[s][id].excludes
    BY <1>3 DEF Conflicts
  <2>2. row[e.option] = e.value /\ e.dependency \in DOMAIN row /\ row[e.dependency] \in e.values
    BY <1>3 DEF Conflicts
  <2>3. id \notin Added(s)
    BY <1>1, <2>1
  <2>4. e \in Snapshot[s][id].excludes /\ e.option = id
    BY <1>2, <2>1, <2>3
  <2>5. QED
    BY <2>2, <2>3, <2>4 DEF Excludes
<1>4. ASSUME NEW id \in DOMAIN row \ Added(s), Excludes(s, row, id)
      PROVE  Conflicts(Model[s], row) # {}
  <2>1. PICK e \in Snapshot[s][id].excludes :
           e.value = row[id] /\ e.dependency \in DOMAIN row /\ row[e.dependency] \in e.values
    BY <1>4 DEF Excludes
  <2>2. e \in Model[s][id].excludes /\ e.option = id
    BY <1>2, <2>1
  <2>3. e \in Conflicts(Model[s], row)
    BY <2>1, <2>2 DEF Conflicts
  <2>4. QED
    BY <2>3
<1>5. QED
  BY <1>3, <1>4

(* A value that the configuration is against is one that it rules out.     *)
LEMMA ConfigurationRulesOut ==
  ASSUME NEW s \in DOMAIN Snapshot, NEW id \in DOMAIN Snapshot[s], NEW row,
         AgainstConfiguration(s, row, id)
  PROVE  RuledOut(Snapshot[s], id, row[id])
<1>1. PICK e \in Snapshot[s][id].excludes :
         /\ e.value = row[id] /\ e.dependency \in Installed(s)
         /\ Snapshot[s][e.dependency].value \in e.values
  BY DEF AgainstConfiguration
<1>2. Snapshot[s][id] \in Published
  BY SnapshotAssumption
<1>3. e \in Exclusion
  BY <1>1, <1>2 DEF Published
<1>4. Snapshot[s][e.dependency].value # 0
  BY <1>1, <1>3 DEF Exclusion, Value
<1>5. e.dependency \in Fixed(Snapshot[s])
  BY <1>1, <1>4 DEF Fixed, Of, Installed
<1>6. QED
  BY <1>1, <1>5 DEF RuledOut

(* With inputs for this server, an origin is an offer.                     *)
LEMMA OriginIsOffered ==
  ASSUME NEW s \in DOMAIN Snapshot, NEW input, NEW row, NEW id \in DOMAIN row, id \in DOMAIN Model[s],
         input.source # "defaults", Origin(Model[s], input, id, row[id]),
         ~HasBounds(Model[s][id]) => input.selected[id] \subseteq Model[s][id].values
  PROVE  OffersValue(s, Added(s), row, id)
<1> DEFINE added == Added(s)
           option == Model[s][id]
           bounds == BoundsOf(s, added, id)
           v == row[id]
<1>1. CASE id \in CopiesIds
  BY <1>1 DEF Origin, OffersValue
<1>2. CASE id \notin CopiesIds /\ id \in added
  <2>1. id = "Scaling" /\ option = Synthetic(SyntheticScale.value, {}, SyntheticScale.range)
    BY <1>2, OwnOrAdded DEF AddedOption, CopiesIds
  <2>2. option.value = SyntheticScale.value /\ option.values = {} /\ option.range = SyntheticScale.range
    BY <2>1 DEF Synthetic
  <2>3. HasBounds(option)
    BY <2>2, ScaleAssumption DEF HasBounds
  <2>4. bounds = SyntheticScale.range
    BY <1>2, <2>1 DEF BoundsOf, ScaleIds
  <2>5. OnGrid(option.range, v) \/ v = option.value
    BY <1>2, <2>2, <2>3 DEF Origin, OriginOfOption
  <2>6. OnGrid(bounds, SyntheticScale.value)
    BY <2>4, ScaleAssumption DEF OnGrid
  <2>7. OnGrid(bounds, v)
    BY <2>2, <2>4, <2>5, <2>6
  <2>8. QED
    BY <2>7 DEF OnGrid, OffersValue
<1>3. CASE id \notin CopiesIds /\ id \notin added
  <2>1. OwnOption(s, id)
    BY <1>3, OwnOrAdded
  <2>2. /\ id \in DOMAIN Snapshot[s] /\ option.value = Snapshot[s][id].value
        /\ option.range = BoundsOf(s, {}, id)
        /\ \A w \in option.values : w \in Snapshot[s][id].values /\ ~RuledOut(Snapshot[s], id, w)
    BY <2>1 DEF OwnOption
  <2>3. bounds = option.range
    BY <1>3, <2>2 DEF BoundsOf
  <2>4. CASE v \in option.values
    <3>1. v \in Snapshot[s][id].values /\ ~AgainstConfiguration(s, row, id)
      BY <2>2, <2>4, ConfigurationRulesOut
    <3>2. QED
      BY <1>3, <3>1 DEF OffersValue
  <2>5. CASE HasBounds(option) /\ OnGrid(option.range, v)
    BY <2>3, <2>5 DEF OnGrid, OffersValue
  <2>6. CASE HasBounds(option) /\ v = option.value
    <3>1. bounds # NoRange /\ v = Snapshot[s][id].value
      BY <2>2, <2>3, <2>6 DEF HasBounds
    <3>2. QED
      BY <1>3, <3>1 DEF OffersValue
  <2>7. CASE ~HasBounds(option) /\ v \in input.selected[id]
    BY <2>4, <2>7
  <2>8. CASE ~HasBounds(option) /\ id = PageRange /\ CustomPageRangeSupported(Model[s]) /\ v >= FirstCustom
    <3>1. Range1 \in Snapshot[s][id].values
      BY <2>2, <2>8 DEF CustomPageRangeSupported
    <3>2. QED
      BY <1>3, <2>8, <3>1 DEF OffersValue
  <2>9. CASE ~HasBounds(option) /\ option.values = {}
    BY <2>9, Menus
  <2>10. QED
    BY <1>3, <2>4, <2>5, <2>6, <2>7, <2>8, <2>9 DEF Origin, OriginOfOption
<1>4. QED
  BY <1>1, <1>2, <1>3

RespectfulRow(s, added, input, for, row) ==
  /\ \A id \in DOMAIN row : IsControl(s, added, id)
  /\ \A id, other \in DOMAIN row : Alias[id] = Alias[other] => id = other
  /\ (input.intent = "constraint") <=> \E id \in DOMAIN row \ added : Excludes(s, row, id)
  /\ for \subseteq {s} /\ input.source # "defaults" => FromMenus(s, added, row)

(* Every case of a plan respects the server.                               *)
LEMMA CasesAreRespectful ==
  ASSUME NEW s \in DOMAIN Snapshot, NEW f, FormInv(f), NEW m, m = Model[s],
         NEW p \in BuildPlan(m, f.input), p.ok, NEW row \in p.cases
  PROVE  RespectfulRow(s, Added(s), f.input, f.for, row)
<1>1. PICK input : input = f.input
  OBVIOUS
<1>2. TypedInput(input) /\ Offered(f)
  BY <1>1 DEF FormInv
<1>3. PlannedRow(m, input, row)
  BY <1>1, <1>2, CasesArePlanned
<1>4. /\ DOMAIN row \subseteq DOMAIN m
      /\ \A id \in DOMAIN row : Origin(m, input, id, row[id])
      /\ Wanted(m, input, row)
  BY <1>3 DEF PlannedRow
<1>5. \A id \in DOMAIN row : IsControl(s, Added(s), id)
  <2> SUFFICES ASSUME NEW id \in DOMAIN row PROVE IsControl(s, Added(s), id)
    OBVIOUS
  <2>1. id \in Added(s) \/ IsControl(s, {}, id)
    BY <1>4, OwnOrAdded DEF OwnOption
  <2>2. QED
    BY <2>1 DEF IsControl
<1>6. \A id, other \in DOMAIN row : Alias[id] = Alias[other] => id = other
  BY <1>4, ModelHasOneName
<1>7. (input.intent = "constraint") <=> \E id \in DOMAIN row \ Added(s) : Excludes(s, row, id)
  BY <1>4, ConflictsAreExclusions DEF Wanted
<1>8. ASSUME f.for \subseteq {s}, input.source # "defaults", NEW id \in DOMAIN row
      PROVE  OffersValue(s, Added(s), row, id)
  <2>1. id \in DOMAIN Model[s] /\ Origin(Model[s], input, id, row[id])
    BY <1>4
  <2>2. id \in ToSet(PropertyId)
    BY <2>1, ModelIsKnown
  <2>3. input.selected[id] \subseteq Model[s][id].values
    BY <1>1, <1>2, <1>8, <2>2 DEF Offered
  <2>4. QED
    BY <1>8, <2>1, <2>3, OriginIsOffered
<1>9. QED
  BY <1>1, <1>5, <1>6, <1>7, <1>8 DEF RespectfulRow, FromMenus

(* A plan holds cases that the server can take, for any server, inputs and *)
(* crossing of calls: controls of a job only, one name for a property,     *)
(* conflicts exactly when they are asked for, and, when the inputs are for *)
(* these capabilities, only values that the server offers (BuildPlan over  *)
(* FromSnapshot, ValidateCombination).                                     *)
THEOREM PlansRespectServer == Spec => []PlanRespectsServer
<1>1. ASSUME PageInv, Planned, NEW row \in plan.cases
      PROVE  RespectfulRow(capability, Added(capability), request.input, request.for, row)
  <2>1. /\ capability \in DOMAIN Snapshot /\ plan \in BuildPlan(Model[capability], request.input)
        /\ plan.ok /\ FormInv(request)
    BY <1>1 DEF PageInv, PlanInv, Planned
  <2>2. PICK s, f, m, p : s = capability /\ f = request /\ m = Model[s] /\ p = plan
    OBVIOUS
  <2>3. FormInv(f)
    BY <2>1, <2>2 DEF FormInv, Offered, HasField
  <2>4. s \in DOMAIN Snapshot /\ p \in BuildPlan(m, f.input) /\ p.ok /\ row \in p.cases
    BY <1>1, <2>1, <2>2
  <2>5. RespectfulRow(s, Added(s), f.input, f.for, row)
    BY <2>2, <2>3, <2>4, CasesAreRespectful
  <2>6. QED
    BY <2>2, <2>5
<1>2. PageInv => PlanRespectsServer
  BY <1>1 DEF PlanRespectsServer, RespectfulRow
<1>3. QED
  BY <1>2, PageInvariant, PTL
=============================================================================
