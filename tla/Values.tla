-------------------------------- MODULE Values ------------------------------
(***************************************************************************)
(* What an operator types for a property: a list of numbers and inclusive  *)
(* ranges, read as copies (internal/copyvalues), as the values of a        *)
(* numeric property within the bounds of the server (internal/rangevalues) *)
(* or as pages (internal/pagevalues).                                      *)
(*                                                                         *)
(* Abstractions.  An input is the sequence of its entries, <<>> when it is *)
(* blank; an entry that is no number is the number 0 where 0 is refused.   *)
(* Numbers are whole, which leaves out the precision and the tolerance of  *)
(* decimal values.  Spaces and the two ways to write a range are left out. *)
(***************************************************************************)
EXTENDS Lists

CONSTANTS
  MaximumCopies,  \* copyvalues.Maximum
  ExpansionLimit  \* DefaultExpansionLimit

ASSUME CopiesAssumption == MaximumCopies \in Nat \ {0}
ASSUME ExpansionAssumption == ExpansionLimit \in Nat \ {0}

(* An entry of an input, and the bounds of a numeric property.             *)
Entry == [from : Nat, to : Nat, ranged : BOOLEAN]
Bounds == [min : Nat \ {0}, max : Nat, increment : Nat \ {0}]

One(n) == [from |-> n, to |-> n, ranged |-> FALSE]
Span(from, to) == [from |-> from, to |-> to, ranged |-> TRUE]

Refused == [ok |-> FALSE, values |-> {}, ranged |-> FALSE]
Read(values, ranged) == [ok |-> TRUE, values |-> values, ranged |-> ranged]

HasRange(input) == \E i \in DOMAIN input : input[i].ranged

ParseCopies(input) ==
  IF input = <<>> \/ \E i \in DOMAIN input : \/ ~({input[i].from, input[i].to} \subseteq 1..MaximumCopies)
                                             \/ input[i].from > input[i].to
  THEN Refused
  ELSE Read(UNION {input[i].from..input[i].to : i \in DOMAIN input}, HasRange(input))

(* The values of an entry: a range goes up by the increment.               *)
Expand(entry, bounds) == {n \in entry.from..entry.to : (n - entry.from) % bounds.increment = 0}

(* A range is given up when it has another value and the limit is reached, *)
(* whether or not that value is new.                                       *)
Overruns(input, i, bounds) ==
  LET visited == Expand(input[i], bounds)
      before == UNION {Expand(input[j], bounds) : j \in 1..i - 1} \cup (visited \ {Max(visited)})
  IN input[i].ranged /\ Cardinality(before) >= ExpansionLimit

ParseRange(input, bounds) ==
  LET Follows(n) == n \in bounds.min..bounds.max /\ (n - bounds.min) % bounds.increment = 0
  IN IF \/ input = <<>>
        \/ \E i \in DOMAIN input : \/ ~Follows(input[i].from) \/ ~Follows(input[i].to)
                                   \/ input[i].from > input[i].to
                                   \/ Overruns(input, i, bounds)
     THEN Refused
     ELSE Read(UNION {Expand(input[i], bounds) : i \in DOMAIN input}, HasRange(input))

ParsePages(input) ==
  LET pages == UNION {input[i].from..input[i].to : i \in DOMAIN input}
  IN IF \/ input = <<>>
        \/ \E i \in DOMAIN input : input[i].from < 1 \/ input[i].from > input[i].to
        \/ Cardinality(pages) > ExpansionLimit
     THEN Refused
     ELSE Read(pages, HasRange(input))

(* compact: the runs of consecutive pages, in order.                       *)
CompactWithoutLast(pages) ==  \* Fault: a run ends before its last page
  LET End(p) == Min({q \in pages : q >= p /\ q + 1 \notin pages})
      Run(p) == IF End(p) <= p + 1 THEN One(p) ELSE Span(p, End(p) - 1)
      starts == Ascending({p \in pages : p - 1 \notin pages})
  IN [i \in DOMAIN starts |-> Run(starts[i])]

Compact(pages) ==
  LET End(p) == Min({q \in pages : q >= p /\ q + 1 \notin pages})
      Run(p) == IF End(p) = p THEN One(p) ELSE Span(p, End(p))
      starts == Ascending({p \in pages : p - 1 \notin pages})
  IN [i \in DOMAIN starts |-> Run(starts[i])]
=============================================================================
