------------------------------- MODULE Planning -----------------------------
(***************************************************************************)
(* How the inputs of the automation page become test cases                 *)
(* (internal/application/planning.go over the generators and parsers, and  *)
(* ValidateCombination of internal/capabilities): which properties become  *)
(* axes, with which values, how many cases are generated, and which are    *)
(* kept for the intent of the test.                                        *)
(*                                                                         *)
(* Abstractions.  A capability model is the function from the identifiers  *)
(* of its options to what planning reads of them; a published constraint   *)
(* is a record that a value excludes values of another property.  Values   *)
(* are numbers, as in module Combinations; a custom page expression is the *)
(* number Custom of its set of pages.  Values that differ in case only are *)
(* one value.  The inputs are those the automation page can send, so the   *)
(* replacement of unknown choices by defaults is left out.                 *)
(*                                                                         *)
(* Bounds: those of the code, as constants.                                *)
(***************************************************************************)
EXTENDS Values, Combinations

CONSTANTS
  PropertyId,        \* the identifiers, in the order in which they are sorted
  Preferred,         \* the preferred suite of DefaultPermutationAxes, in its order
  Range1,            \* PageRangeRangeValue
  FirstCustom,       \* the first number that stands for a custom page expression
  DefaultCaseLimit,
  MaximumCaseLimit,
  FallbackAxes,      \* 8
  FallbackValues     \* 12

PageRange == "EFPageRange"
CopiesIds == {"EFCopies", "num copies"}

ASSUME PropertyAssumption ==
  /\ PropertyId \in Seq(STRING)
  /\ IsInjective(PropertyId) /\ IsInjective(Preferred) /\ Preferred \in Seq(STRING)
  /\ ToSet(Preferred) \subseteq ToSet(PropertyId) \ CopiesIds
ASSUME LimitAssumption ==
  /\ MaximumCaseLimit \in Nat /\ DefaultCaseLimit \in 1..MaximumCaseLimit
  /\ FallbackAxes \in Nat \ {0}
ASSUME CustomAssumption == FirstCustom \in Nat \ {0}

NoRange == [min |-> 1, max |-> 0, increment |-> 1]
HasBounds(option) == option.range # NoRange

Default(option) == {option.value} \ {0}
OptionValues(option) == IF option.values # {} THEN option.values ELSE Default(option)

CustomPageRangeSupported(model) == PageRange \in DOMAIN model /\ Range1 \in model[PageRange].values

(* The pages as the digits of a number.                                    *)
Custom(pages) ==
  LET last == Max(pages)
      digits[n \in 0..last] ==
        IF n = 0 THEN 0 ELSE 2 * digits[n - 1] + (IF last + 1 - n \in pages THEN 1 ELSE 0)
  IN FirstCustom + digits[last]

(* The identifier EFCopies wins over the other one.                        *)
HasCopies(model) == CopiesIds \cap DOMAIN model # {}
CopiesOption(model) == IF "EFCopies" \in DOMAIN model THEN "EFCopies" ELSE "num copies"

Ordered(ids) == Filter(PropertyId, ids)

-----------------------------------------------------------------------------
(* The properties with an explicit input.                                  *)
IncludedPropertyIDs(model, request) ==
  {id \in DOMAIN model : \/ request.selected[id] \ {0} # {}
                         \/ id = PageRange /\ request.pages # <<>>
                         \/ request.numeric[id] # <<>>}

(* A custom page range replaces the values that are checked.               *)
CustomPages(model, request) ==
  LET read == ParsePages(request.pages)
  IN IF CustomPageRangeSupported(model) /\ read.ok
     THEN Read({Custom(read.values)}, FALSE) ELSE Refused

NumericValues(option, input, source) ==
  IF input # <<>> THEN ParseRange(input, option.range)
  ELSE Read(IF source = "advertised" THEN Default(option) ELSE {}, FALSE)

ValuesForSource(model, id, request) ==
  LET option == model[id]
  IN CASE request.source = "defaults" -> Read(Default(option), FALSE)
       [] request.source # "defaults" /\ HasBounds(option) ->
            NumericValues(option, request.numeric[id], request.source)
       [] request.source # "defaults" /\ ~HasBounds(option) /\ id = PageRange
            /\ request.pages # <<>> -> CustomPages(model, request)
       [] OTHER -> Read(IF request.source = "advertised" THEN OptionValues(option)
                        ELSE request.selected[id] \ {0}, FALSE)

Axis(id, values) == [name |-> id, values |-> values]

(* The suite when nothing is included: the preferred properties with a     *)
(* choice, or else a few of the others.                                    *)
DefaultPermutationAxes(model) ==
  LET offered == {id \in DOMAIN model : Cardinality(OptionValues(model[id])) > 1}
      small == {id \in offered \ CopiesIds : /\ Cardinality(OptionValues(model[id])) <= FallbackValues
                                             /\ model[id].likely}
      preferred == Filter(Preferred, offered)
  IN IF preferred # <<>> THEN preferred ELSE UpTo(FallbackAxes, Ordered(small))

SuiteAxes(model, request) ==
  LET suite == DefaultPermutationAxes(model)
      Values(id) == IF request.source = "defaults" THEN Default(model[id])
                    ELSE OptionValues(model[id])
      ids == Filter(suite, {id \in ToSet(suite) : Values(id) # {}})
  IN [i \in DOMAIN ids |-> Axis(ids[i], Values(ids[i]))]

CopiesValues(model, request) ==
  IF request.source = "defaults" THEN Read(Default(model[CopiesOption(model)]), FALSE)
  ELSE ParseCopies(request.copies)

(* The axes of a request; not ok when an input is refused.                 *)
PlanAxes(model, request) ==
  LET included == Ordered(IncludedPropertyIDs(model, request) \ CopiesIds)
      chosen == [i \in DOMAIN included |-> ValuesForSource(model, included[i], request)]
      filled == Filter(included, {id \in ToSet(included) : ValuesForSource(model, id, request).values # {}})
      explicit == [i \in DOMAIN filled |->
                     Axis(filled[i], ValuesForSource(model, filled[i], request).values)]
      own == IF explicit = <<>> /\ request.source # "selected"
             THEN SuiteAxes(model, request) ELSE explicit
      copies == CopiesValues(model, request)
      copiesAxis == Axis(CopiesOption(model), IF copies.values = {} THEN {1} ELSE copies.values)
  IN [ok |-> (\A i \in DOMAIN chosen : chosen[i].ok) /\ (HasCopies(model) => copies.ok),
      axes |-> IF HasCopies(model) THEN Append(own, copiesAxis) ELSE own,
      ranged |-> (\E i \in DOMAIN chosen : chosen[i].ranged) \/ (HasCopies(model) /\ copies.ranged)]

-----------------------------------------------------------------------------
(* ValidateCombination: the published exclusions that a case runs into,    *)
(* among the properties it sets explicitly.                                *)
Conflicts(model, row) ==
  {e \in UNION {model[id].excludes : id \in DOMAIN row \cap DOMAIN model} :
     /\ row[e.option] = e.value
     /\ e.dependency \in DOMAIN row
     /\ row[e.dependency] \in e.values}

HasExplicitConstraintDependencies(model, ids) ==
  \E id \in ids \cap DOMAIN model : \E e \in model[id].excludes : e.dependency \in ids

(* A case is checked at the server when it sets a property that takes part *)
(* in a published constraint, or the scale the application added itself.   *)
NeedsConstraintCheck(model, row) ==
  \E id \in DOMAIN model :
    \/ model[id].synthetic /\ id \in {"Scaling", "EFScale"} \cap DOMAIN row
    \/ model[id].excludes # {} /\ id \in DOMAIN row
    \/ \E e \in model[id].excludes : e.dependency \in DOMAIN row

NormalizeCaseLimit(limit) ==
  IF limit < 1 THEN DefaultCaseLimit ELSE Min({limit, MaximumCaseLimit})

(* With constraints between its axes a plan is generated beyond its limit, *)
(* for what the filter takes away.                                         *)
CandidateLimit(model, axes, request) ==
  IF HasExplicitConstraintDependencies(model, {axes[i].name : i \in DOMAIN axes})
  THEN MaximumCaseLimit ELSE NormalizeCaseLimit(request.limit)

EffectiveStrategy(request, ranged) ==
  CASE request.strategy \in {"selected", "all"} -> IF ranged THEN "random" ELSE "all"
    [] OTHER -> request.strategy

(* A positive test takes the cases without a conflict, a constraint test   *)
(* those with one.                                                         *)
Wanted(model, request, row) == (request.intent = "constraint") <=> Conflicts(model, row) # {}

NoPlan == [ok |-> FALSE, cases |-> {}, axes |-> <<>>, skipped |-> 0]
BaselinePlan == [ok |-> TRUE, cases |-> {<<>>}, axes |-> <<>>, skipped |-> 0]

(* The plans that may result from generated rows: the first ones that are  *)
(* wanted, which are any of them when the rows are in a random order.      *)
TruncateThenFilter(model, request, axes, generated) ==  \* Fault: the limit is applied first
  LET first == UpTo(NormalizeCaseLimit(request.limit), generated.rows)
      wanted == {row \in ToSet(first) : Wanted(model, request, row)}
  IN IF wanted = {} THEN {NoPlan}
     ELSE {[ok |-> TRUE, cases |-> wanted, axes |-> axes, skipped |-> 0]}

FilterPlans(model, request, axes, generated) ==
  LET wanted == Filter(generated.rows, {row \in ToSet(generated.rows) : Wanted(model, request, row)})
      size == Min({NormalizeCaseLimit(request.limit), Len(wanted)})
      kept == IF generated.shuffled THEN kSubset(size, ToSet(wanted))
              ELSE {ToSet(UpTo(size, wanted))}
  IN IF wanted = <<>> THEN {NoPlan}
     ELSE {[ok |-> TRUE, cases |-> cases, axes |-> axes,
            skipped |-> IF request.intent = "constraint" THEN 0
                        ELSE Len(generated.rows) - Len(wanted)] : cases \in kept}

(* What BuildPlan may return.                                              *)
BuildPlan(model, request) ==
  LET planned == PlanAxes(model, request)
      strategy == EffectiveStrategy(request, planned.ranged)
      generated == GenerateWithStrategy(planned.axes, strategy,
                                        CandidateLimit(model, planned.axes, request))
      Mixed(rows) == [rows EXCEPT !.shuffled = @ \/ (planned.ranged /\ strategy # "pairwise")]
  IN CASE request.source = "baseline" \/ (planned.ok /\ planned.axes = <<>>) ->
            IF request.intent = "constraint" THEN {NoPlan} ELSE {BaselinePlan}
       [] request.source # "baseline" /\ ~planned.ok -> {NoPlan}
       [] OTHER -> UNION {FilterPlans(model, request, planned.axes, Mixed(rows)) :
                            rows \in generated}
=============================================================================
