----------------------------- MODULE Capabilities ---------------------------
(***************************************************************************)
(* What the automation page offers of the properties that a server         *)
(* publishes (FromSnapshot of internal/capabilities/parser.go): values     *)
(* that the installed configuration rules out are taken away, properties   *)
(* that are no controls of a job are left out, two names of one property   *)
(* are collapsed into one, and copies and scale are added.                 *)
(*                                                                         *)
(* Abstractions.  The server publishes a function from identifiers to      *)
(* records; parsing and cleaning the JSON, labels, queues, the identity of *)
(* the press and the reasons for an exclusion are left out.  A snapshot    *)
(* has one list of properties.  A group is "installable", "colorant", one  *)
(* of the other groups of jobs ("job") or none of those ("other"); scopes  *)
(* are "command", "visible" (those of visibleJobApplicabilityScopes),      *)
(* "hidden" (driveruserdisplayhidden) and "schema" (ps, appe, fp...: the    *)
(* generic ones of IsLikelyJobAttribute); the rest are left out.  A flag   *)
(* that the server leaves out is unsaid.  The server marks as numeric what *)
(* has a range.  Values that differ in case only are one value.            *)
(***************************************************************************)
EXTENDS Planning

CONSTANTS
  Documented,     \* documentedCWSJobProperty
  Colorant,       \* the numbered EFColorant...Opt options
  NotInstalled,   \* the value by which an installable option says that it is not there
  Duplex,         \* the properties with duplex in their name
  Alias,          \* optionAlias
  SyntheticScale  \* the bounds and the default of the scale the application adds

ASSUME DocumentedAssumption == Documented \cup Duplex \cup Colorant \subseteq ToSet(PropertyId)

DuplexOption == "EFDuplexOpt"
ScaleIds == {"Scaling", "EFScale"}

ASSUME AliasAssumption ==
  /\ {"num copies", "Scaling"} \subseteq ToSet(PropertyId) /\ ToSet(PropertyId) \subseteq DOMAIN Alias
  /\ \A id \in ToSet(PropertyId) : Alias[id] = Alias["num copies"] => id \in CopiesIds
  /\ \A id \in ToSet(PropertyId) : Alias[id] = Alias["Scaling"] => id \in ScaleIds
ASSUME ScaleAssumption ==
  /\ SyntheticScale.range \in Bounds /\ HasBounds(SyntheticScale)
  /\ LET bounds == SyntheticScale.range IN
       /\ SyntheticScale.value \in bounds.min..bounds.max
       /\ (SyntheticScale.value - bounds.min) % bounds.increment = 0

Plain == [value |-> 1, values |-> {1, 2}, range |-> NoRange, excludes |-> {}, type |-> "menu",
          group |-> "job", scopes |-> {"command"}, available |-> "unsaid", editable |-> "unsaid",
          hidden |-> FALSE]

Of(published, group) == {id \in DOMAIN published : published[id].group = group}
Only(published, ids) == [id \in ids |-> published[id]]

(* parseProperties: a scale without bounds gets them, and may be edited.   *)
WithScale(published) ==
  [id \in DOMAIN published |->
     IF id \in ScaleIds /\ ~HasBounds(published[id])
     THEN [published[id] EXCEPT !.range = SyntheticScale.range, !.type = "range", !.editable =
                                  IF @ = "unsaid" THEN @ ELSE "yes"]
     ELSE published[id]]

-----------------------------------------------------------------------------
(* fixedConfigurationConflict: the value excludes one that an installable  *)
(* option has.                                                             *)
Fixed(published) == {id \in Of(published, "installable") : published[id].value # 0}

RuledOut(published, id, value) ==
  \E e \in published[id].excludes : /\ e.value = value
                                    /\ e.dependency \in Fixed(published)
                                    /\ published[e.dependency].value \in e.values

(* Without alternatives to its default a property is left out.             *)
KeepConfigured(published) == published  \* Fault: nothing is ruled out

ApplyFixedConfiguration(published) ==
  LET Kept(id) == {v \in published[id].values : ~RuledOut(published, id, v)}
      Exempt(id) == \/ published[id].values = {} \/ published[id].excludes = {}
                    \/ published[id].group = "installable"
      Useless(id) == \/ Kept(id) = {}
                     \/ Cardinality(published[id].values) > 1 /\ Kept(id) = {published[id].value}
      kept == {id \in DOMAIN published : Exempt(id) \/ ~Useless(id)}
  IN [id \in kept |-> IF Exempt(id) THEN published[id]
                      ELSE [published[id] EXCEPT !.values = Kept(id)]]

(* jobPropertyExclusionReason finds none.                                  *)
IsJobProperty(id, option) ==
  /\ option.available # "no" /\ option.editable # "no" /\ ~option.hidden
  /\ option.group \in {"job", "colorant"}
  /\ id \in Documented
  /\ \/ option.type = "menu" /\ Cardinality(option.values) > 1
     \/ option.type = "range" /\ HasBounds(option)
  /\ {"command", "visible"} \cap option.scopes # {}
  /\ "hidden" \in option.scopes => "visible" \in option.scopes

(* fixedPropertyFamilyExclusionReason finds none.                          *)
FamilyInstalled(published, id) ==
  LET colorants == Of(published, "installable") \cap Colorant
      Absent(option) == published[option].value \in {0, NotInstalled}
  IN /\ published[id].group = "colorant" /\ colorants # {} => \E c \in colorants : ~Absent(c)
     /\ id \in Duplex /\ DuplexOption \in Of(published, "installable") => ~Absent(DuplexOption)

(* preferJobProperty: the stronger of two names, whatever their order.     *)
Outranks(options, id, other) ==
  LET Shown(i) == "hidden" \notin options[i].scopes
      Command(i) == "command" \in options[i].scopes
      Size(i) == Cardinality(options[i].values)
      Place(i) == CHOOSE n \in DOMAIN PropertyId : PropertyId[n] = i
  IN CASE Shown(id) # Shown(other) -> Shown(id)
       [] Shown(id) = Shown(other) /\ Command(id) # Command(other) -> Command(id)
       [] Shown(id) = Shown(other) /\ Command(id) = Command(other) /\ Size(id) # Size(other) ->
            Size(id) > Size(other)
       [] OTHER -> Place(id) < Place(other)

CollapseAliases(options) ==
  Only(options, {id \in DOMAIN options :
                   \A other \in DOMAIN options \ {id} :
                     Alias[other] = Alias[id] => Outranks(options, id, other)})

EligibleJobProperties(published) ==
  CollapseAliases(Only(published, {id \in DOMAIN published :
                     IsJobProperty(id, published[id]) /\ FamilyInstalled(published, id)}))

-----------------------------------------------------------------------------
(* What planning reads of an option.                                       *)
ForPlanning(option) ==
  [value |-> option.value, values |-> option.values, range |-> option.range,
   excludes |-> option.excludes, likely |-> {"command", "schema"} \cap option.scopes # {},
   synthetic |-> FALSE]

Synthetic(value, values, range) ==
  [value |-> value, values |-> values, range |-> range, excludes |-> {},
   likely |-> TRUE, synthetic |-> TRUE]

(* addSyntheticCopiesOption, addSyntheticScaleOption.                      *)
WithSynthetics(options) ==
  LET copies == Synthetic(1, {1, 2, 5, 10}, [min |-> 1, max |-> MaximumCopies, increment |-> 1])
      scale == Synthetic(SyntheticScale.value, {}, SyntheticScale.range)
      added == (IF CopiesIds \cap DOMAIN options = {} THEN {"num copies"} ELSE {})
               \cup (IF ScaleIds \cap DOMAIN options = {} THEN {"Scaling"} ELSE {})
  IN [id \in DOMAIN options \cup added |->
        CASE id \in DOMAIN options -> ForPlanning(options[id])
          [] id \notin DOMAIN options /\ id = "num copies" -> copies
          [] OTHER -> scale]

FromSnapshot(published) ==
  WithSynthetics(EligibleJobProperties(ApplyFixedConfiguration(WithScale(published))))
=============================================================================
