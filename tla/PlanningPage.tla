----------------------------- MODULE PlanningPage ---------------------------
(***************************************************************************)
(* From the properties of a server to the cases of a run: the automation   *)
(* page (cmd/api-automation/frontend/src/app.js) over the bindings of      *)
(* internal/appwails.  The service discovers capabilities and keeps the    *)
(* model; the page shows it, the operator enters what to test, saves it as *)
(* a preset or loads one, and asks for a plan.  The page does not wait for *)
(* one call before it makes another, and the server may be reconfigured    *)
(* between two discoveries.  The workers of the run check the cases that   *)
(* need it at the server (module ConstraintCheck).                         *)
(*                                                                         *)
(* Abstractions.  Of Discover, only the moment at which the service stores *)
(* the model and the one at which the page gets it; module Workspace has   *)
(* the rest, and a change of the server, which resets the page as well.    *)
(* The replies of two discoveries, which two buttons may start, do not     *)
(* overtake each other: one is on its way at a time.                       *)
(* StartAutomation and PreviewPlan make the same plan.  The page is not    *)
(* followed beyond the start of the run.  Presets are module PresetMapping;*)
(* one is kept.                                                            *)
(*                                                                         *)
(* Bounds: MaxEdits forms are filled in, MaxDiscoveries made, and          *)
(* MaxChecks cases checked.                                                *)
(***************************************************************************)
EXTENDS Capabilities, PresetMapping, ConstraintCheck

CONSTANTS
  Snapshot,  \* what the server may publish, by name
  Input,     \* what the operator may enter
  MaxEdits, MaxDiscoveries, MaxChecks

Unknown == "unknown"

Value == Nat \ {0}
Selection == {values \in SUBSET Value : IsFiniteSet(values)}
Exclusion == [option : ToSet(PropertyId), value : Nat,
              dependency : ToSet(PropertyId), values : SUBSET Value]
Flag == {"yes", "no", "unsaid"}
Published == [value : Nat, values : SUBSET Value, range : Bounds, excludes : SUBSET Exclusion,
              type : {"menu", "range"}, group : {"job", "colorant", "installable", "other"},
              scopes : SUBSET {"command", "visible", "hidden", "schema"},
              available : Flag, editable : Flag, hidden : BOOLEAN]

ASSUME SnapshotAssumption ==
  /\ DOMAIN Snapshot # {} /\ Unknown \notin DOMAIN Snapshot
  /\ \A s \in DOMAIN Snapshot :
       /\ DOMAIN Snapshot[s] \subseteq ToSet(PropertyId)
       /\ \A id \in DOMAIN Snapshot[s] :
            /\ Snapshot[s][id] \in Published /\ IsFiniteSet(Snapshot[s][id].values)
            /\ \A e \in Snapshot[s][id].excludes : e.option = id
            /\ id = PageRange => \A e \in Snapshot[s][id].excludes : e.value < FirstCustom

(* The fields of planningInput, each property with its own.                *)
InputField == {"selected", "numeric", "pages", "copies", "source", "strategy", "intent", "limit"}
ASSUME InputAssumption ==
  \A input \in Input :
    /\ DOMAIN input = InputField
    /\ input.selected \in [ToSet(PropertyId) -> Selection]
    /\ input.numeric \in [ToSet(PropertyId) -> Seq(Entry)]
    /\ {input.pages, input.copies} \subseteq Seq(Entry)
    /\ input.limit \in Nat
ASSUME BoundsAssumption == {MaxEdits, MaxDiscoveries, MaxChecks} \subseteq Nat

VARIABLES
  published,   \* what the server publishes now
  capability,  \* the snapshot of service.capabilities
  arriving,    \* the discovery whose reply is on its way to the page
  shown,       \* the snapshot of capabilityView, what the page shows
  form,        \* formState and the controls, and which capabilities their values are from
  preset,      \* the saved preset, and the form and the capabilities it was made from
  loading,     \* the reply of LoadPreset on its way to the page
  request,     \* the form of the StartAutomation call that waits
  phase,       \* the page is in use, the plan is made, the run is on
  plan,        \* the plan of the run
  edits, discoveries,
  toCheck      \* how many of its cases are still to be checked at the server

pageVars == <<published, capability, arriving, shown, form, preset, loading, request, edits, discoveries>>
vars == <<pageVars, phase, plan, toCheck, latchVars>>

Model == [s \in DOMAIN Snapshot |-> FromSnapshot(Snapshot[s])]

Blank == [selected |-> [id \in ToSet(PropertyId) |-> {}],
          numeric |-> [id \in ToSet(PropertyId) |-> <<>>],
          pages |-> <<>>, copies |-> <<One(1)>>,
          source |-> "selected", strategy |-> "single", intent |-> "positive",
          limit |-> DefaultCaseLimit]

Filled(input, servers, loaded) == [input |-> input, for |-> servers, loaded |-> loaded]
EmptyForm == Filled(Blank, {}, FALSE)
NoPreset == [saved |-> FALSE]

Init ==
  /\ published \in DOMAIN Snapshot
  /\ capability = Unknown /\ arriving = Unknown /\ shown = Unknown
  /\ form = EmptyForm /\ loading = EmptyForm /\ request = EmptyForm
  /\ preset = NoPreset
  /\ phase = "page" /\ plan = NoPlan
  /\ edits = 0 /\ discoveries = 0 /\ toCheck = 0
  /\ LatchInit

(* What the page does after it has sent its form is not followed.          *)
InUse == phase = "page" /\ request = EmptyForm

-----------------------------------------------------------------------------
(* The server and the service.                                             *)

Reconfigure(server) ==
  /\ phase = "page" /\ published # server /\ discoveries \in 1..MaxDiscoveries - 1
  /\ published' = server
  /\ UNCHANGED <<capability, arriving, shown, form, preset, loading, request, edits, discoveries>>

Discover ==
  /\ phase = "page" /\ arriving = Unknown
  /\ discoveries < MaxDiscoveries /\ discoveries' = discoveries + 1
  /\ capability' = published /\ arriving' = published
  /\ UNCHANGED <<published, shown, form, preset, loading, request, edits>>

-----------------------------------------------------------------------------
(* The page.                                                               *)

(* resetCapabilityForm leaves the controls as they are.                    *)
Emptied(input) ==
  [input EXCEPT !.selected = Blank.selected, !.numeric = Blank.numeric,
                !.pages = Blank.pages, !.copies = Blank.copies]

(* discoverCapabilities goes on: the form is reset for what is shown now.  *)
ShowCapabilities ==
  /\ InUse /\ arriving # Unknown
  /\ shown' = arriving /\ arriving' = Unknown
  /\ form' = Filled(Emptied(form.input), {arriving}, FALSE)
  /\ UNCHANGED <<published, capability, preset, loading, request, edits, discoveries>>

(* Values are picked among those shown, numbers and pages may be typed     *)
(* where there is a field for them.                                        *)
CanEnter(options, input) ==
  /\ \A id \in ToSet(PropertyId) :
       /\ input.selected[id] # {} =>
            id \in DOMAIN options /\ ~HasBounds(options[id]) /\ input.selected[id] \subseteq options[id].values
       /\ input.numeric[id] # <<>> => id \in DOMAIN options /\ HasBounds(options[id]) /\ id # "num copies"
  /\ input.pages # <<>> => PageRange \in DOMAIN options
  /\ input.copies # Blank.copies => "num copies" \in DOMAIN options

(* What is entered is added to the form.  A value that came with a preset  *)
(* stays in it also where the page has no card for it.                     *)
Entered(old, input) ==
  [input EXCEPT
     !.selected = [id \in DOMAIN @ |-> IF @[id] = {} THEN old.selected[id] ELSE @[id]],
     !.numeric = [id \in DOMAIN @ |-> IF @[id] = <<>> THEN old.numeric[id] ELSE @[id]],
     !.pages = IF @ = <<>> THEN old.pages ELSE @,
     !.copies = IF @ = Blank.copies THEN old.copies ELSE @]

Edit ==
  /\ InUse /\ shown # Unknown
  /\ edits < MaxEdits /\ edits' = edits + 1
  /\ \E input \in Input :
       /\ CanEnter(Model[shown], input)
       /\ form' = Filled(Entered(form.input, input), form.for \cup {shown}, form.loaded)
  /\ UNCHANGED <<published, capability, arriving, shown, preset, loading, request, discoveries>>

ResetProperties ==
  /\ InUse /\ shown # Unknown
  /\ form' = Filled(Emptied(form.input), {shown}, FALSE)
  /\ UNCHANGED <<published, capability, arriving, shown, preset, loading, request, edits, discoveries>>

SavePreset ==
  /\ InUse /\ shown # Unknown /\ preset = NoPreset
  /\ preset' = [saved |-> TRUE, file |-> BuildSafePreset(Model[capability], form.input),
                input |-> form.input, for |-> form.for, by |-> capability]
  /\ UNCHANGED <<published, capability, arriving, shown, form, loading, request, edits, discoveries>>

(* The service reconciles the preset with the capabilities it has then.    *)
LoadPreset ==
  /\ InUse /\ preset.saved /\ loading = EmptyForm
  /\ loading' = Filled(ReconcilePreset(Model[capability], preset.file), {capability}, TRUE)
  /\ UNCHANGED <<published, capability, arriving, shown, form, preset, request, edits, discoveries>>

ShowPreset ==
  /\ InUse /\ loading # EmptyForm
  /\ form' = loading /\ loading' = EmptyForm
  /\ UNCHANGED <<published, capability, arriving, shown, preset, request, edits, discoveries>>

(* The page sends its form; the call waits while a discovery is on.        *)
Submit ==
  /\ InUse /\ shown # Unknown
  /\ request' = form
  /\ UNCHANGED <<published, capability, arriving, shown, form, preset, loading, edits, discoveries>>

-----------------------------------------------------------------------------
(* The run.                                                                *)

NeedCheck(made) ==
  IF request.input.intent = "positive"
  THEN {row \in made.cases : NeedsConstraintCheck(Model[capability], row)} ELSE {}

(* StartAutomation.                                                        *)
MakePlan ==
  /\ phase = "page" /\ request # EmptyForm
  /\ plan' \in BuildPlan(Model[capability], request.input)
  /\ phase' = "planned"
  /\ UNCHANGED <<pageVars, toCheck, latchVars>>

(* The run takes its cases along; what led to them is forgotten.           *)
StartRun ==
  /\ phase = "planned" /\ plan.ok
  /\ phase' = "running"
  /\ toCheck' = Min({MaxChecks, Cardinality(NeedCheck(plan))}) /\ toCheck' > 0
  /\ plan' = NoPlan
  /\ capability' = Unknown /\ arriving' = Unknown /\ shown' = Unknown
  /\ form' = EmptyForm /\ loading' = EmptyForm /\ request' = EmptyForm /\ preset' = NoPreset
  /\ edits' = 0 /\ discoveries' = 0
  /\ UNCHANGED <<published, latchVars>>

TakeCase(c) ==
  /\ toCheck > 0 /\ toCheck' = toCheck - 1
  /\ BeginCheck(c)
  /\ UNCHANGED <<pageVars, phase, plan>>

Page == ShowCapabilities \/ Edit \/ ResetProperties \/ SavePreset \/ LoadPreset \/ ShowPreset \/ Submit
Server == Discover \/ \E server \in DOMAIN Snapshot : Reconfigure(server)

Next ==
  \/ (Page \/ Server) /\ UNCHANGED <<phase, plan, toCheck, latchVars>>
  \/ MakePlan
  \/ StartRun
  \/ \E c \in Checker :
       TakeCase(c) \/ (CheckStepOf(c) /\ UNCHANGED <<pageVars, phase, plan, toCheck>>)

Spec == Init /\ [][Next]_vars

-----------------------------------------------------------------------------
(* What the server says of a value, read from what it published.           *)

Installed(s) == {id \in DOMAIN Snapshot[s] : Snapshot[s][id].group = "installable"}

Excludes(s, row, id) ==
  \E e \in Snapshot[s][id].excludes :
    e.value = row[id] /\ e.dependency \in DOMAIN row /\ row[e.dependency] \in e.values

AgainstConfiguration(s, row, id) ==
  \E e \in Snapshot[s][id].excludes :
    /\ e.value = row[id] /\ e.dependency \in Installed(s)
    /\ Snapshot[s][e.dependency].value \in e.values

(* Copies and scale may be set though the server publishes neither, or     *)
(* neither for jobs; a scale without bounds though it is not editable.     *)
Added(s) == {id \in {"num copies", "Scaling"} \cap DOMAIN Model[s] : Model[s][id].synthetic}

IsControl(s, added, id) ==
  \/ id \in added
  \/ /\ id \in DOMAIN Snapshot[s] \ Installed(s)
     /\ Snapshot[s][id].available # "no" /\ ~Snapshot[s][id].hidden
     /\ Snapshot[s][id].editable # "no" \/ (id \in ScaleIds /\ ~HasBounds(Snapshot[s][id]))

(* The bounds of a number are those the server publishes; of a scale       *)
(* without any, those of the application.                                  *)
BoundsOf(s, added, id) ==
  IF id \notin added /\ HasBounds(Snapshot[s][id]) THEN Snapshot[s][id].range
  ELSE IF id \in ScaleIds THEN SyntheticScale.range ELSE NoRange

(* A number that may be typed, a value of a menu that the configuration    *)
(* allows, a custom page range, the default of a number that is not typed, *)
(* or copies.                                                              *)
OffersValue(s, added, row, id) ==
  LET bounds == BoundsOf(s, added, id)
      own == id \notin added
  IN \/ row[id] \in bounds.min..bounds.max /\ (row[id] - bounds.min) % bounds.increment = 0
     \/ own /\ row[id] \in Snapshot[s][id].values /\ ~AgainstConfiguration(s, row, id)
     \/ own /\ id = PageRange /\ row[id] >= FirstCustom /\ Range1 \in Snapshot[s][id].values
     \/ own /\ bounds # NoRange /\ row[id] = Snapshot[s][id].value
     \/ id \in CopiesIds /\ row[id] \in 1..MaximumCopies

FromMenus(s, added, row) == \A id \in DOMAIN row : OffersValue(s, added, row, id)

Planned == phase = "planned" /\ plan.ok

(* A plan holds cases that the server can take (BuildPlan over             *)
(* FromSnapshot): they set controls of a job only, never two names of one  *)
(* property, and run into an exclusion published for one of their values   *)
(* exactly when the test is about constraints.  If the inputs were made    *)
(* for the capabilities that are planned with, and values are not the      *)
(* defaults, every value is one the server offers: a value of a menu that  *)
(* its configuration does not rule out, a number within its bounds.        *)
PlanRespectsServer ==
  Planned =>
    LET s == capability
        added == Added(s)
        fresh == request.for \subseteq {s} /\ request.input.source # "defaults"
    IN \A row \in plan.cases :
         /\ \A id \in DOMAIN row : IsControl(s, added, id)
         /\ \A id, other \in DOMAIN row : Alias[id] = Alias[other] => id = other
         /\ (request.input.intent = "constraint")
              <=> \E id \in DOMAIN row \ added : Excludes(s, row, id)
         /\ fresh => FromMenus(s, added, row)

Rows(axes) ==
  {row \in [{axes[i].name : i \in DOMAIN axes} -> UNION {axes[i].values : i \in DOMAIN axes}] :
     \A i \in DOMAIN axes : row[axes[i].name] \in axes[i].values}

(* The values a and b of two axes are together in a case.                  *)
Together(cases, name, a, other, b) == \E row \in cases : row[name] = a /\ row[other] = b

(* A plan misses no case it could have (BuildPlan over                     *)
(* GenerateWithStrategy): every case gives every axis a value; of all or   *)
(* of random cases there are as many as the limit allows, also when        *)
(* constraints take some away; a pairwise plan below its limit that lost   *)
(* no case has every pair of values.                                       *)
PlanIsComplete ==
  Planned /\ plan.axes # <<>> =>
    LET rows == Rows(plan.axes)
        limit == NormalizeCaseLimit(request.input.limit)
        wanted == {row \in rows : Wanted(Model[capability], request.input, row)}
        n == Cardinality(plan.cases)
    IN /\ plan.cases \subseteq wanted
       /\ n \in 1..limit
       /\ request.input.strategy \in {"selected", "all", "random"} /\ Cardinality(rows) <= MaximumCaseLimit
            => n = Min({limit, Cardinality(wanted)})
       /\ request.input.strategy = "pairwise" /\ request.input.intent = "positive"
          /\ n < limit /\ plan.skipped = 0
            => \A i, j \in DOMAIN plan.axes : i < j =>
                 \A a \in plan.axes[i].values, b \in plan.axes[j].values :
                   Together(plan.cases, plan.axes[i].name, a, plan.axes[j].name, b)

(* A preset that is loaded for the capabilities it was saved for, with     *)
(* nothing reported as skipped, plans the very same cases (BuildSafePreset *)
(* and ReconcilePreset against BuildPlan).  Left out are inputs the preset *)
(* drops without a report, a page range the server cannot take, and copies *)
(* or pages typed as numbers of a property, where planning does not read   *)
(* the ones and a preset keeps both under one name.                        *)
PresetPlansSame ==
  LET m == Model[preset.by]
      readable == /\ preset.input.pages # <<>> => CustomPageRangeSupported(m)
                  /\ \A id \in CopiesIds \cup {PageRange} : preset.input.numeric[id] = <<>>
  IN loading # EmptyForm /\ loading.for \cup preset.for \subseteq {preset.by}
     /\ readable /\ ~Skipped(m, preset.file)
       => BuildPlan(m, loading.input) = BuildPlan(m, preset.input)

-----------------------------------------------------------------------------
(* Formulas that TLC refutes.                                              *)

(* docs/project-guidelines.md:66, "Validate restored values against        *)
(* current discovery": the reply of a LoadPreset that began before a       *)
(* discovery fills in the form after it, and nothing checks its values     *)
(* again.                                                                  *)
LoadedValuesAreOffered ==
  Planned /\ request.loaded /\ request.input.source # "defaults" =>
    \A row \in plan.cases : FromMenus(capability, Added(capability), row)

(* docs/project-guidelines.md:58, "Exclude [...] incompatible entries": a  *)
(* plan of defaults sets a default that the configuration rules out.       *)
DefaultsRespectConfiguration ==
  Planned /\ request.for \subseteq {capability} =>
    \A row \in plan.cases : FromMenus(capability, Added(capability), row)

(* docs/project-guidelines.md:58, "Exclude [...] disabled/non-editable/     *)
(* hidden [...] entries": a scale that the server publishes as not         *)
(* editable and without bounds is offered, and cases set it.               *)
FixedScaleIsLeftAlone ==
  Planned =>
    \A row \in plan.cases : \A id \in DOMAIN row \cap ScaleIds \cap DOMAIN Snapshot[capability] :
      Snapshot[capability][id].editable # "no"
=============================================================================
