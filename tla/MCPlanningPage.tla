---------------------------- MODULE MCPlanningPage --------------------------
(***************************************************************************)
(* A small instance of PlanningPage: three snapshots of a server, and      *)
(* inputs for every way to choose values and to generate cases.            *)
(***************************************************************************)
EXTENDS PlanningPage, TLC

MCPropertyId == <<"EFBrightness", "EFColorMode", "EFColorant1Enable", "EFColorant1Opt", "EFCopies",
                  "EFDuplexOpt", "EFPageRange", "EFResolution", "EFRotateDocument", "EFRotation",
                  "Scaling", "num copies">>
MCPreferred == <<"EFResolution", "EFColorMode", "EFBrightness">>
MCDocumented == ToSet(MCPropertyId) \ {"EFDuplexOpt", "EFColorant1Opt"}
MCAlias ==
  [id \in ToSet(MCPropertyId) |->
     CASE id \in {"EFCopies", "num copies"} -> "copies"
       [] id \in {"EFRotateDocument", "EFRotation"} -> "rotation"
       [] OTHER -> id]
MCSyntheticScale == [value |-> 2, range |-> [min |-> 1, max |-> 3, increment |-> 1]]

Rule(id, value, dependency, values) ==
  [option |-> id, value |-> value, dependency |-> dependency, values |-> values]
Fix(value) == [Plain EXCEPT !.group = "installable", !.value = value]
Numeric(value, range) ==
  [Plain EXCEPT !.type = "range", !.value = value, !.values = {}, !.range = range]

(* No duplex unit: a third color mode and the highest brightness need it.  *)
Bare ==
  [id \in {"EFColorMode", "EFResolution", "EFDuplexOpt", "EFPageRange", "EFBrightness",
           "EFRotateDocument", "EFRotation", "num copies"} |->
     CASE id = "EFColorMode" ->
            [Plain EXCEPT !.values = {1, 2, 3},
                          !.excludes = {Rule(id, 2, "EFResolution", {2}), Rule(id, 3, "EFDuplexOpt", {2})}]
       [] id = "EFDuplexOpt" -> Fix(2)
       [] id = "EFPageRange" -> [Plain EXCEPT !.values = {1, 3}]
       [] id = "EFBrightness" ->
            [Numeric(3, [min |-> 1, max |-> 5, increment |-> 2])
               EXCEPT !.excludes = {Rule(id, 5, "EFDuplexOpt", {2})}]
       [] id = "num copies" -> Numeric(1, [min |-> 1, max |-> 2, increment |-> 1])
       [] id = "EFRotateDocument" -> [Plain EXCEPT !.scopes = {"hidden", "visible"}, !.values = {1, 2, 3}]
       [] OTHER -> Plain]

(* With a duplex unit, its own copies, a scale without bounds that is not  *)
(* editable, and no colorants installed.                                   *)
Full ==
  [id \in {"EFColorMode", "EFResolution", "EFDuplexOpt", "EFPageRange", "EFCopies",
           "EFColorant1Opt", "EFColorant1Enable", "Scaling"} |->
     CASE id = "EFColorMode" ->
            [Plain EXCEPT !.values = {1, 2, 3}, !.excludes = {Rule(id, 3, "EFDuplexOpt", {2})}]
       [] id = "EFResolution" -> [Plain EXCEPT !.value = 2, !.excludes = {Rule(id, 1, "EFColorMode", {1, 3})}]
       [] id = "EFDuplexOpt" -> Fix(1)
       [] id = "EFColorant1Opt" -> Fix(2)
       [] id = "EFColorant1Enable" -> [Plain EXCEPT !.group = "colorant"]
       [] id = "Scaling" -> [Plain EXCEPT !.values = {}, !.editable = "no"]
       [] id = "EFCopies" -> Numeric(1, [min |-> 1, max |-> 3, increment |-> 1])
       [] OTHER -> Plain]

(* None of the preferred suite is left, copies are hidden, and a default   *)
(* is ruled out.                                                           *)
Narrow ==
  [id \in {"EFColorMode", "EFResolution", "EFDuplexOpt", "EFRotation", "EFPageRange", "num copies"} |->
     CASE id = "EFColorMode" -> [Plain EXCEPT !.excludes = {Rule(id, 2, "EFDuplexOpt", {2})}]
       [] id \in {"EFResolution", "num copies"} -> [Plain EXCEPT !.hidden = TRUE]
       [] id = "EFDuplexOpt" -> Fix(2)
       [] id = "EFRotation" -> [Plain EXCEPT !.values = {1, 2, 3}, !.value = 3,
                                            !.excludes = {Rule(id, 3, "EFDuplexOpt", {2})}]
       [] OTHER -> Plain]

MCSnapshot == [bare |-> Bare, full |-> Full, narrow |-> Narrow]

-----------------------------------------------------------------------------
Choose(input, id, values) == [input EXCEPT !.selected[id] = values]
Type(input, id, tokens) == [input EXCEPT !.numeric[id] = tokens]
Ask(input, source, strategy, intent, limit) ==
  [input EXCEPT !.source = source, !.strategy = strategy, !.intent = intent, !.limit = limit]

Strategies == {"single", "all", "pairwise", "random"}
Intents == {"positive", "constraint"}

Colors(color, resolution) ==
  Choose(Choose(Blank, "EFColorMode", color), "EFResolution", resolution)

(* Two menus, with and without exclusions between them.                    *)
MenuInputs ==
  {Ask(Colors(color, resolution), "selected", strategy, intent, limit) :
     color \in {{2}, {1, 2, 3}}, resolution \in {{}, {2}, {1, 2}},
     strategy \in Strategies, intent \in Intents, limit \in {0, 2}}

(* More axes, for pairwise plans and for samples.                          *)
Wide(copies) == [Choose(Colors({1, 2}, {}), "EFRotation", {1, 2}) EXCEPT !.copies = copies]
WideInputs ==
  {Ask(Wide(copies), "selected", strategy, "positive", limit) :
     copies \in {<<Span(1, 3)>>, <<One(2), One(3)>>, <<One(0)>>},
     strategy \in {"all", "pairwise"}, limit \in {3, 12}}
  \cup {Ask(Choose(Wide(<<Span(1, 3)>>), "EFResolution", {1, 2}), "selected", "pairwise", "positive", 20)}

(* Numbers and pages.                                                      *)
TypedInputs ==
  {Ask([Type(Type(Blank, "EFBrightness", brightness), "Scaling", scale) EXCEPT !.pages = pages],
       source, "all", "positive", 5) :
     brightness \in {<<>>, <<Span(1, 5)>>, <<One(2)>>}, scale \in {<<>>, <<Span(2, 3)>>},
     pages \in {<<>>, <<Span(1, 3), One(5), One(2)>>, <<Span(2, 1)>>},
     source \in {"selected", "defaults", "advertised"}}
  \cup {Ask(Type(Blank, "EFCopies", <<Span(1, 2)>>), "selected", "all", "positive", 5)}

(* Nothing is picked.                                                      *)
SourceInputs ==
  {Ask(Blank, source, strategy, intent, 20) :
     source \in {"selected", "defaults", "advertised", "baseline"}, strategy \in {"all", "pairwise"},
     intent \in Intents}

MCInput == MenuInputs \cup WideInputs \cup TypedInputs \cup SourceInputs
=============================================================================
