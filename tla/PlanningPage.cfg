CONSTANTS
  MaximumCopies = 10
  ExpansionLimit = 10
  PropertyId <- MCPropertyId
  Preferred <- MCPreferred
  Range1 = 3
  FirstCustom = 100
  DefaultCaseLimit = 4
  MaximumCaseLimit = 12
  FallbackAxes = 8
  FallbackValues = 12
  Documented <- MCDocumented
  Colorant = {"EFColorant1Opt"}
  NotInstalled = 2
  Duplex = {"EFDuplexOpt"}
  Alias <- MCAlias
  SyntheticScale <- MCSyntheticScale
  Snapshot <- MCSnapshot
  Input <- MCInput
  MaxEdits = 1
  MaxDiscoveries = 2
  MaxChecks = 3
  Checker = {w1, w2}
SPECIFICATION Spec
INVARIANTS
  PlanRespectsServer
  PlanIsComplete
  PresetPlansSame
PROPERTY LatchIsFinal
CHECK_DEADLOCK FALSE
