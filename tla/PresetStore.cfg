CONSTANTS
  Caller = {c1, c2}
  Name = {n1, n2}
  Preset = {p1, p2}
SPECIFICATION Spec
INVARIANTS
  TypeOK
  PresetsKept
SYMMETRY Symmetry
