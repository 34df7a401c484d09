---------------------------- MODULE MCPresetStore ---------------------------
(* A small instance of PresetStore: two callers, two names, two presets.   *)
EXTENDS PresetStore, TLC

Symmetry == Permutations(Caller) \cup Permutations(Name) \cup Permutations(Preset)
=============================================================================
