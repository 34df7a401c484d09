-------------------------- MODULE PresetStoreProofs -------------------------
(***************************************************************************)
(* What was saved is kept, for any number of callers, names and presets.   *)
(* PresetsKept is not inductive: that the backup is whole while the file   *)
(* is away rests on what the fallback did in the steps before, and on      *)
(* there being one call at a time to do it.                                *)
(***************************************************************************)
EXTENDS PresetStore, TLAPS

-----------------------------------------------------------------------------
(* The inductive invariant.                                                *)

(* What TypeOK says of the single variables.                               *)
StoreTypes ==
  /\ path \in {NoFile} \cup {File(content) : content \in Content}
  /\ backup \in {NoFile} \cup {File(content) : content \in Content}
  /\ step \in [Caller -> Step]
  /\ temp \in [Caller -> Content]
  /\ acked \in Content
  /\ stranded \in BOOLEAN /\ settled \in BOOLEAN
  /\ \A c \in Caller : step[c] = "idle" => temp[c] = Empty

(* One call at a time, and none while presets are stranded in the backup.  *)
AloneInv ==
  /\ \A c, d \in Caller : c # d => "idle" \in {step[c], step[d]}
  /\ stranded => \A c \in Caller : step[c] = "idle"

(* The fallback has put the file away before it replaces or restores it,   *)
(* and has put the new one in place before it tidies up.                   *)
PlaceInv ==
  \A c \in Caller :
    /\ step[c] \in {"replacing", "restoring"} => path = NoFile
    /\ step[c] = "tidying" => path = File(temp[c])

(* A file that is there holds what was saved, or already the change under  *)
(* way; the one that is away is the backup, unless there was none.         *)
KeptInv ==
  /\ path # NoFile =>
       path.holds = acked \/ \E c \in Caller : step[c] = "tidying"
  /\ path = NoFile => backup = File(acked) \/ (backup = NoFile /\ acked = Empty)
  /\ path = NoFile /\ ~stranded /\ acked # Empty =>
       \E c \in Caller : step[c] \in {"replacing", "restoring"}

SettledInv == settled => AloneInv /\ PlaceInv /\ KeptInv

StoreInv == StoreTypes /\ SettledInv

-----------------------------------------------------------------------------
(* A file that exists is not the file that does not.                       *)
LEMMA FilesDiffer ==
  ASSUME NEW content
  PROVE  File(content) # NoFile /\ File(content).holds = content /\ NoFile.holds = Empty
BY DEF File, NoFile

(* One preset of the file is changed.                                      *)
LEMMA Changed ==
  ASSUME NEW content \in Content, NEW n \in Name, NEW preset \in Preset \cup {NoPreset}
  PROVE  [content EXCEPT ![n] = preset] \in Content
BY DEF Content

-----------------------------------------------------------------------------
(* The steps.                                                              *)

(* The variables keep their types.                                         *)
LEMMA TypesStep ==
  ASSUME StoreTypes, [Next]_vars
  PROVE  StoreTypes'
<1>0. Empty \in Content /\ path.holds \in Content
  <2>1. Empty \in Content
    BY DEF Content, Empty
  <2>2. QED
    BY <2>1, FilesDiffer DEF StoreTypes
<1>1. ASSUME NEW c \in Caller, NEW n \in Name, NEW p \in Preset \cup {NoPreset}, Change(c, n, p)
      PROVE  StoreTypes'
  BY <1>0, <1>1, Changed DEF Change, At, StoreTypes, Step, calls, history
<1>2. ASSUME NEW c \in Caller, WriteTemp(c)
      PROVE  StoreTypes'
  BY <1>0, <1>2 DEF WriteTemp, GoOn, At, StoreTypes, Step, calls, history
<1>3. ASSUME NEW c \in Caller, FailToWrite(c)
      PROVE  StoreTypes'
  BY <1>0, <1>3 DEF FailToWrite, Fail, Return, At, StoreTypes, Step, calls, history
<1>4. ASSUME NEW c \in Caller, Rename(c)
      PROVE  StoreTypes'
  BY <1>0, <1>4 DEF Rename, Succeed, Return, At, StoreTypes, Step, calls, history
<1>5. ASSUME NEW c \in Caller, RenameFails(c)
      PROVE  StoreTypes'
  BY <1>0, <1>5 DEF RenameFails, GoOn, At, StoreTypes, Step, calls, history
<1>6. ASSUME NEW c \in Caller, ClearBackup(c)
      PROVE  StoreTypes'
  BY <1>0, <1>6 DEF ClearBackup, GoOn, At, StoreTypes, Step, calls, history
<1>7. ASSUME NEW c \in Caller, MoveAside(c)
      PROVE  StoreTypes'
  BY <1>0, <1>7 DEF MoveAside, GoOn, At, StoreTypes, Step, calls, history
<1>8. ASSUME NEW c \in Caller, CannotMoveAside(c)
      PROVE  StoreTypes'
  BY <1>0, <1>8 DEF CannotMoveAside, Fail, Return, At, StoreTypes, Step, calls, history
<1>9. ASSUME NEW c \in Caller, Replace(c)
      PROVE  StoreTypes'
  BY <1>0, <1>9 DEF Replace, GoOn, At, StoreTypes, Step, calls, history
<1>10. ASSUME NEW c \in Caller, ReplaceFails(c)
      PROVE  StoreTypes'
  BY <1>0, <1>10 DEF ReplaceFails, GoOn, At, StoreTypes, Step, calls, history
<1>11. ASSUME NEW c \in Caller, Restore(c)
      PROVE  StoreTypes'
  BY <1>0, <1>11 DEF Restore, Fail, Return, At, StoreTypes, Step, calls, history
<1>12. ASSUME NEW c \in Caller, RestoreFails(c)
      PROVE  StoreTypes'
  BY <1>0, <1>12 DEF RestoreFails, Return, Stranding, At, StoreTypes, Step, calls, history
<1>13. ASSUME NEW c \in Caller, Tidy(c)
      PROVE  StoreTypes'
  BY <1>0, <1>13 DEF Tidy, Succeed, Return, At, StoreTypes, Step, calls, history
<1>14. CASE Crash
  BY <1>0, <1>14 DEF Crash, Stranding, At, StoreTypes, Step, calls, history
<1>15. CASE UNCHANGED vars
  BY <1>15 DEF vars, calls, history, StoreTypes, Step, calls, history
<1>16. QED
  BY <1>1, <1>2, <1>3, <1>4, <1>5, <1>6, <1>7, <1>8, <1>9, <1>10, <1>11, <1>12, <1>13, <1>14, <1>15 DEF Next, Write, Save, Delete

(* A caller at work is the only one, and nothing is stranded.              *)
LEMMA Alone ==
  ASSUME StoreTypes, AloneInv, NEW c \in Caller, step[c] # "idle"
  PROVE  /\ ~stranded
         /\ \A d \in Caller \ {c} : step[d] = "idle"
BY DEF AloneInv

(* A step of a settled store leaves what was saved where it belongs.       *)
LEMMA SettledStep ==
  ASSUME StoreTypes, SettledInv, [Next]_vars
  PROVE  SettledInv'
<1> USE FilesDiffer
<1>1. ASSUME NEW c \in Caller, NEW n \in Name, NEW p \in Preset \cup {NoPreset}, Change(c, n, p)
      PROVE  SettledInv'
  BY <1>1 DEF Change, At, calls, StoreTypes, SettledInv, AloneInv, PlaceInv, KeptInv
<1>2. ASSUME NEW c \in Caller, WriteTemp(c)
      PROVE  SettledInv'
  BY <1>2, Alone DEF WriteTemp, GoOn, history, At, StoreTypes, SettledInv, AloneInv, PlaceInv, KeptInv
<1>3. ASSUME NEW c \in Caller, FailToWrite(c)
      PROVE  SettledInv'
  BY <1>3, Alone DEF FailToWrite, Fail, Return, history, At, StoreTypes, SettledInv, AloneInv, PlaceInv, KeptInv
<1>4. ASSUME NEW c \in Caller, Rename(c)
      PROVE  SettledInv'
  BY <1>4, Alone DEF Rename, Succeed, Return, At, StoreTypes, SettledInv, AloneInv, PlaceInv, KeptInv
<1>5. ASSUME NEW c \in Caller, RenameFails(c)
      PROVE  SettledInv'
  BY <1>5, Alone DEF RenameFails, GoOn, history, At, StoreTypes, SettledInv, AloneInv, PlaceInv, KeptInv
<1>6. ASSUME NEW c \in Caller, ClearBackup(c)
      PROVE  SettledInv'
  BY <1>6, Alone DEF ClearBackup, GoOn, history, At, StoreTypes, SettledInv, AloneInv, PlaceInv, KeptInv
<1>7. ASSUME NEW c \in Caller, MoveAside(c)
      PROVE  SettledInv'
  BY <1>7, Alone DEF MoveAside, GoOn, history, At, StoreTypes, SettledInv, AloneInv, PlaceInv, KeptInv
<1>8. ASSUME NEW c \in Caller, CannotMoveAside(c)
      PROVE  SettledInv'
  BY <1>8, Alone DEF CannotMoveAside, Fail, Return, history, At, StoreTypes, SettledInv, AloneInv, PlaceInv, KeptInv
<1>9. ASSUME NEW c \in Caller, Replace(c)
      PROVE  SettledInv'
  BY <1>9, Alone DEF Replace, GoOn, history, At, StoreTypes, SettledInv, AloneInv, PlaceInv, KeptInv
<1>10. ASSUME NEW c \in Caller, ReplaceFails(c)
      PROVE  SettledInv'
  BY <1>10, Alone DEF ReplaceFails, GoOn, history, At, StoreTypes, SettledInv, AloneInv, PlaceInv, KeptInv
<1>11. ASSUME NEW c \in Caller, Restore(c)
      PROVE  SettledInv'
  BY <1>11, Alone DEF Restore, Fail, Return, history, At, StoreTypes, SettledInv, AloneInv, PlaceInv, KeptInv
<1>12. ASSUME NEW c \in Caller, RestoreFails(c)
      PROVE  SettledInv'
  BY <1>12, Alone DEF RestoreFails, Return, Stranding, At, StoreTypes, SettledInv, AloneInv, PlaceInv, KeptInv
<1>13. ASSUME NEW c \in Caller, Tidy(c)
      PROVE  SettledInv'
  BY <1>13, Alone DEF Tidy, Succeed, Return, At, StoreTypes, SettledInv, AloneInv, PlaceInv, KeptInv
<1>14. CASE Crash
  BY <1>14 DEF Crash, Stranding, At, StoreTypes, SettledInv, AloneInv, PlaceInv, KeptInv
<1>15. CASE UNCHANGED vars
  BY <1>15 DEF vars, calls, history, SettledInv, AloneInv, PlaceInv, KeptInv
<1>16. QED
  BY <1>1, <1>2, <1>3, <1>4, <1>5, <1>6, <1>7, <1>8, <1>9, <1>10, <1>11, <1>12, <1>13, <1>14, <1>15 DEF Next, Write, Save, Delete

-----------------------------------------------------------------------------
(* The results.                                                            *)

(* In every reachable state of a store that was never entered twice, one   *)
(* call is at work at most, and the presets are in the place that the      *)
(* fallback has brought them to (write, store.go).                         *)
THEOREM StoreInvariant == Spec => []StoreInv
<1>1. Init => StoreInv
  <2>1. SUFFICES ASSUME Init
                 PROVE  StoreTypes /\ SettledInv
    BY DEF StoreInv
  <2>2. Empty \in Content
    BY DEF Content, Empty
  <2>3. StoreTypes
    BY <2>1, <2>2 DEF Init, StoreTypes, Step
  <2>4. SettledInv
    BY <2>1, FilesDiffer DEF Init, SettledInv, AloneInv, PlaceInv, KeptInv
  <2>5. QED
    BY <2>3, <2>4
<1>2. StoreInv /\ [Next]_vars => StoreInv'
  BY TypesStep, SettledStep DEF StoreInv
<1>3. QED
  BY <1>1, <1>2, PTL DEF Spec

(* The variables of the store keep their types, at most one call runs in a *)
(* settled store, and no call leaves a temporary file (Store.write).       *)
THEOREM TypeCorrect == Spec => []TypeOK
<1>1. StoreInv => TypeOK
  BY DEF StoreInv, StoreTypes, SettledInv, AloneInv, TypeOK
<1>2. QED
  BY <1>1, StoreInvariant, PTL

(* Whatever fails and wherever the application crashes, the saved presets  *)
(* are in the file, or whole in the backup (write, store.go).              *)
THEOREM SavedPresetsAreKept == Spec => []PresetsKept
<1>1. StoreInv => PresetsKept
  <2>1. SUFFICES ASSUME StoreTypes, settled, PlaceInv, KeptInv
                 PROVE  PresetsKept
    BY DEF StoreInv, SettledInv, PresetsKept
  <2>2. CASE path = NoFile
    BY <2>1, <2>2, FilesDiffer DEF PresetsKept, KeptInv
  <2>3. CASE path # NoFile
    BY <2>1, <2>3 DEF PresetsKept, KeptInv, PlaceInv, At
  <2>4. QED
    BY <2>2, <2>3
<1>2. QED
  BY <1>1, StoreInvariant, PTL

-----------------------------------------------------------------------------
(* One preset at a time.                                                   *)

Near(content, other) == \E n \in Name : \A m \in Name \ {n} : content[m] = other[m]

(* What a call is about to write differs from what was saved in one name.  *)
ChangeInv ==
  settled => \A c \in Caller : step[c] # "idle" => Near(temp[c], acked)

OneChange == settled' => Near(acked', acked)

(* A call that begins in a settled store reads what was saved.             *)
LEMMA ChangeIsNear ==
  ASSUME StoreInv, NEW c \in Caller, NEW n \in Name, NEW p \in Preset \cup {NoPreset},
         Change(c, n, p), settled'
  PROVE  /\ acked' = acked
         /\ Near(temp'[c], acked')
         /\ \A d \in Caller \ {c} : step'[d] = "idle"
<1>1. settled /\ ~stranded /\ (\A d \in Caller : step[d] = "idle") /\ acked' = acked
  BY DEF Change, At
<1>2. path.holds = acked
  BY <1>1, FilesDiffer DEF StoreInv, SettledInv, KeptInv
<1>3. temp'[c] = [acked EXCEPT ![n] = p]
  BY <1>2 DEF Change, StoreInv, StoreTypes
<1>4. \A m \in Name \ {n} : temp'[c][m] = acked[m]
  BY <1>3 DEF StoreInv, StoreTypes, Content
<1>5. \A d \in Caller \ {c} : step'[d] = "idle"
  BY <1>1 DEF Change, StoreInv, StoreTypes
<1>6. QED
  BY <1>1, <1>4, <1>5 DEF Near

LEMMA ChangeStep ==
  ASSUME StoreInv, ChangeInv, [Next]_vars
  PROVE  ChangeInv' /\ [OneChange]_acked
<1> USE FilesDiffer
<1> USE DEF StoreInv
<1>1. ASSUME NEW c \in Caller, NEW n \in Name, NEW p \in Preset \cup {NoPreset}, Change(c, n, p)
      PROVE  ChangeInv' /\ [OneChange]_acked
  <2>1. CASE settled'
    BY <1>1, <2>1, ChangeIsNear DEF ChangeInv
  <2>2. CASE ~settled'
    BY <2>2 DEF ChangeInv, OneChange
  <2>3. QED
    BY <2>1, <2>2
<1>2. ASSUME NEW c \in Caller, WriteTemp(c)
      PROVE  ChangeInv' /\ [OneChange]_acked
  BY <1>2, Alone DEF WriteTemp, GoOn, history, At, StoreTypes, SettledInv, ChangeInv, OneChange
<1>3. ASSUME NEW c \in Caller, FailToWrite(c)
      PROVE  ChangeInv' /\ [OneChange]_acked
  BY <1>3, Alone DEF FailToWrite, Fail, Return, history, At, StoreTypes, SettledInv, ChangeInv, OneChange
<1>4. ASSUME NEW c \in Caller, Rename(c)
      PROVE  ChangeInv' /\ [OneChange]_acked
  BY <1>4, Alone DEF Rename, Succeed, Return, At, StoreTypes, SettledInv, ChangeInv, OneChange
<1>5. ASSUME NEW c \in Caller, RenameFails(c)
      PROVE  ChangeInv' /\ [OneChange]_acked
  BY <1>5, Alone DEF RenameFails, GoOn, history, At, StoreTypes, SettledInv, ChangeInv, OneChange
<1>6. ASSUME NEW c \in Caller, ClearBackup(c)
      PROVE  ChangeInv' /\ [OneChange]_acked
  BY <1>6, Alone DEF ClearBackup, GoOn, history, At, StoreTypes, SettledInv, ChangeInv, OneChange
<1>7. ASSUME NEW c \in Caller, MoveAside(c)
      PROVE  ChangeInv' /\ [OneChange]_acked
  BY <1>7, Alone DEF MoveAside, GoOn, history, At, StoreTypes, SettledInv, ChangeInv, OneChange
<1>8. ASSUME NEW c \in Caller, CannotMoveAside(c)
      PROVE  ChangeInv' /\ [OneChange]_acked
  BY <1>8, Alone DEF CannotMoveAside, Fail, Return, history, At, StoreTypes, SettledInv, ChangeInv, OneChange
<1>9. ASSUME NEW c \in Caller, Replace(c)
      PROVE  ChangeInv' /\ [OneChange]_acked
  BY <1>9, Alone DEF Replace, GoOn, history, At, StoreTypes, SettledInv, ChangeInv, OneChange
<1>10. ASSUME NEW c \in Caller, ReplaceFails(c)
      PROVE  ChangeInv' /\ [OneChange]_acked
  BY <1>10, Alone DEF ReplaceFails, GoOn, history, At, StoreTypes, SettledInv, ChangeInv, OneChange
<1>11. ASSUME NEW c \in Caller, Restore(c)
      PROVE  ChangeInv' /\ [OneChange]_acked
  BY <1>11, Alone DEF Restore, Fail, Return, history, At, StoreTypes, SettledInv, ChangeInv, OneChange
<1>12. ASSUME NEW c \in Caller, RestoreFails(c)
      PROVE  ChangeInv' /\ [OneChange]_acked
  BY <1>12, Alone DEF RestoreFails, Return, Stranding, At, StoreTypes, SettledInv, ChangeInv, OneChange
<1>13. ASSUME NEW c \in Caller, Tidy(c)
      PROVE  ChangeInv' /\ [OneChange]_acked
  BY <1>13, Alone DEF Tidy, Succeed, Return, At, StoreTypes, SettledInv, ChangeInv, OneChange
<1>14. CASE Crash
  BY <1>14 DEF Crash, At, StoreTypes, SettledInv, PlaceInv, KeptInv, ChangeInv, OneChange
<1>15. CASE UNCHANGED vars
  BY <1>15 DEF vars, calls, history, ChangeInv
<1>16. QED
  BY <1>1, <1>2, <1>3, <1>4, <1>5, <1>6, <1>7, <1>8, <1>9, <1>10, <1>11, <1>12, <1>13, <1>14, <1>15 DEF Next, Write, Save, Delete

(* As long as calls do not overlap, a save or a delete, or a crash in the  *)
(* middle of one, changes what is stored of one preset and of no other     *)
(* (Store.Save, Store.Delete): what SavesAreAtomic promises in vain of     *)
(* calls that overlap.                                                     *)
THEOREM OnePresetChanges == Spec => [][OneChange]_acked
<1>1. Init => ChangeInv
  BY DEF Init, ChangeInv
<1>2. StoreInv /\ ChangeInv /\ [Next]_vars => ChangeInv' /\ [OneChange]_acked
  BY ChangeStep
<1>3. QED
  BY <1>1, <1>2, StoreInvariant, PTL DEF Spec
=============================================================================
