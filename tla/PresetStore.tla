----------------------------- MODULE PresetStore ----------------------------
(***************************************************************************)
(* The file of local presets (internal/presets/store.go, called by         *)
(* SavePreset and DeletePreset of internal/appwails/workspace.go).  A      *)
(* change reads the file, changes what it has read, writes a temporary     *)
(* file and renames it over the file.  Where that rename fails the old     *)
(* file is moved aside to a .bak first, and moved back if the new one      *)
(* still cannot be put in its place.  Nothing is locked: two calls may     *)
(* overlap.  The application may crash between any two steps.              *)
(*                                                                         *)
(* Abstractions.  A file is the function from names to the presets it      *)
(* holds: the order, the version and the time stamps are left out, and     *)
(* names that differ in case only are one name.  Any operation on a file   *)
(* may fail.  Calls that return before they write (an invalid name, no     *)
(* capabilities, a file that cannot be read) change nothing and are left   *)
(* out.  A crash of the computer that loses written data is not modelled.  *)
(***************************************************************************)
EXTENDS Naturals

CONSTANTS
  Caller,  \* the goroutines of binding calls
  Name,
  Preset

NoPreset == "no preset"

ASSUME PresetAssumption == NoPreset \notin Preset

VARIABLES
  path,       \* presets.json
  backup,     \* presets.json.bak
  step,       \* where each caller is in Save or Delete
  temp,       \* what its temporary file holds, or will
  acked,      \* history: what the calls that returned without an error made of the presets
  stranded,   \* history: a crash or a failed restore has left the presets in the backup
  settled     \* history: no call has begun while another one ran, or with stranded presets

calls == <<step, temp>>
history == <<acked, stranded, settled>>
vars == <<path, backup, calls, history>>

Content == [Name -> Preset \cup {NoPreset}]
Empty == [n \in Name |-> NoPreset]

(* read: a file that does not exist holds no preset.                       *)
File(content) == [exists |-> TRUE, holds |-> content]
NoFile == [exists |-> FALSE, holds |-> Empty]

Step == {"idle", "writing", "renaming", "clearing", "aside", "replacing", "restoring", "tidying"}

(* The variables have their types, of a settled store at most one call is  *)
(* running, and a call that has returned has left no temporary file.       *)
TypeOK ==
  /\ path \in {NoFile} \cup {File(content) : content \in Content}
  /\ backup \in {NoFile} \cup {File(content) : content \in Content}
  /\ step \in [Caller -> Step]
  /\ temp \in [Caller -> Content]
  /\ acked \in Content
  /\ stranded \in BOOLEAN /\ settled \in BOOLEAN
  /\ settled => \A c, d \in Caller : c # d => "idle" \in {step[c], step[d]}
  /\ \A c \in Caller : step[c] = "idle" => temp[c] = Empty

Init ==
  /\ path \in {NoFile, File(Empty)}
  /\ backup = NoFile
  /\ step = [c \in Caller |-> "idle"]
  /\ temp = [c \in Caller |-> Empty]
  /\ acked = Empty
  /\ stranded = FALSE /\ settled = TRUE

-----------------------------------------------------------------------------
At(c, s) == step[c] = s
GoOn(c, s) == step' = [step EXCEPT ![c] = s] /\ UNCHANGED temp

(* The temporary file is removed, if it was not renamed.                   *)
ReturnWithTemp(c) ==  \* Fault: it is not
  /\ step' = [step EXCEPT ![c] = "idle"]
  /\ UNCHANGED temp

Return(c) ==
  /\ step' = [step EXCEPT ![c] = "idle"]
  /\ temp' = [temp EXCEPT ![c] = Empty]

Succeed(c) ==
  /\ Return(c)
  /\ acked' = IF settled THEN temp[c] ELSE Empty
  /\ UNCHANGED <<stranded, settled>>

Fail(c) == Return(c) /\ UNCHANGED history

(* The call reads the file and changes the preset of one name.             *)
Change(c, n, preset) ==
  /\ At(c, "idle")
  /\ temp' = [temp EXCEPT ![c] = [path.holds EXCEPT ![n] = preset]]
  /\ step' = [step EXCEPT ![c] = "writing"]
  /\ settled' = (settled /\ ~stranded /\ \A d \in Caller : At(d, "idle"))
  /\ acked' = IF settled' THEN acked ELSE Empty
  /\ UNCHANGED <<path, backup, stranded>>

Save(c, n, preset) == Change(c, n, preset)

Delete(c, n) == path.holds[n] # NoPreset /\ Change(c, n, NoPreset)

WriteTemp(c) ==
  /\ At(c, "writing")
  /\ GoOn(c, "renaming")
  /\ UNCHANGED <<path, backup, history>>

FailToWrite(c) ==
  /\ At(c, "writing")
  /\ Fail(c)
  /\ UNCHANGED <<path, backup>>

Rename(c) ==
  /\ At(c, "renaming")
  /\ path' = File(temp[c])
  /\ Succeed(c)
  /\ UNCHANGED backup

RenameFails(c) ==
  /\ At(c, "renaming")
  /\ GoOn(c, "clearing")
  /\ UNCHANGED <<path, backup, history>>

(* Errors of os.Remove are ignored.                                        *)
ClearBackup(c) ==
  /\ At(c, "clearing")
  /\ backup' \in {backup, NoFile}
  /\ GoOn(c, "aside")
  /\ UNCHANGED <<path, history>>

RemoveInstead(c) ==  \* Fault: the old file is removed, not moved aside
  /\ At(c, "aside")
  /\ path' = NoFile
  /\ GoOn(c, "replacing")
  /\ UNCHANGED <<backup, history>>

(* That there is no file to move aside is not an error.                    *)
MoveAside(c) ==
  /\ At(c, "aside")
  /\ IF path = NoFile THEN UNCHANGED <<path, backup>>
                      ELSE backup' = path /\ path' = NoFile
  /\ GoOn(c, "replacing")
  /\ UNCHANGED history

CannotMoveAside(c) ==
  /\ At(c, "aside") /\ path # NoFile
  /\ Fail(c)
  /\ UNCHANGED <<path, backup>>

Replace(c) ==
  /\ At(c, "replacing")
  /\ path' = File(temp[c])
  /\ GoOn(c, "tidying")
  /\ UNCHANGED <<backup, history>>

ReplaceFails(c) ==
  /\ At(c, "replacing")
  /\ GoOn(c, "restoring")
  /\ UNCHANGED <<path, backup, history>>

Restore(c) ==
  /\ At(c, "restoring") /\ backup # NoFile
  /\ path' = backup /\ backup' = NoFile
  /\ Fail(c)

Stranding == path = NoFile /\ acked # Empty

(* There is nothing to move back, or that fails too: the error is ignored. *)
RestoreFails(c) ==
  /\ At(c, "restoring")
  /\ Return(c)
  /\ stranded' = (stranded \/ Stranding)
  /\ UNCHANGED <<path, backup, acked, settled>>

Tidy(c) ==
  /\ At(c, "tidying")
  /\ backup' \in {backup, NoFile}
  /\ Succeed(c)
  /\ UNCHANGED path

(* The application ends in the middle of its calls.  What it had put in    *)
(* place is there when it starts again.                                    *)
Crash ==
  /\ \E c \in Caller : ~At(c, "idle")
  /\ step' = [c \in Caller |-> "idle"]
  /\ temp' = [c \in Caller |-> Empty]
  /\ stranded' = (stranded \/ Stranding)
  /\ acked' = IF path # NoFile /\ settled THEN path.holds ELSE acked
  /\ UNCHANGED <<path, backup, settled>>

Write(c) ==
  \/ WriteTemp(c) \/ FailToWrite(c) \/ Rename(c) \/ RenameFails(c)
  \/ ClearBackup(c) \/ MoveAside(c) \/ CannotMoveAside(c)
  \/ Replace(c) \/ ReplaceFails(c) \/ Restore(c) \/ RestoreFails(c) \/ Tidy(c)

Next ==
  \/ \E c \in Caller, n \in Name : Delete(c, n) \/ \E p \in Preset : Save(c, n, p)
  \/ \E c \in Caller : Write(c)
  \/ Crash

Spec == Init /\ [][Next]_vars

-----------------------------------------------------------------------------
(* As long as calls do not overlap: the file holds what the calls that     *)
(* returned without an error made of it, or already what the call that     *)
(* runs makes of it; and when there is no file, because the fallback is at *)
(* work or a crash or a failed restore has ended it, the backup holds all  *)
(* of it (write, store.go).                                                *)
PresetsKept ==
  settled =>
    \/ path.holds = acked
    \/ \E c \in Caller : At(c, "tidying") /\ path = File(temp[c])
    \/ path = NoFile /\ backup = File(acked)

(* Not so in general: that every change of the file is the change of one   *)
(* preset.  While the old file is aside a call, or the next start after a  *)
(* crash, finds no file, takes the presets to be none and writes only its  *)
(* own; and of two calls that overlap the one that renames last undoes the *)
(* other.                                                                  *)
SavesAreAtomic ==
  [][\E n \in Name : \A m \in Name \ {n} : path'.holds[m] = path.holds[m]]_path
=============================================================================
