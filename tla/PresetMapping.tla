---------------------------- MODULE PresetMapping ---------------------------
(***************************************************************************)
(* What a preset keeps of the inputs of the automation page, and what a    *)
(* loaded preset makes of them for the capabilities of the server that is  *)
(* connected then (internal/application/preset_mapping.go).                *)
(*                                                                         *)
(* Abstractions.  The file is module PresetStore.  Of a preset, only what  *)
(* planning reads is kept: the worker limit, the run modes, the file mode  *)
(* and the server preset are left out, and so are the names of servers.    *)
(* The texts of the numeric inputs are module Values.                      *)
(***************************************************************************)
EXTENDS Planning

(* BuildSafePreset: selections of known properties that are no ranges, the *)
(* texts of the known numeric ones, the copies, and a custom page range    *)
(* where the server has such a value.  The copies and the page range are   *)
(* kept among the numeric inputs, under the identifier of their property.  *)
BuildSafePreset(model, request) ==
  LET Known(id) == id \in DOMAIN model
      Text(id) ==
        CASE Known(id) /\ HasBounds(model[id]) /\ request.numeric[id] # <<>> -> request.numeric[id]
          [] id = PageRange /\ request.pages # <<>> /\ CustomPageRangeSupported(model) ->
               request.pages
          [] HasCopies(model) /\ id = CopiesOption(model) -> request.copies
          [] OTHER -> <<>>
  IN [selected |-> [id \in ToSet(PropertyId) |->
                      IF Known(id) /\ ~HasBounds(model[id]) THEN request.selected[id] \ {0} ELSE {}],
      numeric |-> [id \in ToSet(PropertyId) |-> Text(id)],
      copiesId |-> IF HasCopies(model) THEN {CopiesOption(model)} ELSE {},
      strategy |-> request.strategy, source |-> request.source, intent |-> request.intent,
      limit |-> request.limit]

(* ReconcilePreset: values that the server still offers, and texts that    *)
(* can still be read.  A page range comes back in its compact form, copies *)
(* that cannot be read as 1.                                               *)
ReconcilePreset(model, preset) ==
  LET Known(id) == id \in DOMAIN model
      Offered(id) == IF Known(id) /\ ~HasBounds(model[id]) THEN OptionValues(model[id]) ELSE {}
      pages == ParsePages(preset.numeric[PageRange])
      pagesKept == CustomPageRangeSupported(model) /\ pages.ok
      Readable(id) == Known(id) /\ HasBounds(model[id]) /\ ParseRange(preset.numeric[id], model[id].range).ok
      Plain(id) == id # PageRange /\ id \notin CopiesIds
      saved == {id \in preset.copiesId : ParseCopies(preset.numeric[id]).ok}
  IN [selected |-> [id \in ToSet(PropertyId) |-> preset.selected[id] \cap Offered(id)],
      numeric |-> [id \in ToSet(PropertyId) |->
                     IF Plain(id) /\ Readable(id) THEN preset.numeric[id] ELSE <<>>],
      pages |-> IF pagesKept THEN Compact(pages.values) ELSE <<>>,
      copies |-> IF saved = {} THEN <<One(1)>> ELSE preset.numeric[CHOOSE id \in saved : TRUE],
      strategy |-> preset.strategy, source |-> preset.source, intent |-> preset.intent,
      limit |-> NormalizeCaseLimit(preset.limit)]

(* ReconciledPreset.Missing is not 0: something was skipped.               *)
Skipped(model, preset) ==
  LET Lost(id) == \E v \in preset.selected[id] :
                    ~(id \in DOMAIN model /\ ~HasBounds(model[id]) /\ v \in OptionValues(model[id]))
      Unread(id) ==
        CASE id = PageRange -> preset.numeric[id] # <<>>
                               /\ ~(CustomPageRangeSupported(model) /\ ParsePages(preset.numeric[id]).ok)
          [] id \in CopiesIds -> id \in preset.copiesId /\ ~ParseCopies(preset.numeric[id]).ok
          [] OTHER -> preset.numeric[id] # <<>>
                      /\ ~(id \in DOMAIN model /\ HasBounds(model[id])
                           /\ ParseRange(preset.numeric[id], model[id].range).ok)
  IN \E id \in ToSet(PropertyId) : Lost(id) \/ Unread(id)
=============================================================================
