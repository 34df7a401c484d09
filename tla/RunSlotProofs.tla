---------------------------- MODULE RunSlotProofs ---------------------------
(***************************************************************************)
(* Proofs about RunSlot, for any number of starters, runs and results and  *)
(* any length of the list that is shown: one run at a time, only closed    *)
(* result files are exported, the latest results are shown, and Shutdown   *)
(* does not return in time before its run is folded in.                    *)
(***************************************************************************)
EXTENDS RunSlot, FiniteSetTheorems, SequenceTheorems, TLAPS

-----------------------------------------------------------------------------
(* The inductive invariant.                                                *)

SlotTypes == TypeOK /\ events \in [RunId -> Seq(0..MaxResults)]

Announced(r) == op[r] \in {"announced", "closed", "done"}

(* operationMu is held from the check to the publication of the run, which *)
(* nobody consumes before.                                                 *)
LockInv ==
  /\ \A s \in Starter : s \in checked \/ starting[s] # 0 => lock = s
  /\ \A s \in checked : starting[s] = 0
  /\ \A s \in Starter : starting[s] # 0 =>
       op[starting[s]] # "none" /\ consumer[starting[s]] = "none"
  /\ slot # 0 => consumer[slot] # "none"

(* The life of the consumer follows that of the run.                       *)
ConsumerInv ==
  \A r \in RunId :
    /\ op[r] = "none" => consumer[r] = "none" /\ reported[r] = 0 /\ events[r] = <<>>
    /\ consumer[r] = "none" => state[r] = NoState
    /\ consumer[r] = "finished" => op[r] = "done"

(* A run at work is shown as Running, or its start is not yet published    *)
(* and keeps others from starting.                                         *)
WorkInv ==
  /\ \A r \in RunId : Working(r) =>
       \/ slot = r /\ state[r].status = "Running"
       \/ \E s \in Starter : starting[s] = r
  /\ checked # {} => \A r \in RunId : ~Working(r)
  /\ \A s \in Starter : starting[s] # 0 =>
       \A r \in RunId : Working(r) => r = starting[s]

(* The results on their way to the service, and those that have arrived.   *)
Pending(r) ==
  IF Announced(r) /\ events[r] # <<>> THEN Len(events[r]) - 1 ELSE Len(events[r])
Got(r) == reported[r] - Pending(r)

(* Results are on their way in order, without a gap, and the terminal      *)
(* event after all of them.                                                *)
InOrder(r) ==
  /\ \A i \in 1..Len(events[r]) :
       /\ events[r][i] = 0 <=> Announced(r) /\ i = Len(events[r])
       /\ events[r][i] # 0 => events[r][i] = Got(r) + i
  /\ Got(r) >= 0
  /\ consumer[r] = "none" => Got(r) = 0

EventsInv == \A r \in RunId : InOrder(r)

(* The window shows the last of those that have arrived.                   *)
Latest(r) ==
  slot = r =>
    /\ \A i \in 1..Len(state[r].shown) : state[r].shown[i] = Got(r) - Len(state[r].shown) + i
    /\ state[r].truncated <=> Got(r) > Len(state[r].shown)
    /\ Len(state[r].shown) <= Got(r)

ViewInv == \A r \in RunId : Latest(r)

ExportInv == export.run # 0 => op[export.run] \notin {"none", "running"}

SlotInv ==
  /\ SlotTypes
  /\ LockInv
  /\ ConsumerInv
  /\ WorkInv
  /\ EventsInv
  /\ ViewInv
  /\ ExportInv
  /\ ShutdownWaitsForConsumer

-----------------------------------------------------------------------------
(* The steps.                                                              *)

(* Facts about the values of the variables.                                *)
LEMMA RunIds ==
  /\ RunId \subseteq 0..MaxRuns /\ 0 \in 0..MaxRuns /\ 0 \notin RunId
  /\ \A r \in 0..MaxRuns : r # 0 => r \in RunId
BY MaxRunsAssumption DEF RunId

LEMMA Appended ==
  ASSUME NEW S, NEW queue \in Seq(S), NEW e \in S
  PROVE  /\ Append(queue, e) \in Seq(S)
         /\ Len(Append(queue, e)) = Len(queue) + 1
         /\ \A i \in 1..Len(queue) : Append(queue, e)[i] = queue[i]
         /\ Append(queue, e)[Len(queue) + 1] = e
BY LenProperties

LEMMA Taken ==
  ASSUME NEW S, NEW queue \in Seq(S), queue # <<>>
  PROVE  /\ Head(queue) \in S /\ Head(queue) = queue[1]
         /\ Tail(queue) \in Seq(S)
         /\ Len(queue) \in Nat \ {0}
         /\ Len(Tail(queue)) = Len(queue) - 1
         /\ \A i \in 1..Len(queue) - 1 : Tail(queue)[i] = queue[i + 1]
BY HeadTailProperties, EmptySeq

LEMMA SummaryTyped ==
  ASSUME NEW old \in Summary, NEW status \in {"none", "Running"} \cup Final
  PROVE  /\ [old EXCEPT !.status = status] \in Summary
         /\ [status |-> status, completed |-> TRUE] \in Summary
BY DEF Summary

LEMMA StateTyped ==
  ASSUME NEW view \in State, NEW status \in {"none", "Running"} \cup Final
  PROVE  /\ [view EXCEPT !.status = status] \in State
         /\ [view EXCEPT !.status = status].shown = view.shown
         /\ [[view EXCEPT !.status = status] EXCEPT !.ready = TRUE] \in State
         /\ [[view EXCEPT !.status = status] EXCEPT !.ready = TRUE].shown = view.shown
BY DEF State

(* A result is added at the end of the list, which keeps to its bound.     *)
LEMMA ShowTyped ==
  ASSUME NEW view \in State, NEW e \in 1..MaxResults, Len(view.shown) <= MaxFrontendResults
  PROVE  /\ Show(view, e) \in State
         /\ Len(Show(view, e).shown) <= MaxFrontendResults
         /\ Show(view, e).status = view.status
<1>1. view.shown \in Seq(1..MaxResults) /\ Len(view.shown) \in Nat
  BY DEF State
<1>2. CASE Len(view.shown) >= MaxFrontendResults
  <2>1. /\ Append(Tail(view.shown), e) \in Seq(1..MaxResults)
        /\ Len(Append(Tail(view.shown), e)) = Len(view.shown)
    <3>1. view.shown # <<>> /\ Len(view.shown) \in Nat
      BY <1>1, <1>2, MaxFrontendAssumption, EmptySeq
    <3>2. /\ Tail(view.shown) \in Seq(1..MaxResults)
          /\ Len(Tail(view.shown)) = Len(view.shown) - 1
      BY <1>1, <3>1, Taken
    <3>3. QED
      BY <3>1, <3>2, Appended
  <2>2. QED
    BY <1>2, <2>1 DEF Show, State
<1>3. CASE ~(Len(view.shown) >= MaxFrontendResults)
  <2>1. /\ Append(view.shown, e) \in Seq(1..MaxResults)
        /\ Len(Append(view.shown, e)) = Len(view.shown) + 1
    BY <1>1, Appended
  <2>2. QED
    <3>1. Show(view, e) = [view EXCEPT !.shown = Append(view.shown, e)]
      BY <1>3 DEF Show
    <3>2. Len(view.shown) + 1 <= MaxFrontendResults
      BY <1>1, <1>3, MaxFrontendAssumption
    <3>3. QED
      BY <2>1, <3>1, <3>2 DEF State
<1>4. QED
  BY <1>2, <1>3

(* The variables keep their types.                                         *)
LEMMA TypesStep ==
  ASSUME SlotTypes, [Next]_vars
  PROVE  SlotTypes'
<1>1. ASSUME NEW s \in Starter, CheckIdle(s)
      PROVE  SlotTypes'
  BY <1>1
     DEF CheckIdle, startVars, opVars, viewVars, downVars, TypeOK, SlotTypes
<1>2. ASSUME NEW s \in Starter, RefuseStart(s)
      PROVE  SlotTypes'
  BY <1>2
     DEF RefuseStart, startVars, opVars, viewVars, downVars, TypeOK, SlotTypes
<1>3. ASSUME NEW s \in Starter, StartRunner(s)
      PROVE  SlotTypes'
  <2>1. PICK q \in RunId : /\ op' = [op EXCEPT ![q] = "running"]
                          /\ starting' = [starting EXCEPT ![s] = q]
                          /\ cancelled' \in {cancelled, cancelled \cup {q}}
    BY <1>3 DEF StartRunner
  <2>2. QED
    BY <1>3, <2>1, RunIds
       DEF StartRunner, startVars, opVars, viewVars, downVars, TypeOK, SlotTypes
<1>4. ASSUME NEW s \in Starter, PublishRun(s)
      PROVE  SlotTypes'
  <2>1. starting[s] \in RunId
    BY <1>4, RunIds DEF PublishRun, SlotTypes, TypeOK
  <2>2. /\ state' \in [RunId -> State]
        /\ \A q \in RunId : state'[q].shown = state[q].shown
    <3>1. state' = [state EXCEPT ![starting[s]] = [state[starting[s]] EXCEPT !.status = "Running"]]
      BY <1>4 DEF PublishRun
    <3>2. /\ [state[starting[s]] EXCEPT !.status = "Running"] \in State
          /\ [state[starting[s]] EXCEPT !.status = "Running"].shown = state[starting[s]].shown
      BY <2>1, StateTyped DEF SlotTypes, TypeOK
    <3>3. QED
      BY <2>1, <3>1, <3>2 DEF SlotTypes, TypeOK
  <2>3. summary' \in [RunId -> Summary]
    BY <1>4, <2>1, SummaryTyped DEF PublishRun, SlotTypes, TypeOK
  <2>4. QED
    BY <1>4, <2>1, <2>2, <2>3, RunIds
       DEF PublishRun, opVars, downVars, SlotTypes, TypeOK
<1>5. ASSUME NEW r \in RunId, ReportResult(r)
      PROVE  SlotTypes'
  <2>1. reported' \in [RunId -> 0..MaxResults]
    <3>1. reported[r] + 1 \in 0..MaxResults
      <4>1. reported[r] \in 0..MaxResults /\ reported[r] < MaxResults
        BY <1>5 DEF ReportResult, SlotTypes, TypeOK
      <4>2. QED
        BY <4>1, MaxFrontendAssumption
    <3>2. QED
      BY <1>5, <3>1 DEF ReportResult, SlotTypes, TypeOK
  <2>2. Append(events[r], reported'[r]) \in Seq(0..MaxResults)
    BY <2>1, Appended DEF SlotTypes
  <2>3. QED
    BY <1>5, <2>1, <2>2 DEF ReportResult, startVars, viewVars, downVars, SlotTypes, TypeOK
<1>6. ASSUME NEW r \in RunId, CloseResultFile(r)
      PROVE  SlotTypes'
  BY <1>6
     DEF CloseResultFile, startVars, opVars, viewVars, downVars, TypeOK,
          SlotTypes, Final
<1>7. ASSUME NEW r \in RunId, PublishTerminal(r)
      PROVE  SlotTypes'
  <2>1. Append(events[r], 0) \in Seq(0..MaxResults)
    BY Appended, MaxFrontendAssumption DEF SlotTypes
  <2>2. QED
    BY <1>7, <2>1 DEF PublishTerminal, startVars, viewVars, downVars, SlotTypes, TypeOK
<1>8. ASSUME NEW r \in RunId, CloseEvents(r)
      PROVE  SlotTypes'
  BY <1>8
     DEF CloseEvents, startVars, opVars, viewVars, downVars, TypeOK, SlotTypes
<1>9. ASSUME NEW r \in RunId, FillDone(r)
      PROVE  SlotTypes'
  BY <1>9
     DEF FillDone, startVars, opVars, viewVars, downVars, TypeOK, SlotTypes
<1>10. ASSUME NEW r \in RunId, Consume(r)
      PROVE  SlotTypes'
  <2>1. /\ Head(events[r]) \in 0..MaxResults
        /\ Tail(events[r]) \in Seq(0..MaxResults)
    BY <1>10, Taken DEF Consume, SlotTypes
  <2>2. \/ state' = state
        \/ state' = [state EXCEPT ![r].status = outcome[r]]
        \/ /\ Head(events[r]) # 0
           /\ state' = [state EXCEPT ![r] = Show(state[r], Head(events[r]))]
    BY <1>10 DEF Consume
  <2>3. /\ state' \in [RunId -> State]
        /\ \A q \in RunId : Len(state'[q].shown) <= MaxFrontendResults
    <3>1. CASE state' = [state EXCEPT ![r].status = outcome[r]]
      <4>1. outcome[r] \in {"none", "Running"} \cup Final
        BY DEF SlotTypes, TypeOK
      <4>2. /\ [state[r] EXCEPT !.status = outcome[r]] \in State
            /\ [state[r] EXCEPT !.status = outcome[r]].shown = state[r].shown
        BY <4>1, StateTyped DEF SlotTypes, TypeOK
      <4>3. QED
        BY <3>1, <4>2 DEF SlotTypes, TypeOK
    <3>2. CASE /\ Head(events[r]) # 0
               /\ state' = [state EXCEPT ![r] = Show(state[r], Head(events[r]))]
      <4>1. Head(events[r]) \in 1..MaxResults
        BY <2>1, <3>2, MaxFrontendAssumption
      <4>2. QED
        BY <3>2, <4>1, ShowTyped DEF SlotTypes, TypeOK
    <3>3. QED
      BY <2>2, <3>1, <3>2 DEF SlotTypes, TypeOK
  <2>4. QED
    BY <1>10, <2>1, <2>3 DEF Consume, startVars, downVars, SlotTypes, TypeOK
<1>11. ASSUME NEW r \in RunId, EventsOver(r)
      PROVE  SlotTypes'
  BY <1>11
     DEF EventsOver, startVars, opVars, viewVars, downVars, TypeOK, SlotTypes
<1>12. ASSUME NEW r \in RunId, Finalise(r)
      PROVE  SlotTypes'
  <2>1. outcome[r] \in {"none", "Running"} \cup Final
    BY DEF SlotTypes, TypeOK
  <2>2. /\ state' \in [RunId -> State]
        /\ \A q \in RunId : state'[q].shown = state[q].shown
    <3> DEFINE final == [[state[r] EXCEPT !.status = outcome[r]] EXCEPT !.ready = TRUE]
    <3>1. state' = state \/ state' = [state EXCEPT ![r] = final]
      BY <1>12 DEF Finalise, SlotTypes, TypeOK
    <3>2. final \in State /\ final.shown = state[r].shown
      BY <2>1, StateTyped DEF SlotTypes, TypeOK
    <3> HIDE DEF final
    <3>3. CASE state' = state
      BY <3>3 DEF SlotTypes, TypeOK
    <3>4. CASE state' = [state EXCEPT ![r] = final]
      BY <3>2, <3>4 DEF SlotTypes, TypeOK
    <3>5. QED
      BY <3>1, <3>3, <3>4
  <2>3. summary' \in [RunId -> Summary]
    <3>1. [status |-> outcome[r], completed |-> TRUE] \in Summary
      BY <2>1 DEF Summary
    <3>2. QED
      BY <1>12, <3>1 DEF Finalise, SlotTypes, TypeOK
  <2>4. QED
    <3>1. /\ consumer' = [consumer EXCEPT ![r] = "finished"]
          /\ UNCHANGED <<startVars, opVars, cancelled, export, downVars>>
      BY <1>12 DEF Finalise
    <3>2. QED
      BY <2>2, <2>3, <3>1 DEF startVars, opVars, downVars, SlotTypes, TypeOK
<1>13. CASE CancelAutomation
  <2>1. slot \in RunId /\ cancelled' = cancelled \cup {slot}
    BY <1>13, RunIds DEF CancelAutomation, Running, SlotTypes, TypeOK
  <2>2. QED
    BY <1>13, <2>1 DEF CancelAutomation, startVars, opVars, viewVars, downVars, SlotTypes, TypeOK
<1>14. CASE BeginExport
  BY <1>14, RunIds
     DEF BeginExport, startVars, opVars, viewVars, downVars, TypeOK, SlotTypes
<1>15. CASE DropExport
  BY <1>15, RunIds
     DEF DropExport, startVars, opVars, viewVars, downVars, TypeOK, SlotTypes,
          NoExport, NoSummary, Summary
<1>16. CASE WriteExport
  BY <1>16
     DEF WriteExport, startVars, opVars, viewVars, downVars, TypeOK, SlotTypes
<1>17. CASE CancelRoot
  BY <1>17
     DEF CancelRoot, startVars, opVars, viewVars, downVars, TypeOK, SlotTypes
<1>18. CASE ChooseAwaited
  BY <1>18
     DEF ChooseAwaited, startVars, opVars, viewVars, downVars, TypeOK,
          SlotTypes
<1>19. CASE ReturnFinished
  BY <1>19
     DEF ReturnFinished, startVars, opVars, viewVars, downVars, TypeOK,
          SlotTypes
<1>20. CASE ReturnLate
  BY <1>20
     DEF ReturnLate, startVars, opVars, viewVars, downVars, TypeOK, SlotTypes
<1>21. CASE UNCHANGED vars
  BY <1>21 DEF vars, startVars, opVars, viewVars, downVars, TypeOK, SlotTypes
<1>22. QED
  BY <1>1, <1>2, <1>3, <1>4, <1>5, <1>6, <1>7, <1>8, <1>9, <1>10, <1>11,
       <1>12, <1>13, <1>14, <1>15, <1>16, <1>17, <1>18, <1>19, <1>20, <1>21
     DEF Next, Operation, ConsumeRun, Over, vars, startVars, opVars, viewVars,
          downVars

(* operationMu protects a start.                                           *)
LEMMA LockStep ==
  ASSUME SlotInv, [Next]_vars
  PROVE  LockInv'
<1>1. ASSUME NEW s \in Starter, CheckIdle(s)
      PROVE  LockInv'
  BY <1>1, StarterAssumption
     DEF CheckIdle, SlotInv, SlotTypes, TypeOK, startVars, opVars, viewVars,
          downVars, LockInv
<1>2. ASSUME NEW s \in Starter, RefuseStart(s)
      PROVE  LockInv'
  BY <1>2, StarterAssumption
     DEF RefuseStart, SlotInv, SlotTypes, TypeOK, startVars, opVars, viewVars,
          downVars, LockInv
<1>3. ASSUME NEW s \in Starter, StartRunner(s)
      PROVE  LockInv'
  <2>1. PICK q \in RunId : /\ op[q] = "none"
                          /\ op' = [op EXCEPT ![q] = "running"]
                          /\ starting' = [starting EXCEPT ![s] = q]
    BY <1>3 DEF StartRunner
  <2>2. s \in checked /\ checked' = checked \ {s} /\ UNCHANGED <<lock, slot, consumer>>
    BY <1>3 DEF StartRunner, viewVars
  <2>3. consumer[q] = "none"
    BY <2>1 DEF SlotInv, ConsumerInv
  <2>4. \A t \in Starter : t # s => starting[t] = 0 /\ t \notin checked
    BY <2>2 DEF SlotInv, LockInv, SlotTypes, TypeOK
  <2>5. lock = s
    BY <2>2 DEF SlotInv, LockInv
  <2>6. /\ \A t \in Starter : t # s => starting'[t] = 0 /\ t \notin checked'
        /\ starting'[s] = q /\ op'[q] = "running" /\ s \notin checked'
    BY <2>1, <2>2, <2>4 DEF SlotInv, SlotTypes, TypeOK
  <2>7. checked' \subseteq Starter
    BY <2>2 DEF SlotInv, SlotTypes, TypeOK
  <2>8. slot # 0 => consumer[slot] # "none"
    BY DEF SlotInv, LockInv
  <2>9. QED
    BY <2>2, <2>3, <2>5, <2>6, <2>7, <2>8 DEF LockInv
<1>4. ASSUME NEW s \in Starter, PublishRun(s)
      PROVE  LockInv'
  <2> DEFINE q == starting[s]
  <2>1. q \in RunId
    BY <1>4, RunIds DEF PublishRun, SlotInv, SlotTypes, TypeOK
  <2>2. /\ starting' = [starting EXCEPT ![s] = 0] /\ slot' = q
        /\ consumer' = [consumer EXCEPT ![q] = "consuming"] /\ checked' = checked
    BY <1>4 DEF PublishRun
  <2>3. lock = s
    BY <1>4 DEF PublishRun, SlotInv, LockInv
  <2>4. /\ \A t \in Starter : t # s => starting[t] = 0
        /\ checked = {}
    BY <1>4, <2>3 DEF PublishRun, SlotInv, LockInv, SlotTypes, TypeOK
  <2>5. /\ \A t \in Starter : starting'[t] = 0
        /\ checked' = {}
        /\ consumer'[slot'] # "none"
    BY <2>1, <2>2, <2>4 DEF SlotInv, SlotTypes, TypeOK
  <2>6. QED
    BY <2>5 DEF LockInv
<1>5. ASSUME NEW r \in RunId, CloseResultFile(r)
      PROVE  LockInv'
  BY <1>5, RunIds
     DEF CloseResultFile, SlotInv, SlotTypes, TypeOK, startVars, opVars,
          viewVars, downVars, LockInv
<1>6. ASSUME NEW r \in RunId, PublishTerminal(r)
      PROVE  LockInv'
  BY <1>6, RunIds
     DEF PublishTerminal, SlotInv, SlotTypes, TypeOK, startVars, opVars,
          viewVars, downVars, LockInv
<1>7. ASSUME NEW r \in RunId, CloseEvents(r)
      PROVE  LockInv'
  BY <1>7, RunIds
     DEF CloseEvents, SlotInv, SlotTypes, TypeOK, startVars, opVars, viewVars,
          downVars, LockInv
<1>8. ASSUME NEW r \in RunId, FillDone(r)
      PROVE  LockInv'
  BY <1>8, RunIds
     DEF FillDone, SlotInv, SlotTypes, TypeOK, startVars, opVars, viewVars,
          downVars, LockInv
<1>9. ASSUME NEW r \in RunId, EventsOver(r)
      PROVE  LockInv'
  BY <1>9, RunIds
     DEF EventsOver, SlotInv, SlotTypes, TypeOK, startVars, opVars, viewVars,
          downVars, LockInv
<1>10. ASSUME NEW r \in RunId, Finalise(r)
      PROVE  LockInv'
  BY <1>10, RunIds
     DEF Finalise, SlotInv, SlotTypes, TypeOK, startVars, opVars, viewVars,
          downVars, LockInv
<1>11. CASE UNCHANGED <<lock, starting, checked, slot, op, consumer>>
  BY <1>11 DEF LockInv, SlotInv
<1>12. QED
  BY <1>1, <1>2, <1>3, <1>4, <1>5, <1>6, <1>7, <1>8, <1>9, <1>10, <1>11
     DEF Next, Operation, ConsumeRun, ReportResult, Consume, CancelAutomation,
          BeginExport, DropExport, WriteExport, CancelRoot, ChooseAwaited,
          ReturnFinished, ReturnLate, Over, vars, startVars, opVars, viewVars,
          downVars

(* A run is consumed once it is published.                                 *)
LEMMA ConsumerStep ==
  ASSUME SlotInv, [Next]_vars
  PROVE  ConsumerInv'
<1>1. ASSUME NEW s \in Starter, StartRunner(s)
      PROVE  ConsumerInv'
  BY <1>1
     DEF StartRunner, SlotInv, SlotTypes, TypeOK, startVars, opVars, viewVars,
          downVars, ConsumerInv, LockInv
<1>2. ASSUME NEW s \in Starter, PublishRun(s)
      PROVE  ConsumerInv'
  BY <1>2
     DEF PublishRun, SlotInv, SlotTypes, TypeOK, startVars, opVars, viewVars,
          downVars, ConsumerInv, LockInv
<1>3. ASSUME NEW r \in RunId, ReportResult(r)
      PROVE  ConsumerInv'
  BY <1>3
     DEF ReportResult, SlotInv, SlotTypes, TypeOK, startVars, opVars,
          viewVars, downVars, ConsumerInv, LockInv
<1>4. ASSUME NEW r \in RunId, CloseResultFile(r)
      PROVE  ConsumerInv'
  BY <1>4
     DEF CloseResultFile, SlotInv, SlotTypes, TypeOK, startVars, opVars,
          viewVars, downVars, ConsumerInv, LockInv
<1>5. ASSUME NEW r \in RunId, PublishTerminal(r)
      PROVE  ConsumerInv'
  BY <1>5
     DEF PublishTerminal, SlotInv, SlotTypes, TypeOK, startVars, opVars,
          viewVars, downVars, ConsumerInv, LockInv
<1>6. ASSUME NEW r \in RunId, CloseEvents(r)
      PROVE  ConsumerInv'
  BY <1>6
     DEF CloseEvents, SlotInv, SlotTypes, TypeOK, startVars, opVars, viewVars,
          downVars, ConsumerInv, LockInv
<1>7. ASSUME NEW r \in RunId, FillDone(r)
      PROVE  ConsumerInv'
  BY <1>7
     DEF FillDone, SlotInv, SlotTypes, TypeOK, startVars, opVars, viewVars,
          downVars, ConsumerInv, LockInv
<1>8. ASSUME NEW r \in RunId, Consume(r)
      PROVE  ConsumerInv'
  BY <1>8
     DEF Consume, SlotInv, SlotTypes, TypeOK, startVars, opVars, viewVars,
          downVars, ConsumerInv, LockInv
<1>9. ASSUME NEW r \in RunId, EventsOver(r)
      PROVE  ConsumerInv'
  BY <1>9
     DEF EventsOver, SlotInv, SlotTypes, TypeOK, startVars, opVars, viewVars,
          downVars, ConsumerInv, LockInv
<1>10. ASSUME NEW r \in RunId, Finalise(r)
      PROVE  ConsumerInv'
  BY <1>10
     DEF Finalise, SlotInv, SlotTypes, TypeOK, startVars, opVars, viewVars,
          downVars, ConsumerInv, LockInv
<1>11. CASE UNCHANGED <<op, consumer, reported, events, state>>
  BY <1>11 DEF ConsumerInv, SlotInv
<1>12. QED
  BY <1>1, <1>2, <1>3, <1>4, <1>5, <1>6, <1>7, <1>8, <1>9, <1>10, <1>11
     DEF Next, Operation, ConsumeRun, CheckIdle, RefuseStart,
          CancelAutomation, BeginExport, DropExport, WriteExport, CancelRoot,
          ChooseAwaited, ReturnFinished, ReturnLate, Over, vars, startVars,
          opVars, viewVars, downVars

(* A run that could be exported once can be exported from then on.         *)
LEMMA ExportStep ==
  ASSUME SlotInv, [Next]_vars
  PROVE  ExportInv'
<1>1. ASSUME NEW s \in Starter, StartRunner(s)
      PROVE  ExportInv'
  BY <1>1, RunIds
     DEF StartRunner, SlotInv, SlotTypes, TypeOK, startVars, opVars, viewVars,
          downVars, ExportInv, WorkInv, LockInv, Running, Working, NoExport
<1>2. ASSUME NEW r \in RunId, CloseResultFile(r)
      PROVE  ExportInv'
  BY <1>2, RunIds
     DEF CloseResultFile, SlotInv, SlotTypes, TypeOK, startVars, opVars,
          viewVars, downVars, ExportInv, WorkInv, LockInv, Running, Working,
          NoExport
<1>3. ASSUME NEW r \in RunId, PublishTerminal(r)
      PROVE  ExportInv'
  BY <1>3, RunIds
     DEF PublishTerminal, SlotInv, SlotTypes, TypeOK, startVars, opVars,
          viewVars, downVars, ExportInv, WorkInv, LockInv, Running, Working,
          NoExport
<1>4. ASSUME NEW r \in RunId, CloseEvents(r)
      PROVE  ExportInv'
  BY <1>4, RunIds
     DEF CloseEvents, SlotInv, SlotTypes, TypeOK, startVars, opVars, viewVars,
          downVars, ExportInv, WorkInv, LockInv, Running, Working, NoExport
<1>5. ASSUME NEW r \in RunId, FillDone(r)
      PROVE  ExportInv'
  BY <1>5, RunIds
     DEF FillDone, SlotInv, SlotTypes, TypeOK, startVars, opVars, viewVars,
          downVars, ExportInv, WorkInv, LockInv, Running, Working, NoExport
<1>6. CASE BeginExport
  <2>1. slot \in RunId /\ state[slot].status # "Running" /\ export'.run = slot /\ op' = op
    BY <1>6, RunIds DEF BeginExport, Running, SlotInv, SlotTypes, TypeOK, opVars
  <2>2. op[slot] # "none"
    BY <2>1, RunIds DEF SlotInv, ConsumerInv, LockInv
  <2>3. ~Working(slot)
    <3>1. \A s \in Starter : starting[s] # slot
      BY <2>1, RunIds DEF SlotInv, LockInv
    <3>2. QED
      BY <2>1, <3>1 DEF SlotInv, WorkInv
  <2>4. QED
    BY <2>1, <2>2, <2>3 DEF Working, ExportInv
<1>7. CASE DropExport
  BY <1>7, RunIds
     DEF DropExport, SlotInv, SlotTypes, TypeOK, startVars, opVars, viewVars,
          downVars, ExportInv, WorkInv, LockInv, Running, Working, NoExport
<1>8. CASE WriteExport
  BY <1>8, RunIds
     DEF WriteExport, SlotInv, SlotTypes, TypeOK, startVars, opVars, viewVars,
          downVars, ExportInv, WorkInv, LockInv, Running, Working, NoExport
<1>9. CASE UNCHANGED <<op, export>>
  BY <1>9 DEF ExportInv, SlotInv
<1>10. QED
  BY <1>1, <1>2, <1>3, <1>4, <1>5, <1>6, <1>7, <1>8, <1>9
     DEF Next, Operation, ConsumeRun, CheckIdle, RefuseStart, PublishRun,
          ReportResult, Consume, EventsOver, Finalise, CancelAutomation,
          CancelRoot, ChooseAwaited, ReturnFinished, ReturnLate, Over, vars,
          startVars, opVars, viewVars, downVars

(* What Shutdown has waited for stays finished.                            *)
LEMMA ShutdownStep ==
  ASSUME SlotInv, [Next]_vars
  PROVE  ShutdownWaitsForConsumer'
<1>1. ASSUME NEW s \in Starter, StartRunner(s)
      PROVE  ShutdownWaitsForConsumer'
  BY <1>1, RunIds
     DEF StartRunner, SlotInv, SlotTypes, TypeOK, startVars, opVars, viewVars,
          downVars, ShutdownWaitsForConsumer, ConsumerInv, LockInv
<1>2. ASSUME NEW s \in Starter, PublishRun(s)
      PROVE  ShutdownWaitsForConsumer'
  BY <1>2, RunIds
     DEF PublishRun, SlotInv, SlotTypes, TypeOK, startVars, opVars, viewVars,
          downVars, ShutdownWaitsForConsumer, ConsumerInv, LockInv
<1>3. ASSUME NEW r \in RunId, CloseResultFile(r)
      PROVE  ShutdownWaitsForConsumer'
  BY <1>3, RunIds
     DEF CloseResultFile, SlotInv, SlotTypes, TypeOK, startVars, opVars,
          viewVars, downVars, ShutdownWaitsForConsumer, ConsumerInv, LockInv
<1>4. ASSUME NEW r \in RunId, PublishTerminal(r)
      PROVE  ShutdownWaitsForConsumer'
  BY <1>4, RunIds
     DEF PublishTerminal, SlotInv, SlotTypes, TypeOK, startVars, opVars,
          viewVars, downVars, ShutdownWaitsForConsumer, ConsumerInv, LockInv
<1>5. ASSUME NEW r \in RunId, CloseEvents(r)
      PROVE  ShutdownWaitsForConsumer'
  BY <1>5, RunIds
     DEF CloseEvents, SlotInv, SlotTypes, TypeOK, startVars, opVars, viewVars,
          downVars, ShutdownWaitsForConsumer, ConsumerInv, LockInv
<1>6. ASSUME NEW r \in RunId, FillDone(r)
      PROVE  ShutdownWaitsForConsumer'
  BY <1>6, RunIds
     DEF FillDone, SlotInv, SlotTypes, TypeOK, startVars, opVars, viewVars,
          downVars, ShutdownWaitsForConsumer, ConsumerInv, LockInv
<1>7. ASSUME NEW r \in RunId, EventsOver(r)
      PROVE  ShutdownWaitsForConsumer'
  BY <1>7, RunIds
     DEF EventsOver, SlotInv, SlotTypes, TypeOK, startVars, opVars, viewVars,
          downVars, ShutdownWaitsForConsumer, ConsumerInv, LockInv
<1>8. ASSUME NEW r \in RunId, Finalise(r)
      PROVE  ShutdownWaitsForConsumer'
  BY <1>8, RunIds
     DEF Finalise, SlotInv, SlotTypes, TypeOK, startVars, opVars, viewVars,
          downVars, ShutdownWaitsForConsumer, ConsumerInv, LockInv
<1>9. CASE ChooseAwaited
  BY <1>9, RunIds
     DEF ChooseAwaited, SlotInv, SlotTypes, TypeOK, startVars, opVars,
          viewVars, downVars, ShutdownWaitsForConsumer, ConsumerInv, LockInv
<1>10. CASE ReturnFinished
  BY <1>10, RunIds
     DEF ReturnFinished, SlotInv, SlotTypes, TypeOK, startVars, opVars,
          viewVars, downVars, ShutdownWaitsForConsumer, ConsumerInv, LockInv
<1>11. CASE ReturnLate
  BY <1>11, RunIds
     DEF ReturnLate, SlotInv, SlotTypes, TypeOK, startVars, opVars, viewVars,
          downVars, ShutdownWaitsForConsumer, ConsumerInv, LockInv
<1>12. CASE CancelRoot
  BY <1>12, RunIds
     DEF CancelRoot, SlotInv, SlotTypes, TypeOK, startVars, opVars, viewVars,
          downVars, ShutdownWaitsForConsumer, ConsumerInv, LockInv
<1>13. CASE UNCHANGED <<shutdown, awaited, op, consumer>>
  BY <1>13 DEF ShutdownWaitsForConsumer, SlotInv
<1>14. QED
  BY <1>1, <1>2, <1>3, <1>4, <1>5, <1>6, <1>7, <1>8, <1>9, <1>10, <1>11,
       <1>12, <1>13
     DEF Next, Operation, ConsumeRun, CheckIdle, RefuseStart, ReportResult,
          Consume, CancelAutomation, BeginExport, DropExport, WriteExport,
          Over, vars, startVars, opVars, viewVars, downVars

(* At most one run is at work, and where it can be found.                  *)
LEMMA WorkStep ==
  ASSUME SlotInv, [Next]_vars
  PROVE  WorkInv'
<1>1. ASSUME NEW s \in Starter, CheckIdle(s)
      PROVE  WorkInv'
  <2>1. lock = Nobody /\ ~Running /\ UNCHANGED <<starting, slot, op, state>>
    BY <1>1 DEF CheckIdle, opVars, viewVars
  <2>2. \A q \in RunId : ~Working(q)
    <3>1. \A t \in Starter : starting[t] = 0
      BY <2>1, StarterAssumption DEF SlotInv, LockInv
    <3>2. QED
      BY <2>1, <3>1, RunIds DEF SlotInv, WorkInv, Running
  <2>3. \A q \in RunId : ~Working(q)'
    BY <2>1, <2>2 DEF Working
  <2>4. QED
    BY <2>3 DEF WorkInv
<1>2. ASSUME NEW s \in Starter, RefuseStart(s)
      PROVE  WorkInv'
  <2>1. UNCHANGED <<starting, slot, op, state>> /\ (checked' # {} => checked # {})
    BY <1>2 DEF RefuseStart, opVars, viewVars
  <2>2. QED
    BY <2>1 DEF SlotInv, WorkInv, Working
<1>3. ASSUME NEW s \in Starter, StartRunner(s)
      PROVE  WorkInv'
  <2>1. PICK q \in RunId : /\ op[q] = "none"
                          /\ op' = [op EXCEPT ![q] = "running"]
                          /\ starting' = [starting EXCEPT ![s] = q]
    BY <1>3 DEF StartRunner
  <2>2. s \in checked /\ checked' = checked \ {s}
    BY <1>3 DEF StartRunner
  <2>3. \A r \in RunId : Working(r)' => r = q
    BY <2>1, <2>2 DEF SlotInv, WorkInv, Working, SlotTypes, TypeOK
  <2>4. \A t \in Starter : t # s => starting[t] = 0 /\ t \notin checked
    BY <2>2 DEF SlotInv, LockInv, SlotTypes, TypeOK
  <2>5. checked' = {} /\ starting'[s] = q /\ \A t \in Starter : t # s => starting'[t] = 0
    BY <2>1, <2>2, <2>4 DEF SlotInv, SlotTypes, TypeOK
  <2>6. QED
    BY <2>3, <2>5 DEF WorkInv
<1>4. ASSUME NEW s \in Starter, PublishRun(s)
      PROVE  WorkInv'
  <2> DEFINE q == starting[s]
  <2>1. q # 0 /\ q \in RunId
    BY <1>4, RunIds DEF PublishRun, SlotInv, SlotTypes, TypeOK
  <2>2. /\ starting' = [starting EXCEPT ![s] = 0] /\ slot' = q
        /\ state' = [state EXCEPT ![q].status = "Running"]
        /\ checked' = checked /\ op' = op
    BY <1>4 DEF PublishRun, opVars
  <2>3. \A t \in Starter : t # s => starting[t] = 0
    BY <2>1 DEF SlotInv, LockInv
  <2>4. checked = {}
    BY <2>1, <2>3 DEF SlotInv, LockInv, SlotTypes, TypeOK
  <2>5. \A r \in RunId : Working(r)' => r = q
    BY <2>1, <2>2 DEF SlotInv, WorkInv, Working
  <2>6. state'[q].status = "Running"
    <3>1. state[q] \in State
      BY <2>1 DEF SlotInv, SlotTypes, TypeOK
    <3>2. [state[q] EXCEPT !.status = "Running"].status = "Running"
      BY <3>1 DEF State
    <3>3. QED
      BY <2>1, <2>2, <3>2 DEF SlotInv, SlotTypes, TypeOK
  <2>7. \A t \in Starter : starting'[t] = 0
    BY <2>2, <2>3 DEF SlotInv, SlotTypes, TypeOK
  <2>8. QED
    BY <2>2, <2>4, <2>5, <2>6, <2>7 DEF WorkInv
<1>5. ASSUME NEW r \in RunId, CloseResultFile(r)
      PROVE  WorkInv'
  <2>1. \A q \in RunId : Working(q)' => Working(q)
    BY <1>5 DEF CloseResultFile, Working, SlotInv, SlotTypes, TypeOK
  <2>2. UNCHANGED <<startVars, state>>
    BY <1>5 DEF CloseResultFile, viewVars
  <2>3. QED
    BY <2>1, <2>2 DEF SlotInv, WorkInv, startVars
<1>6. ASSUME NEW r \in RunId, PublishTerminal(r)
      PROVE  WorkInv'
  <2>1. \A q \in RunId : Working(q)' => Working(q)
    BY <1>6 DEF PublishTerminal, Working, SlotInv, SlotTypes, TypeOK
  <2>2. UNCHANGED <<startVars, state>>
    BY <1>6 DEF PublishTerminal, viewVars
  <2>3. QED
    BY <2>1, <2>2 DEF SlotInv, WorkInv, startVars
<1>7. ASSUME NEW r \in RunId, CloseEvents(r)
      PROVE  WorkInv'
  <2>1. \A q \in RunId : Working(q)' => Working(q)
    BY <1>7 DEF CloseEvents, Working, SlotInv, SlotTypes, TypeOK
  <2>2. UNCHANGED <<startVars, state>>
    BY <1>7 DEF CloseEvents, viewVars
  <2>3. QED
    BY <2>1, <2>2 DEF SlotInv, WorkInv, startVars
<1>8. ASSUME NEW r \in RunId, FillDone(r)
      PROVE  WorkInv'
  <2>1. \A q \in RunId : Working(q)' => Working(q)
    BY <1>8 DEF FillDone, Working, SlotInv, SlotTypes, TypeOK
  <2>2. UNCHANGED <<startVars, state>>
    BY <1>8 DEF FillDone, viewVars
  <2>3. QED
    BY <2>1, <2>2 DEF SlotInv, WorkInv, startVars
<1>9. ASSUME NEW r \in RunId, Consume(r)
      PROVE  WorkInv'
  <2>1. UNCHANGED <<starting, checked, slot, op>>
    BY <1>9 DEF Consume, startVars
  <2>2. /\ Head(events[r]) = events[r][1] /\ Head(events[r]) \in 0..MaxResults
        /\ Len(events[r]) \in Nat \ {0}
    BY <1>9, Taken DEF Consume, SlotInv, SlotTypes
  <2>3. Head(events[r]) = 0 => ~Working(r)
    <3>1. Head(events[r]) = 0 => Announced(r)
      BY <2>2 DEF SlotInv, EventsInv, InOrder
    <3>2. QED
      BY <3>1 DEF Announced, Working
  <2>4. Working(r) => state'[r].status = state[r].status
    <3>1. SUFFICES ASSUME Working(r)
                   PROVE  state'[r].status = state[r].status
      OBVIOUS
    <3>2. state' = state \/ state' = [state EXCEPT ![r] = Show(state[r], Head(events[r]))]
      BY <1>9, <2>3, <3>1 DEF Consume
    <3>3. Show(state[r], Head(events[r])).status = state[r].status
      <4>1. Head(events[r]) \in 1..MaxResults
        BY <2>2, <2>3, <3>1, MaxFrontendAssumption
      <4>2. QED
        BY <4>1, ShowTyped DEF SlotInv, SlotTypes, TypeOK
    <3>4. QED
      BY <3>2, <3>3 DEF SlotInv, SlotTypes, TypeOK
  <2>5. \A q \in RunId : q # r => state'[q] = state[q]
    BY <1>9 DEF Consume, SlotInv, SlotTypes, TypeOK
  <2>6. QED
    BY <2>1, <2>4, <2>5 DEF SlotInv, WorkInv, Working
<1>10. ASSUME NEW r \in RunId, Finalise(r)
      PROVE  WorkInv'
  <2>1. UNCHANGED <<starting, checked, slot, op>> /\ ~Working(r)
    BY <1>10 DEF Finalise, startVars, opVars, Working
  <2>2. \A q \in RunId : q # r => state'[q] = state[q]
    BY <1>10 DEF Finalise, SlotInv, SlotTypes, TypeOK
  <2>3. QED
    BY <2>1, <2>2 DEF SlotInv, WorkInv, Working
<1>11. CASE UNCHANGED <<op, slot, state, starting, checked>>
  BY <1>11 DEF SlotInv, WorkInv, Working
<1>12. QED
  BY <1>1, <1>2, <1>3, <1>4, <1>5, <1>6, <1>7, <1>8, <1>9, <1>10, <1>11
     DEF Next, Operation, ConsumeRun, ReportResult, EventsOver,
          CancelAutomation, BeginExport, DropExport, WriteExport, CancelRoot,
          ChooseAwaited, ReturnFinished, ReturnLate, Over, vars, startVars,
          opVars, viewVars, downVars

(* What leaves the events and the view of a run alone keeps their order.   *)
LEMMA Untouched ==
  ASSUME NEW q \in RunId, InOrder(q), Latest(q),
         events'[q] = events[q], reported'[q] = reported[q],
         Announced(q)' <=> Announced(q),
         consumer'[q] = "none" => consumer[q] = "none",
         slot' = q => slot = q,
         state'[q].shown = state[q].shown, state'[q].truncated = state[q].truncated
  PROVE  InOrder(q)' /\ Latest(q)'
<1>1. Got(q)' = Got(q)
  BY DEF Got, Pending
<1>2. InOrder(q)'
  BY <1>1 DEF InOrder
<1>3. Latest(q)'
  BY <1>1 DEF Latest
<1>4. QED
  BY <1>2, <1>3

LEMMA Numbers ==
  ASSUME SlotTypes, NEW r \in RunId
  PROVE  /\ reported[r] \in Nat /\ Len(events[r]) \in Nat /\ events[r] \in Seq(0..MaxResults)
         /\ Len(state[r].shown) \in Nat
         /\ Pending(r) \in Int /\ Got(r) \in Int
         /\ events[r] = <<>> <=> Len(events[r]) = 0
<1>1. reported[r] \in Nat /\ Len(events[r]) \in Nat /\ events[r] \in Seq(0..MaxResults)
  <2>1. reported[r] \in 0..MaxResults /\ events[r] \in Seq(0..MaxResults)
    BY DEF SlotTypes, TypeOK
  <2>2. QED
    BY <2>1, MaxFrontendAssumption, LenProperties
<1>2. Len(state[r].shown) \in Nat
  <2>1. state[r] \in State
    BY DEF SlotTypes, TypeOK
  <2>2. state[r].shown \in Seq(1..MaxResults)
    BY <2>1 DEF State
  <2>3. QED
    BY <2>2, LenProperties
<1>3. QED
  BY <1>1, <1>2, EmptySeq DEF Pending, Got

(* A result that is published joins the end of the queue.                  *)
LEMMA ReportedInOrder ==
  ASSUME SlotInv, NEW r \in RunId, ReportResult(r)
  PROVE  InOrder(r)' /\ Got(r)' = Got(r)
<1> DEFINE n == Len(events[r])
<1>1. /\ reported'[r] = reported[r] + 1
      /\ events'[r] = Append(events[r], reported[r] + 1)
      /\ ~Announced(r) /\ ~Announced(r)' /\ consumer' = consumer
  BY DEF ReportResult, Announced, viewVars, SlotInv, SlotTypes, TypeOK
<1>2. reported[r] + 1 \in 0..MaxResults
  <2>1. reported[r] \in 0..MaxResults /\ reported[r] < MaxResults
    BY DEF ReportResult, SlotInv, SlotTypes, TypeOK
  <2>2. QED
    BY <2>1, MaxFrontendAssumption
<1>3. /\ Len(events'[r]) = n + 1 /\ events'[r][n + 1] = reported[r] + 1
      /\ \A i \in 1..n : events'[r][i] = events[r][i]
  BY <1>1, <1>2, Numbers, Appended DEF SlotInv
<1>4. reported[r] \in Nat /\ n \in Nat
  BY Numbers DEF SlotInv
<1>5. Got(r) = reported[r] - n /\ Got(r)' = reported[r] - n
  <2>1. Pending(r) = n /\ Pending(r)' = n + 1
    <3>1. Pending(r) = Len(events[r])
      BY <1>1 DEF Pending
    <3>2. Pending(r)' = Len(events'[r])
      BY <1>1 DEF Pending
    <3>3. QED
      BY <1>3, <3>1, <3>2
  <2>2. Got(r) = reported[r] - n
    BY <2>1 DEF Got
  <2>3. Got(r)' = reported'[r] - (n + 1)
    BY <2>1 DEF Got
  <2>4. QED
    BY <1>1, <1>4, <2>2, <2>3
<1>6. InOrder(r)
  BY DEF SlotInv, EventsInv
<1>7. ASSUME NEW i \in 1..n + 1
      PROVE  events'[r][i] # 0 /\ events'[r][i] = Got(r) + i
  <2>1. CASE i \in 1..n
    BY <1>1, <1>3, <1>6, <2>1 DEF InOrder
  <2>2. CASE i = n + 1
    BY <1>3, <1>4, <1>5, <2>2
  <2>3. QED
    BY <1>4, <2>1, <2>2
<1>8. QED
  BY <1>1, <1>3, <1>5, <1>6, <1>7 DEF InOrder

(* The terminal event joins it as the last one.                            *)
LEMMA TerminalInOrder ==
  ASSUME SlotInv, NEW r \in RunId, PublishTerminal(r)
  PROVE  InOrder(r)' /\ Got(r)' = Got(r)
<1> DEFINE n == Len(events[r])
<1>1. /\ reported'[r] = reported[r]
      /\ events'[r] = Append(events[r], 0)
      /\ ~Announced(r) /\ Announced(r)' /\ consumer' = consumer
  BY DEF PublishTerminal, Announced, viewVars, SlotInv, SlotTypes, TypeOK
<1>2. 0 \in 0..MaxResults
  BY MaxFrontendAssumption
<1>3. /\ Len(events'[r]) = n + 1 /\ events'[r][n + 1] = 0
      /\ events'[r] \in Seq(0..MaxResults)
      /\ \A i \in 1..n : events'[r][i] = events[r][i]
  BY <1>1, <1>2, Numbers, Appended DEF SlotInv
<1>4. reported[r] \in Nat /\ n \in Nat /\ events'[r] # <<>>
  BY <1>3, Numbers, EmptySeq DEF SlotInv
<1>5. Got(r) = reported[r] - n /\ Got(r)' = reported[r] - n
  <2>1. Pending(r) = n
    BY <1>1 DEF Pending
  <2>2. Pending(r)' = n + 1 - 1
    BY <1>1, <1>3, <1>4 DEF Pending
  <2>3. QED
    BY <1>1, <1>4, <2>1, <2>2 DEF Got
<1>6. InOrder(r)
  BY DEF SlotInv, EventsInv
<1>7. ASSUME NEW i \in 1..n + 1
      PROVE  /\ events'[r][i] = 0 <=> i = n + 1
             /\ events'[r][i] # 0 => events'[r][i] = Got(r) + i
  <2>1. CASE i \in 1..n
    <3>1. events[r][i] # 0 /\ events[r][i] = Got(r) + i
      BY <1>1, <1>6, <2>1 DEF InOrder
    <3>2. QED
      BY <1>3, <1>4, <2>1, <3>1
  <2>2. CASE i = n + 1
    BY <1>3, <2>2
  <2>3. QED
    BY <1>4, <2>1, <2>2
<1>8. QED
  BY <1>1, <1>3, <1>5, <1>6, <1>7 DEF InOrder

(* What the service takes from the queue is the next result, or the        *)
(* terminal event when no result is left.                                  *)
LEMMA ConsumedInOrder ==
  ASSUME SlotInv, NEW r \in RunId, Consume(r)
  PROVE  /\ InOrder(r)'
         /\ Head(events[r]) = 0 => Got(r)' = Got(r)
         /\ Head(events[r]) # 0 =>
              Got(r)' = Got(r) + 1 /\ Head(events[r]) = Got(r) + 1
<1> DEFINE n == Len(events[r])
<1>1. /\ reported'[r] = reported[r]
      /\ events[r] # <<>> /\ events'[r] = Tail(events[r])
      /\ Announced(r)' <=> Announced(r)
      /\ consumer'[r] = "consuming"
  BY DEF Consume, Announced, SlotInv, SlotTypes, TypeOK
<1>2. /\ Head(events[r]) = events[r][1]
      /\ n \in Nat \ {0} /\ Len(events'[r]) = n - 1
      /\ events'[r] \in Seq(0..MaxResults)
      /\ \A i \in 1..n - 1 : events'[r][i] = events[r][i + 1]
  <2>1. events[r] \in Seq(0..MaxResults) /\ events[r] # <<>>
    BY <1>1, Numbers DEF SlotInv
  <2>2. QED
    BY <1>1, <2>1, Taken
<1>3. reported[r] \in Nat /\ (events'[r] = <<>> <=> n - 1 = 0)
  BY <1>2, Numbers, EmptySeq DEF SlotInv
<1>4. /\ Pending(r) = IF Announced(r) THEN n - 1 ELSE n
      /\ Pending(r)' = IF Announced(r) /\ n - 1 # 0 THEN n - 1 - 1 ELSE n - 1
  BY <1>1, <1>2, <1>3 DEF Pending
<1>5. /\ Got(r) = reported[r] - Pending(r)
      /\ Got(r)' = reported[r] - Pending(r)'
  BY <1>1 DEF Got
<1>6. InOrder(r)
  BY DEF SlotInv, EventsInv
<1>7. /\ Head(events[r]) = 0 <=> Announced(r) /\ 1 = n
      /\ Head(events[r]) # 0 => Head(events[r]) = Got(r) + 1
  <2>1. 1 \in 1..n
    BY <1>2
  <2>2. /\ events[r][1] = 0 <=> Announced(r) /\ 1 = n
        /\ events[r][1] # 0 => events[r][1] = Got(r) + 1
    BY <1>6, <2>1 DEF InOrder
  <2>3. QED
    BY <1>2, <2>2
<1>8. /\ Head(events[r]) = 0 => Got(r)' = Got(r)
      /\ Head(events[r]) # 0 => Got(r)' = Got(r) + 1
  <2>1. CASE Announced(r)
    BY <1>2, <1>3, <1>4, <1>5, <1>7, <2>1
  <2>2. CASE ~Announced(r)
    <3>1. Pending(r) = n /\ Pending(r)' = n - 1 /\ Head(events[r]) # 0
      BY <1>4, <1>7, <2>2
    <3>2. QED
      BY <1>2, <1>3, <1>5, <3>1
  <2>3. QED
    BY <2>1, <2>2
<1>9. ASSUME NEW i \in 1..n - 1
      PROVE  /\ events'[r][i] = 0 <=> Announced(r) /\ i = n - 1
             /\ events'[r][i] # 0 => events'[r][i] = Got(r)' + i
  <2>1. i + 1 \in 1..n /\ events'[r][i] = events[r][i + 1]
    BY <1>2
  <2>2. /\ events[r][i + 1] = 0 <=> Announced(r) /\ i + 1 = n
        /\ events[r][i + 1] # 0 => events[r][i + 1] = Got(r) + (i + 1)
    BY <1>6, <2>1 DEF InOrder
  <2>3. Head(events[r]) # 0
    BY <1>2, <1>7
  <2>4. Got(r) \in Int
    BY Numbers DEF SlotInv
  <2>5. QED
    BY <1>2, <1>8, <2>1, <2>2, <2>3, <2>4
<1>10. Got(r)' >= 0
  BY <1>6, <1>8, Numbers DEF InOrder, SlotInv
<1>11. QED
  BY <1>1, <1>2, <1>7, <1>8, <1>9, <1>10 DEF InOrder

(* A result that is shown is the latest, also when the oldest one gives    *)
(* way to it.                                                              *)
LEMMA ShownInOrder ==
  ASSUME NEW view \in State, NEW got \in Nat, got + 1 \in 1..MaxResults,
         Len(view.shown) <= MaxFrontendResults,
         \A i \in 1..Len(view.shown) : view.shown[i] = got - Len(view.shown) + i,
         view.truncated <=> got > Len(view.shown),
         Len(view.shown) <= got
  PROVE  LET next == Show(view, got + 1) IN
         /\ \A i \in 1..Len(next.shown) : next.shown[i] = got + 1 - Len(next.shown) + i
         /\ next.truncated <=> got + 1 > Len(next.shown)
         /\ Len(next.shown) <= got + 1
<1> DEFINE n == Len(view.shown)
           next == Show(view, got + 1)
<1>1. view.shown \in Seq(1..MaxResults) /\ n \in Nat
  BY DEF State
<1>2. CASE n >= MaxFrontendResults
  <2>1. view.shown # <<>>
    BY <1>2, MaxFrontendAssumption, EmptySeq
  <2>2. /\ Tail(view.shown) \in Seq(1..MaxResults)
        /\ Len(Tail(view.shown)) = n - 1
        /\ \A i \in 1..n - 1 : Tail(view.shown)[i] = view.shown[i + 1]
    BY <1>1, <2>1, Taken
  <2>3. /\ Len(Append(Tail(view.shown), got + 1)) = n
        /\ Append(Tail(view.shown), got + 1)[n] = got + 1
        /\ \A i \in 1..n - 1 : Append(Tail(view.shown), got + 1)[i] = Tail(view.shown)[i]
    <3>1. /\ Len(Append(Tail(view.shown), got + 1)) = n - 1 + 1
          /\ Append(Tail(view.shown), got + 1)[n - 1 + 1] = got + 1
          /\ \A i \in 1..n - 1 : Append(Tail(view.shown), got + 1)[i] = Tail(view.shown)[i]
      BY <2>2, Appended
    <3>2. n - 1 + 1 = n
      BY <1>1
    <3>3. QED
      BY <3>1, <3>2
  <2>4. next.shown = Append(Tail(view.shown), got + 1) /\ next.truncated = TRUE
    BY <1>2 DEF Show, State
  <2>5. ASSUME NEW i \in 1..n
        PROVE  next.shown[i] = got + 1 - n + i
    <3>1. CASE i = n
      BY <1>1, <2>3, <2>4, <3>1
    <3>2. CASE i \in 1..n - 1
      <4>1. i + 1 \in 1..n
        BY <1>1, <3>2
      <4>2. view.shown[i + 1] = got - n + (i + 1)
        BY <4>1
      <4>3. next.shown[i] = got - n + (i + 1)
        BY <2>2, <2>3, <2>4, <3>2, <4>2
      <4>4. got - n + (i + 1) = got + 1 - n + i
        BY <1>1
      <4>5. QED
        BY <4>3, <4>4
    <3>3. i = n \/ i \in 1..n - 1
      BY <1>1
    <3>4. QED
      BY <3>1, <3>2, <3>3
  <2>6. Len(next.shown) = n
    BY <2>3, <2>4
  <2> HIDE DEF next
  <2>7. QED
    <3>1. got + 1 > n /\ n <= got + 1
      BY <1>1
    <3>2. QED
      BY <2>4, <2>5, <2>6, <3>1 DEF next
<1>3. CASE ~(n >= MaxFrontendResults)
  <2>1. /\ Len(Append(view.shown, got + 1)) = n + 1
        /\ Append(view.shown, got + 1)[n + 1] = got + 1
        /\ \A i \in 1..n : Append(view.shown, got + 1)[i] = view.shown[i]
    BY <1>1, Appended
  <2>2. next.shown = Append(view.shown, got + 1) /\ next.truncated = view.truncated
    BY <1>3 DEF Show, State
  <2>3. ASSUME NEW i \in 1..n + 1
        PROVE  next.shown[i] = got + 1 - (n + 1) + i
    <3>1. CASE i = n + 1
      BY <1>1, <2>1, <2>2, <3>1
    <3>2. CASE i \in 1..n
      <4>1. next.shown[i] = got - n + i
        BY <2>1, <2>2, <3>2
      <4>2. got - n + i = got + 1 - (n + 1) + i
        BY <1>1
      <4>3. QED
        BY <4>1, <4>2
    <3>3. QED
      BY <1>1, <3>1, <3>2
  <2>4. Len(next.shown) = n + 1
    BY <2>1, <2>2
  <2>5. QED
    <3>1. (got + 1 > n + 1 <=> got > n) /\ n + 1 <= got + 1
      BY <1>1
    <3>2. QED
      BY <2>2, <2>3, <2>4, <3>1
<1>4. QED
  BY <1>2, <1>3

(* Results stay in order on their way and in the window.                   *)
LEMMA OrderStep ==
  ASSUME SlotInv, [Next]_vars
  PROVE  EventsInv' /\ ViewInv'
<1>1. ASSUME NEW s \in Starter, StartRunner(s)
      PROVE  EventsInv' /\ ViewInv'
  <2>1. /\ \A q \in RunId : Announced(q)' <=> Announced(q)
        /\ \A q \in RunId : consumer'[q] = "none" => consumer[q] = "none"
        /\ UNCHANGED <<events, reported, slot>>
    BY <1>1 DEF StartRunner, Announced, startVars, opVars, viewVars, SlotInv, SlotTypes, TypeOK
  <2>2. \A q \in RunId : state'[q].shown = state[q].shown /\ state'[q].truncated = state[q].truncated
    BY <1>1 DEF StartRunner, viewVars
  <2>3. QED
    BY <2>1, <2>2, Untouched DEF SlotInv, EventsInv, ViewInv
<1>2. ASSUME NEW s \in Starter, PublishRun(s)
      PROVE  EventsInv' /\ ViewInv'
  <2>1. PICK r \in RunId : r = starting[s] /\ r # 0
    BY <1>2, RunIds DEF PublishRun, SlotInv, SlotTypes, TypeOK
  <2>2. /\ slot' = r /\ UNCHANGED <<events, reported, op>>
        /\ state' = [state EXCEPT ![r].status = "Running"]
        /\ consumer' = [consumer EXCEPT ![r] = "consuming"]
    BY <1>2, <2>1 DEF PublishRun, opVars
  <2>3. consumer[r] = "none" /\ state[r] = NoState /\ Got(r) = 0
    BY <2>1 DEF SlotInv, LockInv, ConsumerInv, EventsInv, InOrder
  <2>4. \A q \in RunId : Got(q)' = Got(q) /\ (Announced(q)' <=> Announced(q))
    BY <2>2 DEF Got, Pending, Announced
  <2>5. \A q \in RunId : consumer'[q] = "none" => consumer[q] = "none"
    BY <2>2 DEF SlotInv, SlotTypes, TypeOK
  <2>6. EventsInv'
    BY <2>2, <2>4, <2>5 DEF SlotInv, EventsInv, InOrder
  <2>7. state'[r].shown = <<>> /\ state'[r].truncated = FALSE
    <3>1. state'[r] = [NoState EXCEPT !.status = "Running"]
      BY <2>1, <2>2, <2>3 DEF SlotInv, SlotTypes, TypeOK
    <3>2. QED
      BY <3>1 DEF NoState
  <2>8. Len(state'[r].shown) = 0
    BY <2>7, EmptySeq
  <2>9. Latest(r)'
    BY <2>1, <2>2, <2>3, <2>4, <2>7, <2>8 DEF Latest
  <2>10. \A q \in RunId : q # r => Latest(q)'
    BY <2>2 DEF Latest
  <2>11. QED
    BY <2>6, <2>9, <2>10 DEF ViewInv
<1>3. ASSUME NEW r \in RunId, ReportResult(r)
      PROVE  EventsInv' /\ ViewInv'
  <2>1. UNCHANGED <<slot, consumer, state>>
    BY <1>3 DEF ReportResult, startVars, viewVars
  <2>2. InOrder(r)' /\ Got(r)' = Got(r)
    BY <1>3, ReportedInOrder
  <2>3. Latest(r)'
    BY <2>1, <2>2 DEF SlotInv, ViewInv, Latest
  <2>4. \A q \in RunId : q # r =>
          events'[q] = events[q] /\ reported'[q] = reported[q] /\ (Announced(q)' <=> Announced(q))
    BY <1>3 DEF ReportResult, Announced, SlotInv, SlotTypes, TypeOK
  <2>5. \A q \in RunId : q # r => InOrder(q)' /\ Latest(q)'
    BY <2>1, <2>4, Untouched DEF SlotInv, EventsInv, ViewInv
  <2>6. QED
    BY <2>2, <2>3, <2>5 DEF EventsInv, ViewInv
<1>4. ASSUME NEW r \in RunId, CloseResultFile(r)
      PROVE  EventsInv' /\ ViewInv'
  <2>1. /\ \A q \in RunId : Announced(q)' <=> Announced(q)
        /\ \A q \in RunId : consumer'[q] = "none" => consumer[q] = "none"
        /\ UNCHANGED <<events, reported, slot>>
    BY <1>4 DEF CloseResultFile, Announced, startVars, opVars, viewVars, SlotInv, SlotTypes, TypeOK
  <2>2. \A q \in RunId : state'[q].shown = state[q].shown /\ state'[q].truncated = state[q].truncated
    BY <1>4 DEF CloseResultFile, viewVars
  <2>3. QED
    BY <2>1, <2>2, Untouched DEF SlotInv, EventsInv, ViewInv
<1>5. ASSUME NEW r \in RunId, PublishTerminal(r)
      PROVE  EventsInv' /\ ViewInv'
  <2>1. UNCHANGED <<slot, consumer, state>>
    BY <1>5 DEF PublishTerminal, startVars, viewVars
  <2>2. InOrder(r)' /\ Got(r)' = Got(r)
    BY <1>5, TerminalInOrder
  <2>3. Latest(r)'
    BY <2>1, <2>2 DEF SlotInv, ViewInv, Latest
  <2>4. \A q \in RunId : q # r =>
          events'[q] = events[q] /\ reported'[q] = reported[q] /\ (Announced(q)' <=> Announced(q))
    BY <1>5 DEF PublishTerminal, Announced, SlotInv, SlotTypes, TypeOK
  <2>5. \A q \in RunId : q # r => InOrder(q)' /\ Latest(q)'
    BY <2>1, <2>4, Untouched DEF SlotInv, EventsInv, ViewInv
  <2>6. QED
    BY <2>2, <2>3, <2>5 DEF EventsInv, ViewInv
<1>6. ASSUME NEW r \in RunId, CloseEvents(r)
      PROVE  EventsInv' /\ ViewInv'
  <2>1. /\ \A q \in RunId : Announced(q)' <=> Announced(q)
        /\ \A q \in RunId : consumer'[q] = "none" => consumer[q] = "none"
        /\ UNCHANGED <<events, reported, slot>>
    BY <1>6 DEF CloseEvents, Announced, startVars, opVars, viewVars, SlotInv, SlotTypes, TypeOK
  <2>2. \A q \in RunId : state'[q].shown = state[q].shown /\ state'[q].truncated = state[q].truncated
    BY <1>6 DEF CloseEvents, viewVars
  <2>3. QED
    BY <2>1, <2>2, Untouched DEF SlotInv, EventsInv, ViewInv
<1>7. ASSUME NEW r \in RunId, FillDone(r)
      PROVE  EventsInv' /\ ViewInv'
  <2>1. /\ \A q \in RunId : Announced(q)' <=> Announced(q)
        /\ \A q \in RunId : consumer'[q] = "none" => consumer[q] = "none"
        /\ UNCHANGED <<events, reported, slot>>
    BY <1>7 DEF FillDone, Announced, startVars, opVars, viewVars, SlotInv, SlotTypes, TypeOK
  <2>2. \A q \in RunId : state'[q].shown = state[q].shown /\ state'[q].truncated = state[q].truncated
    BY <1>7 DEF FillDone, viewVars
  <2>3. QED
    BY <2>1, <2>2, Untouched DEF SlotInv, EventsInv, ViewInv
<1>8. ASSUME NEW r \in RunId, Consume(r)
      PROVE  EventsInv' /\ ViewInv'
  <2> DEFINE e == Head(events[r])
  <2>1. UNCHANGED <<slot, consumer, reported, op>>
    BY <1>8 DEF Consume, startVars
  <2>2. \A q \in RunId : q # r => events'[q] = events[q] /\ state'[q] = state[q]
    BY <1>8 DEF Consume, SlotInv, SlotTypes, TypeOK
  <2>3. \A q \in RunId : q # r => InOrder(q)' /\ Latest(q)'
    BY <2>1, <2>2, Untouched DEF Announced, SlotInv, EventsInv, ViewInv
  <2>4. /\ InOrder(r)'
        /\ e = 0 => Got(r)' = Got(r)
        /\ e # 0 => Got(r)' = Got(r) + 1 /\ e = Got(r) + 1
    BY <1>8, ConsumedInOrder
  <2>5. Latest(r)'
    <3>1. SUFFICES ASSUME slot = r
                   PROVE  Latest(r)'
      BY <2>1 DEF Latest
    <3>2. Latest(r)
      BY DEF SlotInv, ViewInv
    <3>3. CASE e = 0
      <4>1. state' = [state EXCEPT ![r].status = outcome[r]]
        BY <1>8, <3>1, <3>3 DEF Consume
      <4>2. state'[r].shown = state[r].shown /\ state'[r].truncated = state[r].truncated
        <5>1. state'[r] = [state[r] EXCEPT !.status = outcome[r]] /\ state[r] \in State
          BY <4>1 DEF SlotInv, SlotTypes, TypeOK
        <5>2. QED
          BY <5>1 DEF State
      <4>3. QED
        BY <2>1, <2>4, <3>2, <3>3, <4>2 DEF Latest
    <3>4. CASE e # 0
      <4>1. state' = [state EXCEPT ![r] = Show(state[r], e)]
        BY <1>8, <3>1, <3>4 DEF Consume
      <4>2. state'[r] = Show(state[r], Got(r) + 1)
        BY <2>4, <3>4, <4>1 DEF SlotInv, SlotTypes, TypeOK
      <4>3. Got(r) \in Nat /\ Got(r) + 1 \in 1..MaxResults
        <5>1. Got(r) \in Int /\ Got(r) >= 0
          BY Numbers DEF SlotInv, EventsInv, InOrder
        <5>2. e \in 0..MaxResults
          BY <1>8, Taken DEF Consume, SlotInv, SlotTypes
        <5>3. QED
          BY <2>4, <3>4, <5>1, <5>2, MaxFrontendAssumption
      <4>4. state[r] \in State /\ Len(state[r].shown) <= MaxFrontendResults
        BY DEF SlotInv, SlotTypes, TypeOK
      <4>5. LET next == Show(state[r], Got(r) + 1) IN
            /\ \A i \in 1..Len(next.shown) : next.shown[i] = Got(r) + 1 - Len(next.shown) + i
            /\ next.truncated <=> Got(r) + 1 > Len(next.shown)
            /\ Len(next.shown) <= Got(r) + 1
        BY <3>1, <3>2, <4>3, <4>4, ShownInOrder DEF Latest
      <4>6. /\ \A i \in 1..Len(state'[r].shown) :
                 state'[r].shown[i] = Got(r) + 1 - Len(state'[r].shown) + i
            /\ state'[r].truncated <=> Got(r) + 1 > Len(state'[r].shown)
            /\ Len(state'[r].shown) <= Got(r) + 1
        BY <4>2, <4>5
      <4>7. Got(r)' = Got(r) + 1
        BY <2>4, <3>4
      <4>8. Len(state'[r].shown) \in Nat
        <5>1. state'[r] \in State
          BY <4>2, <4>3, <4>4, ShowTyped
        <5>2. state'[r].shown \in Seq(1..MaxResults)
          BY <5>1 DEF State
        <5>3. QED
          BY <5>2, LenProperties
      <4>9. /\ \A i \in 1..Len(state'[r].shown) :
                 state'[r].shown[i] = Got(r)' - Len(state'[r].shown) + i
            /\ state'[r].truncated <=> Got(r)' > Len(state'[r].shown)
            /\ Len(state'[r].shown) <= Got(r)'
        BY <4>3, <4>6, <4>7, <4>8
      <4>10. QED
        BY <4>9 DEF Latest
    <3>5. QED
      BY <3>3, <3>4
  <2>6. QED
    BY <2>3, <2>4, <2>5 DEF EventsInv, ViewInv
<1>9. ASSUME NEW r \in RunId, EventsOver(r)
      PROVE  EventsInv' /\ ViewInv'
  <2>1. /\ \A q \in RunId : Announced(q)' <=> Announced(q)
        /\ \A q \in RunId : consumer'[q] = "none" => consumer[q] = "none"
        /\ UNCHANGED <<events, reported, slot>>
    BY <1>9 DEF EventsOver, Announced, startVars, opVars, viewVars, SlotInv, SlotTypes, TypeOK
  <2>2. \A q \in RunId : state'[q].shown = state[q].shown /\ state'[q].truncated = state[q].truncated
    BY <1>9 DEF EventsOver, viewVars
  <2>3. QED
    BY <2>1, <2>2, Untouched DEF SlotInv, EventsInv, ViewInv
<1>10. ASSUME NEW r \in RunId, Finalise(r)
      PROVE  EventsInv' /\ ViewInv'
  <2>1. /\ \A q \in RunId : Announced(q)' <=> Announced(q)
        /\ \A q \in RunId : consumer'[q] = "none" => consumer[q] = "none"
        /\ UNCHANGED <<events, reported, slot>>
    BY <1>10 DEF Finalise, Announced, startVars, opVars, viewVars, SlotInv, SlotTypes, TypeOK
  <2>2. \A q \in RunId : state'[q].shown = state[q].shown /\ state'[q].truncated = state[q].truncated
    <3> DEFINE final == [[state[r] EXCEPT !.status = outcome[r]] EXCEPT !.ready = TRUE]
    <3>1. state' = state \/ state' = [state EXCEPT ![r] = final]
      BY <1>10 DEF Finalise, SlotInv, SlotTypes, TypeOK
    <3>2. final.shown = state[r].shown /\ final.truncated = state[r].truncated
      <4>1. state[r] \in State
        BY DEF SlotInv, SlotTypes, TypeOK
      <4>2. QED
        BY <4>1 DEF State
    <3> HIDE DEF final
    <3>3. CASE state' = [state EXCEPT ![r] = final]
      BY <3>2, <3>3 DEF SlotInv, SlotTypes, TypeOK
    <3>4. QED
      BY <3>1, <3>3
  <2>3. QED
    BY <2>1, <2>2, Untouched DEF SlotInv, EventsInv, ViewInv
<1>11. CASE UNCHANGED <<op, events, reported, consumer, state, slot>>
  BY <1>11
     DEF SlotInv, EventsInv, InOrder, ViewInv, Latest, Got, Pending, Announced
<1>12. QED
  BY <1>1, <1>2, <1>3, <1>4, <1>5, <1>6, <1>7, <1>8, <1>9, <1>10, <1>11
     DEF Next, Operation, ConsumeRun, CheckIdle, RefuseStart,
          CancelAutomation, BeginExport, DropExport, WriteExport, CancelRoot,
          ChooseAwaited, ReturnFinished, ReturnLate, Over, vars, startVars,
          opVars, viewVars, downVars

(* The parts of the invariant hold together in every behaviour.            *)
THEOREM SlotInvariant == Spec => []SlotInv
<1>1. Init => SlotInv
  <2>1. SUFFICES ASSUME Init
                 PROVE  SlotInv
    OBVIOUS
  <2>2. NoState \in State /\ NoSummary \in Summary /\ Len(<<>>) = 0
    <3>1. <<>> \in Seq(1..MaxResults) /\ Len(<<>>) = 0
      BY EmptySeq
    <3>2. QED
      BY <3>1 DEF NoState, State, NoSummary, Summary
  <2>3. SlotTypes
    BY <2>1, <2>2, RunIds, MaxFrontendAssumption, EmptySeq
       DEF Init, NoState, NoExport, SlotTypes, TypeOK
  <2>4. LockInv /\ ConsumerInv /\ ExportInv /\ ShutdownWaitsForConsumer
    BY <2>1 DEF Init, LockInv, ConsumerInv, ExportInv, ShutdownWaitsForConsumer, NoExport
  <2>5. WorkInv
    BY <2>1 DEF Init, WorkInv, Working
  <2>6. \A r \in RunId : Got(r) = 0
    BY <2>1, <2>2 DEF Init, Got, Pending, Announced
  <2>7. EventsInv
    BY <2>1, <2>2, <2>6 DEF Init, EventsInv, InOrder
  <2>8. ViewInv
    BY <2>1, RunIds DEF Init, ViewInv, Latest
  <2>9. QED
    BY <2>3, <2>4, <2>5, <2>7, <2>8 DEF SlotInv
<1>2. SlotInv /\ [Next]_vars => SlotInv'
  BY TypesStep, LockStep, ConsumerStep, WorkStep, OrderStep, ExportStep, ShutdownStep
     DEF SlotInv
<1>3. QED
  BY <1>1, <1>2, PTL DEF Spec

(* The variables keep their types (the fields of App and activeRun).       *)
THEOREM TypeCorrect == Spec => []TypeOK
<1>1. SlotInv => TypeOK
  BY DEF SlotInv, SlotTypes
<1>2. QED
  BY <1>1, SlotInvariant, PTL

(* Two runs never use the press at the same time, however many callers     *)
(* start runs (StartAutomation, automationRunning).                        *)
THEOREM OneRun == Spec => []OneRunAtATime
<1>1. SlotInv => OneRunAtATime
  <2>1. SUFFICES ASSUME SlotInv
                 PROVE  OneRunAtATime
    OBVIOUS
  <2> DEFINE working == {r \in RunId : Working(r)}
  <2>2. \A q, r \in working : q = r
    <3>1. SUFFICES ASSUME NEW q \in working, NEW r \in working, q # r
                   PROVE  FALSE
      OBVIOUS
    <3>2. \A s \in Starter : starting[s] = 0
      BY <2>1, <3>1 DEF SlotInv, WorkInv
    <3>3. slot = q /\ slot = r
      BY <2>1, <3>1, <3>2, RunIds DEF SlotInv, WorkInv
    <3>4. QED
      BY <3>1, <3>3
  <2>3. CASE working = {}
    BY <2>3, FS_EmptySet DEF OneRunAtATime
  <2>4. CASE working # {}
    <3>1. PICK r : r \in working
      BY <2>4
    <3>2. working = {r}
      BY <2>2, <3>1
    <3>3. Cardinality(working) = 1
      BY <3>2, FS_Singleton
    <3>4. QED
      BY <3>3 DEF OneRunAtATime
  <2>5. QED
    BY <2>3, <2>4
<1>2. QED
  BY <1>1, SlotInvariant, PTL

(* Only a result file that its recorder has closed is exported             *)
(* (ExportResults, Runner.Start).                                          *)
THEOREM ExportsOnlyClosedFiles == Spec => []ExportsClosedFile
<1>1. SlotInv => ExportsClosedFile
  BY DEF SlotInv, ExportInv, ExportsClosedFile
<1>2. QED
  BY <1>1, SlotInvariant, PTL

(* The results that are still on their way are those that Pending counts.  *)
LEMMA PendingCounts ==
  ASSUME SlotInv, NEW r \in RunId
  PROVE  Cardinality({i \in DOMAIN events[r] : events[r][i] # 0}) = Pending(r)
<1> DEFINE n == Len(events[r])
<1>1. DOMAIN events[r] = 1..n /\ n \in Nat
  <2>1. events[r] \in Seq(0..MaxResults)
    BY Numbers DEF SlotInv
  <2>2. QED
    BY <2>1, LenProperties
<1>2. \A i \in 1..n : events[r][i] = 0 <=> Announced(r) /\ i = n
  BY DEF SlotInv, EventsInv, InOrder
<1>3. events[r] = <<>> <=> n = 0
  BY Numbers DEF SlotInv
<1>4. CASE Announced(r) /\ events[r] # <<>>
  <2>1. {i \in DOMAIN events[r] : events[r][i] # 0} = 1..n - 1
    BY <1>1, <1>2, <1>4
  <2>2. n - 1 \in Nat
    BY <1>1, <1>3, <1>4
  <2>3. Cardinality(1..n - 1) = n - 1
    <3> DEFINE m == n - 1
    <3>1. m \in Nat
      BY <2>2
    <3> HIDE DEF m
    <3>2. Cardinality(1..m) = IF 1 > m THEN 0 ELSE m - 1 + 1
      BY <3>1, FS_Interval
    <3>3. Cardinality(1..m) = m
      BY <3>1, <3>2
    <3>4. QED
      BY <3>3 DEF m
  <2>4. QED
    BY <1>4, <2>1, <2>3 DEF Pending
<1>5. CASE ~(Announced(r) /\ events[r] # <<>>)
  <2>1. {i \in DOMAIN events[r] : events[r][i] # 0} = 1..n
    BY <1>1, <1>2, <1>3, <1>5
  <2>2. Cardinality(1..n) = n
    <3>1. Cardinality(1..n) = IF 1 > n THEN 0 ELSE n - 1 + 1
      BY <1>1, FS_Interval
    <3>2. QED
      BY <1>1, <3>1
  <2>3. QED
    BY <1>5, <2>1, <2>2 DEF Pending
<1>6. QED
  BY <1>4, <1>5

(* The window shows the latest results, in order, and says when it has     *)
(* dropped some (applyRunEvent).                                           *)
THEOREM LatestResultsShown == Spec => []ShowsLatestResults
<1>1. SlotInv => ShowsLatestResults
  <2>1. SUFFICES ASSUME SlotInv, NEW r \in RunId, slot = r
                 PROVE  LET shown == state[r].shown
                            got == reported[r] - Cardinality({i \in DOMAIN events[r] : events[r][i] # 0})
                        IN  /\ \A i \in DOMAIN shown : shown[i] = got - Len(shown) + i
                            /\ state[r].truncated <=> got > Len(shown)
    BY DEF ShowsLatestResults
  <2>2. reported[r] - Cardinality({i \in DOMAIN events[r] : events[r][i] # 0}) = Got(r)
    BY <2>1, PendingCounts DEF Got
  <2>3. DOMAIN state[r].shown = 1..Len(state[r].shown)
    <3>1. state[r] \in State
      BY <2>1 DEF SlotInv, SlotTypes, TypeOK
    <3>2. state[r].shown \in Seq(1..MaxResults)
      BY <3>1 DEF State
    <3>3. QED
      BY <3>2, LenProperties
  <2>4. Latest(r)
    BY <2>1 DEF SlotInv, ViewInv
  <2>5. QED
    BY <2>1, <2>2, <2>3, <2>4 DEF Latest
<1>2. QED
  BY <1>1, SlotInvariant, PTL

(* A run that Shutdown saw in time has been folded into the window's state *)
(* when Shutdown returns without a timeout (Shutdown).                     *)
THEOREM ShutdownWaits == Spec => []ShutdownWaitsForConsumer
<1>1. SlotInv => ShutdownWaitsForConsumer
  BY DEF SlotInv
<1>2. QED
  BY <1>1, SlotInvariant, PTL
=============================================================================
