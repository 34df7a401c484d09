------------------------------- MODULE RunSlot ------------------------------
(***************************************************************************)
(* The one place for a run in the service (internal/appwails/automation.go *)
(* and Shutdown in service.go): how runs are started, how consumeRun folds *)
(* the events of a run into the state the window shows, how a run is       *)
(* cancelled and exported, and how the application shuts down.             *)
(*                                                                         *)
(* Abstractions.  The run itself is module Runner and its event queue is   *)
(* module EventQueue; what they promise is taken from there: results, then *)
(* one terminal event after the result file was closed, then the closed    *)
(* channel, then Done.  Logs and progress are left out, and a result is    *)
(* its number.  The service has read everything that a start needs; that   *)
(* is module Workspace.                                                    *)
(*                                                                         *)
(* Bounds: MaxRuns runs, each with at most MaxResults results.             *)
(***************************************************************************)
EXTENDS Naturals, Sequences, FiniteSets

CONSTANTS
  Starter,            \* the callers of StartAutomation
  MaxRuns,
  MaxResults,
  MaxFrontendResults  \* maxFrontendResults

Nobody == "nobody"

ASSUME StarterAssumption == Nobody \notin Starter
ASSUME MaxRunsAssumption == MaxRuns \in Nat
ASSUME MaxFrontendAssumption == MaxFrontendResults \in Nat \ {0} /\ MaxResults \in Nat

VARIABLES
  lock,       \* the starter that holds operationMu
  starting,   \* the run each starter has started and not yet published, or 0
  checked,    \* the starters that found no run to be Running
  slot,       \* service.run, 0 for nil
  op,         \* what each run has done
  outcome,    \* the status of the terminal event of each run
  cancelled,  \* the runs whose context is done
  events,     \* the events of each run on their way to the service
  reported,   \* how many results each run has published
  state,      \* activeRun.state of each run
  summary,    \* activeRun.summary of each run
  consumer,   \* where consumeRun stands for each run
  export,     \* the last export: what ExportResults read, and whether it is written
  shutdown,   \* where Shutdown stands
  awaited     \* the run Shutdown waits for, 0 for none

startVars == <<lock, starting, checked, slot>>
opVars == <<op, outcome, events, reported>>
viewVars == <<state, summary, consumer>>
downVars == <<shutdown, awaited>>
vars == <<startVars, opVars, cancelled, viewVars, export, downVars>>

RunId == 1..MaxRuns

Final == {"Completed", "Cancelled", "Failed"}

State ==
  [status : {"none", "Running"} \cup Final,
   shown : Seq(1..MaxResults), truncated : BOOLEAN, ready : BOOLEAN]

Summary == [status : {"none", "Running"} \cup Final, completed : BOOLEAN]

NoState == [status |-> "none", shown |-> <<>>, truncated |-> FALSE, ready |-> FALSE]
NoSummary == [status |-> "none", completed |-> FALSE]
NoExport == [run |-> 0, summary |-> NoSummary, written |-> FALSE]

TypeOK ==
  /\ lock \in Starter \cup {Nobody}
  /\ starting \in [Starter -> 0..MaxRuns]
  /\ checked \subseteq Starter
  /\ slot \in 0..MaxRuns
  /\ op \in [RunId -> {"none", "running", "recorded", "announced", "closed", "done"}]
  /\ outcome \in [RunId -> Final \cup {"none"}]
  /\ cancelled \subseteq RunId
  /\ reported \in [RunId -> 0..MaxResults]
  /\ state \in [RunId -> State]
  /\ \A r \in RunId : Len(state[r].shown) <= MaxFrontendResults
  /\ summary \in [RunId -> Summary]
  /\ consumer \in [RunId -> {"none", "consuming", "awaiting", "finished"}]
  /\ export \in [run : 0..MaxRuns, summary : Summary, written : BOOLEAN]
  /\ shutdown \in {"no", "begun", "waiting", "returned", "timed out"}
  /\ awaited \in 0..MaxRuns

Init ==
  /\ lock = Nobody /\ checked = {} /\ slot = 0
  /\ starting = [s \in Starter |-> 0]
  /\ op = [r \in RunId |-> "none"]
  /\ outcome = [r \in RunId |-> "none"]
  /\ cancelled = {}
  /\ events = [r \in RunId |-> <<>>]
  /\ reported = [r \in RunId |-> 0]
  /\ state = [r \in RunId |-> NoState]
  /\ summary = [r \in RunId |-> NoSummary]
  /\ consumer = [r \in RunId |-> "none"]
  /\ export = NoExport
  /\ shutdown = "no" /\ awaited = 0

Running == slot # 0 /\ state[slot].status = "Running"

-----------------------------------------------------------------------------
(* StartAutomation.                                                        *)

(* Fault: the check is made before operationMu is taken.                   *)
CheckIdleUnlocked(s) ==
  /\ s \notin checked /\ starting[s] = 0
  /\ ~Running
  /\ checked' = checked \cup {s}
  /\ UNCHANGED <<lock, starting, slot, opVars, cancelled, viewVars, export, downVars>>

CheckIdle(s) ==
  /\ lock = Nobody
  /\ ~Running
  /\ lock' = s
  /\ checked' = checked \cup {s}
  /\ UNCHANGED <<starting, slot, opVars, cancelled, viewVars, export, downVars>>

(* No connection, capabilities, files, plan or result file.                *)
RefuseStart(s) ==
  /\ s \in checked
  /\ checked' = checked \ {s}
  /\ lock' = IF lock = s THEN Nobody ELSE lock
  /\ UNCHANGED <<starting, slot, opVars, cancelled, viewVars, export, downVars>>

(* runner.Start: the run is under way before the service knows it.  Its    *)
(* context is a child of the root context.                                 *)
StartRunner(s) ==
  /\ s \in checked
  /\ \E r \in RunId :
       /\ op[r] = "none"
       /\ \A q \in RunId : q < r => op[q] # "none"
       /\ op' = [op EXCEPT ![r] = "running"]
       /\ starting' = [starting EXCEPT ![s] = r]
       /\ cancelled' = IF shutdown = "no" THEN cancelled ELSE cancelled \cup {r}
  /\ checked' = checked \ {s}
  /\ UNCHANGED <<lock, slot, outcome, events, reported, viewVars, export, downVars>>

PublishRun(s) ==
  LET r == starting[s] IN
  /\ r # 0
  /\ slot' = r
  /\ state' = [state EXCEPT ![r].status = "Running"]
  /\ summary' = [summary EXCEPT ![r].status = "Running"]
  /\ consumer' = [consumer EXCEPT ![r] = "consuming"]
  /\ starting' = [starting EXCEPT ![s] = 0]
  /\ lock' = IF lock = s THEN Nobody ELSE lock
  /\ UNCHANGED <<checked, opVars, cancelled, export, downVars>>

-----------------------------------------------------------------------------
(* The run.                                                                *)

ReportResult(r) ==
  /\ op[r] = "running"
  /\ reported[r] < MaxResults
  /\ reported' = [reported EXCEPT ![r] = @ + 1]
  /\ events' = [events EXCEPT ![r] = Append(@, reported'[r])]
  /\ UNCHANGED <<startVars, op, outcome, cancelled, viewVars, export, downVars>>

(* run returns and the recorder is closed.                                 *)
CloseResultFile(r) ==
  /\ op[r] = "running"
  /\ outcome' \in {[outcome EXCEPT ![r] = o] :
       o \in {"Failed", IF r \in cancelled THEN "Cancelled" ELSE "Completed"}}
  /\ op' = [op EXCEPT ![r] = "recorded"]
  /\ UNCHANGED <<startVars, cancelled, events, reported, viewVars, export, downVars>>

(* Fault: the terminal event is published before the recorder is closed.   *)
PublishTerminalEarly(r) ==
  /\ op[r] \in {"running", "recorded"}
  /\ outcome' = [outcome EXCEPT ![r] = "Completed"]
  /\ events' = [events EXCEPT ![r] = Append(@, 0)]
  /\ op' = [op EXCEPT ![r] = IF @ = "running" THEN "running" ELSE "announced"]
  /\ UNCHANGED <<startVars, reported, cancelled, viewVars, export, downVars>>

(* The terminal event, written 0.                                          *)
PublishTerminal(r) ==
  /\ op[r] = "recorded"
  /\ events' = [events EXCEPT ![r] = Append(@, 0)]
  /\ op' = [op EXCEPT ![r] = "announced"]
  /\ UNCHANGED <<startVars, outcome, reported, cancelled, viewVars, export, downVars>>

CloseEvents(r) ==
  /\ op[r] = "announced"
  /\ op' = [op EXCEPT ![r] = "closed"]
  /\ UNCHANGED <<startVars, outcome, events, reported, cancelled, viewVars, export, downVars>>

FillDone(r) ==
  /\ op[r] = "closed"
  /\ op' = [op EXCEPT ![r] = "done"]
  /\ UNCHANGED <<startVars, outcome, events, reported, cancelled, viewVars, export, downVars>>

Operation(r) ==
  \/ ReportResult(r) \/ CloseResultFile(r) \/ PublishTerminal(r)
  \/ CloseEvents(r) \/ FillDone(r)

-----------------------------------------------------------------------------
(* consumeRun.                                                             *)

(* Fault: the bounded list drops the newest result instead of the oldest.  *)
ShowFirst(view, result) ==
  IF Len(view.shown) >= MaxFrontendResults
  THEN [view EXCEPT !.truncated = TRUE]
  ELSE [view EXCEPT !.shown = Append(@, result)]

(* Fault: the bound of the list is off by one.                             *)
ShowOneMore(view, result) ==
  IF Len(view.shown) > MaxFrontendResults
  THEN [view EXCEPT !.shown = Append(Tail(@), result), !.truncated = TRUE]
  ELSE [view EXCEPT !.shown = Append(@, result)]

(* applyRunEvent of a result: a full list is moved down by one.            *)
Show(view, result) ==
  IF Len(view.shown) >= MaxFrontendResults
  THEN [view EXCEPT !.shown = Append(Tail(@), result), !.truncated = TRUE]
  ELSE [view EXCEPT !.shown = Append(@, result)]

(* applyRunEvent, for a run that is still the current one.                 *)
Consume(r) ==
  /\ consumer[r] = "consuming"
  /\ events[r] # <<>>
  /\ LET e == Head(events[r]) IN
     state' = IF slot # r THEN state
              ELSE IF e = 0 THEN [state EXCEPT ![r].status = outcome[r]]
              ELSE [state EXCEPT ![r] = Show(@, e)]
  /\ events' = [events EXCEPT ![r] = Tail(@)]
  /\ UNCHANGED <<startVars, op, outcome, reported, cancelled, summary, consumer, export, downVars>>

EventsOver(r) ==
  /\ consumer[r] = "consuming"
  /\ events[r] = <<>>
  /\ op[r] \in {"closed", "done"}
  /\ consumer' = [consumer EXCEPT ![r] = "awaiting"]
  /\ UNCHANGED <<startVars, opVars, cancelled, state, summary, export, downVars>>

(* Fault: the consumer does not close finished for a run that was replaced.*)
FinaliseCurrent(r) ==
  /\ consumer[r] = "awaiting" /\ op[r] = "done"
  /\ slot = r
  /\ state' = [state EXCEPT ![r].status = outcome[r], ![r].ready = TRUE]
  /\ summary' = [summary EXCEPT ![r] = [status |-> outcome[r], completed |-> TRUE]]
  /\ consumer' = [consumer EXCEPT ![r] = "finished"]
  /\ UNCHANGED <<startVars, opVars, cancelled, export, downVars>>

(* Done is read, and the current run gets its final state and summary.     *)
Finalise(r) ==
  /\ consumer[r] = "awaiting" /\ op[r] = "done"
  /\ IF slot = r
     THEN /\ state' = [state EXCEPT ![r].status = outcome[r], ![r].ready = TRUE]
          /\ summary' = [summary EXCEPT ![r] = [status |-> outcome[r], completed |-> TRUE]]
     ELSE UNCHANGED <<state, summary>>
  /\ consumer' = [consumer EXCEPT ![r] = "finished"]
  /\ UNCHANGED <<startVars, opVars, cancelled, export, downVars>>

ConsumeRun(r) == Consume(r) \/ EventsOver(r) \/ Finalise(r)

-----------------------------------------------------------------------------
(* CancelAutomation and ExportResults.                                     *)

CancelAutomation ==
  /\ Running
  /\ slot \notin cancelled
  /\ cancelled' = cancelled \cup {slot}
  /\ UNCHANGED <<startVars, opVars, viewVars, export, downVars>>

(* ExportResults reads the summary and the result path, then asks for a    *)
(* path.  Its two steps are not under operationMu.                         *)
BeginExport ==
  /\ export = NoExport \/ export.written
  /\ slot # 0 /\ ~Running
  /\ export' = [run |-> slot, summary |-> summary[slot], written |-> FALSE]
  /\ UNCHANGED <<startVars, opVars, cancelled, viewVars, downVars>>

Exporting == export # NoExport /\ ~export.written

(* The user gives no path.                                                 *)
DropExport ==
  /\ Exporting
  /\ export' = NoExport
  /\ UNCHANGED <<startVars, opVars, cancelled, viewVars, downVars>>

WriteExport ==
  /\ Exporting
  /\ export' = [export EXCEPT !.written = TRUE]
  /\ UNCHANGED <<startVars, opVars, cancelled, viewVars, downVars>>

-----------------------------------------------------------------------------
(* Shutdown.                                                               *)

(* rootCancel ends the context of every run.                               *)
CancelRoot ==
  /\ shutdown = "no"
  /\ shutdown' = "begun"
  /\ cancelled' = cancelled \cup {r \in RunId : op[r] # "none"}
  /\ UNCHANGED <<startVars, opVars, viewVars, export, awaited>>

ChooseAwaited ==
  /\ shutdown = "begun"
  /\ shutdown' = "waiting"
  /\ awaited' = slot
  /\ UNCHANGED <<startVars, opVars, cancelled, viewVars, export>>

(* Fault: Shutdown waits for the terminal state, not for the consumer.     *)
ReturnAtTerminal ==
  /\ shutdown = "waiting"
  /\ awaited # 0 => state[awaited].status # "Running"
  /\ shutdown' = "returned"
  /\ UNCHANGED <<startVars, opVars, cancelled, viewVars, export, awaited>>

ReturnFinished ==
  /\ shutdown = "waiting"
  /\ awaited # 0 => consumer[awaited] = "finished"
  /\ shutdown' = "returned"
  /\ UNCHANGED <<startVars, opVars, cancelled, viewVars, export, awaited>>

(* Five seconds are over.                                                  *)
ReturnLate ==
  /\ shutdown = "waiting"
  /\ shutdown' = "timed out"
  /\ UNCHANGED <<startVars, opVars, cancelled, viewVars, export, awaited>>

-----------------------------------------------------------------------------

(* Every run has been used and everything is over.                         *)
Over ==
  /\ \A r \in RunId : consumer[r] = "finished"
  /\ shutdown \in {"returned", "timed out"}
  /\ UNCHANGED vars

Next ==
  \/ \E s \in Starter : CheckIdle(s) \/ RefuseStart(s) \/ StartRunner(s) \/ PublishRun(s)
  \/ \E r \in RunId : Operation(r) \/ ConsumeRun(r)
  \/ CancelAutomation \/ BeginExport \/ DropExport \/ WriteExport
  \/ CancelRoot \/ ChooseAwaited \/ ReturnFinished \/ ReturnLate
  \/ Over

Spec == Init /\ [][Next]_vars

(* Goroutines that can run do: the run (RunEnds in module Runner), its     *)
(* consumer, and a start that has the runner under way.                    *)
FairSpec ==
  /\ Spec
  /\ \A r \in RunId : WF_vars(Operation(r)) /\ WF_vars(ConsumeRun(r))
  /\ \A s \in Starter : WF_vars(PublishRun(s))

-----------------------------------------------------------------------------
(* Properties.                                                             *)

Working(r) == op[r] \in {"running", "recorded"}

(* Two runs never use the press at the same time, although a run is        *)
(* started before service.run shows it and the status of a run is set by   *)
(* the consumer of its events (StartAutomation, automationRunning).        *)
OneRunAtATime == Cardinality({r \in RunId : Working(r)}) <= 1

(* Only a result file that its recorder has closed is exported             *)
(* (ExportResults; Runner.Start closes the recorder before it publishes    *)
(* the terminal event).                                                    *)
ExportsClosedFile == export.run # 0 => op[export.run] # "running"

(* The window shows the latest results, in order, and says when it has     *)
(* dropped some (applyRunEvent).                                           *)
ShowsLatestResults ==
  \A r \in RunId :
    LET shown == state[r].shown
        got == reported[r] - Cardinality({i \in DOMAIN events[r] : events[r][i] # 0})
    IN  slot = r =>
          /\ \A i \in DOMAIN shown : shown[i] = got - Len(shown) + i
          /\ state[r].truncated <=> got > Len(shown)

(* A run that Shutdown saw in time has been folded into the window's state *)
(* when Shutdown returns without a timeout (Shutdown).                     *)
ShutdownWaitsForConsumer ==
  shutdown = "returned" /\ awaited # 0 =>
    consumer[awaited] = "finished" /\ op[awaited] = "done"

(* Every started run is finished: its consumer reads Done and closes       *)
(* finished, also when another run has taken the slot (consumeRun).        *)
RunsFinish == \A r \in RunId : op[r] = "running" ~> consumer[r] = "finished"

(* The workbook says how and when the run ended ("exports completed runs", *)
(* README.md:16).                                                          *)
ExportIsFinal == export.written => export.summary.status \in Final /\ export.summary.completed

(* When Shutdown has returned in time no run is left, and none begins      *)
(* ("GUI shutdown must cancel the root application context, stop accepting *)
(* background work", docs/project-guidelines.md:79).                       *)
ShutdownLeavesNoRun == shutdown = "returned" => \A r \in RunId : op[r] \in {"none", "done"}
=============================================================================
