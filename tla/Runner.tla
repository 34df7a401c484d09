------------------------------- MODULE Runner -------------------------------
(***************************************************************************)
(* One automation run (internal/application/runner.go): the goroutine      *)
(* started by Runner.Start, the producer loop of run, the worker           *)
(* goroutines, the recorder of results, the counters under the mutex of    *)
(* runExecution, and the event queue (module EventQueue) into which all of *)
(* them publish.  A consumer receives the events and anyone may cancel.    *)
(*                                                                         *)
(* Abstractions.  A case (file x combination x mode) is its position in    *)
(* the producer's three nested loops, 1..Planned.  What a worker does with *)
(* its Fiery job is the business of another module: here the job publishes *)
(* some events and returns a verdict, or panics.  The validations that run *)
(* makes before it connects are one choice, valid.  Planned is             *)
(* PlannedTestCount and Worker has EffectiveWorkerCount elements.          *)
(*                                                                         *)
(* Bound: MaxJobEvents events are published by one job before its result.  *)
(***************************************************************************)
EXTENDS Naturals, Sequences, FiniteSets

CONSTANTS
  Worker,       \* the worker goroutines
  Planned,      \* the number of cases
  MaxJobEvents

ASSUME WorkerAssumption == IsFiniteSet(Worker) /\ Worker # {} /\ "run" \notin Worker
ASSUME PlannedAssumption == Planned \in Nat
ASSUME MaxJobEventsAssumption == MaxJobEvents \in Nat

VARIABLES
  valid,        \* the request passes the checks before Connect
  cancelled,    \* ctx is done
  run,          \* where the goroutine of Start stands
  next,         \* the next case of the producer loop
  worker,       \* where each worker stands
  held,         \* the case a worker executes
  verdict,      \* result.Result of that case
  jobEvents,    \* how many events the job of a worker has published
  kept,         \* Recorder.Append accepted the result of that case
  snapshot,     \* the copy of progress taken under the mutex
  progress,     \* runExecution.progress
  storageError, \* runExecution.storageErrorText is not empty
  stored,       \* the cases whose results are in the result file
  terminal,     \* the terminal event, once known
  done          \* the Done channel holds the terminal event

VARIABLES items, closed, wake, notifying, dispatcher, sending, delivered, log

runVars == <<valid, cancelled, run, next, terminal, done>>
workVars == <<worker, held, verdict, jobEvents, kept, snapshot>>
countVars == <<progress, storageError, stored>>
queueVars == <<items, closed, wake, notifying, dispatcher, sending, delivered, log>>
vars == <<runVars, workVars, countVars, queueVars>>

Case == 1..Planned
Verdict == {"PASS", "FAIL", "ERROR"}
Status == {"Completed", "Cancelled", "Failed"}
Run == "run"

Counts == [executed : Nat, passed : Nat, failed : Nat, errors : Nat]
ZeroCounts == [executed |-> 0, passed |-> 0, failed |-> 0, errors |-> 0]

-----------------------------------------------------------------------------
(* The events.                                                             *)

Progress == [kind : {"progress"}, counts : Counts]
Started == [kind |-> "started"]
JobEvent == [kind : {"job", "panic"}, case : Case]
Result == [kind : {"result"}, case : Case, verdict : Verdict, kept : BOOLEAN]
Terminal ==
  [kind : {"terminal"}, status : Status, storageError : BOOLEAN, counts : Counts]

Event == Progress \cup {Started} \cup JobEvent \cup Result \cup Terminal

Queue == INSTANCE EventQueue WITH
  Publisher <- Worker \cup {Run},
  MaxTrail <- 0

NoTerminal == [status |-> "none"]

-----------------------------------------------------------------------------

RunState ==
  {"starting", "connected", "producing", "waiting", "ended",
   "recorded", "sealing", "sealed", "finished"}

WorkerState ==
  {"unborn", "idle", "running", "recording", "counting", "reporting",
   "refreshing", "returned"}

TypeOK ==
  /\ valid \in BOOLEAN
  /\ cancelled \in BOOLEAN
  /\ run \in RunState
  /\ next \in 1..Planned + 1
  /\ worker \in [Worker -> WorkerState]
  /\ held \in [Worker -> 0..Planned]
  /\ verdict \in [Worker -> Verdict]
  /\ jobEvents \in [Worker -> 0..MaxJobEvents]
  /\ kept \in [Worker -> BOOLEAN]
  /\ snapshot \in [Worker -> Counts]
  /\ progress \in Counts
  /\ storageError \in BOOLEAN
  /\ stored \subseteq Case
  /\ terminal \in Terminal \cup {NoTerminal}
  /\ done \in BOOLEAN
  /\ Queue!TypeOK

Init ==
  /\ valid \in (IF Planned = 0 THEN {FALSE} ELSE BOOLEAN)
  /\ cancelled = FALSE
  /\ run = "starting"
  /\ next = 1
  /\ worker = [w \in Worker |-> "unborn"]
  /\ held = [w \in Worker |-> 0]
  /\ verdict = [w \in Worker |-> "ERROR"]
  /\ jobEvents = [w \in Worker |-> 0]
  /\ kept = [w \in Worker |-> FALSE]
  /\ snapshot = [w \in Worker |-> ZeroCounts]
  /\ progress = ZeroCounts
  /\ storageError = FALSE
  /\ stored = {}
  /\ terminal = NoTerminal
  /\ done = FALSE
  /\ Queue!Init

-----------------------------------------------------------------------------
(* The goroutine of Start.                                                 *)

(* It is past the notification of its last publication.                    *)
RunAt(state) == run = state /\ Run \notin notifying

EndWith(status) ==
  /\ terminal' = [kind |-> "terminal", status |-> status,
                  storageError |-> FALSE, counts |-> ZeroCounts]
  /\ run' = "ended"

(* Operation.Cancel, or the root context at shutdown.  Nothing reads ctx   *)
(* once run has returned, so later calls are left out.                     *)
Cancel ==
  /\ ~cancelled
  /\ run \in {"starting", "connected", "producing", "waiting"}
  /\ cancelled' = TRUE
  /\ UNCHANGED <<valid, run, next, terminal, done, workVars, countVars, queueVars>>

RejectRequest ==
  /\ RunAt("starting")
  /\ ~valid
  /\ EndWith("Failed")
  /\ UNCHANGED <<valid, cancelled, next, done, workVars, countVars, queueVars>>

ConnectFails ==
  /\ RunAt("starting")
  /\ valid
  /\ EndWith(IF cancelled THEN "Cancelled" ELSE "Failed")
  /\ UNCHANGED <<valid, cancelled, next, done, workVars, countVars, queueVars>>

(* Connect succeeds and the started event is published.                    *)
AnnounceStart ==
  /\ RunAt("starting")
  /\ valid
  /\ Queue!Publish(Run, Started)
  /\ run' = "connected"
  /\ UNCHANGED <<valid, cancelled, next, terminal, done, workVars, countVars>>

(* publishProgress, then the workers are started.                          *)
StartWorkers ==
  /\ RunAt("connected")
  /\ Queue!Publish(Run, [kind |-> "progress", counts |-> progress])
  /\ run' = "producing"
  /\ worker' = [w \in Worker |-> "idle"]
  /\ UNCHANGED <<valid, cancelled, next, terminal, done, countVars>>
  /\ UNCHANGED <<held, verdict, jobEvents, kept, snapshot>>

(* Fault: the loop does not advance.                                       *)
HandOverAgain(w) ==
  /\ RunAt("producing")
  /\ next <= Planned
  /\ worker[w] = "idle" /\ w \notin notifying
  /\ held' = [held EXCEPT ![w] = next]
  /\ worker' = [worker EXCEPT ![w] = "running"]
  /\ UNCHANGED <<valid, cancelled, run, next, terminal, done>>
  /\ UNCHANGED <<verdict, jobEvents, kept, snapshot, countVars, queueVars>>

(* Fault: the loop does not stop after the last case.                      *)
HandOverPastLast(w) ==
  /\ RunAt("producing")
  /\ worker[w] = "idle" /\ w \notin notifying
  /\ held' = [held EXCEPT ![w] = next]
  /\ next' = next + 1
  /\ worker' = [worker EXCEPT ![w] = "running"]
  /\ UNCHANGED <<valid, cancelled, run, terminal, done>>
  /\ UNCHANGED <<verdict, jobEvents, kept, snapshot, countVars, queueVars>>

(* The rendezvous on the unbuffered jobs channel.  select takes either     *)
(* branch when ctx is done and a worker is ready.                          *)
HandOver(w) ==
  /\ RunAt("producing")
  /\ next <= Planned
  /\ worker[w] = "idle" /\ w \notin notifying
  /\ held' = [held EXCEPT ![w] = next]
  /\ next' = next + 1
  /\ worker' = [worker EXCEPT ![w] = "running"]
  /\ UNCHANGED <<valid, cancelled, run, terminal, done>>
  /\ UNCHANGED <<verdict, jobEvents, kept, snapshot, countVars, queueVars>>

(* The producer stops early or after the last case, and closes jobs.       *)
StopProducing ==
  /\ RunAt("producing")
  /\ cancelled \/ next > Planned
  /\ run' = "waiting"
  /\ UNCHANGED <<valid, cancelled, next, terminal, done, workVars, countVars, queueVars>>

(* Fault: the run does not wait for its workers.                           *)
EndWithoutWaiting ==
  /\ RunAt("waiting")
  /\ EndWith(IF cancelled THEN "Cancelled" ELSE "Completed")
  /\ UNCHANGED <<valid, cancelled, next, done, workVars, countVars, queueVars>>

(* workersWG.Wait, then the status: an early stop implies that ctx is      *)
(* done, so the test of ctx.Err alone decides.                             *)
EndRun ==
  /\ RunAt("waiting")
  /\ \A w \in Worker : worker[w] = "returned"
  /\ EndWith(IF cancelled THEN "Cancelled" ELSE "Completed")
  /\ UNCHANGED <<valid, cancelled, next, done, workVars, countVars, queueVars>>

(* Recorder.Close, whose flush may fail; then the terminal event gets the  *)
(* storage error and the counters.                                         *)
CloseRecorder ==
  /\ RunAt("ended")
  /\ \E failed \in BOOLEAN :
       /\ storageError' = (storageError \/ failed)
       /\ \/ ~failed /\ UNCHANGED stored
          \/ failed /\ stored' \in SUBSET stored
  /\ terminal' = [kind |-> "terminal", status |-> terminal.status,
                  storageError |-> storageError', counts |-> progress]
  /\ run' = "recorded"
  /\ UNCHANGED <<valid, cancelled, next, done, progress, workVars, queueVars>>

(* Fault: the run ends without its terminal event.                         *)
SkipTerminal ==
  /\ RunAt("recorded")
  /\ run' = "sealing"
  /\ UNCHANGED <<valid, cancelled, next, terminal, done, workVars, countVars, queueVars>>

PublishTerminal ==
  /\ RunAt("recorded")
  /\ Queue!Publish(Run, terminal)
  /\ run' = "sealing"
  /\ UNCHANGED <<valid, cancelled, next, terminal, done, workVars, countVars>>

CloseQueue ==
  /\ RunAt("sealing")
  /\ Queue!Close(Run)
  /\ run' = "sealed"
  /\ UNCHANGED <<valid, cancelled, next, terminal, done, workVars, countVars>>

(* The buffered send on done never blocks; the deferred cancel follows.    *)
Finish ==
  /\ RunAt("sealed")
  /\ done' = TRUE
  /\ cancelled' = TRUE
  /\ run' = "finished"
  /\ UNCHANGED <<valid, next, terminal, workVars, countVars, queueVars>>

RunStep ==
  \/ RejectRequest \/ ConnectFails \/ AnnounceStart \/ StartWorkers
  \/ \E w \in Worker : HandOver(w)
  \/ StopProducing \/ EndRun
  \/ CloseRecorder \/ PublishTerminal \/ CloseQueue \/ Finish

-----------------------------------------------------------------------------
(* The workers.                                                            *)

WorkerAt(w, state) == worker[w] = state /\ w \notin notifying

Advance(w, state) == worker' = [worker EXCEPT ![w] = state]

(* The job logs, or reports an attribute write, a readback, ...            *)
JobPublishes(w) ==
  /\ WorkerAt(w, "running")
  /\ jobEvents[w] < MaxJobEvents
  /\ Queue!Publish(w, [kind |-> "job", case |-> held[w]])
  /\ jobEvents' = [jobEvents EXCEPT ![w] = @ + 1]
  /\ UNCHANGED <<runVars, worker, held, verdict, kept, snapshot, countVars>>

JobReturns(w) ==
  /\ WorkerAt(w, "running")
  /\ verdict' \in {[verdict EXCEPT ![w] = v] : v \in Verdict}
  /\ Advance(w, "recording")
  /\ UNCHANGED <<runVars, held, jobEvents, kept, snapshot, countVars, queueVars>>

(* Fault: a panic ends the worker instead of the case.                     *)
JobPanicsUnrecovered(w) ==
  /\ WorkerAt(w, "running")
  /\ Queue!Publish(w, [kind |-> "panic", case |-> held[w]])
  /\ verdict' = [verdict EXCEPT ![w] = "ERROR"]
  /\ Advance(w, "returned")
  /\ UNCHANGED <<runVars, held, jobEvents, kept, snapshot, countVars>>

(* executeJobSafely recovers: the case ends in ERROR, the worker goes on.  *)
JobPanics(w) ==
  /\ WorkerAt(w, "running")
  /\ Queue!Publish(w, [kind |-> "panic", case |-> held[w]])
  /\ verdict' = [verdict EXCEPT ![w] = "ERROR"]
  /\ Advance(w, "recording")
  /\ UNCHANGED <<runVars, held, jobEvents, kept, snapshot, countVars>>

(* Fault: the error of Append is reported with the result only.            *)
AppendResultQuietly(w) ==
  /\ WorkerAt(w, "recording")
  /\ \E ok \in BOOLEAN :
       /\ kept' = [kept EXCEPT ![w] = ok]
       /\ stored' = IF ok THEN stored \cup {held[w]} ELSE stored
  /\ Advance(w, "counting")
  /\ UNCHANGED <<runVars, held, verdict, jobEvents, snapshot, progress, storageError, queueVars>>

(* recordResult, Recorder.Append and setStorageError.                      *)
AppendResult(w) ==
  /\ WorkerAt(w, "recording")
  /\ \E ok \in BOOLEAN :
       /\ kept' = [kept EXCEPT ![w] = ok]
       /\ stored' = IF ok THEN stored \cup {held[w]} ELSE stored
       /\ storageError' = (storageError \/ ~ok)
  /\ Advance(w, "counting")
  /\ UNCHANGED <<runVars, held, verdict, jobEvents, snapshot, progress, queueVars>>

AddResult(counts, v) ==
  [executed |-> counts.executed + 1,
   passed |-> counts.passed + (IF v = "PASS" THEN 1 ELSE 0),
   failed |-> counts.failed + (IF v = "FAIL" THEN 1 ELSE 0),
   errors |-> counts.errors + (IF v = "ERROR" THEN 1 ELSE 0)]

(* Fault: a result that could not be stored is not counted.                *)
CountKept(w) ==
  /\ WorkerAt(w, "counting")
  /\ progress' = IF kept[w] THEN AddResult(progress, verdict[w]) ELSE progress
  /\ snapshot' = [snapshot EXCEPT ![w] = progress']
  /\ Advance(w, "reporting")
  /\ UNCHANGED <<runVars, held, verdict, jobEvents, kept, storageError, stored, queueVars>>

(* recordResult, the critical section.                                     *)
Count(w) ==
  /\ WorkerAt(w, "counting")
  /\ progress' = AddResult(progress, verdict[w])
  /\ snapshot' = [snapshot EXCEPT ![w] = progress']
  /\ Advance(w, "reporting")
  /\ UNCHANGED <<runVars, held, verdict, jobEvents, kept, storageError, stored, queueVars>>

(* Fault: a bounded queue makes the worker wait for the consumer.          *)
PublishResultBounded(w) ==
  /\ WorkerAt(w, "reporting")
  /\ items = <<>>
  /\ Queue!Publish(w, [kind |-> "result", case |-> held[w],
                       verdict |-> verdict[w], kept |-> kept[w]])
  /\ Advance(w, "refreshing")
  /\ UNCHANGED <<runVars, held, verdict, jobEvents, kept, snapshot, countVars>>

(* recordResult, after the mutex is released.                              *)
PublishResult(w) ==
  /\ WorkerAt(w, "reporting")
  /\ Queue!Publish(w, [kind |-> "result", case |-> held[w],
                       verdict |-> verdict[w], kept |-> kept[w]])
  /\ Advance(w, "refreshing")
  /\ UNCHANGED <<runVars, held, verdict, jobEvents, kept, snapshot, countVars>>

(* The locals of the iteration go out of scope.                            *)
PublishProgress(w) ==
  /\ WorkerAt(w, "refreshing")
  /\ Queue!Publish(w, [kind |-> "progress", counts |-> snapshot[w]])
  /\ Advance(w, "idle")
  /\ held' = [held EXCEPT ![w] = 0]
  /\ verdict' = [verdict EXCEPT ![w] = "ERROR"]
  /\ jobEvents' = [jobEvents EXCEPT ![w] = 0]
  /\ kept' = [kept EXCEPT ![w] = FALSE]
  /\ snapshot' = [snapshot EXCEPT ![w] = ZeroCounts]
  /\ UNCHANGED <<runVars, countVars>>

(* The range over jobs ends when the producer has closed the channel.      *)
Return(w) ==
  /\ WorkerAt(w, "idle")
  /\ run = "waiting"
  /\ Advance(w, "returned")
  /\ UNCHANGED <<runVars, held, verdict, jobEvents, kept, snapshot, countVars, queueVars>>

WorkerStep(w) ==
  \/ JobPublishes(w) \/ JobReturns(w) \/ JobPanics(w)
  \/ AppendResult(w) \/ Count(w) \/ PublishResult(w) \/ PublishProgress(w)
  \/ Return(w)

-----------------------------------------------------------------------------

Notify(p) == Queue!Notify(p) /\ UNCHANGED <<runVars, workVars, countVars>>
Dispatch == Queue!Dispatch /\ UNCHANGED <<runVars, workVars, countVars>>
Receive == Queue!Receive /\ UNCHANGED <<runVars, workVars, countVars>>

(* Everything has returned and the consumer has the closed channel.        *)
Over ==
  /\ run = "finished" /\ dispatcher = "returned"
  /\ UNCHANGED vars

Next ==
  \/ Cancel
  \/ RunStep
  \/ \E w \in Worker : WorkerStep(w)
  \/ \E p \in Worker \cup {Run} : Notify(p)
  \/ Dispatch
  \/ Receive
  \/ Over

Spec == Init /\ [][Next]_vars

(* Goroutines that can run do, and a job ends: every Fiery wait has a      *)
(* deadline.  Nothing is assumed of the consumer and nobody has to cancel. *)
GoroutineFairness ==
  /\ WF_vars(RunStep)
  /\ \A w \in Worker : WF_vars(WorkerStep(w))
  /\ \A p \in Worker \cup {Run} : WF_vars(Notify(p))
  /\ WF_vars(Dispatch)

FairSpec == Spec /\ GoroutineFairness

-----------------------------------------------------------------------------
(* Properties.                                                             *)

ResultsIn(s) == {i \in DOMAIN s : s[i].kind = "result"}
TerminalsIn(s) == {i \in DOMAIN s : s[i].kind = "terminal"}
Reported == {log[i].case : i \in ResultsIn(log)}

(* A case is reported at most once, also when its job panicked, its result *)
(* could not be stored or the run was cancelled (executeJobSafely,         *)
(* recordResult).                                                          *)
ReportedOnce ==
  \A i, j \in ResultsIn(log) : log[i].case = log[j].case => i = j

(* A run that ends as Completed has reported every planned case (run,      *)
(* Start).                                                                 *)
CompletedReportsAll ==
  \A i \in TerminalsIn(log) : log[i].status = "Completed" => Reported = Case

(* When the terminal event is published no worker is left that could still *)
(* talk to Fiery, and nothing is published after it (run waits for its     *)
(* workers before it returns).                                             *)
TerminalIsLast ==
  \A i \in TerminalsIn(log) :
    /\ i = Len(log)
    /\ \A w \in Worker : worker[w] \in {"unborn", "returned"}

(* The terminal event's counters are those of the results published before *)
(* it, whatever order the progress snapshots had (progressSnapshot).       *)
ResultsWith(v) == Cardinality({i \in ResultsIn(log) : log[i].verdict = v})

TerminalCountsResults ==
  \A i \in TerminalsIn(log) :
    log[i].counts = [executed |-> Cardinality(ResultsIn(log)),
                     passed |-> ResultsWith("PASS"),
                     failed |-> ResultsWith("FAIL"),
                     errors |-> ResultsWith("ERROR")]

(* A run that ends without a storage error has every reported result in    *)
(* its file (recordResult, setStorageError, Recorder.Close): the result    *)
(* events the frontend drops from its bounded list can be exported.        *)
StoredOrReported ==
  \A i \in TerminalsIn(log) : ~log[i].storageError => stored = Reported

(* The run reaches its end and fills Done although nobody takes its        *)
(* events, cancelled or not ("Fiery workers never wait on frontend         *)
(* delivery", events.go:115).                                              *)
RunEnds == <>(run = "finished" /\ done)

(* A consumer that drains the events gets the terminal event as the last   *)
(* one and then the closed channel ("Consumers must drain Events until it  *)
(* closes", events.go:113).                                                *)
ConsumerGetsTerminal ==
  WF_vars(Receive) =>
    <>(/\ dispatcher = "returned"
       /\ delivered # <<>> /\ delivered[Len(delivered)].event = terminal)
=============================================================================
