# A verification of API Automation

API Automation is a desktop application that tests Fiery print servers: it
imports files as print jobs with generated combinations of job properties,
takes them through a lifecycle (hold, RIP, print, cancel, delete), reads the
properties back and records a verdict per case. This directory models its core
in TLA+, checks the models with TLC and proves their main properties with
TLAPS. Paths below are relative to `src/`.

Contents: [the system](#the-system), [the modules](#the-modules),
[the runs](#the-runs), [findings](#findings), [the proofs](#the-proofs),
[what is not modelled](#what-is-not-modelled), [the plan](#the-plan).

## The system

| Component | State | Operations | Modules |
|---|---|---|---|
| Event queue, `internal/application/events.go` | list of events, closed flag, wake channel, one dispatcher goroutine | publish, close, notify, dispatch, receive | `EventFeed`, `EventQueue` |
| Runner, `internal/application/runner.go` | progress counters and storage error under a mutex, jobs channel, workers, result recorder | Start, run, executeJobSafely, recordResult, Cancel | `Runner` |
| Job case, `runner.go` (executeJob), `lifecycle.go`, `runmodes.go`, `internal/joboutcome` | what one worker knows of its Fiery job | import, preset, constraint check, update, actions, waits, cancel, delete, readback, evaluation | `JobCase` |
| Service: connection and evidence, `internal/appwails/service.go`, `administration.go`, `internal/application/connection.go` | active connection, tested draft, cached client and session, capabilities, job workload, job inventory, `operationMu` | test, apply, change, overview, discover, inspect, restart, start | `Workspace` |
| Service: the run, `internal/appwails/automation.go`, `Shutdown` | `service.run` with state and summary under `runMu` | start, consume events, cancel, export, shut down | `RunSlot` |
| Administration, `internal/appwails/administration.go` over `internal/application/administration.go` | inventory with a lease of two minutes | inspect, clear all jobs, cancel or delete one job | `Administration`; restarts and recovery in `Workspace` |
| Fiery client, `internal/fiery` | session, latch of the constraint probe | one HTTP request per operation, v5 with v4 fallback | its effects in `JobCase`, `Workspace`, `Administration`; the latch in `ConstraintCheck` |
| Result file and workbook, `internal/reportxlsx` | buffered writer, closed flag | append, close, export | as seen by `Runner` and `RunSlot` |
| Presets, `internal/presets`, `preset_mapping.go` | one JSON file | list, save, load, delete | `PresetStore`, `PresetMapping` |
| Planning: `planning.go`, `internal/combinations`, `limits.go`, value parsers | none | axes, combinations, limits, number lists | `Planning`, `Combinations`, `Values`, over `Lists` |
| Capabilities: `internal/capabilities` | none | from published properties to options, exclusions of a combination | `Capabilities`, in part |
| Automation page, `cmd/api-automation/frontend/src/app.js` | form, capabilities shown | discover, edit, save and load a preset, start | `PlanningPage` |
| Preflight, file selection, result comparison, diagnostics, rest of the frontend, readback probe | none that outlives a call, or view state | | not modelled |

How they interact. The frontend calls the service; the toolkit runs every call
in a goroutine of its own. Most calls hold `operationMu` throughout, but the
overview poll, the start and cancel of a connection change, export, cancel and
`Shutdown` do not; shared fields are under `mu` or `runMu` for single reads and
writes only. `StartAutomation` gives a `Runner` the active server and the
planned cases. The runner's producer hands the cases over an unbuffered channel
to the workers; each worker executes its case against Fiery over HTTP and
publishes logs, results and progress into the event queue. The queue's
dispatcher hands the events to `consumeRun`, which folds them into the state
that the frontend reads.

Where it is hard:

* publish, close and dispatch notify and wait outside the lock (lost wakeups);
* coalescing overwrites queued events; progress is copied under a mutex and
  published after it (ordering);
* cancellation races the hand-over, panics end a job in the middle, storage
  fails for some of the results (partial failure);
* the status of a run changes by the consumer of its events, long before its
  consumer is finished (stale state around the slot, shutdown, export);
* calls without `operationMu` store what they read before a change of server or
  a restart (stale state in the workspace);
* an inventory is as old as its lease, a dialog stays open, other users import
  and delete, and a clear is verified by polls that fail (administration);
* presets are rewritten with several renames that fail or are cut off by a
  crash, and without a lock;
* workers queue behind one probe that settles whether an endpoint exists;
* options, axes, limits and filters follow each other, each with rules of its
  own, while replies of discovery and of loading a preset cross;
* the job on the server moves on between a poll and the request that follows,
  requests and replies are lost, readings mix moments, timers race late success.

Every such hazard is listed in `PROJECT.json` at its line with the properties
that would catch it going wrong.

What makes the components correct:

* queue: every critical event is delivered once and in order, the stream ends
  after the last, workers never wait for the consumer;
* runner: one result per case, all of them in a completed run, the terminal
  event last, with counters and storage status that agree with the results;
* job case: PASS means that it happened on the server, as far as the evidence
  the code accepts can tell, FAIL has a cause on the server, in the settings or
  in replies lost by the last readback, everything else is ERROR, disposable
  jobs are deleted, every case ends;
* workspace: what is known, planned with and talked to is the active server,
  and a run excludes every operation that could change it;
* slot: one run at a time, only closed files are exported, the results shown
  are the latest, every run is finished, shutdown waits for its consumer;
* administration: what is destroyed was checked after the user confirmed it, as
  well as a list without a total can be, what is reported was so, and every call
  ends;
* presets: what was saved is in the file, or whole in the backup;
* constraint probe: what is settled about the endpoint stays so;
* planning: every case is one the server can take, no case within the limit is
  missing, and a preset plans what the inputs it was made from planned.

## The modules

`EventFeed` is the abstract promise of an Operation (comment at
`events.go:113-116`): a log of critical events, seen in order, then the end.

`EventQueue` is the queue itself. `items`, `closed` and `wake` are the fields
of `eventQueue`; `notifying` holds the publishers between their unlock and
their send on `wake`; `dispatcher` and `sending` are the position of the
dispatch goroutine and the event it offers. The critical sections of `publish`
(`Coalesce`, `Enqueue`, `Discard`) and `close` are one step each, `Notify` is
another. `dispatch` is `TakeHead`, `FindEmpty` and `Wake`. `delivered` and
`log` are history variables. Entries carry the count of critical events
accepted so far in place of the stamp of the code: the properties need to know
the place of an entry, not its id.

`Runner` is one run with the queue inside (`Queue == INSTANCE EventQueue`).
`run` is the position of the goroutine of `Start`, `worker[w]` that of each
worker. `recordResult` is four steps, as in the code: `AppendResult` (recorder),
`Count` (critical section), `PublishResult`, `PublishProgress`. A case is its
position in the nested producer loops. Checks of the request before `Connect`
are one choice, and what a job does is a verdict or a panic, after up to
`MaxJobEvents` events.

`JobCase` is what happens inside a job: `executeJob` and
`executeConstraintCase` against a server that spools, processes and prints on
its own, fails, ignores requests, and has other users who cancel and delete.
`step` is the position of the worker, `todo` the actions of the run mode still
to be done, `job` the job on the server. A request takes effect or not, and
independently its reply arrives or not (`Accepted`, `Refused`). `case` contains,
besides mode and intent, what the server will make of the settings; a run mode
has its `Actions` and a policy (`OutcomePasses`).

A reading of the attributes has a status, a state (with the errors and the "is
...?" flags), single pieces of evidence and the settings. `GetJobAttributes`
merges the replies to several requests and drops those that fail, so that each
of these is as it was at one of two moments (`BeginRead`, `EndRead`, `Merged`),
or missing. The evidence (`Evidence`, `Counts`) is the release to production, the
raster, "has been printed?", "has been canceled?", a recent action that is a
cancellation, and the two kinds of page counts: "num pages", which `hasRaster`
takes for a raster, and the counts of the original. The server reports page
counts before any RIP, or never; it notes a request to cancel as the recent
action whether it cancels anything or not; and it may abort a job by itself. The
operators `ActivelyProcessing`, `PrintCompleted`, `PressPrintAccepted`,
`WaitingToPrint`, `CancelObserved`, `NoFailure`, `HasRaster`,
`CancellationObserved`, `SettingsMatch` and `PageRangeValid` say what the
functions of these names make of a reading. `CancelObserved` does not look at
"has been canceled?": its keys are status, state, display status, recent action
and current action (`lifecycle.go:360`). A setting that is not reported matches
when the discovered default is wanted, which is a choice of the case
(`case.default`); a spooled job without a page count fails a case with a custom
page range.

`Workspace` is the service as concurrent callers. `lock` is `operationMu`;
`call`, `step`, `target` and `session` are the locals of each caller. Every
piece of evidence (`capability`, `workload`, `inventory`, `client`) is the
server it was learnt from. Reads and writes under `mu` are single steps, and
between them anything may happen. A restart is requested, the server goes on
answering for a while, goes down, and comes up with a new `boot`; old sessions
are then dead.

`RunSlot` is `service.run`: `slot` is the current run, `op` how far its runner
is (recorder closed, terminal event, channel closed, Done), `events` what
`consumeRun` has still to receive, `state`, `summary` and `consumer` the fields
of `activeRun`. It takes the behaviour of the runner and the queue from what
the other two modules establish: results, terminal event after the close of the
recorder, end of events, Done.

`Administration` is one call at a time under `operationMu`, since the others
wait: `call`, `target` and `shown` are its arguments, `step` where it is,
`remaining` the last count of the verification, `inventory` the recorded count
and whether its lease runs. Every request is served at one moment and read at
another (`reply`), or fails anywhere between. The server lists a page of the
jobs, and how many there are or not; `WholeList` is the check of `ListJobs`,
which compares the two only if there is a total that can be parsed. An accepted
clear leaves jobs in `purge` that the server removes one by one. `seen` is what
was true at the server since the confirmation, and whether it sent a part of the
list without a total (`cut`).

`PresetStore` is the file, its backup and the temporary file of each caller.
`Save` and `Delete` read and change; the renames of `write` with its fallback are
one action each, as is each of their failures; `Crash` ends the application
between any two. `acked` is what the calls that returned made of the presets,
`settled` says that calls have not overlapped so far.

`ConstraintCheck` is the latch: `constraintStatus` and the holder of the mutex,
and for each worker how far its check is. The first look at the latch and the
second, under the mutex, are different steps.

`Values`, `Combinations`, `Planning`, `PresetMapping` and `Capabilities` hold the
pure functions, one on top of the other. `Lists` has the two loops that all of
them use, to filter and to sort. `Values` reads number lists and writes them
compactly. `Combinations` has the generators: rows are functions from names to
values, a random source is a set of results, among them the first rows in order
for a source that fails; each loop is a recursive function of the number of
rounds made. `Planning` chooses axes and filters rows for the
intent of the test (`BuildPlan` is the set of plans that may come out). A value
is a positive number, 0 is the empty string, and from `FirstCustom` on numbers
stand for custom page ranges. `PresetMapping` is `BuildSafePreset` and `ReconcilePreset`;
`Capabilities` is `FromSnapshot`.

`PlanningPage` composes them all. A server publishes one of several snapshots,
and may be reconfigured; the service discovers and keeps the model
(`capability`); the page shows it (`shown`), is filled in, reset, saves and loads
one preset and starts. Entering adds to what is in the form, so values of a
preset and values entered may be together in it; `for` records from which
discoveries they are. The page waits for
nobody, so the reply of `LoadPreset` and that of a discovery cross. Then the plan
is made (`MakePlan`), and the workers check its cases at the server with
`ConstraintCheck`.

`MC*` modules only add symmetry sets and constant values.
`MCPlanningPage` has three servers: `Bare` without a duplex unit, `Full` with
one, with constraints between job properties and with a scale that is neither
bounded nor editable, `Narrow` with a part of the properties and with hidden
copies; and inputs for every source of values, strategy and intent.

Definitions whose comment begins with "Fault:" are not part of any
specification. Each is a plausible bug in the definition that follows it; with
it in place of that definition, a run must find the property violated that
`PROJECT.json` names.

### Abstractions and external parts

The Fiery server, its restarts and its other users are external: they are
modelled from how the code uses them, and as badly behaved as the code has to
expect. In `Workspace` calls that find their precondition unsatisfied return
an error and change nothing; they are left out. The waiting for `operationMu`
is the disabledness of `BeginLocked`.

## The runs

The runs that pass are exhaustive. Deadlock is checked except in the two runs of
`JobCase`, where a finished case really stops, and in `PlanningPage`,
where the run stops when its last case is checked or its plan is refused; `Runner` and
`RunSlot` have an explicit final stutter `Over` that is enabled only when
everything has returned.

| Run | Properties | Bounds |
|---|---|---|
| `EventQueue` | `TypeOK`, `NoLostWakeup`, `NoCriticalLost`, `FeedFairSpec` | 2 publishers, 2 snapshots, 2 critical events, trail of 4 |
| `Runner` | `TypeOK`, `ReportedOnce`, `CompletedReportsAll`, `TerminalIsLast`, `TerminalCountsResults`, `StoredOrReported` | 2 workers, 2 cases |
| `RunnerLive` | `RunEnds`, `ConsumerGetsTerminal` | 2 workers, 1 case, 1 job event |
| `Workspace` | `TypeOK`, `EvidenceOfActiveServer`, `RunPinsConnection`, `OperationsExcludeRun`, `RequestsReachActiveServer` | 2 callers, 2 servers, 1 restart each |
| `RunSlot` | `TypeOK`, `OneRunAtATime`, `ExportsClosedFile`, `ShowsLatestResults`, `ShutdownWaitsForConsumer` | 2 starters, 2 runs, 3 results, list of 2 |
| `RunSlotLive` | `RunsFinish` | 1 starter, 2 runs |
| `JobCase` | `TypeOK`, `PassMeansModeHappened`, `PassMeansSettingsTook`, `PassMeansRejection`, `FailHasCause`, `DisposableJobsAreDeleted`, `CaseEnds` | none: one case of every kind, 609,031 states |
| `Administration` | `TypeOK`, `DestroysOnlyAfterCheck`, `ReportsWhatHappened`, `CallsEnd` | 3 jobs that ever exist, pages of 2, with and without a total: 583,693 states |
| `PresetStore` | `TypeOK`, `PresetsKept` | 2 callers, 2 names, 2 presets |
| `PlanningPage` | `PlanRespectsServer`, `PlanIsComplete`, `PresetPlansSame`, `LatchIsFinal` | 3 snapshots, 1 edit, 2 discoveries, 3 checks, 2 workers; at most 10 copies and values of a range, 4 cases by default, 12 at most |
| `WorkspaceStaleWorkload`, `JobCaseCanceled` | one violated property each | see Findings |

Why the bounds are enough to meet the cases. The races of the queue need one
publisher between its unlock and its notification while another publishes or
closes, and a snapshot next to a critical event on either side: two publishers
and a trail of four. A lost, doubled or late case needs a worker at work while
another takes the last case: two workers, two cases. The races of the workspace
are between one locked caller and one unlocked caller about two servers; a
third caller can only wait for the lock or repeat the unlocked one. A replaced
run needs two runs; the list must overflow, so three results and a list of two.
With one restart there is a session of before and a session of after. The
`Administration` needs a list longer than a page, and a job that goes while
another comes so that the count stays: three jobs and pages of two.
`PresetStore` needs two overlapping calls about different names. `PlanningPage`
needs a discovery between a load and its reply, a limit below and one above the
number of rows, three axes so that pairwise generation extends rows and adds
some, and two workers of which one waits for the probe of the other. The safety
results do not rest on the bounds: all of them are proved (see
[the proofs](#the-proofs)).

Symmetry is used for workers, servers and starters in runs that check
invariants only.

### Fairness

* Goroutines that can run do: weak fairness of each publisher's notification,
  of the dispatcher, of the run goroutine and of each worker. Critical sections
  are short and never wait for anything.
* A job inside `Runner` ends: every HTTP request has a timeout
  (`fiery/client.go:149`), every wait a deadline (`lifecycle.go:36-59`). In
  `JobCase` this is not assumed of the case as a whole, but of the single
  request, and `CaseEnds` shows it for the case: weak fairness of `Worker`.
* `GiveUp` is strongly fair: the timer that has run out is one of the ready
  branches of a select at each of the following polls.
* In `Administration` the goroutine of the call goes on when a reply is there or
  the deadline of the call has passed, and the deadline comes
  (`context.WithTimeout` in every binding). A pending dialog may stay open:
  `CallsEnd` is about calls that the user has answered.
* Nothing is assumed of the consumer (`RunEnds` holds without it;
  `ConsumerGetsTerminal` and `FeedFairSpec` are about consumers that drain, as
  the comment on Operation asks), of users, of cancellation or of the server.

## Findings

Two runs end in a counterexample. Each shows what the code does against a
sentence of the repository.

* `WorkspaceStaleWorkload`: `docs/ux.md:27` says that a server change
  invalidates cached health. `RefreshOverview` holds no lock between reading
  the connection and storing the job workload (`service.go:259-293`), so a poll
  from before the change stores the old server's workload after it.
* `JobCaseCanceled`: `Evaluate` passes with "Fiery job has no terminal error or
  cancellation state" (`joboutcome/evaluate.go:80`) a job whose status is
  "cancelled", because `explicitFailure` looks for other phrases. A
  Ready-to-Print case whose job another user cancelled is a PASS.

Further divergences have a formula in their module but no run; added to the
properties of the passing run named after that module, TLC refutes it.

* `NoSessionFromBeforeRecovery` (`Workspace`): a poll that logged in before a
  restart stores its client (`service.go:372`) after `ControlServer` has dropped
  the cached one. Recovery is confirmed and the cache holds a session of the old
  boot, although re-authentication was to be handled by the caller
  (`internal/fiery/administration.go:166`).
* `ExportIsFinal` (`RunSlot`): `ExportResults` asks for a status other than
  Running (`automation.go:209`), which the terminal event sets before
  `consumeRun` writes the summary. The workbook of "completed runs"
  (`README.md:16`) may say Running; its rows are complete (`ExportsClosedFile`).
* `ShutdownLeavesNoRun` (`RunSlot`): a start under way is neither refused nor
  waited for by `Shutdown` (`service.go:153`), against
  `docs/project-guidelines.md:79`.
* `ClearsOnlyConfirmedCount`, `InspectedCountIsReal` (`Administration`): a list
  of jobs whose reply has no `totalItems`, or none that can be parsed, is taken
  for the whole list (`internal/fiery/administration.go:124`, `:149`; the test at
  `administration_test.go:61` has such a reply). If the server sends a first page
  of it, an inspection reports the length of the page, the dialog shows it, the
  revalidation compares page with page, and a clear removes more jobs than were
  confirmed, against "native confirmation showing server/count, immediate count
  revalidation" (`docs/project-guidelines.md:73`). `DestroysOnlyAfterCheck` and
  `ReportsWhatHappened` name this exception and say that there is no other; that
  an empty server is reported only when it was empty holds without it.
* `LostRepliesAreNoFailure` (`JobCase`): a case fails, rather than ending in
  ERROR, because the requests of the last readback failed: those for an attribute
  failed and the reading lacks it (`fiery/client.go:322`), or all of the later
  attempts did and an early reading is judged (`lifecycle.go:307`).
* `UnverifiedCountIsReal` (`Administration`): when the verification of a clear
  ends with the deadline, the count of the last poll is recorded as the
  inventory, which is 0 if that poll failed (`application/administration.go:139`).
* `SavesAreAtomic` (`PresetStore`): of two overlapping saves one is lost
  (`presets/store.go:77`), and a call that finds the file moved aside
  (`store.go:181`), or the next start after a crash there, writes only its own
  preset, against "atomically" in `docs/project-guidelines.md:66`.
* `LoadedValuesAreOffered` (`PlanningPage`): the reply of `LoadPreset` that
  arrives after a discovery (`app.js:235`) fills in values that were validated
  against the capabilities of before; `docs/project-guidelines.md:66` asks for
  validation against the current discovery. The same happens to values entered
  when the form is sent between a discovery and its reply; there is no third way
  (`ValuesAreStaleInTwoWays`) as long as the replies of two discoveries do not
  overtake each other. The page has two buttons for a discovery, each of which
  disables only itself; `operationMu` orders the discoveries, but not their
  replies on the way to the page, and `PlanningPage` has one of them at a time.
* `DefaultsRespectConfiguration` (`PlanningPage`): a plan of defaults uses a
  default that the installed configuration rules out (`planning.go:240`), which
  `docs/project-guidelines.md:58` wants excluded.
* `FixedScaleIsLeftAlone` (`PlanningPage`): a scale that the server publishes as
  not editable, without bounds, is made editable together with getting them
  (`capabilities/parser.go:252`), so that it is offered and plans set it; the
  same line of the guidelines excludes "non-editable" entries. `IsControl`, by
  which `PlanRespectsServer` says what a control of a job is, makes an exception
  for it.

What a PASS proves is weaker than its mode's name in four ways. They are the
exceptions in `PassMeansModeHappened` and `PassMeansSettingsTook`; TLC reaches
each of them:

* RIP: `hasRaster` accepts "num pages" (`evaluate.go:121`), which a server may
  report before any RIP, so that a RIP that left no raster passes;
* Print: a failed job has the status "done printing"; when the requests that
  show its state fail, the status alone counts as printed (`evaluate.go:70`);
* Cancel: a noted request, or a job that the server has aborted by itself, counts
  as cancelled (`evaluate.go:108`), whatever became of the job;
* settings: one that the readback does not report counts as taken when it is the
  discovered default (`attributes.go:100`), also when the request that reports it
  failed.

Without a formula, seen while translating: the random strategy without numeric
ranges but with constraint dependencies takes the first cases of the ordered
product (`planning.go:145-160`); a positive pairwise plan loses the valid pairs
that only dropped rows covered (`README.md:10` promises pairwise coverage); a
custom page range is dropped from a preset without a word where the server has
no such value; the input of a published `EFCopies` goes to the numeric inputs
(`app.js:170`), which planning does not read for copies; a job-specific HTTP 400
turns the constraint check off for the session (`client.go:573`, against
`docs/project-guidelines.md:77`); exclusions that an installable option
publishes toward a job property are not considered (`capabilities/parser.go:330`).

And met while proving `PlansRespectServer`, whose formula says as much: a number
that is typed is held against the bounds, not against the values that the
installed configuration rules out; copies are held against the maximum of the
application, not against the bounds of the server; copies or a scale that the
server publishes as hidden are left out, and come back as those that the
application adds (`parser.go:576-631`).

## The proofs

TLAPS checks the theorems for every value of the constants. Each module with
proofs establishes one inductive invariant by one lemma per action and derives
the properties from it. TLC checked each of these invariants on the instances
of the runs before it was proved.

`EventQueueProofs` (any sets of events, any number of publishers). The theorems
are about `QueueSpec`, the queue without the bound on what is published;
`BoundedIsUnbounded` says that the checked specification is a part of it.
`TypeCorrect`; `WakeupNeverLost`, which is inductive by itself;
`CriticalNeverLost`, whose argument is that the sequence delivered + offered +
queued (`Trail`) is numbered without a gap: a snapshot repeats the number of
its predecessor, a critical event adds one and equals the event of that number
in the log, coalescing exchanges two snapshots of which nothing follows, and
the dispatcher only moves entries within the trail; `StreamEndsComplete`,
because the dispatcher returns only when nothing is queued or offered; and
`QueueImplementsFeed`, the safety part of the refinement: every step of the
queue is a step of `EventFeed` or a stutter under `seen <- LastNo(delivered)`.

`RunnerProofs` (any finite set of workers, any number of cases). Three layers:

* `RunInvariant` establishes `RunInv`. `ReportedOnce` alone is not inductive: a
  worker may report a case only if nobody has done so, and that follows from
  `CasesAccounted`: the cases handed over, `1..next-1`, are the disjoint union
  of those that some worker holds and has not reported and those in the log.
  `WorkersFollowRun` says where workers may be for each position of the run
  goroutine, so that after the wait for them nobody holds a case; with
  `next = Planned + 1` unless cancelled this gives `CompletedMeansAll`;
  `TerminalPublished` places the terminal event. `CasesReportedOnce`,
  `CompletedRunsReportAll` and `TerminalComesLast` follow.
* `RunUsesQueue`: every step of a run is a step of its queue or leaves the queue
  alone. Publishing is spread over the actions of the run goroutine and the
  workers; the proof shows that all of them together are publishers of
  `EventQueue`, and that each waits for its own notification. The theorems about
  the queue then hold of every run: `RunLosesNoWakeup`, `RunLosesNoEvent`,
  `RunImplementsFeed`.
* `AccountInvariant`: the counters are `Tally`, the results in the log plus those
  counted and not yet published, by verdict; without a storage error the stored
  cases are those reported and those that a worker has stored and not yet
  reported; from the moment the terminal event is filled in it equals both. In
  between, the counters of the progress and the results published so far
  disagree, which is why the property needs the workers that are at the step
  between `Count` and `PublishResult`. `TerminalCountIsExact`, `ReportedIsStored`
  and `TypeCorrect` follow.

`WorkspaceProofs` (any number of callers, servers, restarts):
`WorkspaceInvariant` establishes `TypeOK`, `LockInv` (operationMu is held by
the one caller in a locked method, by nobody while a run is under way),
`StepInv`, `TargetInv` (a locked call works on the active server and its
session is one of its target) and `EvidenceInv` (what is known is known of the
active server, or of the one before it while `ApplyConnection` has not
forgotten it). The last is needed because `ApplyConnection` changes the server
and forgets in two steps. `TypeCorrect` and four safety theorems follow.

`RunSlotProofs` (any number of starters, runs and results, any length of the
list). `SlotInvariant`: `LockInv` and `WorkInv` say that a run at work is shown
as Running, or its start has not published it yet and holds operationMu, so that
the check of `StartAutomation` cannot miss it (`OneRun`). `InOrder` says what is
on its way: results in order, then the terminal event, and what has arrived
(`Got`) and what is on its way (`Pending`) are together what was reported. The
list is the last part of what has arrived (`LatestResultsShown`).
`ExportsOnlyClosedFiles` needs that the terminal status is only seen after the
recorder was closed, although the summary is written later. `ShutdownWaits`
holds of the run that `Shutdown` looked at.

`AdministrationProofs` (any finite set of jobs, any page length):
`AdministrationInvariant` says that a reply belongs to the request the call is
at and carries what was true at the server since the confirmation, whatever
other users did between the server's answer and its arrival: with a total the
total, without one the length of the list, unless the list was longer than a
page, and then that length is the page's. From it `DestructionIsChecked` and
`ReportsAreTrue`. That a page of no jobs is the list of an empty server, with or
without a total, is why a verified clear needs no exception: pages are not empty
while there are jobs (`PageLimitAssumption`).

`PresetStoreProofs` (any number of callers, names, presets): `StoreInvariant`
relates the file, the backup and the temporary file at each step of the
fallback as long as calls have not overlapped (`settled`): a file that is there
holds what was saved, or the change under way while only tidying up is left; a
file that is away is whole in the backup. `SavedPresetsAreKept` follows, and the
action property `OnePresetChanges`: no call changes a preset other than its own.
Calls that overlap are the finding `SavesAreAtomic`.

`JobCaseProofs`. The model has no constants and TLC visits every state; the
proof is the reason why the verdicts are what they are. `CaseInvariant` has two
halves. What is on the server: for each step which actions are done and what
they did to the job, unless something went wrong with it (`flawed`) or somebody
cancelled it (`PathInv`, `EarlyInv`, `StageInv`, `FlawInv`, `DoneInv`). What has
been read (`ReadInv`, `JudgeInv`, `VerdictInv`): the job goes only forward
(`Goes`), so an attribute that was read at an earlier moment, or beside one from
another moment, was true of the job between the first reply (`Reached`) and now,
and one that is missing says nothing. Whatever a verdict rests on must therefore
be evidence that does not go away, and where the code accepts other evidence, or
the lack of it, the theorems have their exceptions. `PassIsEarned`,
`PassedSettingsTook`, `PassedTestRejects`, `FailIsEarned`, `DisposableJobsGo`.

`FailIsEarned` is about where a FAIL comes from. Its cause is in the server or
the settings (`ServerOrSettings`): the job was spoilt by the server or another
user, the page range does not fit or there is no page count, the settings
conflict or do not where they should, or the last successful attempt shows them
not taken yet. Or, in a positive case only, replies were lost in the readback
(`RepliesLost`): what is judged is from before an attempt that failed, or lacks
what makes the case fail. A run that is cancelled, a wait that runs out of time,
a request or reply lost anywhere else, and a readback that reads nothing are
never the cause.

`PlanningPageProofs` has four parts.

* The latch (any number of workers, any order of checks and late replies):
  `LatchInvariant` and from it `LatchStaysSettled`. What is needed beyond the
  types is `ProbeKnowsNothing`: a worker that passed the first look waits for the
  mutex with old knowledge, but whoever holds the mutex and has looked again
  knows that nothing is settled, and nobody else can settle it meanwhile.
  `LatchSpec` lets every worker ask at any time; `RunUsesLatch` shows that the
  runs the page starts are some of its behaviours, hence `RunSettlesOnce`.
* What is offered, of any snapshot: `Menus` (the values of a menu are published,
  for a control of jobs, and not ruled out by the configuration, whatever the
  steps of `FromSnapshot` did to the list) and `OneNamePerProperty` (of two names
  of one property at most one is left, because `preferJobProperty` never prefers
  each to the other).
* The page (any snapshots, any inputs, any order of replies): `PageInvariant`.
  A form records from which discoveries its values are (`for`), and every menu
  value in it was offered by one of them (`SelectionsAreOffered`): entering,
  loading, resetting and discovering keep that. Only a loaded preset brings
  values of another discovery than the one shown, and what is shown is what the
  service has, unless a reply is on its way. So values can be stale in two ways
  only (`ValuesAreStaleInTwoWays`, `PlannedValuesAreCurrent`), and TLC reaches
  both when either hypothesis is dropped. `PlansAreOfTheirRequest`: the plan is
  made for the capabilities that the service has then, although they and the
  form may change while the call waits. `PresetsPlanTheSame` (`PresetPlansSame`):
  a preset that comes back with nothing skipped has the inputs it was saved from,
  up to what planning does not read, and planning does the same with both
  (`AgreeOnPlans`); for pages it rests on `CompactReadsBack`, that the compact
  text of a set of pages is read as that set.
* Plans (any model, any inputs, any limits, any choice of the random source).
  `PageInv` says that the plan is one of `BuildPlan` of a form with its types,
  so `PlanIsComplete` and `PlanRespectsServer` are statements about one model
  and one input. They are proved bottom up. Lists: `FilterKeeps`,
  `AscendingSorts`. Generators: `CartesianRows` (every row over the axes once,
  or as many as the limit), `PairwiseRows` (rows over all axes, each once and
  within the limit; all pairs of values if there are fewer rows than the limit),
  `RandomRows`, together `GeneratedRows`. The invariant of the pairwise rounds
  is `Covering`: a pair is still open exactly if no row has it, and each round
  of the vertical growth adds a row for one, unless none is open or the limit is
  reached, so that as many rounds as the limit are enough. Axes:
  `AxesHaveOrigins`, every value of an axis comes from a menu, from a number or
  a page range that was typed and is read, or from a default. Filter:
  `FilteredPlan`, `PlanIs`. From these `PlansAreComplete`, which needs that the
  limit of the candidates is the maximum whenever constraints can take cases
  away (`WithoutDependencies`); and `PlansRespectServer`, which leads each
  origin back to what the server published (`OwnOptions`, `AddedOptions`,
  `ConfigurationRulesOut`, `ConflictsAreExclusions`).

The loops of the code are recursive functions here, and are proved by induction
over the number of their rounds. The induction theorems of the library take an
operator as a parameter, which the provers cannot instantiate; `SetInduction`
says the same of a set of numbers, and follows from the well-foundedness of `<`.
That such a function exists, and so obeys its equation, is a lemma for each
(`FilterUnfolds`, `ProductUnfolds`, `HorizontalUnfolds`, ...).

Assumptions. They are the named ASSUMEs of the modules, and TLC evaluates them
in the runs. Bounds and limits are numbers and "none" or "nobody" is not a server
or caller; progress snapshots are events; there are finitely many workers, at
least one (`EffectiveWorkerCount` returns a positive number), and finitely many
jobs at a server. A snapshot consists of published properties with finitely many
values, as the parser makes them, an exclusion is published by the property it
is about, and the page values it names are none that an operator makes up
(`SnapshotAssumption`); the operator enters finitely many values
(`InputAssumption`). Of the tables of the code: identifiers, and those of the
preferred suite, are listed once, and copies are not in it
(`PropertyAssumption`); no other property shares a name with copies or with scale
(`AliasAssumption`, `optionAlias`); the scale that the application adds has
bounds, and its default is on their grid (`ScaleAssumption`); the default limit
is within the maximum (`LimitAssumption`). Nothing is assumed of what a server
publishes beyond its types, nor of when replies arrive.

Only model-checked, since it is out of reach of this prover: liveness under
fairness (`FeedFairSpec`, `RunEnds`, `ConsumerGetsTerminal`, `RunsFinish`,
`CaseEnds`, `CallsEnd`). Of `FeedFairSpec` the safety part is proved
(`QueueImplementsFeed`). Every invariant of the passing runs is proved.

## What is not modelled

* Logs, wording, redaction, layout, formatting: no property is about them.
* Of the capability parser the decoding of JSON, and the tables of names,
  labels, categories and diagnostics.
* Of the value parsers the splitting of texts, and the precision of decimals.
* Of the client: URLs, headers, decoding, and the second import on v4 when the
  reply of v5 is lost, about which the repository promises nothing.
* Attribute matching: the comparison of texts. `JobCase` has its verdict and the
  rule for attributes that are not reported; all settings of a case are reported
  and taken together.
* The workbook export: it copies a closed result file into a format.
* The dialogs, the toolkit and the frontend other than the automation page: the
  environment. The service has to be right in whatever order it is called.
* The result comparison tool and the readback probe: sequential programs
  outside the application.
* `monitoring.go`: its `GenerationGuard`, which would prevent the first
  finding, is not used by the service at this commit.
* Crashes: only presets and result files are persistent. A crash in a run loses
  the buffered results and the repository promises nothing about that; a crash
  in a change of the presets is in `PresetStore`, except that of the computer.

## The plan

Done: `EventFeed`, `EventQueue`, `Runner`, `Workspace`, `RunSlot`, `JobCase`,
`Administration`, `PresetStore`, `ConstraintCheck`, `Lists`, `Values`,
`Combinations`, `Planning`, `PresetMapping`, `Capabilities`, `PlanningPage`; and
the proofs of every safety property of the runs.

What could follow:

1. In `RunSlot`, that its runner and events are those of `Runner` (a refinement
   in place of the correspondence that the module describes).
2. The fallback of imports to v4 with lost replies, and attribute matching as
   operators with a reference definition.
3. A reference definition of sampling: which cases a random plan may consist of
   is a choice here, so that nothing is said of how evenly they are drawn.
