------------------------------- MODULE JobCase -------------------------------
(***************************************************************************)
(* One case of a run (internal/application/runner.go, executeJob): a       *)
(* worker imports a file, waits until the server has spooled it, applies   *)
(* the settings of the case or tests a constraint, takes the job through   *)
(* the lifecycle of the run mode (lifecycle.go), reads the attributes back *)
(* and settles on a verdict (joboutcome/evaluate.go).  Meanwhile the       *)
(* server works on the job, another user of the server may cancel or       *)
(* delete it, requests and replies get lost, timers run out and the run    *)
(* may be cancelled.                                                       *)
(*                                                                         *)
(* Abstractions.  The attributes of a job come in groups: its status; its  *)
(* state with the errors, the last event and the "is ...?" flags; single   *)
(* pieces of evidence (Evidence); the settings of the case, as one value.  *)
(* A reading has each of them as it was at some moment of the reading, or  *)
(* not at all: the requests that GetJobAttributes merges fail one by one.  *)
(* The texts of status and state are the stage they belong to; the stages  *)
(* report what the tests of the repository show: a failed job has the      *)
(* status "done printing" and the state "process error" or "process        *)
(* canceled" (joboutcome/evaluate_test.go:18-41), a job cancelled after    *)
(* its processing has the status "cancelled"                               *)
(* (application/lifecycle_test.go:57).  Of the evidence a reading keeps    *)
(* what the code looks at next.  A poll reads the job at one moment: its   *)
(* conditions ask for evidence that does not go away, so a mixture shows   *)
(* no more than a part of one of its moments.  The settings a job comes    *)
(* with are not the wanted ones; those that a reading lacks are missing in *)
(* the replies or left out by the server.  A request tried on both API     *)
(* versions is one request.  A timer may run out at any poll.  RIP and     *)
(* Process and Hold are one mode.                                          *)
(* The case of a constraint plan without a local conflict is left out:     *)
(* BuildPlan keeps only combinations in which the same test finds one.     *)
(***************************************************************************)
EXTENDS Sequences

VARIABLES
  case,       \* what is to be tested, and what the server makes of it
  cancelled,  \* ctx is done
  step,       \* where the worker stands
  todo,       \* the actions of the mode still to be done
  first,      \* the job as the first replies of a GetJobAttributes show it
  actual,     \* the attributes last read by ReadBackAttributes, or those of a FAIL
  old,        \* history: they are from before an attempt that has failed
  verdict,    \* result.Result, final when the case is done
  job,        \* the job on the server
  flawed      \* the server or another user has spoilt the job

serverVars == <<job, flawed>>
readVars == <<first, actual, old>>
vars == <<case, cancelled, step, todo, readVars, verdict, serverVars>>

Mode ==
  {"hold", "rip", "press-print", "ready-to-print", "print", "delete",
   "cancel-ripping", "cancel-waiting", "cancel-printing"}

CancelMode == {"cancel-ripping", "cancel-waiting", "cancel-printing"}

Actions(mode) ==
  CASE mode = "rip" -> <<"rip">>
    [] mode = "ready-to-print" -> <<"rip", "production">>
    [] mode = "press-print" -> <<"rip", "production", "press_print">>
    [] mode = "print" -> <<"rip", "production", "press_print", "print">>
    [] mode = "cancel-ripping" -> <<"cancel_ripping">>
    [] mode = "cancel-waiting" -> <<"rip", "production", "cancel_waiting">>
    [] mode = "cancel-printing" -> <<"rip", "production", "press_print", "cancel_printing">>
    [] OTHER -> <<>>

Action ==
  {"rip", "production", "press_print", "print",
   "cancel_ripping", "cancel_waiting", "cancel_printing"}

(* mode and intent, whether there are settings; then what the server makes *)
(* of them: whether a custom page range fits the file, whether all         *)
(* settings are the discovered defaults, whether they conflict.            *)
(* StartAutomation runs constraint tests in Hold only.                     *)
Case ==
  {c \in [mode : Mode, intent : {"positive", "validation", "controlled_apply"},
          settings : BOOLEAN, range : {"none", "fits", "exceeds"},
          default : BOOLEAN, conflict : BOOLEAN] :
     /\ ~c.settings => c.range = "none" /\ ~c.default /\ ~c.conflict
     /\ c.default => c.range = "none" /\ c.intent = "positive"
     /\ c.intent # "positive" => c.mode = "hold" /\ c.settings}

Stage ==
  {"absent", "spooling", "spooled", "ripping", "ripped", "waiting", "printing",
   "printed", "failed", "processCanceled", "canceled", "deleted"}

Setting == {"initial", "pending", "wanted", "refused"}

(* raster: what the RIP has left; stopped: the job was cancelled, or the   *)
(* server has aborted its processing; noted: its recent action is a        *)
(* cancellation.                                                           *)
Job ==
  [stage : Stage, released : BOOLEAN, raster : {"none", "empty", "made"}, printed : BOOLEAN,
   stopped : {"no", "aborted", "canceled"}, noted : BOOLEAN, setting : Setting]

NoJob ==
  [stage |-> "absent", released |-> FALSE, raster |-> "none", printed |-> FALSE,
   stopped |-> "no", noted |-> FALSE, setting |-> "initial"]

(* What a job reports besides its status, its state and its settings; the  *)
(* counts of its pages only once it is spooled, and only if the server     *)
(* reports such counts.                                                    *)
Evidence(j) ==
  (IF j.released THEN {"released"} ELSE {})
    \cup (IF j.raster = "made" THEN {"raster"} ELSE {})
    \cup (IF j.printed THEN {"printed"} ELSE {})
    \cup (IF j.stopped = "canceled" THEN {"canceled"} ELSE {})
    \cup (IF j.noted THEN {"noted"} ELSE {})

PageCounts == {"original pages", "num pages"}

Counts(j) == IF j.stage \in {"absent", "spooling"} THEN {} ELSE PageCounts

AnyEvidence == {"released", "raster", "printed", "canceled", "noted"} \cup PageCounts

Reading ==
  [status : Stage \cup {"unknown"}, state : Stage \cup {"unknown"},
   shown : SUBSET AnyEvidence, setting : Setting \cup {"missing"}]

NoRead == [status |-> "unread", state |-> "unread", shown |-> {}, setting |-> "unread"]

(* What may be read of a job that is a at the first replies and b at the   *)
(* last: of the evidence, what is looked at.                               *)
Merged(a, b, looked) ==
  [status : {a.stage, b.stage, "unknown"}, state : {a.stage, b.stage, "unknown"},
   shown : SUBSET ((Evidence(a) \cup Evidence(b) \cup Counts(b)) \cap looked),
   setting : IF case.settings THEN {a.setting, b.setting, "missing"} ELSE {"missing"}]

TypeOK ==
  /\ case \in Case
  /\ cancelled \in BOOLEAN
  /\ step \in {"import", "visible", "spool", "preset", "constraint", "check",
               "update", "send", "await", "ready", "cancel", "acknowledge",
               "readback", "merging", "compare", "delete", "cleanup", "done"}
  /\ todo \in Seq(Action)
  /\ first \in Job
  /\ actual \in Reading \cup {NoRead}
  /\ old \in BOOLEAN
  /\ verdict \in {"none", "PASS", "FAIL", "ERROR"}
  /\ job \in Job
  /\ flawed \in BOOLEAN

Init ==
  /\ case \in Case
  /\ cancelled = FALSE
  /\ step = "import"
  /\ todo = Actions(case.mode)
  /\ first = NoJob
  /\ actual = NoRead
  /\ old = FALSE
  /\ verdict = "none"
  /\ job = NoJob
  /\ flawed = FALSE

-----------------------------------------------------------------------------
(* What the code sees in a reading r.                                      *)

In(r, stages) == r.status \in stages \/ r.state \in stages

(* The stages whose status is "done printing".                             *)
DonePrinting == {"printed", "failed", "processCanceled"}

ActivelyProcessing(r) == In(r, {"ripping", "printing"})
PrintCompleted(r) == "printed" \in r.shown \/ r.status \in DonePrinting
PressPrintAccepted(r) ==
  \/ r.status \in {"waiting", "printing"} \cup DonePrinting
  \/ r.state \in {"waiting", "printing"}
WaitingToPrint(r) ==
  \/ In(r, {"waiting"})
  \/ "released" \in r.shown /\ ~ActivelyProcessing(r) /\ ~PrintCompleted(r)
CancelObserved(r) ==
  \/ r.status = "canceled" \/ r.state = "processCanceled" \/ "noted" \in r.shown
  \/ /\ ~ActivelyProcessing(r) /\ ~WaitingToPrint(r)
     /\ {r.status, r.state} # {"unknown"}
     /\ r.status \notin DonePrinting /\ r.state # "printed"

(* joboutcome.Evaluate with the empty policy.                              *)
NoFailure(r) == r.state \notin {"failed", "processCanceled"}

HasRaster(r) == r.shown \cap {"raster", "num pages"} # {}

CancellationObserved(r) ==
  \/ r.shown \cap {"canceled", "noted"} # {}
  \/ r.status = "canceled" \/ r.state = "processCanceled"

(* Fault: only the empty policy is applied.                                *)
OutcomePassesAlways(r) == NoFailure(r)

(* joboutcome.Evaluate with LifecyclePolicy(mode).                         *)
OutcomePasses(r) ==
  CASE case.mode \in CancelMode -> CancellationObserved(r)
    [] case.mode = "rip" ->
         NoFailure(r) /\ r.status = "ripped" /\ r.state = "ripped" /\ HasRaster(r)
    [] case.mode = "print" -> NoFailure(r) /\ PrintCompleted(r)
    [] OTHER -> NoFailure(r)

(* A setting that is not reported matches when the default is wanted.      *)
SettingsMatch(r) ==
  case.settings => r.setting = "wanted" \/ (case.default /\ r.setting = "missing")

(* The evidence OutcomePasses looks at.                                    *)
Decisive ==
  CASE case.mode \in CancelMode -> {"canceled", "noted"}
    [] case.mode = "rip" -> {"raster", "num pages"}
    [] case.mode = "print" -> {"printed"}
    [] OTHER -> {}

-----------------------------------------------------------------------------
(* The server and its other users.                                         *)

Visible(j) == j.stage \notin {"absent", "deleted"}

Finish(v) == step' = "done" /\ verdict' = v
GoTo(s) == step' = s /\ UNCHANGED verdict

CancelableOnServer(j) ==
  j.stage \in {"waiting", "printing"} \/ (j.stage = "ripped" /\ j.released)

(* What a request does to a job that the server has.                       *)
Effect(request, j) ==
  CASE request = "rip" /\ j.stage = "spooled" -> [j EXCEPT !.stage = "ripping"]
    [] request = "production" /\ Visible(j) -> [j EXCEPT !.released = TRUE]
    [] request = "print" /\ j.stage \in {"ripped", "printed"} -> [j EXCEPT !.stage = "waiting"]
    [] request = "cancel" /\ j.stage = "ripping" ->
         [j EXCEPT !.stage = "processCanceled", !.stopped = "canceled"]
    [] request = "cancel" /\ CancelableOnServer(j) ->
         [j EXCEPT !.stage = "canceled", !.stopped = "canceled"]
    [] request = "delete" /\ Visible(j) -> [j EXCEPT !.stage = "deleted"]
    [] request = "settings" /\ Visible(j) -> [j EXCEPT !.setting = "pending"]
    [] OTHER -> j

(* The server may note a cancellation as the recent action, too, whether   *)
(* it cancels anything or not.                                             *)
Noted(request, j) ==
  IF request = "cancel" /\ Visible(j) THEN {j, [j EXCEPT !.noted = TRUE]} ELSE {j}

Outcomes(request, j) == Noted(request, Effect(request, j))

Become(stage) == job' = [job EXCEPT !.stage = stage] /\ UNCHANGED flawed
Fail(stage) == job' = [job EXCEPT !.stage = stage] /\ flawed' = TRUE

Spool == job.stage = "spooling" /\ (Become("spooled") \/ Fail("failed"))

Rip ==
  /\ job.stage = "ripping"
  /\ \/ job' = [job EXCEPT !.stage = "ripped", !.raster = "made"] /\ UNCHANGED flawed
     \/ job' = [job EXCEPT !.stage = "ripped", !.raster = "empty"] /\ flawed' = TRUE
     \/ job' = [job EXCEPT !.stage = "processCanceled", !.stopped = "aborted"] /\ flawed' = TRUE
     \/ Fail("failed")

(* A released job may start to print on its own.                           *)
Queue ==
  \/ job.stage = "ripped" /\ job.released /\ Become("waiting")
  \/ job.stage = "waiting" /\ Become("printing")

PrintJob ==
  /\ job.stage = "printing"
  /\ \/ job' = [job EXCEPT !.stage = "printed", !.printed = TRUE] /\ UNCHANGED flawed
     \/ Fail("failed")

TakeSettings ==
  /\ job.setting = "pending"
  /\ \/ job' = [job EXCEPT !.setting = "wanted"] /\ UNCHANGED flawed
     \/ job' = [job EXCEPT !.setting = "refused"] /\ flawed' = TRUE

Intervene ==
  /\ \E request \in {"cancel", "delete"} :
       Effect(request, job) # job /\ job' \in Outcomes(request, job)
  /\ flawed' = TRUE

ServerStep ==
  /\ step # "done"
  /\ Spool \/ Rip \/ Queue \/ PrintJob \/ TakeSettings \/ Intervene
  /\ UNCHANGED <<case, cancelled, step, todo, readVars, verdict>>

(* The run is cancelled or the application shuts down.                     *)
Cancel ==
  /\ ~cancelled /\ step # "done"
  /\ cancelled' = TRUE
  /\ UNCHANGED <<case, step, todo, readVars, verdict, serverVars>>

(* The server accepts a request; one that it then ignores is its flaw.     *)
Accepted(request) ==
  /\ ~cancelled /\ Visible(job)
  /\ job' \in Outcomes(request, job)
  /\ flawed' = (flawed \/ Effect(request, job) = job)

(* The caller gets an error, whether the request took effect or not.       *)
Refused(request) ==
  /\ job' \in {job} \cup (IF cancelled THEN {} ELSE Outcomes(request, job))
  /\ UNCHANGED flawed

(* What one poll of WaitJobCondition may read.                             *)
Poll(looked) == IF cancelled \/ ~Visible(job) THEN {} ELSE Merged(job, job, looked)

-----------------------------------------------------------------------------
(* Import, and the wait for the spooled job.                               *)

Import ==
  /\ step = "import"
  /\ UNCHANGED <<case, cancelled, todo, readVars, flawed>>
  /\ \/ ~cancelled /\ job' = [job EXCEPT !.stage = "spooling"] /\ GoTo("visible")
     \/ /\ job' \in {job} \cup (IF cancelled THEN {} ELSE {[job EXCEPT !.stage = "spooling"]})
        /\ Finish("ERROR")

AwaitVisible ==
  /\ step = "visible"
  /\ Poll({}) # {}
  /\ GoTo("spool")
  /\ UNCHANGED <<case, cancelled, todo, readVars, serverVars>>

(* The first step of the lifecycle, or the readback when nothing is left.  *)
FirstStep(actions) ==
  CASE actions = <<>> -> "readback"
    [] actions # <<>> /\ Head(actions) = "cancel_waiting" -> "ready"
    [] OTHER -> "send"

(* Settings with published constraints are checked before they are sent.   *)
StepsAfterPreset ==
  CASE case.intent # "positive" -> {"constraint"}
    [] case.intent = "positive" /\ case.settings -> {"check", "update"}
    [] OTHER -> {FirstStep(todo)}

(* A validation run has no server preset.                                  *)
StepsAfterSpooling ==
  StepsAfterPreset \cup (IF case.intent = "validation" THEN {} ELSE {"preset"})

(* ValidateCustomPageRange: the page count may be missing in the reading.  *)
PageRangeValid(r) ==
  case.range = "none" \/ (case.range = "fits" /\ r.shown \cap PageCounts # {})

AwaitSpooled ==
  /\ step = "spool"
  /\ \E r \in Poll(PageCounts) :
       /\ r.status = "spooled" \/ ~NoFailure(r)
       /\ IF NoFailure(r) /\ PageRangeValid(r)
          THEN UNCHANGED actual /\ \E next \in StepsAfterSpooling : GoTo(next)
          ELSE Finish("FAIL") /\ actual' = r
  /\ UNCHANGED <<case, cancelled, todo, first, old, serverVars>>

ApplyPreset ==
  /\ step = "preset"
  /\ \/ ~cancelled /\ Visible(job) /\ \E next \in StepsAfterPreset : GoTo(next)
     \/ Finish("ERROR")
  /\ UNCHANGED <<case, cancelled, todo, readVars, serverVars>>

(* The endpoint is asked, is unsupported or does not answer (no error), or *)
(* its reply cannot be read.                                               *)
CheckConstraints ==
  /\ step = "check"
  /\ \/ ~cancelled /\ Visible(job) /\ (IF case.conflict THEN Finish("FAIL") ELSE GoTo("update"))
     \/ GoTo("update")
     \/ Finish("ERROR")
  /\ UNCHANGED <<case, cancelled, todo, readVars, serverVars>>

UpdateSettings ==
  /\ step = "update"
  /\ UNCHANGED <<case, cancelled, todo, readVars>>
  /\ \/ ~case.conflict /\ Accepted("settings") /\ GoTo(FirstStep(todo))
     \/ Refused(IF case.conflict THEN "nothing" ELSE "settings") /\ Finish("ERROR")

-----------------------------------------------------------------------------
(* executeConstraintCase.                                                  *)

Judge(v) == step' = "cleanup" /\ verdict' = v

(* Fault: any error of the update counts as the expected rejection.        *)
ApplyInvalidSettingsLaxly ==
  /\ step = "constraint" /\ case.intent = "controlled_apply"
  /\ UNCHANGED <<case, cancelled, todo, readVars>>
  /\ \/ ~case.conflict /\ Accepted("settings") /\ Judge("FAIL")
     \/ Refused(IF case.conflict THEN "nothing" ELSE "settings") /\ Judge("PASS")

ApplyInvalidSettings ==
  /\ step = "constraint" /\ case.intent = "controlled_apply"
  /\ UNCHANGED <<case, cancelled, todo, readVars>>
  /\ \/ ~case.conflict /\ Accepted("settings") /\ Judge("FAIL")
     \/ case.conflict /\ ~cancelled /\ Visible(job) /\ UNCHANGED serverVars /\ Judge("PASS")
     \/ Refused(IF case.conflict THEN "nothing" ELSE "settings") /\ Judge("ERROR")

ValidateInvalidSettings ==
  /\ step = "constraint" /\ case.intent = "validation"
  /\ \/ ~cancelled /\ Visible(job) /\ Judge(IF case.conflict THEN "PASS" ELSE "FAIL")
     \/ Judge("ERROR")
  /\ UNCHANGED <<case, cancelled, todo, readVars, serverVars>>

(* Fault: a failed deletion is ignored.                                    *)
CleanUpQuietly ==
  /\ step = "cleanup"
  /\ Accepted("delete") \/ Refused("delete")
  /\ Finish(verdict)
  /\ UNCHANGED <<case, cancelled, todo, readVars>>

CleanUp ==
  /\ step = "cleanup"
  /\ \/ Accepted("delete") /\ Finish(verdict)
     \/ Refused("delete") /\ Finish("ERROR")
  /\ UNCHANGED <<case, cancelled, todo, readVars>>

-----------------------------------------------------------------------------
(* ExecuteModeLifecycle and cancelDedicatedJob.                            *)

Request(action) ==
  CASE action \in {"rip", "cancel_ripping"} -> "rip"
    [] action \in {"press_print", "print", "cancel_printing"} -> "print"
    [] OTHER -> "production"

Cancels(action) == action \in {"cancel_ripping", "cancel_waiting", "cancel_printing"}

SendAction ==
  /\ step = "send"
  /\ \/ /\ Accepted(Request(Head(todo)))
        /\ GoTo(IF Cancels(Head(todo)) THEN "ready" ELSE "await")
     \/ Refused(Request(Head(todo))) /\ Finish("ERROR")
  /\ UNCHANGED <<case, cancelled, todo, readVars>>

(* recent: the recent action, if that is the request just accepted.        *)
ActionDone(action, r, recent) ==
  CASE action = "rip" -> r.status = "ripped" \/ ~NoFailure(r)
    [] action = "production" -> "released" \in r.shown
    [] action = "press_print" -> PressPrintAccepted(r) \/ recent = "press_print"
    [] OTHER -> PrintCompleted(r)

Proceed == todo' = Tail(todo) /\ GoTo(FirstStep(todo'))

AwaitAction ==
  /\ step = "await"
  /\ \E r \in Poll({"released", "printed"}), recent \in {"other", Head(todo)} :
       /\ ActionDone(Head(todo), r, recent)
       /\ IF Head(todo) = "rip" /\ ~NoFailure(r)
          THEN Finish("FAIL") /\ actual' = r /\ UNCHANGED todo
          ELSE Proceed /\ UNCHANGED actual
  /\ UNCHANGED <<case, cancelled, first, old, serverVars>>

CancelReady(action, r) ==
  CASE action = "cancel_ripping" -> In(r, {"ripping"})
    [] action = "cancel_waiting" -> WaitingToPrint(r)
    [] OTHER -> In(r, {"printing"})

AwaitCancelReady ==
  /\ step = "ready"
  /\ \E r \in Poll({"released", "printed"}) : CancelReady(Head(todo), r)
  /\ GoTo("cancel")
  /\ UNCHANGED <<case, cancelled, todo, readVars, serverVars>>

SendCancel ==
  /\ step = "cancel"
  /\ \/ Accepted("cancel") /\ GoTo("acknowledge")
     \/ Refused("cancel") /\ Finish("ERROR")
  /\ UNCHANGED <<case, cancelled, todo, readVars>>

AwaitCancelled ==
  /\ step = "acknowledge"
  /\ \E r \in Poll({"released", "printed", "noted"}) : CancelObserved(r)
  /\ Proceed
  /\ UNCHANGED <<case, cancelled, readVars, serverVars>>

Waiting == step \in {"visible", "spool", "await", "ready", "acknowledge"}

(* Fault: a wait that runs out of time is a failure of the server.         *)
WaitFailsCase ==
  /\ Waiting
  /\ Finish("FAIL")
  /\ UNCHANGED <<case, cancelled, todo, readVars, serverVars>>

(* Fault: a cancelled wait has a verdict of its own.                       *)
WaitIsCancelled ==
  /\ Waiting
  /\ Finish(IF cancelled THEN "CANCELLED" ELSE "ERROR")
  /\ UNCHANGED <<case, cancelled, todo, readVars, serverVars>>

(* The timer of WaitJobCondition runs out, or ctx is done.                 *)
WaitEnds ==
  /\ Waiting
  /\ Finish("ERROR")
  /\ UNCHANGED <<case, cancelled, todo, readVars, serverVars>>

-----------------------------------------------------------------------------
(* ReadBackAttributes.  GetJobAttributes merges the replies to several     *)
(* requests: every attribute is as it was at one of them, or missing.  An  *)
(* attempt with one good reply succeeds; what was read before is given up. *)

BeginRead ==
  /\ step = "readback"
  /\ ~cancelled /\ Visible(job)
  /\ first' = job /\ actual' = NoRead /\ old' = FALSE
  /\ GoTo("merging")
  /\ UNCHANGED <<case, cancelled, todo, serverVars>>

EndRead ==
  /\ step = "merging"
  /\ actual' \in Merged(first, IF cancelled \/ ~Visible(job) THEN first ELSE job, Decisive)
  /\ first' = NoJob
  /\ GoTo("compare")
  /\ UNCHANGED <<case, cancelled, todo, old, serverVars>>

(* No reply can be read; what an earlier attempt has read is kept.         *)
ReadFails ==
  /\ step = "readback"
  /\ old' = (actual # NoRead)
  /\ GoTo("compare")
  /\ UNCHANGED <<case, cancelled, todo, first, actual, serverVars>>

(* Fault: only the lifecycle is judged.                                    *)
SettleLifecycleOnly(read) ==
  /\ actual' = read
  /\ IF read # NoRead /\ OutcomePasses(read) THEN Finish("PASS")
     ELSE IF read # NoRead THEN Finish("FAIL")
     ELSE Finish("ERROR")

(* The end of executeJob, or of the readback before a deletion; read is    *)
(* NoRead when ReadBackAttributes returns an error.                        *)
Settle(read) ==
  /\ actual' = read
  /\ IF case.mode = "delete" THEN GoTo("delete")
     ELSE IF read = NoRead THEN Finish("ERROR")
     ELSE Finish(IF OutcomePasses(read) /\ SettingsMatch(read) THEN "PASS" ELSE "FAIL")

Matched == actual # NoRead /\ SettingsMatch(actual)

Accept ==
  /\ step = "compare"
  /\ Matched \/ ~case.settings
  /\ Settle(actual)
  /\ UNCHANGED <<case, cancelled, todo, first, old, serverVars>>

Retry ==
  /\ step = "compare"
  /\ ~Matched /\ case.settings
  /\ GoTo("readback")
  /\ UNCHANGED <<case, cancelled, todo, readVars, serverVars>>

(* Fault: the deadline is tested only after an attempt that could be read. *)
GiveUpAfterRead ==
  /\ step = "compare"
  /\ ~Matched /\ case.settings /\ actual # NoRead
  /\ Settle(IF cancelled THEN NoRead ELSE actual)
  /\ UNCHANGED <<case, cancelled, todo, first, old, serverVars>>

(* The deadline, or ctx is done; select takes either when both are.        *)
GiveUp ==
  /\ step = "compare"
  /\ ~Matched /\ case.settings
  /\ Settle(actual) \/ (cancelled /\ Settle(NoRead))
  /\ UNCHANGED <<case, cancelled, todo, first, old, serverVars>>

DeleteOwnJob ==
  /\ step = "delete"
  /\ \/ /\ Accepted("delete")
        /\ Finish(IF actual = NoRead THEN "ERROR"
                  ELSE IF SettingsMatch(actual) THEN "PASS" ELSE "FAIL")
     \/ Refused("delete") /\ Finish("ERROR")
  /\ UNCHANGED <<case, cancelled, todo, readVars>>

-----------------------------------------------------------------------------

Prepare ==
  \/ Import \/ AwaitVisible \/ AwaitSpooled \/ ApplyPreset
  \/ CheckConstraints \/ UpdateSettings

ConstraintTest == ApplyInvalidSettings \/ ValidateInvalidSettings \/ CleanUp

Lifecycle ==
  SendAction \/ AwaitAction \/ AwaitCancelReady \/ SendCancel \/ AwaitCancelled \/ WaitEnds

ReadBack ==
  BeginRead \/ EndRead \/ ReadFails \/ Accept \/ Retry \/ GiveUp \/ DeleteOwnJob

Worker == Prepare \/ ConstraintTest \/ Lifecycle \/ ReadBack

Next == Worker \/ ServerStep \/ Cancel

(* The goroutine runs, every request ends (the client times out), and a    *)
(* timer that has run out is chosen by select at one of the next polls.    *)
Fairness == WF_vars(Worker) /\ SF_vars(GiveUp)

Spec == Init /\ [][Next]_vars /\ Fairness

-----------------------------------------------------------------------------
(* Properties.                                                             *)

Result(v) == step = "done" /\ verdict = v

(* "done printing" without the state that tells a failure.                 *)
FailureHidden(r) == r.status \in {"failed", "processCanceled"} /\ r.state # r.status

(* A positive case passes only if what its mode promises has happened to   *)
(* the job on the server, whatever was lost, late or mixed in the readings *)
(* (LifecyclePolicy and Evaluate; docs/project-guidelines.md:75), with the *)
(* exceptions the evidence leaves open: an empty RIP counts when the       *)
(* server reports a number of pages, a failed job counts as printed when   *)
(* its state could not be read with its status, and a cancellation counts  *)
(* when the server has noted the request or has aborted the job itself.    *)
PassMeansModeHappened ==
  Result("PASS") /\ case.intent = "positive" =>
    /\ case.mode = "rip" =>
         job.raster = "made" \/ (job.raster = "empty" /\ "num pages" \in actual.shown)
    /\ case.mode \in {"ready-to-print", "press-print"} => job.released
    /\ case.mode = "print" => job.printed \/ FailureHidden(actual)
    /\ case.mode \in CancelMode => job.stopped # "no" \/ job.noted
    /\ case.mode = "delete" => job.stage = "deleted"

(* A positive case with settings passes only if the job has taken them, or *)
(* if they are the discovered defaults and the readback does not report    *)
(* them (AttributesMatch on what ReadBackAttributes returns, which may be  *)
(* an old reading or lack an attribute).                                   *)
PassMeansSettingsTook ==
  Result("PASS") /\ case.intent = "positive" /\ case.settings =>
    job.setting = "wanted" \/ (case.default /\ actual.setting = "missing")

(* A constraint case passes only if the server finds the conflict, and the *)
(* invalid settings never reached the job ("timeouts, unavailable          *)
(* endpoints, ... server failures, or cleanup failures are ERROR",         *)
(* docs/project-guidelines.md:78).                                         *)
PassMeansRejection ==
  Result("PASS") /\ case.intent # "positive" => case.conflict /\ job.setting = "initial"

(* The reading lacks an attribute of the job that OutcomePasses looks at.  *)
Incomplete(r) ==
  "unknown" \in {r.status, r.state} \/ ~(Evidence(job) \cap Decisive \subseteq r.shown)

(* The last attempt to read the attributes back has shown that the server  *)
(* has not taken the settings yet.                                         *)
SettingsNotTaken ==
  case.settings /\ ~old /\ actual.setting \in {"initial", "pending"}

(* The reading that fails the case is from before attempts that failed, or *)
(* lacks what makes it fail.                                               *)
RepliesLost ==
  \/ ~SettingsMatch(actual) /\ (old \/ actual.setting = "missing")
  \/ ~OutcomePasses(actual) /\ Incomplete(actual)

(* The server or the settings are to blame: the server or another user has *)
(* spoilt the job; the page range does not fit, or the spooled job shows   *)
(* no page count; the settings conflict in a positive case, or do not in a *)
(* constraint test; or they are not taken.                                 *)
ServerOrSettings ==
  \/ flawed
  \/ case.range = "exceeds"
  \/ case.range = "fits" /\ job.setting = "initial" /\ actual.shown \cap PageCounts = {}
  \/ case.conflict = (case.intent = "positive")
  \/ case.intent = "positive" /\ SettingsNotTaken

(* FAIL blames the server or the settings, or, in a positive case, rests   *)
(* on a readback that has lost replies: a cancelled run, a wait that runs  *)
(* out of time, a request or a reply lost before the readback, and a       *)
(* readback that reads nothing end in ERROR (executeJob, LifecycleFailure, *)
(* ReadBackAttributes).                                                    *)
FailHasCause ==
  Result("FAIL") => ServerOrSettings \/ (case.intent = "positive" /\ RepliesLost)

(* Not so without the exception: an attribute that is lost in the readback *)
(* counts as wrong, and so does an old reading.                            *)
LostRepliesAreNoFailure == Result("FAIL") => ServerOrSettings

(* The disposable job of a constraint case that came to a PASS or a FAIL   *)
(* has been deleted, unless the job or its page range failed before the    *)
(* test, which a FAIL reports with what was read (executeConstraintCase).  *)
DisposableJobsAreDeleted ==
  (Result("PASS") \/ Result("FAIL")) /\ case.intent # "positive" /\ actual = NoRead
    => job.stage = "deleted"

(* Every case comes to a verdict: no wait for a condition of the job is    *)
(* without its deadline (PollingPolicy).                                   *)
CaseEnds == <>(step = "done")

(* A job whose readback shows the lifecycle as passed is not cancelled     *)
(* ("Fiery job has no terminal error or cancellation state",               *)
(* internal/joboutcome/evaluate.go:80).                                    *)
PassedJobIsNotCanceled ==
  Result("PASS") /\ case.intent = "positive" /\ case.mode \notin CancelMode
    => actual.status # "canceled"
=============================================================================
