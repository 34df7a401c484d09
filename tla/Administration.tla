--------------------------- MODULE Administration ---------------------------
(***************************************************************************)
(* The calls that remove other people's work (internal/appwails/           *)
(* administration.go over application/administration.go and the Fiery      *)
(* client): InspectJobs takes the inventory of the server, ClearAllJobs    *)
(* removes every job after three confirmations and polls until the server  *)
(* is empty, ManageJob cancels or deletes one job.  Other users import,    *)
(* release and delete jobs all the while.                                  *)
(*                                                                         *)
(* Abstractions.  The calls hold operationMu from beginning to end, so one *)
(* runs at a time, and the server does not change under it: that, and the  *)
(* refusal while a run is on, is module Workspace, which also has          *)
(* ControlServer.  A call that finds its precondition unsatisfied returns  *)
(* an error and changes nothing; such calls are left out.  A request is    *)
(* served at one moment and its reply read at a later one; it may fail     *)
(* before the first or between the two.  A list is a page of the jobs, and *)
(* the server may leave out how many there are (totalItems), which the     *)
(* client then cannot compare.  The server may remove jobs one             *)
(* by one after it has accepted to clear them.  Identifiers of jobs are    *)
(* not used again.                                                         *)
(*                                                                         *)
(* Bound: the jobs that ever exist are the members of Job.                 *)
(***************************************************************************)
EXTENDS Naturals, FiniteSets

CONSTANTS
  Job,
  PageLimit  \* how many jobs the server lists in one reply

NoJob == "no job"

ASSUME JobAssumption == IsFiniteSet(Job) /\ NoJob \notin Job
ASSUME PageLimitAssumption == PageLimit \in Nat \ {0}

VARIABLES
  job,        \* the state of each job at the server
  purge,      \* the jobs an accepted clear has still to remove
  inventory,  \* AdministrationState: the count, and whether it is recent enough
  call,       \* the call that holds operationMu
  step,       \* where in the call it is
  target,     \* the job ManageJob is about
  shown,      \* the count in the confirmation dialog of ClearAllJobs
  expired,    \* the context of the call is done
  reply,      \* the reply of the server that the client has not read yet
  remaining,  \* outcome.Remaining of the last poll
  result,     \* how the last call ended
  seen        \* history: what was true at the server since a moment of the call

serverVars == <<job, purge>>
callVars == <<call, target, shown>>
vars == <<serverVars, inventory, callVars, step, expired, reply, remaining, result, seen>>

JobState == {"absent", "held", "active", "gone"}
Exists(j) == job[j] \in {"held", "active"}
Present == {j \in Job : Exists(j)}
Count == Cardinality(Present)

Request == {"listing", "revalidating", "clearing", "polling", "checking", "first", "second"}
Step == Request \cup {"idle", "dialog", "authenticating", "pausing"}
Listing == {"listing", "revalidating", "polling"}

NoReply == [kind |-> "none", items |-> 0, counted |-> FALSE, total |-> 0, active |-> FALSE]
Answer(kind) == [NoReply EXCEPT !.kind = kind]

NoInventory == [count |-> 0, fresh |-> FALSE]
Inspected(n) == [count |-> n, fresh |-> TRUE]

(* What is noted of the server during a call.                              *)
Noting ==
  IF step = "idle" THEN seen
  ELSE [seen EXCEPT !.counts = @ \cup {Cardinality(Present')},
                    !.active = @ \/ (target # NoJob /\ job'[target] = "active")]

(* The variables have their types, the dialog of a clear shows at least    *)
(* one job, a reply is there only while a request is, and the server       *)
(* removes only jobs that exist.                                           *)
TypeOK ==
  /\ job \in [Job -> JobState]
  /\ purge \subseteq Present
  /\ inventory \in [count : 0..Cardinality(Job), fresh : BOOLEAN]
  /\ call \in {"none", "InspectJobs", "ClearAllJobs", "cancel", "delete"}
  /\ step \in Step /\ (step = "idle" <=> call = "none")
  /\ target \in Job \cup {NoJob} /\ (target # NoJob <=> call \in {"cancel", "delete"})
  /\ shown \in 0..Cardinality(Job) /\ (call = "ClearAllJobs" => shown # 0)
  /\ expired \in BOOLEAN
  /\ reply \in [kind : {"none", "jobs", "ok", "refused", "attributes"},
                items : 0..Cardinality(Job), counted : BOOLEAN, total : 0..Cardinality(Job),
                active : BOOLEAN]
  /\ (reply # NoReply => step \in Request)
  /\ remaining \in 0..Cardinality(Job)
  /\ result \in {"none", "inspected", "cleared", "unverified", "acted", "failed", "declined"}
  /\ seen \in [counts : SUBSET (0..Cardinality(Job)), active : BOOLEAN, done : BOOLEAN,
               cut : BOOLEAN]

Init ==
  /\ job \in [Job -> {"absent", "held", "active"}]
  /\ purge = {}
  /\ inventory = NoInventory
  /\ call = "none" /\ step = "idle" /\ target = NoJob /\ shown = 0
  /\ expired = FALSE
  /\ reply = NoReply
  /\ remaining = 0
  /\ result = "none"
  /\ seen = [counts |-> {}, active |-> FALSE, done |-> FALSE, cut |-> FALSE]

-----------------------------------------------------------------------------
(* The server and its other users.                                         *)

Becomes(j, states, s) ==
  /\ job[j] \in states
  /\ job' = [job EXCEPT ![j] = s]
  /\ purge' = IF s = "gone" THEN purge \ {j} ELSE purge
  /\ seen' = Noting
  /\ UNCHANGED <<inventory, callVars, step, expired, reply, remaining, result>>

Import(j) == Becomes(j, {"absent"}, "held")
Release(j) == Becomes(j, {"held"}, "active")
Finish(j) == Becomes(j, {"active"}, "held")
Remove(j) == Becomes(j, {"held", "active"}, "gone")
Purge(j) == j \in purge /\ Remove(j)

-----------------------------------------------------------------------------
(* The shape of a call.                                                    *)

Begin(method, first) ==
  /\ step = "idle"
  /\ call' = method
  /\ step' = first
  /\ expired' = FALSE
  /\ result' = "none"
  /\ seen' = [counts |-> {Count}, active |-> FALSE, done |-> FALSE, cut |-> FALSE]
  /\ UNCHANGED <<serverVars, inventory, reply, remaining>>

(* The call returns and operationMu is released.                           *)
Return(how, recorded) ==
  /\ call' = "none" /\ step' = "idle" /\ target' = NoJob /\ shown' = 0
  /\ expired' = FALSE
  /\ reply' = NoReply
  /\ remaining' = 0
  /\ result' = how
  /\ inventory' = recorded
  /\ UNCHANGED <<serverVars, seen>>

Proceed(next) ==
  /\ step' = next
  /\ reply' = NoReply
  /\ UNCHANGED <<serverVars, inventory, callVars, expired, result>>

(* context.WithTimeout: 60 s, 90 s or 3 minutes after the confirmation.    *)
Expire ==
  /\ step \notin {"idle", "dialog"} /\ ~expired
  /\ expired' = TRUE
  /\ UNCHANGED <<serverVars, inventory, callVars, step, reply, remaining, result, seen>>

BeginInspection ==
  /\ Begin("InspectJobs", "authenticating")
  /\ UNCHANGED <<target, shown>>

(* The typed phrase and the lease of two minutes; the lease may run out    *)
(* while the dialog is open.                                               *)
ValidateClear == inventory.fresh /\ inventory.count # 0

BeginClearUnvalidated ==  \* Fault: the count of an expired inventory is offered
  /\ Begin("ClearAllJobs", "dialog")
  /\ shown' = inventory.count
  /\ UNCHANGED target

BeginClear ==
  /\ ValidateClear
  /\ Begin("ClearAllJobs", "dialog")
  /\ shown' = inventory.count
  /\ UNCHANGED target

BeginManageJob(j, action) ==
  /\ Begin(action, "dialog")
  /\ target' = j
  /\ UNCHANGED shown

Decline == step = "dialog" /\ Return("declined", inventory)

Confirm ==
  /\ step = "dialog"
  /\ step' = "authenticating"
  /\ seen' = [counts |-> {Count}, active |-> target # NoJob /\ job[target] = "active",
              done |-> FALSE, cut |-> FALSE]
  /\ UNCHANGED <<serverVars, inventory, callVars, expired, reply, remaining, result>>

FirstRequest ==
  CASE call = "InspectJobs" -> "listing"
    [] call = "ClearAllJobs" -> "revalidating"
    [] call = "cancel" -> "checking"
    [] call = "delete" -> "first"

Authenticate ==
  /\ step = "authenticating"
  /\ Proceed(FirstRequest)
  /\ UNCHANGED <<remaining, seen>>

FailAuthentication == step = "authenticating" /\ Return("failed", inventory)

-----------------------------------------------------------------------------
(* Requests at the server.                                                 *)

Serve(answer) == reply = NoReply /\ reply' = answer

PageLength == IF Count > PageLimit THEN PageLimit ELSE Count

(* A page of the jobs, and how many there are if the server says so in a   *)
(* way the client can parse.                                               *)
ServeList ==
  /\ step \in Listing
  /\ \E counted \in BOOLEAN :
       /\ Serve([Answer("jobs") EXCEPT !.items = PageLength, !.counted = counted,
                                       !.total = IF counted THEN Count ELSE 0])
       /\ seen' = [seen EXCEPT !.cut = @ \/ (~counted /\ Count > PageLimit)]
  /\ UNCHANGED <<serverVars, inventory, callVars, step, expired, remaining, result>>

ServeAttributes ==
  /\ step = "checking"
  /\ Serve(IF Exists(target)
           THEN [Answer("attributes") EXCEPT !.active = job[target] = "active"]
           ELSE Answer("refused"))
  /\ UNCHANGED <<serverVars, inventory, callVars, step, expired, remaining, result, seen>>

ServeClear ==
  /\ step = "clearing"
  /\ Serve(Answer("ok"))
  /\ purge' = Present
  /\ seen' = [seen EXCEPT !.counts = {Count}]
  /\ UNCHANGED <<job, inventory, callVars, step, expired, remaining, result>>

(* The server remains authoritative about what it cancels.                 *)
ServeAction ==
  /\ step \in {"first", "second"}
  /\ IF call = "cancel" THEN job[target] = "active" ELSE Exists(target)
  /\ Serve(Answer("ok"))
  /\ job' = [job EXCEPT ![target] = IF call = "cancel" THEN "held" ELSE "gone"]
  /\ purge' = IF call = "cancel" THEN purge ELSE purge \ {target}
  /\ seen' = [Noting EXCEPT !.done = TRUE]
  /\ UNCHANGED <<inventory, callVars, step, expired, remaining, result>>

(* An HTTP error, or a reply that says clear: false.                       *)
Refuse ==
  /\ step \in {"clearing", "first", "second"}
  /\ Serve(Answer("refused"))
  /\ UNCHANGED <<serverVars, inventory, callVars, step, expired, remaining, result, seen>>

-----------------------------------------------------------------------------
(* What the client makes of a reply.  ListJobs refuses a page that is not  *)
(* as long as the server says the list is; a page that comes without a     *)
(* total is taken for the whole list.                                      *)

AnyList == reply.kind = "jobs"  \* Fault: the length is not compared

WholeList == reply.kind = "jobs" /\ (reply.counted => reply.items = reply.total)

(* Any request may fail: an error status, a reply the client refuses, a    *)
(* connection that breaks, a context that is done.  The server may have    *)
(* carried it out all the same.                                            *)
Fails(request) == step = request

ReadInventory ==
  /\ step = "listing" /\ WholeList
  /\ Return("inspected", Inspected(reply.items))

FailInspection == Fails("listing") /\ Return("failed", inventory)

Revalidate ==
  /\ step = "revalidating" /\ WholeList /\ reply.items = shown
  /\ Proceed("clearing")
  /\ UNCHANGED <<remaining, seen>>

FindChangedCount ==
  /\ step = "revalidating" /\ WholeList /\ reply.items # shown
  /\ Return("failed", Inspected(reply.items))

FailRevalidation == Fails("revalidating") /\ Return("failed", inventory)

AcceptClear ==
  /\ step = "clearing" /\ reply.kind = "ok"
  /\ Proceed("polling")
  /\ UNCHANGED <<remaining, seen>>

(* Nothing is recorded, although the server may have begun to clear.       *)
FailClear == Fails("clearing") /\ Return("failed", inventory)

-----------------------------------------------------------------------------
(* The verification polls every two seconds until it has seen no job.      *)

FindEmptyOrFail ==  \* Fault: the count of a failed poll, 0, is taken for an answer
  /\ step = "polling" /\ reply.items = 0
  /\ Return("cleared", Inspected(0))

FindEmpty ==
  /\ step = "polling" /\ WholeList /\ reply.items = 0
  /\ Return("cleared", Inspected(0))

FindJobs ==
  /\ step = "polling" /\ WholeList /\ reply.items # 0
  /\ Proceed("pausing")
  /\ remaining' = reply.items
  /\ UNCHANGED seen

(* JobCount returns the length of no list.                                 *)
FailPoll ==
  /\ Fails("polling")
  /\ Proceed("pausing")
  /\ remaining' = 0
  /\ UNCHANGED seen

PollAgain ==
  /\ step = "pausing" /\ ~expired
  /\ Proceed("polling")
  /\ UNCHANGED <<remaining, seen>>

NeverGiveUp ==  \* Fault: the pause does not look at the context
  /\ step = "pausing" /\ expired
  /\ Proceed("polling")
  /\ UNCHANGED <<remaining, seen>>

GiveUp ==
  /\ step = "pausing" /\ expired
  /\ Return("unverified", Inspected(remaining))

-----------------------------------------------------------------------------
(* ManageJob: cancel looks at the job first, delete does not; both go to   *)
(* API v4 and, when that fails in any way, to v5.                          *)

SeeCancelable ==
  /\ step = "checking" /\ reply.kind = "attributes" /\ reply.active
  /\ Proceed("first")
  /\ UNCHANGED <<remaining, seen>>

RefuseCancel ==
  /\ step = "checking" /\ reply.kind = "attributes" /\ ~reply.active
  /\ Return("failed", inventory)

FailCheck == Fails("checking") /\ Return("failed", inventory)

ActionSucceeds ==
  /\ step \in {"first", "second"} /\ reply.kind = "ok"
  /\ Return("acted", inventory)

TryOtherVersion ==
  /\ Fails("first")
  /\ Proceed("second")
  /\ UNCHANGED <<remaining, seen>>

ActionFails == Fails("second") /\ Return("failed", inventory)

-----------------------------------------------------------------------------
(* Two minutes pass, or another call under operationMu (ApplyConnection of *)
(* a changed server, ControlServer) invalidates the inventory.             *)
InventoryExpires ==
  /\ inventory.fresh
  /\ inventory' = [inventory EXCEPT !.fresh = FALSE]
  /\ UNCHANGED <<serverVars, callVars, step, expired, reply, remaining, result, seen>>

InvalidateInventory ==
  /\ step = "idle" /\ inventory # NoInventory
  /\ inventory' = NoInventory
  /\ UNCHANGED <<serverVars, callVars, step, expired, reply, remaining, result, seen>>

Users == \E j \in Job : Import(j) \/ Release(j) \/ Finish(j) \/ Remove(j) \/ Purge(j)

Start ==
  \/ BeginInspection
  \/ BeginClear
  \/ \E j \in Job, action \in {"cancel", "delete"} : BeginManageJob(j, action)

Server == ServeList \/ ServeAttributes \/ ServeClear \/ ServeAction \/ Refuse

(* What the goroutine of the call does once the dialog is answered.        *)
Client ==
  \/ Authenticate \/ FailAuthentication
  \/ ReadInventory \/ FailInspection
  \/ Revalidate \/ FindChangedCount \/ FailRevalidation \/ AcceptClear \/ FailClear
  \/ FindEmpty \/ FindJobs \/ FailPoll \/ PollAgain \/ GiveUp
  \/ SeeCancelable \/ RefuseCancel \/ FailCheck
  \/ ActionSucceeds \/ TryOtherVersion \/ ActionFails

Next ==
  \/ Users \/ Start \/ Decline \/ Confirm \/ Server \/ Client
  \/ Expire \/ InventoryExpires \/ InvalidateInventory

(* The goroutine runs on, and a deadline comes.  Nothing is assumed of the *)
(* server, of its users and of the user at the dialog.                     *)
Fairness ==
  /\ WF_vars(Client /\ (step \in Request => reply # NoReply \/ expired))
  /\ WF_vars(Expire)

Spec == Init /\ [][Next]_vars /\ Fairness

-----------------------------------------------------------------------------
(* The server had n jobs at a moment of the call, or it listed a page of n *)
(* jobs out of more without saying how many there are.                     *)
CountedOrCut(n) == n \in seen.counts \/ (seen.cut /\ n = PageLimit)

(* A request to clear is on its way only if, after the user confirmed it,  *)
(* there was a moment at which the server had exactly the number of jobs   *)
(* the dialog showed; it could have had more only by sending, after the    *)
(* confirmation, a first page of that length without a total.  A request   *)
(* to cancel is on its way only if there was a moment at which the job was *)
(* processing or waiting (RevalidateAndClearJobs, ListJobs, ManageJob).    *)
DestroysOnlyAfterCheck ==
  /\ step = "clearing" /\ reply = NoReply => CountedOrCut(shown)
  /\ call = "cancel" /\ step \in {"first", "second"} => seen.active

(* "All jobs were cleared and an empty inventory was verified" is said     *)
(* only if the server was empty at some moment after it accepted the       *)
(* clear, whether it reports totals or not; a job is reported cancelled or *)
(* deleted only if the server has carried out a request of that very call; *)
(* and an inspection reports a count that the server had during it, or the *)
(* length of a page that came without a total.                             *)
ReportsWhatHappened ==
  /\ result = "cleared" => 0 \in seen.counts
  /\ result = "acted" => seen.done
  /\ result = "inspected" /\ inventory.fresh => CountedOrCut(inventory.count)

(* Neither holds without the exception of a page that came without a       *)
(* total: the client then counts, and clears after comparing, a page.      *)
ClearsOnlyConfirmedCount ==
  step = "clearing" /\ reply = NoReply => shown \in seen.counts

InspectedCountIsReal ==
  result = "inspected" /\ inventory.fresh => inventory.count \in seen.counts

(* Not so of the count a clear records when it could not verify: a failed  *)
(* poll leaves 0.                                                          *)
UnverifiedCountIsReal ==
  result = "unverified" /\ inventory.fresh => CountedOrCut(inventory.count)

(* Every call ends once its dialog is answered, whatever the server does:  *)
(* the deadline of its context stops the polling and every request.        *)
CallsEnd == step \notin {"idle", "dialog"} ~> step = "idle"
=============================================================================
