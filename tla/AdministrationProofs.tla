------------------------ MODULE AdministrationProofs ------------------------
(***************************************************************************)
(* Proofs about Administration, for any finite set of jobs and any length  *)
(* of a page: nothing is destroyed that was not checked after the user     *)
(* confirmed it, and nothing is reported that did not happen.              *)
(***************************************************************************)
EXTENDS Administration, FiniteSetTheorems, TLAPS

-----------------------------------------------------------------------------
(* The inductive invariant.                                                *)

(* The requests of each call.                                              *)
StepOf(c, s) ==
  /\ s = "listing" => c = "InspectJobs"
  /\ s \in {"revalidating", "clearing", "polling", "pausing"} => c = "ClearAllJobs"
  /\ s = "checking" => c = "cancel"
  /\ s \in {"first", "second"} => c \in {"cancel", "delete"}

(* What is true of the server during a call has been noted, and a call     *)
(* that has not returned has no result.                                    *)
SeenInv ==
  /\ step # "idle" => Count \in seen.counts /\ result = "none"
  /\ step \notin {"idle", "dialog"} /\ target # NoJob =>
       (job[target] = "active" => seen.active)

(* A list is as long as some moment of the server bears out, unless the    *)
(* server says itself that there are more jobs than it lists.              *)
TrueList(list) ==
  IF list.counted THEN list.total \in seen.counts ELSE CountedOrCut(list.items)

(* A reply answers the request the call is at, and says what was noted.    *)
ReplyInv ==
  /\ reply.kind = "jobs" => step \in Listing /\ TrueList(reply)
  /\ reply.kind = "attributes" => step = "checking" /\ (reply.active => seen.active)
  /\ reply.kind = "ok" =>
       /\ step \in {"clearing", "first", "second"}
       /\ step # "clearing" => seen.done

AdminInv ==
  /\ TypeOK
  /\ StepOf(call, step)
  /\ SeenInv
  /\ ReplyInv
  /\ DestroysOnlyAfterCheck
  /\ ReportsWhatHappened

-----------------------------------------------------------------------------
(* Values.                                                                 *)

Reply ==
  [kind : {"none", "jobs", "ok", "refused", "attributes"},
   items : 0..Cardinality(Job), counted : BOOLEAN, total : 0..Cardinality(Job),
   active : BOOLEAN]
Inventory == [count : 0..Cardinality(Job), fresh : BOOLEAN]
Seen ==
  [counts : SUBSET (0..Cardinality(Job)), active : BOOLEAN, done : BOOLEAN, cut : BOOLEAN]
Result == {"none", "inspected", "cleared", "unverified", "acted", "failed", "declined"}

LEMMA Counted ==
  ASSUME NEW S \in SUBSET Job
  PROVE  Cardinality(S) \in 0..Cardinality(Job) /\ Cardinality(Job) \in Nat
<1>1. IsFiniteSet(S) /\ Cardinality(S) <= Cardinality(Job)
  BY JobAssumption, FS_Subset
<1>2. Cardinality(S) \in Nat /\ Cardinality(Job) \in Nat
  BY <1>1, JobAssumption, FS_CardinalityType
<1>3. QED
  BY <1>1, <1>2

LEMMA Zero == 0 # PageLimit /\ 0 \in 0..Cardinality(Job)
<1>1. Cardinality(Job) \in Nat
  BY Counted
<1>2. QED
  BY <1>1, PageLimitAssumption

LEMMA Answers ==
  /\ NoReply \in Reply /\ NoReply.kind = "none"
  /\ \A k \in {"ok", "refused", "attributes"} :
       Answer(k) \in Reply /\ Answer(k).kind = k /\ ~Answer(k).active
BY Zero DEF NoReply, Answer, Reply

LEMMA Recorded ==
  /\ NoInventory \in Inventory /\ ~NoInventory.fresh
  /\ \A n \in 0..Cardinality(Job) : Inspected(n) \in Inventory /\ Inspected(n).count = n
BY Zero DEF NoInventory, Inspected, Inventory

(* TypeOK with its records named.                                          *)
LEMMA Types ==
  TypeOK <=>
    /\ job \in [Job -> JobState] /\ purge \subseteq Present
    /\ inventory \in Inventory
    /\ call \in {"none", "InspectJobs", "ClearAllJobs", "cancel", "delete"}
    /\ step \in Step /\ (step = "idle" <=> call = "none")
    /\ target \in Job \cup {NoJob} /\ (target # NoJob <=> call \in {"cancel", "delete"})
    /\ shown \in 0..Cardinality(Job) /\ (call = "ClearAllJobs" => shown # 0)
    /\ expired \in BOOLEAN
    /\ reply \in Reply /\ (reply # NoReply => step \in Request)
    /\ remaining \in 0..Cardinality(Job)
    /\ result \in Result
    /\ seen \in Seen
BY DEF TypeOK, Reply, Inventory, Seen, Result

LEMMA TypesNext ==
  TypeOK' <=>
    /\ job' \in [Job -> JobState] /\ purge' \subseteq Present'
    /\ inventory' \in Inventory
    /\ call' \in {"none", "InspectJobs", "ClearAllJobs", "cancel", "delete"}
    /\ step' \in Step /\ (step' = "idle" <=> call' = "none")
    /\ target' \in Job \cup {NoJob} /\ (target' # NoJob <=> call' \in {"cancel", "delete"})
    /\ shown' \in 0..Cardinality(Job) /\ (call' = "ClearAllJobs" => shown' # 0)
    /\ expired' \in BOOLEAN
    /\ reply' \in Reply /\ (reply' # NoReply => step' \in Request)
    /\ remaining' \in 0..Cardinality(Job)
    /\ result' \in Result
    /\ seen' \in Seen
BY DEF TypeOK, Reply, Inventory, Seen, Result

(* A list that is taken for whole has the length of the server's list at   *)
(* some moment, or is a page without a total; an empty one is no page.     *)
LEMMA WholeListCounts ==
  ASSUME AdminInv, WholeList
  PROVE  /\ reply.items \in 0..Cardinality(Job) /\ CountedOrCut(reply.items)
         /\ reply.items = 0 => 0 \in seen.counts
<1>1. reply \in Reply
  BY Types DEF AdminInv
<1>2. TrueList(reply) /\ (reply.counted => reply.items = reply.total)
  BY DEF WholeList, AdminInv, ReplyInv
<1>3. CountedOrCut(reply.items)
  BY <1>2 DEF TrueList, CountedOrCut
<1>4. QED
  BY <1>1, <1>3, Zero DEF CountedOrCut, Reply

(* A finite set of jobs is counted, now and after a step.                  *)
LEMMA CountTyped ==
  /\ Count \in 0..Cardinality(Job)
  /\ Cardinality(Present') \in 0..Cardinality(Job) /\ Count' = Cardinality(Present')
BY Counted DEF Count, Present

-----------------------------------------------------------------------------
(* The shapes of the steps.                                                *)

(* A call returns with a result that what was noted bears out.             *)
LEMMA ReturnStep ==
  ASSUME AdminInv, NEW how \in Result, NEW recorded \in Inventory, Return(how, recorded),
         how = "cleared" => 0 \in seen.counts,
         how = "acted" => seen.done,
         how = "inspected" => CountedOrCut(recorded.count)
  PROVE  AdminInv'
<1>1. TypeOK'
  <2>1. job' = job /\ purge' = purge /\ Present' = Present /\ seen' = seen
    BY DEF Return, serverVars, Present, Exists
  <2>2. reply' \in Reply /\ reply' = NoReply /\ remaining' \in 0..Cardinality(Job)
    BY Answers, Zero DEF Return
  <2>3. inventory' \in Inventory /\ result' \in Result
    BY DEF Return
  <2>4. call' = "none" /\ step' = "idle" /\ target' = NoJob /\ shown' = 0 /\ expired' = FALSE
    BY DEF Return
  <2>5. job \in [Job -> JobState] /\ purge \subseteq Present /\ seen \in Seen
    BY Types DEF AdminInv
  <2>6. QED
    BY <2>1, <2>2, <2>3, <2>4, <2>5, Zero, TypesNext DEF Step
<1>2. StepOf(call, step)' /\ SeenInv' /\ ReplyInv' /\ DestroysOnlyAfterCheck'
  BY Answers DEF Return, StepOf, SeenInv, ReplyInv, DestroysOnlyAfterCheck
<1>3. ReportsWhatHappened'
  BY DEF Return, ReportsWhatHappened, CountedOrCut
<1>4. QED
  BY <1>1, <1>2, <1>3 DEF AdminInv

(* A call goes on to its next step.                                        *)
LEMMA ProceedStep ==
  ASSUME AdminInv, NEW next \in Step \ {"idle", "dialog"}, Proceed(next),
         step \notin {"idle", "dialog"},
         StepOf(call, next), seen' = seen, remaining' \in 0..Cardinality(Job),
         next = "clearing" => CountedOrCut(shown),
         call = "cancel" /\ next \in {"first", "second"} => seen.active
  PROVE  AdminInv'
<1>1. /\ UNCHANGED <<job, purge, inventory, call, target, shown, expired, result>>
      /\ step' = next /\ reply' = NoReply
  BY DEF Proceed, serverVars, callVars
<1>2. Present' = Present /\ Count' = Count
  BY <1>1 DEF Present, Exists, Count
<1>3. TypeOK'
  <2>1. TypeOK
    BY DEF AdminInv
  <2>2. QED
    BY <1>1, <1>2, <2>1, Answers, Types, TypesNext
<1>4. SeenInv'
  BY <1>1, <1>2 DEF AdminInv, SeenInv
<1>5. StepOf(call, step)' /\ ReplyInv' /\ DestroysOnlyAfterCheck' /\ ReportsWhatHappened'
  BY <1>1, Answers
     DEF AdminInv, StepOf, ReplyInv, DestroysOnlyAfterCheck, ReportsWhatHappened, CountedOrCut
<1>6. QED
  BY <1>3, <1>4, <1>5 DEF AdminInv

(* What others do to a job is noted when it happens during a call.         *)
LEMMA BecomesStep ==
  ASSUME AdminInv, NEW j \in Job, NEW states \in SUBSET JobState, NEW s \in JobState,
         s = "gone" \/ s \in {"held", "active"}, Becomes(j, states, s)
  PROVE  AdminInv'
<1>1. /\ job' = [job EXCEPT ![j] = s] /\ seen' = Noting
      /\ purge' = IF s = "gone" THEN purge \ {j} ELSE purge
      /\ UNCHANGED <<inventory, call, target, shown, step, expired, reply, remaining, result>>
  BY DEF Becomes, callVars
<1>2. job' \in [Job -> JobState] /\ purge' \subseteq Present'
  BY <1>1, Types DEF AdminInv, Present, Exists
<1>3. seen \in Seen
  BY Types DEF AdminInv
<1>4. /\ seen' \in Seen
      /\ seen.counts \subseteq seen'.counts /\ (seen.active => seen'.active)
      /\ seen'.done = seen.done /\ seen'.cut = seen.cut
      /\ step = "idle" => seen' = seen
      /\ step # "idle" => Count' \in seen'.counts
      /\ step # "idle" /\ target # NoJob /\ job'[target] = "active" => seen'.active
  <2>1. CASE step = "idle"
    BY <1>1, <1>3, <2>1 DEF Noting
  <2>2. CASE step # "idle"
    <3>1. seen' = [seen EXCEPT !.counts = @ \cup {Cardinality(Present')},
                               !.active = @ \/ (target # NoJob /\ job'[target] = "active")]
      BY <1>1, <2>2 DEF Noting
    <3>2. QED
      BY <1>3, <2>2, <3>1, CountTyped DEF Seen
  <2>3. QED
    BY <2>1, <2>2
<1>5. TypeOK'
  <2>1. TypeOK
    BY DEF AdminInv
  <2>2. QED
    BY <1>1, <1>2, <1>4, <2>1, Types, TypesNext
<1>6. SeenInv'
  BY <1>1, <1>4 DEF AdminInv, SeenInv
<1>7. ReplyInv'
  BY <1>1, <1>4 DEF AdminInv, ReplyInv, TrueList, CountedOrCut
<1>8. StepOf(call, step)' /\ DestroysOnlyAfterCheck'
  BY <1>1, <1>4 DEF AdminInv, StepOf, DestroysOnlyAfterCheck, CountedOrCut
<1>9. ReportsWhatHappened'
  BY <1>1, <1>4 DEF AdminInv, ReportsWhatHappened, CountedOrCut
<1>10. QED
  BY <1>5, <1>6, <1>7, <1>8, <1>9 DEF AdminInv

(* The server serves a request, and changes nothing but the reply and,     *)
(* when it lists a page without a total, what is noted of that.            *)
LEMMA ReplyStep ==
  ASSUME AdminInv, reply = NoReply, reply' \in Reply, step \in Request,
         UNCHANGED <<serverVars, inventory, callVars, step, expired, remaining, result>>,
         NEW cut \in BOOLEAN, seen.cut => cut, seen' = [seen EXCEPT !.cut = cut],
         reply'.kind = "jobs" => step \in Listing /\ TrueList(reply)',
         reply'.kind = "attributes" => step = "checking" /\ (reply'.active => seen.active),
         reply'.kind # "ok"
  PROVE  AdminInv'
<1>1. UNCHANGED <<job, purge, inventory, call, target, shown, step, expired, remaining, result>>
  BY DEF serverVars, callVars
<1>2. Present' = Present /\ Count' = Count
  BY <1>1 DEF Present, Exists, Count
<1>3. /\ seen' \in Seen /\ (seen.cut => seen'.cut)
      /\ seen'.counts = seen.counts /\ seen'.active = seen.active /\ seen'.done = seen.done
  <2>1. seen \in Seen
    BY Types DEF AdminInv
  <2>2. QED
    BY <2>1 DEF Seen
<1>4. TypeOK'
  <2>1. TypeOK
    BY DEF AdminInv
  <2>2. QED
    BY <1>1, <1>2, <1>3, <2>1, Types, TypesNext
<1>5. SeenInv'
  BY <1>1, <1>2, <1>3 DEF AdminInv, SeenInv
<1>6. ReplyInv'
  BY <1>1, <1>3 DEF ReplyInv
<1>7. StepOf(call, step)' /\ DestroysOnlyAfterCheck' /\ ReportsWhatHappened'
  BY <1>1, <1>3 DEF AdminInv, StepOf, DestroysOnlyAfterCheck, ReportsWhatHappened, CountedOrCut
<1>8. QED
  BY <1>4, <1>5, <1>6, <1>7 DEF AdminInv

-----------------------------------------------------------------------------
(* The steps.                                                              *)

LEMMA UserStep ==
  ASSUME AdminInv, Users
  PROVE  AdminInv'
<1>1. PICK j \in Job : Import(j) \/ Release(j) \/ Finish(j) \/ Remove(j) \/ Purge(j)
  BY DEF Users
<1>2. CASE Import(j)
  <2>1. Becomes(j, {"absent"}, "held")
    BY <1>2 DEF Import
  <2>2. QED
    BY <2>1, BecomesStep DEF JobState
<1>3. CASE Release(j)
  <2>1. Becomes(j, {"held"}, "active")
    BY <1>3 DEF Release
  <2>2. QED
    BY <2>1, BecomesStep DEF JobState
<1>4. CASE Finish(j)
  <2>1. Becomes(j, {"active"}, "held")
    BY <1>4 DEF Finish
  <2>2. QED
    BY <2>1, BecomesStep DEF JobState
<1>5. CASE Remove(j) \/ Purge(j)
  <2>1. Becomes(j, {"held", "active"}, "gone")
    BY <1>5 DEF Remove, Purge
  <2>2. QED
    BY <2>1, BecomesStep DEF JobState
<1>6. QED
  BY <1>1, <1>2, <1>3, <1>4, <1>5

(* A call begins: what is noted starts afresh.                             *)
LEMMA StartStep ==
  ASSUME AdminInv, Start
  PROVE  AdminInv'
<1>1. PICK method \in {"InspectJobs", "ClearAllJobs", "cancel", "delete"},
           first \in {"dialog", "authenticating"} :
        /\ Begin(method, first)
        /\ first = "dialog" \/ method = "InspectJobs"
        /\ target' \in Job \cup {NoJob} /\ (target' # NoJob <=> method \in {"cancel", "delete"})
        /\ shown' \in 0..Cardinality(Job) /\ (method = "ClearAllJobs" => shown' # 0)
  <2>1. /\ target \in Job \cup {NoJob} /\ (target # NoJob <=> call \in {"cancel", "delete"})
        /\ shown \in 0..Cardinality(Job) /\ inventory \in Inventory
        /\ step = "idle" <=> call = "none"
    BY Types DEF AdminInv
  <2>2. CASE BeginInspection
    BY <2>1, <2>2 DEF BeginInspection, Begin
  <2>3. CASE BeginClear
    <3>1. inventory.count \in 0..Cardinality(Job) /\ inventory.count # 0
      BY <2>1, <2>3 DEF BeginClear, ValidateClear, Inventory
    <3>2. QED
      BY <2>1, <2>3, <3>1 DEF BeginClear, Begin
  <2>4. ASSUME NEW j \in Job, NEW action \in {"cancel", "delete"}, BeginManageJob(j, action)
        PROVE  /\ Begin(action, "dialog") /\ target' = j /\ shown' = shown
    BY <2>4 DEF BeginManageJob
  <2>5. QED
    BY <2>1, <2>2, <2>3, <2>4, JobAssumption DEF Start
<1>2. /\ step' = first /\ call' = method /\ expired' = FALSE /\ result' = "none" /\ step = "idle"
      /\ seen' = [counts |-> {Count}, active |-> FALSE, done |-> FALSE, cut |-> FALSE]
      /\ UNCHANGED <<job, purge, inventory, reply, remaining>>
  BY <1>1 DEF Begin, serverVars
<1>3. Present' = Present /\ Count' = Count
  BY <1>2 DEF Present, Exists, Count
<1>4. seen' \in Seen
  BY <1>2, CountTyped DEF Seen
<1>5. reply = NoReply
  BY <1>2, Types DEF AdminInv, Request
<1>6. TypeOK'
  <2>1. TypeOK
    BY DEF AdminInv
  <2>2. QED
    BY <1>1, <1>2, <1>3, <1>4, <1>5, <2>1, Types, TypesNext DEF Step, Result
<1>7. StepOf(call, step)' /\ SeenInv'
  BY <1>1, <1>2, <1>3 DEF StepOf, SeenInv
<1>8. ReplyInv' /\ DestroysOnlyAfterCheck' /\ ReportsWhatHappened'
  BY <1>1, <1>2, <1>5, Answers DEF ReplyInv, DestroysOnlyAfterCheck, ReportsWhatHappened
<1>9. QED
  BY <1>6, <1>7, <1>8 DEF AdminInv

LEMMA ConfirmStep ==
  ASSUME AdminInv, Confirm
  PROVE  AdminInv'
<1>1. /\ step = "dialog" /\ step' = "authenticating"
      /\ seen' = [counts |-> {Count}, active |-> target # NoJob /\ job[target] = "active",
                  done |-> FALSE, cut |-> FALSE]
      /\ UNCHANGED <<job, purge, inventory, call, target, shown, expired, reply, remaining, result>>
  BY DEF Confirm, serverVars, callVars
<1>2. Present' = Present /\ Count' = Count
  BY <1>1 DEF Present, Exists, Count
<1>3. seen' \in Seen
  BY <1>1, CountTyped DEF Seen
<1>4. reply = NoReply /\ result = "none"
  BY <1>1, Types DEF AdminInv, SeenInv, Request
<1>5. TypeOK'
  <2>1. TypeOK
    BY DEF AdminInv
  <2>2. QED
    BY <1>1, <1>2, <1>3, <1>4, <2>1, Types, TypesNext DEF Step
<1>6. StepOf(call, step)' /\ SeenInv'
  BY <1>1, <1>2, <1>4 DEF StepOf, SeenInv
<1>7. ReplyInv' /\ DestroysOnlyAfterCheck' /\ ReportsWhatHappened'
  BY <1>1, <1>4, Answers DEF ReplyInv, DestroysOnlyAfterCheck, ReportsWhatHappened
<1>8. QED
  BY <1>5, <1>6, <1>7 DEF AdminInv

LEMMA ServeListStep ==
  ASSUME AdminInv, ServeList
  PROVE  AdminInv'
<1>1. PICK counted \in BOOLEAN :
        /\ reply = NoReply
        /\ reply' = [Answer("jobs") EXCEPT !.items = PageLength, !.counted = counted,
                                           !.total = IF counted THEN Count ELSE 0]
        /\ seen' = [seen EXCEPT !.cut = @ \/ (~counted /\ Count > PageLimit)]
  BY DEF ServeList, Serve
<1>2. /\ step \in Listing
      /\ UNCHANGED <<serverVars, inventory, callVars, step, expired, remaining, result>>
  BY DEF ServeList
<1>3. Count \in 0..Cardinality(Job) /\ Cardinality(Job) \in Nat
  BY CountTyped, Counted
<1>4. /\ PageLength \in 0..Cardinality(Job)
      /\ PageLength = Count \/ (Count > PageLimit /\ PageLength = PageLimit)
  BY <1>3, PageLimitAssumption DEF PageLength
<1>5. /\ reply' \in Reply /\ reply'.kind = "jobs" /\ reply'.items = PageLength
      /\ reply'.counted = counted /\ (counted => reply'.total = Count)
  BY <1>1, <1>3, <1>4, Zero DEF Answer, NoReply, Reply
<1>6. step \in Request /\ Count \in seen.counts
  BY <1>2 DEF Listing, Request, AdminInv, SeenInv
<1> DEFINE cut == seen.cut \/ (~counted /\ Count > PageLimit)
<1>7. seen \in Seen
  BY Types DEF AdminInv
<1>8. seen' = [seen EXCEPT !.cut = cut] /\ cut \in BOOLEAN /\ (seen.cut => cut)
  BY <1>1, <1>7 DEF Seen
<1>9. seen'.counts = seen.counts /\ seen'.cut = cut
  BY <1>7, <1>8 DEF Seen
<1>10. TrueList(reply)'
  <2>1. CASE counted
    BY <1>5, <1>6, <1>9, <2>1 DEF TrueList
  <2>2. CASE ~counted
    BY <1>4, <1>5, <1>6, <1>9, <2>2 DEF TrueList, CountedOrCut
  <2>3. QED
    BY <2>1, <2>2
<1> HIDE DEF cut
<1>11. QED
  BY <1>1, <1>2, <1>5, <1>6, <1>8, <1>10, ReplyStep

(* A reply that leaves what was noted as it is.                            *)
LEMMA PlainReplyStep ==
  ASSUME AdminInv, reply = NoReply, reply' \in Reply, step \in Request,
         UNCHANGED <<serverVars, inventory, callVars, step, expired, remaining, result, seen>>,
         reply'.kind = "attributes" => step = "checking" /\ (reply'.active => seen.active),
         reply'.kind \notin {"jobs", "ok"}
  PROVE  AdminInv'
<1>1. seen \in Seen
  BY Types DEF AdminInv
<1>2. seen.cut \in BOOLEAN /\ seen' = [seen EXCEPT !.cut = seen.cut]
  BY <1>1 DEF Seen
<1>3. QED
  BY <1>2, ReplyStep

LEMMA ServeAttributesStep ==
  ASSUME AdminInv, ServeAttributes
  PROVE  AdminInv'
<1>1. /\ reply = NoReply /\ step = "checking"
      /\ reply' = IF Exists(target)
                  THEN [Answer("attributes") EXCEPT !.active = job[target] = "active"]
                  ELSE Answer("refused")
      /\ UNCHANGED <<serverVars, inventory, callVars, step, expired, remaining, result, seen>>
  BY DEF ServeAttributes, Serve
<1>2. target # NoJob
  BY <1>1, Types DEF AdminInv, StepOf
<1>3. CASE Exists(target)
  <2>1. /\ reply' \in Reply /\ reply'.kind = "attributes"
        /\ reply'.active <=> job[target] = "active"
    BY <1>1, <1>3, Zero DEF Answer, NoReply, Reply
  <2>2. reply'.active => seen.active
    BY <1>1, <1>2, <2>1 DEF AdminInv, SeenInv
  <2>3. QED
    BY <1>1, <2>1, <2>2, PlainReplyStep DEF Request
<1>4. CASE ~Exists(target)
  <2>1. reply' = Answer("refused")
    BY <1>1, <1>4
  <2>2. reply' \in Reply /\ reply'.kind = "refused"
    BY <2>1, Answers
  <2>3. QED
    BY <1>1, <2>2, PlainReplyStep DEF Request
<1>5. QED
  BY <1>3, <1>4

LEMMA RefuseStep ==
  ASSUME AdminInv, Refuse
  PROVE  AdminInv'
<1>1. /\ reply = NoReply /\ step \in Request /\ reply' = Answer("refused")
      /\ UNCHANGED <<serverVars, inventory, callVars, step, expired, remaining, result, seen>>
  BY DEF Refuse, Serve, Request
<1>2. reply' \in Reply /\ reply'.kind = "refused"
  BY <1>1, Answers
<1>3. QED
  BY <1>1, <1>2, PlainReplyStep

(* The server accepts to clear: what is noted from then on is what the     *)
(* verification may report.                                                *)
LEMMA ServeClearStep ==
  ASSUME AdminInv, ServeClear
  PROVE  AdminInv'
<1>1. /\ step = "clearing" /\ reply' = Answer("ok")
      /\ purge' = Present /\ seen' = [seen EXCEPT !.counts = {Count}]
      /\ UNCHANGED <<job, inventory, call, target, shown, step, expired, remaining, result>>
  BY DEF ServeClear, Serve, callVars
<1>2. Present' = Present /\ Count' = Count
  BY <1>1 DEF Present, Exists, Count
<1>3. seen' \in Seen /\ seen'.counts = {Count} /\ seen'.active = seen.active
  <2>1. seen \in Seen
    BY Types DEF AdminInv
  <2>2. QED
    BY <1>1, <2>1, CountTyped DEF Seen
<1>4. reply' \in Reply /\ reply'.kind = "ok" /\ reply' # NoReply
  BY <1>1, Answers
<1>5. call = "ClearAllJobs" /\ result = "none"
  BY <1>1 DEF AdminInv, StepOf, SeenInv
<1>6. TypeOK'
  <2>1. TypeOK
    BY DEF AdminInv
  <2>2. QED
    BY <1>1, <1>2, <1>3, <1>4, <2>1, Types, TypesNext DEF Request
<1>7. StepOf(call, step)' /\ SeenInv'
  BY <1>1, <1>2, <1>3 DEF AdminInv, StepOf, SeenInv
<1>8. ReplyInv' /\ DestroysOnlyAfterCheck' /\ ReportsWhatHappened'
  BY <1>1, <1>4, <1>5 DEF ReplyInv, DestroysOnlyAfterCheck, ReportsWhatHappened
<1>9. QED
  BY <1>6, <1>7, <1>8 DEF AdminInv

(* The server carries out a request to cancel or delete.                   *)
LEMMA ServeActionStep ==
  ASSUME AdminInv, ServeAction
  PROVE  AdminInv'
<1> DEFINE s == IF call = "cancel" THEN "held" ELSE "gone"
<1>1. /\ step \in {"first", "second"} /\ reply' = Answer("ok")
      /\ job' = [job EXCEPT ![target] = s]
      /\ purge' = IF call = "cancel" THEN purge ELSE purge \ {target}
      /\ seen' = [Noting EXCEPT !.done = TRUE]
      /\ UNCHANGED <<inventory, call, target, shown, step, expired, remaining, result>>
  BY DEF ServeAction, Serve, callVars
<1>2. target \in Job /\ call \in {"cancel", "delete"} /\ result = "none"
  BY <1>1, Types DEF AdminInv, StepOf, SeenInv
<1>3. job' \in [Job -> JobState] /\ purge' \subseteq Present'
  <2>1. job \in [Job -> JobState] /\ purge \subseteq Present
    BY Types DEF AdminInv
  <2>2. QED
    BY <1>1, <1>2, <2>1 DEF Present, Exists, JobState
<1>4. /\ seen' \in Seen /\ seen'.done
      /\ Count' \in seen'.counts
      /\ seen.active => seen'.active
      /\ job'[target] = "active" => seen'.active
  <2>1. seen \in Seen
    BY Types DEF AdminInv
  <2>2. Noting = [seen EXCEPT !.counts = @ \cup {Cardinality(Present')},
                              !.active = @ \/ (target # NoJob /\ job'[target] = "active")]
    BY <1>1 DEF Noting
  <2>3. QED
    BY <1>1, <1>2, <2>1, <2>2, CountTyped, JobAssumption DEF Seen
<1>5. reply' \in Reply /\ reply'.kind = "ok"
  BY <1>1, Answers
<1>6. TypeOK'
  <2>1. TypeOK
    BY DEF AdminInv
  <2>2. QED
    BY <1>1, <1>3, <1>4, <1>5, <2>1, Types, TypesNext DEF Request
<1>7. StepOf(call, step)' /\ SeenInv'
  BY <1>1, <1>4 DEF AdminInv, StepOf, SeenInv
<1>8. ReplyInv' /\ ReportsWhatHappened'
  BY <1>1, <1>2, <1>4, <1>5 DEF ReplyInv, ReportsWhatHappened
<1>9. DestroysOnlyAfterCheck'
  BY <1>1, <1>4 DEF AdminInv, DestroysOnlyAfterCheck
<1>10. QED
  BY <1>6, <1>7, <1>8, <1>9 DEF AdminInv

(* The returns of a call.                                                  *)
LEMMA FinishStep ==
  ASSUME AdminInv,
         \/ Decline \/ FailAuthentication \/ FailInspection \/ FailRevalidation \/ FailClear
         \/ RefuseCancel \/ FailCheck \/ ActionFails
         \/ ReadInventory \/ FindChangedCount \/ FindEmpty \/ GiveUp \/ ActionSucceeds
  PROVE  AdminInv'
<1>1. inventory \in Inventory /\ remaining \in 0..Cardinality(Job)
  BY Types DEF AdminInv
<1>2. CASE Decline \/ FailAuthentication \/ FailInspection \/ FailRevalidation \/ FailClear
           \/ RefuseCancel \/ FailCheck \/ ActionFails
  <2>1. Return("declined", inventory) \/ Return("failed", inventory)
    BY <1>2 DEF Decline, FailAuthentication, FailInspection, FailRevalidation, FailClear,
                RefuseCancel, FailCheck, ActionFails
  <2>2. QED
    BY <1>1, <2>1, ReturnStep DEF Result
<1>3. CASE ReadInventory \/ FindChangedCount
  <2>1. /\ WholeList
        /\ \/ Return("inspected", Inspected(reply.items))
           \/ Return("failed", Inspected(reply.items))
    BY <1>3 DEF ReadInventory, FindChangedCount
  <2>2. /\ Inspected(reply.items) \in Inventory
        /\ CountedOrCut(Inspected(reply.items).count)
    BY <2>1, WholeListCounts, Recorded
  <2>3. QED
    BY <2>1, <2>2, ReturnStep DEF Result
<1>4. CASE FindEmpty
  <2>1. Return("cleared", Inspected(0)) /\ 0 \in seen.counts
    BY <1>4, WholeListCounts DEF FindEmpty
  <2>2. QED
    BY <2>1, Recorded, Zero, ReturnStep DEF Result
<1>5. CASE GiveUp
  <2>1. Return("unverified", Inspected(remaining))
    BY <1>5 DEF GiveUp
  <2>2. QED
    BY <1>1, <2>1, Recorded, ReturnStep DEF Result
<1>6. CASE ActionSucceeds
  <2>1. Return("acted", inventory) /\ seen.done
    BY <1>6 DEF ActionSucceeds, AdminInv, ReplyInv
  <2>2. QED
    BY <1>1, <2>1, ReturnStep DEF Result
<1>7. QED
  BY <1>2, <1>3, <1>4, <1>5, <1>6

(* The steps of a call that goes on.                                       *)
LEMMA GoOnStep ==
  ASSUME AdminInv,
         \/ Authenticate \/ Revalidate \/ AcceptClear \/ FindJobs \/ FailPoll \/ PollAgain
         \/ SeeCancelable \/ TryOtherVersion
  PROVE  AdminInv'
<1>1. /\ remaining \in 0..Cardinality(Job) /\ StepOf(call, step)
      /\ call \in {"none", "InspectJobs", "ClearAllJobs", "cancel", "delete"}
      /\ step = "idle" <=> call = "none"
  BY Types DEF AdminInv
<1>2. CASE Authenticate
  <2>1. /\ Proceed(FirstRequest) /\ step = "authenticating" /\ seen' = seen
        /\ remaining' = remaining
    BY <1>2 DEF Authenticate
  <2>2. /\ FirstRequest \in Step \ {"idle", "dialog"} /\ StepOf(call, FirstRequest)
        /\ FirstRequest # "clearing"
        /\ call = "cancel" => FirstRequest \notin {"first", "second"}
    <3>1. call \in {"InspectJobs", "ClearAllJobs", "cancel", "delete"}
      BY <1>1, <2>1
    <3>2. CASE call = "InspectJobs"
      BY <3>2 DEF FirstRequest, Step, Request, StepOf
    <3>3. CASE call = "ClearAllJobs"
      BY <3>3 DEF FirstRequest, Step, Request, StepOf
    <3>4. CASE call = "cancel"
      BY <3>4 DEF FirstRequest, Step, Request, StepOf
    <3>5. CASE call = "delete"
      BY <3>5 DEF FirstRequest, Step, Request, StepOf
    <3>6. QED
      BY <3>1, <3>2, <3>3, <3>4, <3>5
  <2>3. QED
    BY <1>1, <2>1, <2>2, ProceedStep
<1>3. CASE Revalidate
  <2>1. /\ Proceed("clearing") /\ step = "revalidating" /\ seen' = seen
        /\ remaining' = remaining /\ CountedOrCut(shown)
    BY <1>3, WholeListCounts DEF Revalidate
  <2>2. StepOf(call, "clearing")
    BY <1>1, <2>1 DEF StepOf
  <2>3. QED
    BY <1>1, <2>1, <2>2, ProceedStep DEF Step, Request
<1>4. CASE AcceptClear \/ PollAgain
  <2>1. /\ Proceed("polling") /\ step \in {"clearing", "pausing"} /\ seen' = seen
        /\ remaining' = remaining
    BY <1>4 DEF AcceptClear, PollAgain
  <2>2. StepOf(call, "polling")
    BY <1>1, <2>1 DEF StepOf
  <2>3. QED
    BY <1>1, <2>1, <2>2, ProceedStep DEF Step, Request
<1>5. CASE FindJobs \/ FailPoll
  <2>1. /\ Proceed("pausing") /\ step = "polling" /\ seen' = seen
        /\ remaining' \in 0..Cardinality(Job)
    BY <1>5, WholeListCounts, Zero DEF FindJobs, FailPoll, Fails
  <2>2. StepOf(call, "pausing")
    BY <1>1, <2>1 DEF StepOf
  <2>3. QED
    BY <2>1, <2>2, ProceedStep DEF Step
<1>6. CASE SeeCancelable
  <2>1. /\ Proceed("first") /\ step = "checking" /\ seen' = seen
        /\ remaining' = remaining /\ seen.active
    BY <1>6 DEF SeeCancelable, AdminInv, ReplyInv
  <2>2. StepOf(call, "first")
    BY <1>1, <2>1 DEF StepOf
  <2>3. QED
    BY <1>1, <2>1, <2>2, ProceedStep DEF Step, Request
<1>7. CASE TryOtherVersion
  <2>1. /\ Proceed("second") /\ step = "first" /\ seen' = seen /\ remaining' = remaining
    BY <1>7 DEF TryOtherVersion, Fails
  <2>2. StepOf(call, "second") /\ (call = "cancel" => seen.active)
    BY <1>1, <2>1 DEF StepOf, AdminInv, DestroysOnlyAfterCheck
  <2>3. QED
    BY <1>1, <2>1, <2>2, ProceedStep DEF Step, Request
<1>8. QED
  BY <1>2, <1>3, <1>4, <1>5, <1>6, <1>7

(* Time passes for a context or for the inventory.                         *)
LEMMA TimeStep ==
  ASSUME AdminInv, Expire \/ InventoryExpires \/ InvalidateInventory \/ UNCHANGED vars
  PROVE  AdminInv'
<1>1. /\ UNCHANGED <<job, purge, call, target, shown, step, reply, remaining, result, seen>>
      /\ expired' \in {expired, TRUE}
  BY DEF Expire, InventoryExpires, InvalidateInventory, vars, serverVars, callVars
<1>2. inventory' \in Inventory /\ (inventory'.fresh => inventory' = inventory)
  <2>1. inventory \in Inventory
    BY Types DEF AdminInv
  <2>2. CASE inventory' = [inventory EXCEPT !.fresh = FALSE]
    BY <2>1, <2>2 DEF Inventory
  <2>3. CASE inventory' = NoInventory
    BY <2>3, Recorded
  <2>4. CASE inventory' = inventory
    BY <2>1, <2>4
  <2>5. QED
    BY <2>2, <2>3, <2>4 DEF Expire, InventoryExpires, InvalidateInventory, vars
<1>3. Present' = Present /\ Count' = Count
  BY <1>1 DEF Present, Exists, Count
<1>4. TypeOK'
  <2>1. TypeOK
    BY DEF AdminInv
  <2>2. QED
    BY <1>1, <1>2, <1>3, <2>1, Types, TypesNext
<1>5. StepOf(call, step)' /\ SeenInv' /\ ReplyInv' /\ DestroysOnlyAfterCheck'
  BY <1>1, <1>3
     DEF AdminInv, StepOf, SeenInv, ReplyInv, TrueList, CountedOrCut, DestroysOnlyAfterCheck
<1>6. ReportsWhatHappened'
  BY <1>1, <1>2 DEF AdminInv, ReportsWhatHappened, CountedOrCut
<1>7. QED
  BY <1>4, <1>5, <1>6 DEF AdminInv

-----------------------------------------------------------------------------
(* The theorems.                                                           *)

(* The parts of the invariant hold together in every behaviour.            *)
THEOREM AdministrationInvariant == Spec => []AdminInv
<1>1. Init => AdminInv
  <2>1. SUFFICES ASSUME Init
                 PROVE  AdminInv
    OBVIOUS
  <2>2. [counts |-> {}, active |-> FALSE, done |-> FALSE, cut |-> FALSE] \in Seen
    BY DEF Seen
  <2>3. TypeOK
    BY <2>1, <2>2, Types, Answers, Recorded, Zero
       DEF Init, JobState, Present, Step, Result
  <2>4. QED
    BY <2>1, <2>3, Answers
       DEF Init, AdminInv, StepOf, SeenInv, ReplyInv, DestroysOnlyAfterCheck, ReportsWhatHappened
<1>2. AdminInv /\ [Next]_vars => AdminInv'
  BY UserStep, StartStep, ConfirmStep, ServeListStep, ServeAttributesStep, RefuseStep,
     ServeClearStep, ServeActionStep, FinishStep, GoOnStep, TimeStep
     DEF Next, Server, Client
<1>3. QED
  BY <1>1, <1>2, PTL DEF Spec

(* The variables keep their types: the dialog of a clear shows at least    *)
(* one job, a reply is there only while a request is, and the server       *)
(* removes only jobs that exist (ClearAllJobs, RevalidateAndClearJobs).    *)
THEOREM TypeCorrect == Spec => []TypeOK
<1>1. AdminInv => TypeOK
  BY DEF AdminInv
<1>2. QED
  BY <1>1, AdministrationInvariant, PTL

(* A request to clear is on its way only if after the confirmation there   *)
(* was a moment at which the server had the number of jobs the dialog      *)
(* showed, or it then sent a first page of that length without a total; a  *)
(* request to cancel only if the job was processing or waiting             *)
(* (RevalidateAndClearJobs, ListJobs, ManageJob).                          *)
THEOREM DestructionIsChecked == Spec => []DestroysOnlyAfterCheck
<1>1. AdminInv => DestroysOnlyAfterCheck
  BY DEF AdminInv
<1>2. QED
  BY <1>1, AdministrationInvariant, PTL

(* An empty server is reported only when the server was empty after it     *)
(* accepted the clear, a cancelled or deleted job when it has carried out  *)
(* the request, and a count of jobs when the server had that many or sent  *)
(* a page of that length without a total (RevalidateAndClearJobs,          *)
(* ManageJob, InspectJobs).                                                *)
THEOREM ReportsAreTrue == Spec => []ReportsWhatHappened
<1>1. AdminInv => ReportsWhatHappened
  BY DEF AdminInv
<1>2. QED
  BY <1>1, AdministrationInvariant, PTL
=============================================================================
