---------------------------- MODULE JobCaseProofs ----------------------------
(***************************************************************************)
(* Proofs about JobCase: what a PASS and a FAIL say of the job on the      *)
(* server.  TLC visits every state of JobCase; the inductive invariant is  *)
(* the reason why the verdicts are right in all of them.                   *)
(***************************************************************************)
EXTENDS JobCase, TLAPS

-----------------------------------------------------------------------------
(* The inductive invariant.                                                *)

EarlyStep == {"import", "visible", "spool", "preset", "constraint", "check", "update"}
LifecycleStep == {"send", "await", "ready", "cancel", "acknowledge"}
CancelStep == {"ready", "cancel", "acknowledge"}
ReadStep == {"readback", "merging", "compare"}

CanceledStage == {"processCanceled", "canceled"}

(* What may be left to do of each mode.                                    *)
Remaining(mode) ==
  CASE mode = "rip" -> {<<"rip">>, <<>>}
    [] mode = "ready-to-print" -> {<<"rip", "production">>, <<"production">>, <<>>}
    [] mode = "press-print" ->
         {<<"rip", "production", "press_print">>, <<"production", "press_print">>,
          <<"press_print">>, <<>>}
    [] mode = "print" ->
         {<<"rip", "production", "press_print", "print">>,
          <<"production", "press_print", "print">>, <<"press_print", "print">>,
          <<"print">>, <<>>}
    [] mode = "cancel-ripping" -> {<<"cancel_ripping">>, <<>>}
    [] mode = "cancel-waiting" ->
         {<<"rip", "production", "cancel_waiting">>, <<"production", "cancel_waiting">>,
          <<"cancel_waiting">>, <<>>}
    [] mode = "cancel-printing" ->
         {<<"rip", "production", "press_print", "cancel_printing">>,
          <<"production", "press_print", "cancel_printing">>,
          <<"press_print", "cancel_printing">>, <<"cancel_printing">>, <<>>}
    [] OTHER -> {<<>>}

(* Where the worker stands fits the case and what is left to do.           *)
PathInv ==
  /\ step \in {"constraint", "cleanup"} => case.intent # "positive"
  /\ step \in {"check", "update", "delete"} \cup LifecycleStep \cup ReadStep =>
       case.intent = "positive"
  /\ step = "delete" => case.mode = "delete"
  /\ todo \in Remaining(case.mode)
  /\ step \in ReadStep \cup {"delete"} => todo = <<>>
  /\ step \in LifecycleStep => todo # <<>>
  /\ step = "await" => ~Cancels(Head(todo))
  /\ step \in CancelStep => Cancels(Head(todo))

(* Before its settings and its lifecycle the job can only be spooled.      *)
EarlyInv ==
  step \in EarlyStep =>
    /\ job.stage \in {"absent", "spooling", "spooled", "failed", "deleted"}
    /\ job.raster = "none" /\ job.setting = "initial"

(* The worker has sent the cancellation of its mode.                       *)
OwnCancel ==
  case.mode \in CancelMode /\ (step \in {"acknowledge", "done"} \/ todo = <<>>)

(* What the stage of the job says of its past.                             *)
StageInv ==
  /\ job.stage \in {"absent", "spooling", "spooled", "ripping"} => job.raster = "none"
  /\ job.stage = "ripped" => job.raster # "none"
  /\ job.stage = "printed" => job.printed
  /\ job.stage \in CanceledStage => job.stopped # "no"

(* What goes wrong with the job is a flaw, or the cancellation asked for.  *)
FlawInv ==
  /\ job.stage = "failed" => flawed
  /\ job.stage = "ripped" => job.raster = "made" \/ flawed
  /\ job.stage \in CanceledStage => flawed \/ OwnCancel
  /\ job.setting = "refused" => flawed

(* What the lifecycle has done, it has done to the job.                    *)
DoneInv ==
  /\ case.mode = "rip" => ~job.released
  /\ case.mode \in {"ready-to-print", "press-print"} /\ todo \in {<<>>, <<"press_print">>} =>
       job.released
  /\ ~flawed /\ case.mode = "rip" /\ todo = <<>> => job.stage = "ripped"
  /\ ~flawed /\ case.mode = "print" /\ todo = <<>> => job.printed
  /\ ~flawed /\ case.mode \in CancelMode /\ (step = "acknowledge" \/ todo = <<>>) =>
       job.stopped = "canceled"

(* What an earlier state of the job has reached, the job has reached.      *)
Reached(j) ==
  /\ j.raster = "made" => job.raster = "made"
  /\ j.stage = "ripped" => job.raster # "none"
  /\ j.printed \/ j.stage = "printed" => job.printed
  /\ j.stopped = "canceled" \/ j.stage \in CanceledStage => job.stopped # "no"
  /\ j.noted => job.noted
  /\ j.setting = "wanted" => job.setting = "wanted"
  /\ j.setting = "refused" => flawed
  /\ ~flawed =>
       /\ j.stage # "failed"
       /\ j.stage = "processCanceled" => case.mode \in CancelMode
       /\ case.mode = "rip" => j.stage = "ripped"

(* An old, a partial or a mixed reading shows nothing of the job that has  *)
(* not been reached, as far as a verdict rests on it.                      *)
Shown(x) ==
  /\ "raster" \in x.shown => job.raster = "made"
  /\ x.status = "ripped" => job.raster # "none"
  /\ "printed" \in x.shown \/ x.status = "printed" => job.printed
  /\ "canceled" \in x.shown \/ x.status = "canceled" \/ x.state = "processCanceled" =>
       job.stopped # "no"
  /\ "noted" \in x.shown => job.noted
  /\ x.setting = "wanted" => job.setting = "wanted"
  /\ x.setting = "refused" => flawed
  /\ x # NoRead /\ ~flawed =>
       /\ x.state # "failed"
       /\ x.state = "processCanceled" => case.mode \in CancelMode
       /\ case.mode = "rip" => {x.status, x.state} \subseteq {"ripped", "unknown"}

ReadInv ==
  /\ step = "merging" => Reached(first)
  /\ step # "done" => Shown(actual)

(* The verdict of a constraint test, before its job is deleted.            *)
JudgeInv ==
  step = "cleanup" =>
    /\ verdict = "PASS" => case.conflict /\ job.setting = "initial"
    /\ verdict = "FAIL" => ~case.conflict

VerdictInv ==
  /\ PassMeansModeHappened
  /\ PassMeansSettingsTook
  /\ PassMeansRejection
  /\ FailHasCause
  /\ DisposableJobsAreDeleted

CaseInv ==
  /\ TypeOK
  /\ PathInv
  /\ EarlyInv
  /\ StageInv
  /\ FlawInv
  /\ DoneInv
  /\ ReadInv
  /\ JudgeInv
  /\ VerdictInv

-----------------------------------------------------------------------------
(* The actions of a mode.                                                  *)

LEMMA One ==
  ASSUME NEW a \in Action
  PROVE  /\ <<a>> \in Seq(Action) /\ <<a>> # <<>>
         /\ Head(<<a>>) = a /\ Tail(<<a>>) = <<>>
OBVIOUS

LEMMA Two ==
  ASSUME NEW a \in Action, NEW b \in Action
  PROVE  /\ <<a, b>> \in Seq(Action) /\ <<a, b>> # <<>> /\ <<a, b>> # <<"press_print">>
         /\ Head(<<a, b>>) = a /\ Tail(<<a, b>>) = <<b>>
OBVIOUS

LEMMA Three ==
  ASSUME NEW a \in Action, NEW b \in Action, NEW c \in Action
  PROVE  /\ <<a, b, c>> \in Seq(Action) /\ <<a, b, c>> # <<>> /\ <<a, b, c>> # <<"press_print">>
         /\ Head(<<a, b, c>>) = a /\ Tail(<<a, b, c>>) = <<b, c>>
OBVIOUS

LEMMA Four ==
  ASSUME NEW a \in Action, NEW b \in Action, NEW c \in Action, NEW d \in Action
  PROVE  /\ <<a, b, c, d>> \in Seq(Action) /\ <<a, b, c, d>> # <<>>
         /\ <<a, b, c, d>> # <<"press_print">>
         /\ Head(<<a, b, c, d>>) = a /\ Tail(<<a, b, c, d>>) = <<b, c, d>>
OBVIOUS

(* What is left of a mode begins with its actions and goes on with their   *)
(* rest: ripping comes first, printing and cancellation come last, and the *)
(* release for production comes before what follows ready-to-print.        *)
LEMMA NextAction ==
  ASSUME NEW mode \in Mode
  PROVE  /\ Actions(mode) \in Remaining(mode) /\ Remaining(mode) \subseteq Seq(Action)
         /\ Actions(mode) # <<"press_print">>
         /\ mode \notin {"hold", "delete"} => Actions(mode) # <<>>
         /\ mode \in {"hold", "delete"} => Remaining(mode) = {<<>>}
         /\ \A t \in Remaining(mode) \ {<<>>} :
              /\ Head(t) \in Action /\ Tail(t) \in Remaining(mode)
              /\ Cancels(Head(t)) => Tail(t) = <<>> /\ mode \in CancelMode
              /\ mode \in CancelMode /\ Tail(t) = <<>> => Cancels(Head(t))
              /\ mode = "rip" => Head(t) = "rip"
              /\ mode = "print" /\ Tail(t) = <<>> => Head(t) = "print"
              /\ mode \in {"ready-to-print", "press-print"}
                 /\ Tail(t) \in {<<>>, <<"press_print">>} =>
                   Head(t) = "production" \/ t = <<"press_print">>
<1> USE DEF CancelMode, Cancels
<1>1. CASE mode \in {"hold", "delete"}
  <2>1. Remaining(mode) = {<<>>} /\ Actions(mode) = <<>>
    BY <1>1 DEF Remaining, Actions
  <2>2. <<>> # <<"press_print">> /\ <<>> \in Seq(Action)
    OBVIOUS
  <2>3. QED
    BY <1>1, <2>1, <2>2
<1>2. CASE mode = "rip"
  <2>1. /\ Remaining(mode) = {<<"rip">>, <<>>}
        /\ Actions(mode) = <<"rip">>
    BY <1>2 DEF Remaining, Actions
  <2>2. {"rip"} \subseteq Action
    BY DEF Action
  <2>3. /\ <<"rip">> \in Seq(Action) /\ <<"rip">> # <<>>
        /\ <<"rip">> # <<"press_print">>
        /\ Head(<<"rip">>) = "rip" /\ Tail(<<"rip">>) = <<>>
    BY <2>2, One
  <2>4. <<>> \in Seq(Action) /\ <<>> # <<"press_print">>
    OBVIOUS
  <2>5. QED
    BY <1>2, <2>1, <2>2, <2>3, <2>4
<1>3. CASE mode = "ready-to-print"
  <2>1. /\ Remaining(mode) = {<<"rip", "production">>, <<"production">>, <<>>}
        /\ Actions(mode) = <<"rip", "production">>
    BY <1>3 DEF Remaining, Actions
  <2>2. {"rip", "production"} \subseteq Action
    BY DEF Action
  <2>3. /\ <<"rip", "production">> \in Seq(Action) /\ <<"rip", "production">> # <<>>
        /\ <<"rip", "production">> # <<"press_print">>
        /\ Head(<<"rip", "production">>) = "rip" /\ Tail(<<"rip", "production">>) = <<"production">>
    BY <2>2, Two
  <2>4. /\ <<"production">> \in Seq(Action) /\ <<"production">> # <<>>
        /\ <<"production">> # <<"press_print">>
        /\ Head(<<"production">>) = "production" /\ Tail(<<"production">>) = <<>>
    BY <2>2, One
  <2>5. <<>> \in Seq(Action) /\ <<>> # <<"press_print">>
    OBVIOUS
  <2>6. QED
    BY <1>3, <2>1, <2>2, <2>3, <2>4, <2>5
<1>4. CASE mode = "press-print"
  <2>1. /\ Remaining(mode) = {<<"rip", "production", "press_print">>, <<"production", "press_print">>, <<"press_print">>, <<>>}
        /\ Actions(mode) = <<"rip", "production", "press_print">>
    BY <1>4 DEF Remaining, Actions
  <2>2. {"rip", "production", "press_print"} \subseteq Action
    BY DEF Action
  <2>3. /\ <<"rip", "production", "press_print">> \in Seq(Action) /\ <<"rip", "production", "press_print">> # <<>>
        /\ <<"rip", "production", "press_print">> # <<"press_print">>
        /\ Head(<<"rip", "production", "press_print">>) = "rip" /\ Tail(<<"rip", "production", "press_print">>) = <<"production", "press_print">>
    BY <2>2, Three
  <2>4. /\ <<"production", "press_print">> \in Seq(Action) /\ <<"production", "press_print">> # <<>>
        /\ <<"production", "press_print">> # <<"press_print">>
        /\ Head(<<"production", "press_print">>) = "production" /\ Tail(<<"production", "press_print">>) = <<"press_print">>
    BY <2>2, Two
  <2>5. /\ <<"press_print">> \in Seq(Action) /\ <<"press_print">> # <<>>
        /\ Head(<<"press_print">>) = "press_print" /\ Tail(<<"press_print">>) = <<>>
    BY <2>2, One
  <2>6. <<>> \in Seq(Action) /\ <<>> # <<"press_print">>
    OBVIOUS
  <2>7. QED
    BY <1>4, <2>1, <2>2, <2>3, <2>4, <2>5, <2>6
<1>5. CASE mode = "print"
  <2>1. /\ Remaining(mode) = {<<"rip", "production", "press_print", "print">>, <<"production", "press_print", "print">>, <<"press_print", "print">>, <<"print">>, <<>>}
        /\ Actions(mode) = <<"rip", "production", "press_print", "print">>
    BY <1>5 DEF Remaining, Actions
  <2>2. {"rip", "production", "press_print", "print"} \subseteq Action
    BY DEF Action
  <2>3. /\ <<"rip", "production", "press_print", "print">> \in Seq(Action) /\ <<"rip", "production", "press_print", "print">> # <<>>
        /\ <<"rip", "production", "press_print", "print">> # <<"press_print">>
        /\ Head(<<"rip", "production", "press_print", "print">>) = "rip" /\ Tail(<<"rip", "production", "press_print", "print">>) = <<"production", "press_print", "print">>
    BY <2>2, Four
  <2>4. /\ <<"production", "press_print", "print">> \in Seq(Action) /\ <<"production", "press_print", "print">> # <<>>
        /\ <<"production", "press_print", "print">> # <<"press_print">>
        /\ Head(<<"production", "press_print", "print">>) = "production" /\ Tail(<<"production", "press_print", "print">>) = <<"press_print", "print">>
    BY <2>2, Three
  <2>5. /\ <<"press_print", "print">> \in Seq(Action) /\ <<"press_print", "print">> # <<>>
        /\ <<"press_print", "print">> # <<"press_print">>
        /\ Head(<<"press_print", "print">>) = "press_print" /\ Tail(<<"press_print", "print">>) = <<"print">>
    BY <2>2, Two
  <2>6. /\ <<"print">> \in Seq(Action) /\ <<"print">> # <<>>
        /\ <<"print">> # <<"press_print">>
        /\ Head(<<"print">>) = "print" /\ Tail(<<"print">>) = <<>>
    BY <2>2, One
  <2>7. <<>> \in Seq(Action) /\ <<>> # <<"press_print">>
    OBVIOUS
  <2>8. QED
    BY <1>5, <2>1, <2>2, <2>3, <2>4, <2>5, <2>6, <2>7
<1>6. CASE mode = "cancel-ripping"
  <2>1. /\ Remaining(mode) = {<<"cancel_ripping">>, <<>>}
        /\ Actions(mode) = <<"cancel_ripping">>
    BY <1>6 DEF Remaining, Actions
  <2>2. {"cancel_ripping"} \subseteq Action
    BY DEF Action
  <2>3. /\ <<"cancel_ripping">> \in Seq(Action) /\ <<"cancel_ripping">> # <<>>
        /\ <<"cancel_ripping">> # <<"press_print">>
        /\ Head(<<"cancel_ripping">>) = "cancel_ripping" /\ Tail(<<"cancel_ripping">>) = <<>>
    BY <2>2, One
  <2>4. <<>> \in Seq(Action) /\ <<>> # <<"press_print">>
    OBVIOUS
  <2>5. QED
    BY <1>6, <2>1, <2>2, <2>3, <2>4
<1>7. CASE mode = "cancel-waiting"
  <2>1. /\ Remaining(mode) = {<<"rip", "production", "cancel_waiting">>, <<"production", "cancel_waiting">>, <<"cancel_waiting">>, <<>>}
        /\ Actions(mode) = <<"rip", "production", "cancel_waiting">>
    BY <1>7 DEF Remaining, Actions
  <2>2. {"rip", "production", "cancel_waiting"} \subseteq Action
    BY DEF Action
  <2>3. /\ <<"rip", "production", "cancel_waiting">> \in Seq(Action) /\ <<"rip", "production", "cancel_waiting">> # <<>>
        /\ <<"rip", "production", "cancel_waiting">> # <<"press_print">>
        /\ Head(<<"rip", "production", "cancel_waiting">>) = "rip" /\ Tail(<<"rip", "production", "cancel_waiting">>) = <<"production", "cancel_waiting">>
    BY <2>2, Three
  <2>4. /\ <<"production", "cancel_waiting">> \in Seq(Action) /\ <<"production", "cancel_waiting">> # <<>>
        /\ <<"production", "cancel_waiting">> # <<"press_print">>
        /\ Head(<<"production", "cancel_waiting">>) = "production" /\ Tail(<<"production", "cancel_waiting">>) = <<"cancel_waiting">>
    BY <2>2, Two
  <2>5. /\ <<"cancel_waiting">> \in Seq(Action) /\ <<"cancel_waiting">> # <<>>
        /\ <<"cancel_waiting">> # <<"press_print">>
        /\ Head(<<"cancel_waiting">>) = "cancel_waiting" /\ Tail(<<"cancel_waiting">>) = <<>>
    BY <2>2, One
  <2>6. <<>> \in Seq(Action) /\ <<>> # <<"press_print">>
    OBVIOUS
  <2>7. QED
    BY <1>7, <2>1, <2>2, <2>3, <2>4, <2>5, <2>6
<1>8. CASE mode = "cancel-printing"
  <2>1. /\ Remaining(mode) = {<<"rip", "production", "press_print", "cancel_printing">>, <<"production", "press_print", "cancel_printing">>, <<"press_print", "cancel_printing">>, <<"cancel_printing">>, <<>>}
        /\ Actions(mode) = <<"rip", "production", "press_print", "cancel_printing">>
    BY <1>8 DEF Remaining, Actions
  <2>2. {"rip", "production", "press_print", "cancel_printing"} \subseteq Action
    BY DEF Action
  <2>3. /\ <<"rip", "production", "press_print", "cancel_printing">> \in Seq(Action) /\ <<"rip", "production", "press_print", "cancel_printing">> # <<>>
        /\ <<"rip", "production", "press_print", "cancel_printing">> # <<"press_print">>
        /\ Head(<<"rip", "production", "press_print", "cancel_printing">>) = "rip" /\ Tail(<<"rip", "production", "press_print", "cancel_printing">>) = <<"production", "press_print", "cancel_printing">>
    BY <2>2, Four
  <2>4. /\ <<"production", "press_print", "cancel_printing">> \in Seq(Action) /\ <<"production", "press_print", "cancel_printing">> # <<>>
        /\ <<"production", "press_print", "cancel_printing">> # <<"press_print">>
        /\ Head(<<"production", "press_print", "cancel_printing">>) = "production" /\ Tail(<<"production", "press_print", "cancel_printing">>) = <<"press_print", "cancel_printing">>
    BY <2>2, Three
  <2>5. /\ <<"press_print", "cancel_printing">> \in Seq(Action) /\ <<"press_print", "cancel_printing">> # <<>>
        /\ <<"press_print", "cancel_printing">> # <<"press_print">>
        /\ Head(<<"press_print", "cancel_printing">>) = "press_print" /\ Tail(<<"press_print", "cancel_printing">>) = <<"cancel_printing">>
    BY <2>2, Two
  <2>6. /\ <<"cancel_printing">> \in Seq(Action) /\ <<"cancel_printing">> # <<>>
        /\ <<"cancel_printing">> # <<"press_print">>
        /\ Head(<<"cancel_printing">>) = "cancel_printing" /\ Tail(<<"cancel_printing">>) = <<>>
    BY <2>2, One
  <2>7. <<>> \in Seq(Action) /\ <<>> # <<"press_print">>
    OBVIOUS
  <2>8. QED
    BY <1>8, <2>1, <2>2, <2>3, <2>4, <2>5, <2>6, <2>7
<1>9. QED
  BY <1>1, <1>2, <1>3, <1>4, <1>5, <1>6, <1>7, <1>8 DEF Mode

-----------------------------------------------------------------------------
(* The job.                                                                *)

(* What a request may do to a job, whether it is noted or not.             *)
LEMMA EffectOnJob ==
  ASSUME NEW j \in Job, NEW request
  PROVE  LET k == Effect(request, j)
         IN  /\ k \in Job
             /\ k.raster = j.raster /\ k.printed = j.printed /\ k.noted = j.noted
             /\ j.released => k.released
             /\ request # "production" => k.released = j.released
             /\ j.stopped # "no" => k.stopped # "no"
             /\ j.stopped = "canceled" => k.stopped = "canceled"
             /\ request # "settings" => k.setting = j.setting
             /\ k.setting \in {j.setting, "pending"}
             /\ \/ k.stage = j.stage
                \/ request = "rip" /\ j.stage = "spooled" /\ k.stage = "ripping"
                \/ request = "print" /\ j.stage \in {"ripped", "printed"} /\ k.stage = "waiting"
                \/ request = "delete" /\ k.stage = "deleted"
                \/ /\ request = "cancel" /\ k.stage \in CanceledStage /\ k.stopped = "canceled"
                   /\ j.stage \in {"ripping", "ripped", "waiting", "printing"}
             /\ request = "production" /\ Visible(j) => k.released
             /\ request = "delete" /\ Visible(j) => k.stage = "deleted"
             /\ request = "cancel" => k = j \/ k.stopped = "canceled"
<1> DEFINE k == Effect(request, j)
<1>1. CASE k = j
  <2>1. ~(request = "production" /\ Visible(j)) \/ k.released
    <3>1. CASE request = "production" /\ Visible(j)
      <4>1. k = [j EXCEPT !.released = TRUE]
        BY <3>1 DEF Effect
      <4>2. QED
        BY <4>1 DEF Job
    <3>2. QED
      BY <3>1
  <2>2. ~(request = "delete" /\ Visible(j)) \/ k.stage = "deleted"
    <3>1. CASE request = "delete" /\ Visible(j)
      <4>1. k = [j EXCEPT !.stage = "deleted"]
        BY <3>1 DEF Effect
      <4>2. QED
        BY <4>1 DEF Job
    <3>2. QED
      BY <3>1
  <2>3. QED
    BY <1>1, <2>1, <2>2
<1>2. CASE request = "rip" /\ j.stage = "spooled"
  <2>1. k = [j EXCEPT !.stage = "ripping"]
    BY <1>2 DEF Effect
  <2> HIDE DEF k
  <2>2. QED
    BY <1>2, <2>1 DEF Job, Stage, k
<1>3. CASE request = "production" /\ Visible(j)
  <2>1. k = [j EXCEPT !.released = TRUE]
    BY <1>3 DEF Effect
  <2> HIDE DEF k
  <2>2. QED
    BY <1>3, <2>1 DEF Job, Stage, k
<1>4. CASE request = "print" /\ j.stage \in {"ripped", "printed"}
  <2>1. k = [j EXCEPT !.stage = "waiting"]
    BY <1>4 DEF Effect
  <2> HIDE DEF k
  <2>2. QED
    BY <1>4, <2>1 DEF Job, Stage, k
<1>5. CASE request = "cancel" /\ j.stage = "ripping"
  <2>1. k = [j EXCEPT !.stage = "processCanceled", !.stopped = "canceled"]
    BY <1>5 DEF Effect, CancelableOnServer
  <2> HIDE DEF k
  <2>2. QED
    BY <1>5, <2>1 DEF Job, Stage, CanceledStage, k
<1>6. CASE request = "cancel" /\ j.stage # "ripping" /\ CancelableOnServer(j)
  <2>1. k = [j EXCEPT !.stage = "canceled", !.stopped = "canceled"]
    BY <1>6 DEF Effect
  <2> HIDE DEF k
  <2>2. QED
    BY <1>6, <2>1 DEF Job, Stage, CanceledStage, CancelableOnServer, k
<1>7. CASE request = "delete" /\ Visible(j)
  <2>1. k = [j EXCEPT !.stage = "deleted"]
    BY <1>7 DEF Effect
  <2> HIDE DEF k
  <2>2. QED
    BY <1>7, <2>1 DEF Job, Stage, k
<1>8. CASE request = "settings" /\ Visible(j)
  <2>1. k = [j EXCEPT !.setting = "pending"]
    BY <1>8 DEF Effect
  <2> HIDE DEF k
  <2>2. QED
    BY <1>8, <2>1 DEF Job, Stage, Setting, k
<1>9. \/ k = j
      \/ request = "rip" /\ j.stage = "spooled"
      \/ request = "production" /\ Visible(j)
      \/ request = "print" /\ j.stage \in {"ripped", "printed"}
      \/ request = "cancel" /\ j.stage = "ripping"
      \/ request = "cancel" /\ j.stage # "ripping" /\ CancelableOnServer(j)
      \/ request = "delete" /\ Visible(j)
      \/ request = "settings" /\ Visible(j)
  BY DEF Effect
<1>10. QED
  BY <1>1, <1>2, <1>3, <1>4, <1>5, <1>6, <1>7, <1>8, <1>9

(* A note changes nothing but the recent action of the job.                *)
LEMMA OutcomeOnJob ==
  ASSUME NEW j \in Job, NEW request, NEW k \in Outcomes(request, j)
  PROVE  /\ k \in Job
         /\ k.raster = j.raster /\ k.printed = j.printed
         /\ j.noted => k.noted
         /\ j.released => k.released
         /\ request # "production" => k.released = j.released
         /\ j.stopped # "no" => k.stopped # "no"
         /\ j.stopped = "canceled" => k.stopped = "canceled"
         /\ request # "settings" => k.setting = j.setting
         /\ k.setting \in {j.setting, "pending"}
         /\ \/ k.stage = j.stage
            \/ request = "rip" /\ j.stage = "spooled" /\ k.stage = "ripping"
            \/ request = "print" /\ j.stage \in {"ripped", "printed"} /\ k.stage = "waiting"
            \/ request = "delete" /\ k.stage = "deleted"
            \/ /\ request = "cancel" /\ k.stage \in CanceledStage /\ k.stopped = "canceled"
               /\ j.stage \in {"ripping", "ripped", "waiting", "printing"}
         /\ request = "production" /\ Visible(j) => k.released
         /\ request = "delete" /\ Visible(j) => k.stage = "deleted"
         /\ request = "cancel" /\ Effect(request, j) # j => k.stopped = "canceled"
<1>1. PICK e \in Job : e = Effect(request, j)
  BY EffectOnJob
<1>2. k = e \/ k = [e EXCEPT !.noted = TRUE]
  BY <1>1 DEF Outcomes, Noted
<1>3. /\ k \in Job /\ k.stage = e.stage /\ k.released = e.released /\ k.raster = e.raster
      /\ k.printed = e.printed /\ k.stopped = e.stopped /\ k.setting = e.setting
      /\ e.noted => k.noted
  <2>1. CASE k = e
    BY <2>1
  <2>2. CASE k = [e EXCEPT !.noted = TRUE]
    BY <2>2 DEF Job
  <2>3. QED
    BY <1>2, <2>1, <2>2
<1>4. /\ e.raster = j.raster /\ e.printed = j.printed /\ e.noted = j.noted
      /\ j.released => e.released
      /\ request # "production" => e.released = j.released
      /\ j.stopped # "no" => e.stopped # "no"
      /\ j.stopped = "canceled" => e.stopped = "canceled"
      /\ request # "settings" => e.setting = j.setting
      /\ e.setting \in {j.setting, "pending"}
      /\ request = "production" /\ Visible(j) => e.released
      /\ request = "delete" /\ Visible(j) => e.stage = "deleted"
      /\ request = "cancel" => e = j \/ e.stopped = "canceled"
  BY <1>1, EffectOnJob
<1>5. \/ e.stage = j.stage
      \/ request = "rip" /\ j.stage = "spooled" /\ e.stage = "ripping"
      \/ request = "print" /\ j.stage \in {"ripped", "printed"} /\ e.stage = "waiting"
      \/ request = "delete" /\ e.stage = "deleted"
      \/ /\ request = "cancel" /\ e.stage \in CanceledStage /\ e.stopped = "canceled"
         /\ j.stage \in {"ripping", "ripped", "waiting", "printing"}
  BY <1>1, EffectOnJob
<1>6. QED
  BY <1>1, <1>3, <1>4, <1>5

(* What the server and its other users may do to the job.                  *)
ServerMoves ==
  \/ job'.stage = job.stage /\ job'.raster = job.raster
  \/ job.stage = "spooling" /\ job'.stage = "spooled" /\ job'.raster = job.raster
  \/ /\ job.stage = "ripping" /\ job'.stage = "ripped"
     /\ job'.raster = "made" \/ (job'.raster = "empty" /\ flawed')
  \/ /\ job.stage = "ripped" /\ job.released /\ job'.stage = "waiting"
     /\ job'.raster = job.raster
  \/ job.stage = "waiting" /\ job'.stage = "printing" /\ job'.raster = job.raster
  \/ /\ job.stage = "printing" /\ job'.stage = "printed" /\ job'.printed
     /\ job'.raster = job.raster
  \/ flawed' /\ job'.stage \in {"failed", "deleted"} /\ job'.raster = job.raster
  \/ /\ flawed' /\ job'.stage \in CanceledStage /\ job'.stopped # "no"
     /\ job.stage \in {"ripping", "ripped", "waiting", "printing"}
     /\ job'.raster = job.raster

LEMMA ServerEffect ==
  ASSUME TypeOK, ServerStep
  PROVE  /\ job' \in Job /\ flawed' \in BOOLEAN /\ (flawed => flawed')
         /\ job'.released = job.released
         /\ (job.printed => job'.printed) /\ (job.noted => job'.noted)
         /\ (job.stopped # "no" => job'.stopped # "no")
         /\ job'.stopped = job.stopped \/ flawed'
         /\ job'.setting = job.setting \/ job.setting = "pending"
         /\ job'.setting = "refused" => job.setting = "refused" \/ flawed'
         /\ ServerMoves
<1>1. job \in Job /\ flawed \in BOOLEAN
  BY DEF TypeOK
<1>2. CASE Spool
  BY <1>1, <1>2 DEF Spool, Become, Fail, Job, Stage, ServerMoves
<1>3. CASE Rip
  <2>1. job.stage = "ripping"
    BY <1>3 DEF Rip
  <2>2. CASE job' = [job EXCEPT !.stage = "ripped", !.raster = "made"] /\ UNCHANGED flawed
    BY <1>1, <2>1, <2>2 DEF Job, Stage, ServerMoves
  <2>3. CASE job' = [job EXCEPT !.stage = "ripped", !.raster = "empty"] /\ flawed' = TRUE
    BY <1>1, <2>1, <2>3 DEF Job, Stage, ServerMoves
  <2>4. CASE job' = [job EXCEPT !.stage = "processCanceled", !.stopped = "aborted"] /\ flawed' = TRUE
    BY <1>1, <2>1, <2>4 DEF Job, Stage, ServerMoves, CanceledStage
  <2>5. CASE Fail("failed")
    BY <1>1, <2>1, <2>5 DEF Fail, Job, Stage, ServerMoves
  <2>6. QED
    BY <1>3, <2>2, <2>3, <2>4, <2>5 DEF Rip
<1>4. CASE Queue
  BY <1>1, <1>4 DEF Queue, Become, Job, Stage, ServerMoves
<1>5. CASE PrintJob
  BY <1>1, <1>5 DEF PrintJob, Fail, Job, Stage, ServerMoves
<1>6. CASE TakeSettings
  BY <1>1, <1>6 DEF TakeSettings, Job, Stage, Setting, ServerMoves
<1>7. CASE Intervene
  <2>1. flawed' = TRUE /\ (job' \in Outcomes("cancel", job) \/ job' \in Outcomes("delete", job))
    BY <1>7 DEF Intervene
  <2>2. CASE job' \in Outcomes("cancel", job)
    BY <1>1, <2>1, <2>2, OutcomeOnJob DEF ServerMoves
  <2>3. CASE job' \in Outcomes("delete", job)
    BY <1>1, <2>1, <2>3, OutcomeOnJob DEF ServerMoves
  <2>4. QED
    BY <2>1, <2>2, <2>3
<1>8. QED
  BY <1>2, <1>3, <1>4, <1>5, <1>6, <1>7 DEF ServerStep

(* What has been read stays true when the job goes on.                     *)
Goes ==
  /\ job.raster = "made" => job'.raster = "made"
  /\ job.raster # "none" => job'.raster # "none"
  /\ job.printed => job'.printed
  /\ job.stopped # "no" => job'.stopped # "no"
  /\ job.noted => job'.noted
  /\ job.setting = "wanted" => job'.setting = "wanted"
  /\ flawed => flawed'

LEMMA OldReadings ==
  ASSUME ReadInv, Goes, UNCHANGED <<case, first, actual>>, step # "done",
         step' = "merging" => step = "merging"
  PROVE  ReadInv'
<1>1. Shown(actual)'
  BY DEF ReadInv, Shown, Goes
<1>2. step' = "merging" => Reached(first)'
  BY DEF ReadInv, Reached, Goes
<1>3. QED
  BY <1>1, <1>2 DEF ReadInv

(* There is nothing to say of a case that has no PASS or FAIL yet.         *)
LEMMA NoVerdict ==
  ASSUME step' # "done" \/ verdict' \notin {"PASS", "FAIL"}
  PROVE  VerdictInv'
BY DEF VerdictInv, Result, PassMeansModeHappened, PassMeansSettingsTook, PassMeansRejection,
       FailHasCause, DisposableJobsAreDeleted

LEMMA ServerStepKeeps ==
  ASSUME CaseInv, ServerStep
  PROVE  CaseInv'
<1>1. /\ step # "done" /\ step' = step /\ case' = case /\ cancelled' = cancelled /\ todo' = todo
      /\ first' = first /\ actual' = actual /\ old' = old /\ verdict' = verdict
  BY DEF ServerStep, readVars
<1>2. /\ job \in Job /\ job' \in Job /\ flawed' \in BOOLEAN /\ (flawed => flawed')
      /\ job'.released = job.released
      /\ (job.printed => job'.printed) /\ (job.noted => job'.noted)
      /\ (job.stopped # "no" => job'.stopped # "no")
      /\ job'.stopped = job.stopped \/ flawed'
      /\ job'.setting = job.setting \/ job.setting = "pending"
      /\ job'.setting = "refused" => job.setting = "refused" \/ flawed'
      /\ ServerMoves
  BY ServerEffect DEF CaseInv, TypeOK
<1>3. TypeOK'
  BY <1>1, <1>2 DEF CaseInv, TypeOK
<1>4. PathInv'
  BY <1>1 DEF CaseInv, PathInv
<1>5. EarlyInv'
  BY <1>1, <1>2 DEF CaseInv, EarlyInv, ServerMoves
<1>6. StageInv'
  BY <1>1, <1>2 DEF CaseInv, StageInv, ServerMoves, CanceledStage
<1>7. FlawInv'
  BY <1>1, <1>2 DEF CaseInv, FlawInv, OwnCancel, ServerMoves, CanceledStage
<1>8. DoneInv'
  <2>1. DoneInv
    BY DEF CaseInv
  <2>2. case.mode = "rip" => ~job'.released
    BY <1>2, <2>1 DEF DoneInv
  <2>3. case.mode \in {"ready-to-print", "press-print"} /\ todo \in {<<>>, <<"press_print">>} =>
          job'.released
    BY <1>2, <2>1 DEF DoneInv
  <2>4. ~flawed' /\ case.mode = "rip" /\ todo = <<>> => job'.stage = "ripped"
    BY <1>2, <2>1 DEF DoneInv, ServerMoves
  <2>5. ~flawed' /\ case.mode = "print" /\ todo = <<>> => job'.printed
    BY <1>2, <2>1 DEF DoneInv
  <2>6. ~flawed' /\ case.mode \in CancelMode /\ (step = "acknowledge" \/ todo = <<>>) =>
          job'.stopped = "canceled"
    BY <1>2, <2>1 DEF DoneInv
  <2>7. QED
    BY <1>1, <2>2, <2>3, <2>4, <2>5, <2>6 DEF DoneInv
<1>9. ReadInv'
  <2>1. StageInv /\ ReadInv
    BY DEF CaseInv
  <2>2. Goes
    BY <1>2, <2>1 DEF StageInv, Goes, ServerMoves
  <2>3. QED
    BY <1>1, <2>1, <2>2, OldReadings
<1>10. JudgeInv'
  BY <1>1, <1>2 DEF CaseInv, JudgeInv
<1>11. VerdictInv'
  BY <1>1, NoVerdict
<1>12. QED
  BY <1>3, <1>4, <1>5, <1>6, <1>7, <1>8, <1>9, <1>10, <1>11 DEF CaseInv

-----------------------------------------------------------------------------
(* Steps of the worker that leave the job and the reading alone.           *)

StepName ==
  {"cleanup", "delete", "done"} \cup EarlyStep \cup LifecycleStep \cup ReadStep

LEMMA StepNames ==
  ASSUME TypeOK
  PROVE  step \in StepName
BY DEF TypeOK, StepName, EarlyStep, LifecycleStep, ReadStep

(* A FAIL may end the case with what was read last.                        *)
LEMMA CalmStep ==
  ASSUME CaseInv, UNCHANGED <<case, todo, first, serverVars>>, cancelled' \in BOOLEAN,
         actual' \in Reading \cup {NoRead}, old' \in BOOLEAN,
         actual' = actual \/ step' = "done",
         step' \in StepName, verdict' \in {"none", "PASS", "FAIL", "ERROR"},
         PathInv', JudgeInv', VerdictInv',
         step # "done",
         step' \in EarlyStep => step \in EarlyStep,
         step' = "merging" => step = "merging",
         step' = "acknowledge" => step = "acknowledge",
         step = "acknowledge" => step' \in {"acknowledge", "done"}
  PROVE  CaseInv'
<1>1. job' = job /\ flawed' = flawed /\ case' = case /\ todo' = todo /\ first' = first
  BY DEF serverVars
<1>2. TypeOK'
  BY <1>1 DEF CaseInv, TypeOK, StepName, EarlyStep, LifecycleStep, ReadStep
<1>3. EarlyInv'
  BY <1>1 DEF CaseInv, EarlyInv
<1>4. StageInv'
  BY <1>1 DEF CaseInv, StageInv
<1>5. FlawInv'
  BY <1>1 DEF CaseInv, FlawInv, OwnCancel
<1>6. DoneInv'
  BY <1>1 DEF CaseInv, DoneInv
<1>7. ReadInv'
  <2>1. Goes
    BY <1>1 DEF Goes
  <2>2. CASE step' = "done"
    BY <2>2 DEF ReadInv
  <2>3. CASE actual' = actual
    BY <1>1, <2>1, <2>3, OldReadings DEF CaseInv
  <2>4. QED
    BY <2>2, <2>3
<1>8. QED
  BY <1>2, <1>3, <1>4, <1>5, <1>6, <1>7 DEF CaseInv

(* Where the worker goes after the settings, and after an action.          *)
LEMMA FirstStepOfRest ==
  ASSUME NEW mode \in Mode, NEW t \in Remaining(mode)
  PROVE  /\ FirstStep(t) \in {"readback", "send", "ready"}
         /\ FirstStep(t) = "readback" <=> t = <<>>
         /\ FirstStep(t) = "ready" => Cancels(Head(t))
BY DEF FirstStep, Cancels

LEMMA CaseTypes ==
  ASSUME CaseInv
  PROVE  /\ case \in Case /\ case.mode \in Mode /\ todo \in Remaining(case.mode)
         /\ case.settings \in BOOLEAN /\ case.default \in BOOLEAN /\ case.conflict \in BOOLEAN
         /\ case.range \in {"none", "fits", "exceeds"}
         /\ case.intent # "positive" => case.mode = "hold"
         /\ case.mode \in {"hold", "delete"} => todo = <<>>
         /\ step \in StepName /\ job \in Job /\ flawed \in BOOLEAN /\ cancelled \in BOOLEAN
         /\ actual \in Reading \cup {NoRead} /\ old \in BOOLEAN
         /\ verdict \in {"none", "PASS", "FAIL", "ERROR"}
<1>1. /\ case \in Case /\ job \in Job /\ flawed \in BOOLEAN /\ cancelled \in BOOLEAN
      /\ actual \in Reading \cup {NoRead} /\ old \in BOOLEAN
      /\ verdict \in {"none", "PASS", "FAIL", "ERROR"}
  BY DEF CaseInv, TypeOK
<1>2. /\ case.mode \in Mode
      /\ case.settings \in BOOLEAN /\ case.default \in BOOLEAN /\ case.conflict \in BOOLEAN
      /\ case.range \in {"none", "fits", "exceeds"}
      /\ case.intent # "positive" => case.mode = "hold"
  BY <1>1 DEF Case
<1>3. todo \in Remaining(case.mode)
  BY DEF CaseInv, PathInv
<1>4. case.mode \in {"hold", "delete"} => todo = <<>>
  BY <1>2, <1>3, NextAction
<1>5. QED
  BY <1>1, <1>2, <1>3, <1>4, StepNames DEF CaseInv

LEMMA CancelKeeps ==
  ASSUME CaseInv, Cancel
  PROVE  CaseInv'
<1>1. /\ UNCHANGED <<case, todo, first, serverVars>> /\ cancelled' \in BOOLEAN
      /\ actual' = actual /\ old' = old
      /\ step' = step /\ verdict' = verdict /\ step # "done"
  BY DEF Cancel, readVars
<1>2. /\ step \in StepName /\ verdict \in {"none", "PASS", "FAIL", "ERROR"}
      /\ actual \in Reading \cup {NoRead} /\ old \in BOOLEAN
  BY CaseTypes
<1>3. PathInv' /\ JudgeInv' /\ VerdictInv'
  BY <1>1, NoVerdict DEF CaseInv, PathInv, JudgeInv, serverVars
<1>4. QED
  BY <1>1, <1>2, <1>3, CalmStep

(* The next step after the preset and, if it does not test constraints,    *)
(* after the settings.                                                     *)
LEMMA AfterSettings ==
  ASSUME CaseInv, step' = FirstStep(todo), UNCHANGED <<case, todo>>, case.intent = "positive"
  PROVE  PathInv' /\ step' \in {"readback", "send", "ready"}
<1>1. /\ step' \in {"readback", "send", "ready"}
      /\ step' = "readback" <=> todo = <<>>
      /\ step' = "ready" => Cancels(Head(todo))
  BY CaseTypes, FirstStepOfRest
<1>2. PathInv'
  BY <1>1 DEF CaseInv, PathInv, EarlyStep, LifecycleStep, CancelStep, ReadStep
<1>3. QED
  BY <1>1, <1>2

LEMMA AfterPreset ==
  ASSUME CaseInv, step' \in StepsAfterPreset, UNCHANGED <<case, todo>>
  PROVE  PathInv' /\ step' \in {"constraint", "check", "update", "readback", "send", "ready"}
<1>1. CASE case.intent = "positive" /\ ~case.settings
  <2>1. step' = FirstStep(todo)
    BY <1>1 DEF StepsAfterPreset
  <2>2. QED
    BY <1>1, <2>1, AfterSettings
<1>2. CASE case.intent # "positive"
  <2>1. step' = "constraint"
    BY <1>2 DEF StepsAfterPreset
  <2>2. QED
    BY <1>2, <2>1 DEF CaseInv, PathInv, LifecycleStep, CancelStep, ReadStep
<1>3. CASE case.intent = "positive" /\ case.settings
  <2>1. step' \in {"check", "update"}
    BY <1>3 DEF StepsAfterPreset
  <2>2. QED
    BY <1>3, <2>1 DEF CaseInv, PathInv, LifecycleStep, CancelStep, ReadStep
<1>4. QED
  BY <1>1, <1>2, <1>3, CaseTypes

(* The case has come to an error, or to a failure with a cause.            *)
LEMMA EndsBadly ==
  ASSUME CaseInv, step' = "done", UNCHANGED <<case, todo>>, verdict' \in {"FAIL", "ERROR"},
         verdict' = "FAIL" => FailHasCause' /\ DisposableJobsAreDeleted'
  PROVE  PathInv' /\ JudgeInv' /\ VerdictInv'
<1>1. PathInv' /\ JudgeInv'
  BY DEF CaseInv, PathInv, JudgeInv, LifecycleStep, CancelStep, ReadStep
<1>2. VerdictInv'
  BY DEF VerdictInv, Result, PassMeansModeHappened, PassMeansSettingsTook, PassMeansRejection,
         FailHasCause, DisposableJobsAreDeleted
<1>3. QED
  BY <1>1, <1>2

(* A positive case that fails because of a flaw or of a conflict.          *)
LEMMA FailsForCause ==
  ASSUME flawed' \/ (case.intent = "positive" /\ case.conflict), case.intent = "positive",
         case' = case, case.conflict \in BOOLEAN
  PROVE  FailHasCause' /\ DisposableJobsAreDeleted'
BY DEF FailHasCause, ServerOrSettings, DisposableJobsAreDeleted

(* The waits for the imported job and for a state in which it can be       *)
(* cancelled, the end of any wait, and attempts that read nothing.         *)
LEMMA WaitKeeps ==
  ASSUME CaseInv, AwaitVisible \/ AwaitCancelReady \/ WaitEnds \/ ReadFails \/ Retry
  PROVE  CaseInv'
<1> USE DEF StepName, EarlyStep, LifecycleStep, CancelStep, ReadStep
<1>1. /\ UNCHANGED <<case, todo, first, actual, serverVars>> /\ cancelled' = cancelled
      /\ old' \in {old, actual # NoRead}
  BY DEF AwaitVisible, AwaitCancelReady, WaitEnds, ReadFails, Retry, readVars
<1>2. /\ cancelled \in BOOLEAN /\ verdict \in {"none", "PASS", "FAIL", "ERROR"}
      /\ actual \in Reading \cup {NoRead} /\ old' \in BOOLEAN
  BY <1>1, CaseTypes
<1>3. CASE WaitEnds
  <2>1. step' = "done" /\ verdict' = "ERROR" /\ step \in {"visible", "spool", "await", "ready", "acknowledge"}
    BY <1>3 DEF WaitEnds, Waiting, Finish
  <2>2. PathInv' /\ JudgeInv' /\ VerdictInv'
    BY <1>1, <2>1, EndsBadly
  <2>3. QED
    BY <1>1, <1>2, <2>1, <2>2, CalmStep
<1>4. CASE AwaitVisible \/ AwaitCancelReady \/ ReadFails \/ Retry
  <2>1. /\ verdict' = verdict
        /\ \/ step = "visible" /\ step' = "spool"
           \/ step = "ready" /\ step' = "cancel"
           \/ step = "readback" /\ step' = "compare"
           \/ step = "compare" /\ step' = "readback"
    BY <1>4 DEF AwaitVisible, AwaitCancelReady, ReadFails, Retry, GoTo
  <2>2. PathInv' /\ JudgeInv' /\ VerdictInv'
    BY <1>1, <2>1, NoVerdict DEF CaseInv, PathInv, JudgeInv
  <2>3. QED
    BY <1>1, <1>2, <2>1, <2>2, CalmStep
<1>5. QED
  BY <1>3, <1>4

(* What one poll shows is so: a part of the job as it is.                  *)
LEMMA MixedReading ==
  ASSUME NEW a \in Job, NEW b \in Job, NEW looked, NEW x \in Merged(a, b, looked)
  PROVE  /\ x \in Reading /\ x # NoRead
         /\ {x.status, x.state} \subseteq {a.stage, b.stage, "unknown"}
         /\ x.setting \in {a.setting, b.setting, "missing"}
         /\ ~case.settings => x.setting = "missing"
         /\ "released" \in x.shown => a.released \/ b.released
         /\ "raster" \in x.shown => "made" \in {a.raster, b.raster}
         /\ "printed" \in x.shown => a.printed \/ b.printed
         /\ "canceled" \in x.shown => "canceled" \in {a.stopped, b.stopped}
         /\ "noted" \in x.shown => a.noted \/ b.noted
<1>1. /\ a.stage \in Stage /\ b.stage \in Stage /\ a.setting \in Setting /\ b.setting \in Setting
      /\ a.released \in BOOLEAN /\ b.released \in BOOLEAN
      /\ a.printed \in BOOLEAN /\ b.printed \in BOOLEAN
      /\ a.noted \in BOOLEAN /\ b.noted \in BOOLEAN
  BY DEF Job
<1>2. /\ x = [status |-> x.status, state |-> x.state, shown |-> x.shown, setting |-> x.setting]
      /\ x.status \in {a.stage, b.stage, "unknown"} /\ x.state \in {a.stage, b.stage, "unknown"}
      /\ x.shown \subseteq Evidence(a) \cup Evidence(b) \cup Counts(b)
      /\ x.setting \in {a.setting, b.setting, "missing"}
      /\ ~case.settings => x.setting = "missing"
  BY DEF Merged
<1>3. \A j \in {a, b} :
        /\ Evidence(j) \subseteq AnyEvidence \ PageCounts
        /\ "released" \in Evidence(j) => j.released
        /\ "raster" \in Evidence(j) => j.raster = "made"
        /\ "printed" \in Evidence(j) => j.printed
        /\ "canceled" \in Evidence(j) => j.stopped = "canceled"
        /\ "noted" \in Evidence(j) => j.noted
  BY DEF Evidence, AnyEvidence, PageCounts
<1>4. Counts(b) \subseteq PageCounts
  BY DEF Counts
<1>5. x.shown \subseteq AnyEvidence
  BY <1>2, <1>3, <1>4 DEF AnyEvidence
<1>6. x \in Reading
  BY <1>1, <1>2, <1>5 DEF Reading
<1>7. x # NoRead
  <2>1. x.status \in Stage \cup {"unknown"}
    BY <1>1, <1>2
  <2>2. NoRead.status = "unread" /\ "unread" \notin Stage \cup {"unknown"}
    BY DEF NoRead, Stage
  <2>3. QED
    BY <2>1, <2>2
<1>8. \A e \in {"released", "raster", "printed", "canceled", "noted"} :
        e \in x.shown => e \in Evidence(a) \/ e \in Evidence(b)
  BY <1>2, <1>4 DEF PageCounts
<1>9. QED
  BY <1>2, <1>3, <1>6, <1>7, <1>8

LEMMA PolledReading ==
  ASSUME job \in Job, NEW looked, NEW x \in Poll(looked)
  PROVE  /\ x \in Reading /\ x # NoRead
         /\ {x.status, x.state} \subseteq {job.stage, "unknown"}
         /\ "released" \in x.shown => job.released
         /\ "printed" \in x.shown => job.printed
<1>1. x \in Merged(job, job, looked)
  BY DEF Poll
<1>2. QED
  BY <1>1, MixedReading

(* A spooled job; one that could not be spooled is flawed.                 *)
LEMMA AwaitSpooledKeeps ==
  ASSUME CaseInv, AwaitSpooled
  PROVE  CaseInv'
<1> USE DEF StepName, EarlyStep, LifecycleStep, CancelStep, ReadStep
<1>1. /\ UNCHANGED <<case, todo, first, serverVars>> /\ cancelled' = cancelled /\ step = "spool"
      /\ old' = old /\ job' = job /\ flawed' = flawed /\ case' = case
  BY DEF AwaitSpooled, serverVars
<1>2. /\ cancelled \in BOOLEAN /\ verdict \in {"none", "PASS", "FAIL", "ERROR"} /\ job \in Job
      /\ actual \in Reading \cup {NoRead} /\ old \in BOOLEAN
  BY CaseTypes
<1>3. PICK r \in Poll(PageCounts) :
        IF NoFailure(r) /\ PageRangeValid(r)
        THEN UNCHANGED actual /\ \E s \in StepsAfterSpooling : GoTo(s)
        ELSE Finish("FAIL") /\ actual' = r
  BY DEF AwaitSpooled
<1>4. r \in Reading /\ r # NoRead /\ r.state \in {job.stage, "unknown"}
  BY <1>2, PolledReading
<1>5. CASE NoFailure(r) /\ PageRangeValid(r)
  <2>1. /\ verdict' = verdict /\ actual' = actual
        /\ step' = "preset" \/ step' \in StepsAfterPreset
    BY <1>3, <1>5 DEF GoTo, StepsAfterSpooling
  <2>2. /\ step' \in {"preset", "constraint", "check", "update", "readback", "send", "ready"}
        /\ PathInv'
    <3>1. CASE step' = "preset"
      BY <1>1, <3>1 DEF CaseInv, PathInv
    <3>2. CASE step' \in StepsAfterPreset
      BY <1>1, <3>2, AfterPreset
    <3>3. QED
      BY <2>1, <3>1, <3>2
  <2>3. JudgeInv' /\ VerdictInv'
    BY <2>2, NoVerdict DEF JudgeInv
  <2>4. QED
    BY <1>1, <1>2, <2>1, <2>2, <2>3, CalmStep
<1>6. CASE ~(NoFailure(r) /\ PageRangeValid(r))
  <2>1. step' = "done" /\ verdict' = "FAIL" /\ actual' = r
    BY <1>3, <1>6 DEF Finish
  <2>2. job.stage \in {"absent", "spooling", "spooled", "failed", "deleted"} /\ job.setting = "initial"
    BY <1>1 DEF CaseInv, EarlyInv
  <2>3. ~NoFailure(r) => flawed
    BY <1>4, <2>2 DEF CaseInv, FlawInv, NoFailure
  <2>4. ~PageRangeValid(r) =>
          case.range = "exceeds" \/ (case.range = "fits" /\ r.shown \cap PageCounts = {})
    BY CaseTypes DEF PageRangeValid
  <2>5. FailHasCause'
    BY <1>1, <1>6, <2>1, <2>2, <2>3, <2>4 DEF FailHasCause, ServerOrSettings
  <2>6. DisposableJobsAreDeleted'
    BY <1>4, <2>1 DEF DisposableJobsAreDeleted
  <2>7. PathInv' /\ JudgeInv' /\ VerdictInv'
    BY <1>1, <2>1, <2>5, <2>6, EndsBadly
  <2>8. QED
    BY <1>1, <1>2, <1>4, <2>1, <2>7, CalmStep
<1>7. QED
  BY <1>5, <1>6

LEMMA ApplyPresetKeeps ==
  ASSUME CaseInv, ApplyPreset
  PROVE  CaseInv'
<1> USE DEF StepName, EarlyStep, LifecycleStep, CancelStep, ReadStep
<1>1. /\ UNCHANGED <<case, todo, first, actual, old, serverVars>> /\ cancelled' = cancelled
      /\ step = "preset"
  BY DEF ApplyPreset, readVars
<1>2. /\ cancelled \in BOOLEAN /\ verdict \in {"none", "PASS", "FAIL", "ERROR"}
      /\ actual \in Reading \cup {NoRead} /\ old \in BOOLEAN
  BY CaseTypes
<1>3. CASE step' \in StepsAfterPreset /\ verdict' = verdict
  <2>1. PathInv' /\ step' \in {"constraint", "check", "update", "readback", "send", "ready"}
    BY <1>1, <1>3, AfterPreset
  <2>2. JudgeInv' /\ VerdictInv'
    BY <2>1, NoVerdict DEF JudgeInv
  <2>3. QED
    BY <1>1, <1>2, <1>3, <2>1, <2>2, CalmStep
<1>4. CASE step' = "done" /\ verdict' = "ERROR"
  <2>1. PathInv' /\ JudgeInv' /\ VerdictInv'
    BY <1>1, <1>4, EndsBadly
  <2>2. QED
    BY <1>1, <1>2, <1>4, <2>1, CalmStep
<1>5. QED
  BY <1>3, <1>4 DEF ApplyPreset, GoTo, Finish

(* A conflict found before the settings are sent fails a positive case.    *)
LEMMA CheckConstraintsKeeps ==
  ASSUME CaseInv, CheckConstraints
  PROVE  CaseInv'
<1> USE DEF StepName, EarlyStep, LifecycleStep, CancelStep, ReadStep
<1>1. /\ UNCHANGED <<case, todo, first, actual, old, serverVars>> /\ cancelled' = cancelled
      /\ step = "check"
  BY DEF CheckConstraints, readVars
<1>2. /\ cancelled \in BOOLEAN /\ verdict \in {"none", "PASS", "FAIL", "ERROR"}
      /\ actual \in Reading \cup {NoRead} /\ old \in BOOLEAN
      /\ case.intent = "positive" /\ case.conflict \in BOOLEAN
  BY <1>1, CaseTypes DEF CaseInv, PathInv
<1>3. CASE step' = "update" /\ verdict' = verdict
  <2>1. PathInv' /\ JudgeInv' /\ VerdictInv'
    BY <1>1, <1>3, NoVerdict DEF CaseInv, PathInv, JudgeInv
  <2>2. QED
    BY <1>1, <1>2, <1>3, <2>1, CalmStep
<1>4. CASE step' = "done" /\ (verdict' = "ERROR" \/ (verdict' = "FAIL" /\ case.conflict))
  <2>1. verdict' = "FAIL" => FailHasCause' /\ DisposableJobsAreDeleted'
    BY <1>1, <1>2, <1>4, FailsForCause
  <2>2. PathInv' /\ JudgeInv' /\ VerdictInv'
    BY <1>1, <1>4, <2>1, EndsBadly
  <2>3. QED
    BY <1>1, <1>2, <1>4, <2>2, CalmStep
<1>5. QED
  BY <1>3, <1>4 DEF CheckConstraints, GoTo, Finish

LEMMA ValidateKeeps ==
  ASSUME CaseInv, ValidateInvalidSettings
  PROVE  CaseInv'
<1> USE DEF StepName, EarlyStep, LifecycleStep, CancelStep, ReadStep
<1>1. /\ UNCHANGED <<case, todo, first, actual, old, serverVars>> /\ cancelled' = cancelled
      /\ step = "constraint" /\ step' = "cleanup" /\ job' = job
      /\ verdict' \in {"PASS", "FAIL", "ERROR"}
      /\ verdict' = "PASS" => case.conflict
      /\ verdict' = "FAIL" => ~case.conflict
  BY DEF ValidateInvalidSettings, Judge, serverVars, readVars
<1>2. cancelled \in BOOLEAN /\ actual \in Reading \cup {NoRead} /\ old \in BOOLEAN
  BY CaseTypes
<1>3. PathInv'
  BY <1>1 DEF CaseInv, PathInv
<1>4. JudgeInv' /\ VerdictInv'
  BY <1>1, NoVerdict DEF CaseInv, EarlyInv, JudgeInv
<1>5. QED
  BY <1>1, <1>2, <1>3, <1>4, CalmStep

-----------------------------------------------------------------------------
(* Requests to the server.                                                 *)

LEMMA RequestEffect ==
  ASSUME CaseInv, NEW request, Accepted(request) \/ Refused(request)
  PROVE  /\ job' \in {job} \cup Outcomes(request, job)
         /\ flawed' \in BOOLEAN /\ (flawed => flawed')
BY DEF Accepted, Refused, CaseInv, TypeOK

(* A request, whose effect may be lost and whose reply may be lost, keeps  *)
(* the invariant if it fits the case: only a cancel mode cancels, RIP does *)
(* not release, and nothing is sent for a mode that is done.               *)
LEMMA RequestStep ==
  ASSUME CaseInv, UNCHANGED <<case, cancelled, todo, readVars>>,
         NEW request, job' \in {job} \cup Outcomes(request, job),
         flawed' \in BOOLEAN, flawed => flawed',
         step' \in StepName \ EarlyStep, verdict' \in {"none", "PASS", "FAIL", "ERROR"},
         step \notin {"acknowledge", "done"}, step' # "merging",
         PathInv', JudgeInv', VerdictInv',
         request = "cancel" => OwnCancel',
         request = "production" => case.mode # "rip",
         request = "settings" => step \in EarlyStep,
         request \notin {"settings", "nothing"} /\ todo = <<>> =>
           case.mode \notin {"rip", "print"} \cup CancelMode,
         step' = "acknowledge" => flawed' \/ job'.stopped = "canceled"
  PROVE  CaseInv'
<1>1. job \in Job
  BY DEF CaseInv, TypeOK
<1>2. /\ job' \in Job
      /\ job'.raster = job.raster /\ job'.printed = job.printed
      /\ job.noted => job'.noted
      /\ job.released => job'.released
      /\ request # "production" => job'.released = job.released
      /\ job.stopped # "no" => job'.stopped # "no"
      /\ job.stopped = "canceled" => job'.stopped = "canceled"
      /\ request # "settings" => job'.setting = job.setting
      /\ job'.setting \in {job.setting, "pending"}
      /\ \/ job'.stage = job.stage
         \/ request = "rip" /\ job.stage = "spooled" /\ job'.stage = "ripping"
         \/ request \in {"print", "delete"} /\ job'.stage \in {"waiting", "deleted"}
         \/ request = "cancel" /\ job'.stage \in CanceledStage /\ job'.stopped = "canceled"
  <2>1. CASE job' = job
    BY <1>1, <2>1
  <2>2. CASE job' \in Outcomes(request, job)
    BY <1>1, <2>2, OutcomeOnJob
  <2>3. QED
    BY <2>1, <2>2
<1>3. /\ case' = case /\ cancelled' = cancelled /\ todo' = todo
      /\ first' = first /\ actual' = actual /\ old' = old
  BY DEF readVars
<1>4. TypeOK'
  BY <1>2, <1>3 DEF CaseInv, TypeOK, StepName, EarlyStep, LifecycleStep, ReadStep
<1>5. EarlyInv'
  BY DEF EarlyInv
<1>6. StageInv'
  BY <1>2 DEF CaseInv, StageInv, CanceledStage
<1>7. FlawInv'
  BY <1>2, <1>3 DEF CaseInv, FlawInv, OwnCancel, CanceledStage
<1>8. DoneInv'
  <2>1. case.mode = "rip" => ~job'.released
    BY <1>2 DEF CaseInv, DoneInv
  <2>2. case.mode \in {"ready-to-print", "press-print"} /\ todo \in {<<>>, <<"press_print">>} =>
          job'.released
    BY <1>2 DEF CaseInv, DoneInv
  <2>3. ~flawed' /\ case.mode = "rip" /\ todo = <<>> => job'.stage = "ripped"
    BY <1>2 DEF CaseInv, DoneInv
  <2>4. ~flawed' /\ case.mode = "print" /\ todo = <<>> => job'.printed
    BY <1>2 DEF CaseInv, DoneInv
  <2>5. ~flawed' /\ case.mode \in CancelMode /\ (step' = "acknowledge" \/ todo = <<>>) =>
          job'.stopped = "canceled"
    BY <1>2 DEF CaseInv, DoneInv
  <2>6. QED
    BY <1>3, <2>1, <2>2, <2>3, <2>4, <2>5 DEF DoneInv
<1>9. ReadInv'
  <2>1. request = "settings" => job.setting = "initial"
    BY DEF CaseInv, EarlyInv
  <2>2. Goes
    BY <1>2, <2>1 DEF Goes
  <2>3. QED
    BY <1>3, <2>2, OldReadings DEF CaseInv
<1>10. QED
  BY <1>4, <1>5, <1>6, <1>7, <1>8, <1>9 DEF CaseInv

LEMMA ImportKeeps ==
  ASSUME CaseInv, Import
  PROVE  CaseInv'
<1> USE DEF StepName, EarlyStep, LifecycleStep, CancelStep, ReadStep
<1>1. /\ case' = case /\ cancelled' = cancelled /\ todo' = todo /\ first' = first
      /\ actual' = actual /\ old' = old /\ flawed' = flawed /\ step = "import"
      /\ job' = job \/ job' = [job EXCEPT !.stage = "spooling"]
      /\ \/ step' = "visible" /\ verdict' = verdict
         \/ step' = "done" /\ verdict' = "ERROR"
  BY DEF Import, GoTo, Finish, readVars
<1>2. /\ job \in Job /\ verdict \in {"none", "PASS", "FAIL", "ERROR"}
      /\ job.stage \in {"absent", "spooling", "spooled", "failed", "deleted"}
      /\ job.raster = "none" /\ job.setting = "initial"
  BY <1>1 DEF CaseInv, TypeOK, EarlyInv
<1>3. /\ job' \in Job /\ job'.setting = "initial" /\ job'.released = job.released
      /\ job'.stage \in {job.stage, "spooling"} /\ job'.printed = job.printed
      /\ job'.raster = job.raster /\ job'.stopped = job.stopped /\ job'.noted = job.noted
  BY <1>1, <1>2 DEF Job, Stage
<1>4. TypeOK'
  BY <1>1, <1>2, <1>3 DEF CaseInv, TypeOK
<1>5. EarlyInv'
  BY <1>1, <1>2, <1>3 DEF EarlyInv
<1>6. StageInv'
  BY <1>1, <1>2, <1>3 DEF CaseInv, StageInv, CanceledStage
<1>7. FlawInv'
  BY <1>1, <1>2, <1>3 DEF CaseInv, FlawInv, CanceledStage
<1>8. DoneInv'
  BY <1>1, <1>2, <1>3 DEF CaseInv, DoneInv, CanceledStage
<1>9. ReadInv'
  <2>1. Goes
    BY <1>1, <1>2, <1>3 DEF Goes
  <2>2. QED
    BY <1>1, <2>1, OldReadings DEF CaseInv
<1>10. PathInv' /\ JudgeInv' /\ VerdictInv'
  <2>1. CASE step' = "visible" /\ verdict' = verdict
    BY <1>1, <2>1, NoVerdict DEF CaseInv, PathInv, JudgeInv
  <2>2. CASE step' = "done" /\ verdict' = "ERROR"
    BY <1>1, <2>2, EndsBadly
  <2>3. QED
    BY <1>1, <2>1, <2>2
<1>11. QED
  BY <1>4, <1>5, <1>6, <1>7, <1>8, <1>9, <1>10 DEF CaseInv

LEMMA UpdateKeeps ==
  ASSUME CaseInv, UpdateSettings
  PROVE  CaseInv'
<1> USE DEF StepName, EarlyStep, LifecycleStep, CancelStep, ReadStep
<1>1. UNCHANGED <<case, cancelled, todo, readVars>> /\ step = "update"
  BY DEF UpdateSettings
<1>2. verdict \in {"none", "PASS", "FAIL", "ERROR"} /\ case.intent = "positive"
  BY <1>1 DEF CaseInv, TypeOK, PathInv
<1>3. PICK request \in {"settings", "nothing"} : Accepted(request) \/ Refused(request)
  BY DEF UpdateSettings
<1>4. /\ job' \in {job} \cup Outcomes(request, job)
      /\ flawed' \in BOOLEAN /\ (flawed => flawed')
  BY <1>3, RequestEffect
<1>5. CASE step' = FirstStep(todo) /\ verdict' = verdict
  <2>1. PathInv' /\ step' \in {"readback", "send", "ready"}
    BY <1>1, <1>2, <1>5, AfterSettings
  <2>2. JudgeInv' /\ VerdictInv'
    BY <2>1, NoVerdict DEF JudgeInv
  <2>3. QED
    BY <1>1, <1>2, <1>3, <1>4, <1>5, <2>1, <2>2, RequestStep
<1>6. CASE step' = "done" /\ verdict' = "ERROR"
  <2>1. PathInv' /\ JudgeInv' /\ VerdictInv'
    BY <1>1, <1>6, EndsBadly
  <2>2. QED
    BY <1>1, <1>3, <1>4, <1>6, <2>1, RequestStep
<1>7. QED
  BY <1>5, <1>6 DEF UpdateSettings, GoTo, Finish

LEMMA ApplyInvalidKeeps ==
  ASSUME CaseInv, ApplyInvalidSettings
  PROVE  CaseInv'
<1> USE DEF StepName, EarlyStep, LifecycleStep, CancelStep, ReadStep
<1>1. /\ UNCHANGED <<case, cancelled, todo, readVars>>
      /\ step = "constraint" /\ step' = "cleanup" /\ verdict' \in {"PASS", "FAIL", "ERROR"}
  BY DEF ApplyInvalidSettings, Judge
<1>2. /\ cancelled \in BOOLEAN /\ case.intent # "positive"
      /\ actual \in Reading \cup {NoRead} /\ old \in BOOLEAN
      /\ job.setting = "initial"
  BY <1>1, CaseTypes DEF CaseInv, PathInv, EarlyInv
<1>3. PathInv'
  BY <1>1, <1>2 DEF CaseInv, PathInv
<1>4. VerdictInv'
  BY <1>1, NoVerdict
<1>5. CASE UNCHANGED serverVars /\ verdict' = "PASS" /\ case.conflict
  <2>1. JudgeInv'
    BY <1>1, <1>2, <1>5 DEF JudgeInv, serverVars
  <2>2. QED
    BY <1>1, <1>2, <1>3, <1>4, <1>5, <2>1, CalmStep DEF readVars
<1>6. CASE \E request \in {"settings", "nothing"} :
             /\ Accepted(request) \/ Refused(request)
             /\ verdict' = "ERROR" \/ (verdict' = "FAIL" /\ ~case.conflict)
  <2>1. PICK request \in {"settings", "nothing"} :
          /\ Accepted(request) \/ Refused(request)
          /\ verdict' = "ERROR" \/ (verdict' = "FAIL" /\ ~case.conflict)
    BY <1>6
  <2>2. /\ job' \in {job} \cup Outcomes(request, job)
        /\ flawed' \in BOOLEAN /\ (flawed => flawed')
    BY <2>1, RequestEffect
  <2>3. JudgeInv'
    BY <1>1, <2>1 DEF JudgeInv
  <2>4. QED
    BY <1>1, <1>3, <1>4, <2>1, <2>2, <2>3, RequestStep
<1>7. QED
  BY <1>5, <1>6 DEF ApplyInvalidSettings, Judge

(* The disposable job is deleted before the verdict counts.                *)
LEMMA CleanUpKeeps ==
  ASSUME CaseInv, CleanUp
  PROVE  CaseInv'
<1> USE DEF StepName, EarlyStep, LifecycleStep, CancelStep, ReadStep
<1>1. /\ UNCHANGED <<case, cancelled, todo, readVars>>
      /\ step = "cleanup" /\ step' = "done"
      /\ Accepted("delete") \/ Refused("delete")
      /\ verdict' = "ERROR" \/ (Accepted("delete") /\ verdict' = verdict)
  BY DEF CleanUp, Finish
<1>2. /\ job' \in {job} \cup Outcomes("delete", job)
      /\ flawed' \in BOOLEAN /\ (flawed => flawed')
  BY <1>1, RequestEffect
<1>3. /\ verdict \in {"none", "PASS", "FAIL", "ERROR"} /\ case.intent # "positive"
      /\ verdict = "PASS" => case.conflict /\ job.setting = "initial"
      /\ verdict = "FAIL" => ~case.conflict
      /\ job \in Job /\ case.mode = "hold"
  BY <1>1, CaseTypes DEF CaseInv, TypeOK, PathInv, JudgeInv
<1>4. PathInv' /\ JudgeInv'
  BY <1>1 DEF CaseInv, PathInv, JudgeInv
<1>5. job'.setting = job.setting
  BY <1>2, <1>3, OutcomeOnJob
<1>6. VerdictInv'
  <2>1. CASE verdict' = "ERROR"
    BY <2>1, NoVerdict
  <2>2. CASE Accepted("delete") /\ verdict' = verdict
    <3>1. Visible(job) /\ job' \in Outcomes("delete", job)
      BY <2>2 DEF Accepted
    <3>2. job'.stage = "deleted"
      BY <1>3, <3>1, OutcomeOnJob
    <3>3. PassMeansModeHappened' /\ PassMeansSettingsTook'
      BY <1>1, <1>3 DEF PassMeansModeHappened, PassMeansSettingsTook
    <3>4. PassMeansRejection'
      BY <1>1, <1>3, <1>5, <2>2 DEF PassMeansRejection, Result
    <3>5. FailHasCause'
      BY <1>1, <1>3, <2>2, CaseTypes DEF FailHasCause, ServerOrSettings, Result
    <3>6. DisposableJobsAreDeleted'
      BY <3>2 DEF DisposableJobsAreDeleted
    <3>7. QED
      BY <3>3, <3>4, <3>5, <3>6 DEF VerdictInv
  <2>3. QED
    BY <1>1, <2>1, <2>2
<1>7. QED
  BY <1>1, <1>2, <1>3, <1>4, <1>6, RequestStep DEF CancelMode

(* A request of the lifecycle.                                             *)
LEMMA SendActionKeeps ==
  ASSUME CaseInv, SendAction
  PROVE  CaseInv'
<1> USE DEF StepName, EarlyStep, LifecycleStep, CancelStep, ReadStep
<1>1. /\ UNCHANGED <<case, cancelled, todo, readVars>> /\ step = "send"
      /\ Accepted(Request(Head(todo))) \/ Refused(Request(Head(todo)))
      /\ \/ step' = (IF Cancels(Head(todo)) THEN "ready" ELSE "await") /\ verdict' = verdict
         \/ step' = "done" /\ verdict' = "ERROR"
  BY DEF SendAction, GoTo, Finish
<1>2. /\ verdict \in {"none", "PASS", "FAIL", "ERROR"} /\ todo # <<>>
      /\ case.intent = "positive" /\ case.mode \in Mode
      /\ todo \in Remaining(case.mode) \ {<<>>}
  BY <1>1, CaseTypes DEF CaseInv, TypeOK, PathInv
<1>3. Head(todo) \in Action /\ (case.mode = "rip" => Head(todo) = "rip")
  BY <1>2, NextAction
<1>4. PICK request \in {"rip", "print", "production"} :
        /\ Accepted(request) \/ Refused(request)
        /\ request = "production" => case.mode # "rip"
  BY <1>1, <1>3 DEF Request
<1>5. /\ job' \in {job} \cup Outcomes(request, job)
      /\ flawed' \in BOOLEAN /\ (flawed => flawed')
  BY <1>4, RequestEffect
<1>6. CASE step' = (IF Cancels(Head(todo)) THEN "ready" ELSE "await") /\ verdict' = verdict
  <2>1. step' \in {"ready", "await"}
    BY <1>6
  <2>2. PathInv'
    BY <1>1, <1>2, <1>6 DEF CaseInv, PathInv
  <2>3. JudgeInv' /\ VerdictInv'
    BY <2>1, NoVerdict DEF JudgeInv
  <2>4. QED
    BY <1>1, <1>2, <1>4, <1>5, <1>6, <2>1, <2>2, <2>3, RequestStep
<1>7. CASE step' = "done" /\ verdict' = "ERROR"
  <2>1. PathInv' /\ JudgeInv' /\ VerdictInv'
    BY <1>1, <1>7, EndsBadly
  <2>2. QED
    BY <1>1, <1>2, <1>4, <1>5, <1>7, <2>1, RequestStep
<1>8. QED
  BY <1>1, <1>6, <1>7

(* A cancellation that the server accepts and ignores is a flaw.           *)
LEMMA SendCancelKeeps ==
  ASSUME CaseInv, SendCancel
  PROVE  CaseInv'
<1> USE DEF StepName, EarlyStep, LifecycleStep, CancelStep, ReadStep
<1>1. /\ UNCHANGED <<case, cancelled, todo, readVars>> /\ step = "cancel"
      /\ Accepted("cancel") \/ Refused("cancel")
      /\ \/ Accepted("cancel") /\ step' = "acknowledge" /\ verdict' = verdict
         \/ step' = "done" /\ verdict' = "ERROR"
  BY DEF SendCancel, GoTo, Finish
<1>2. /\ verdict \in {"none", "PASS", "FAIL", "ERROR"} /\ todo # <<>>
      /\ case.intent = "positive" /\ case.mode \in Mode /\ Cancels(Head(todo))
      /\ todo \in Remaining(case.mode) \ {<<>>} /\ job \in Job
  BY <1>1, CaseTypes DEF CaseInv, TypeOK, PathInv
<1>3. case.mode \in CancelMode
  BY <1>2, NextAction
<1>4. /\ job' \in {job} \cup Outcomes("cancel", job)
      /\ flawed' \in BOOLEAN /\ (flawed => flawed')
  BY <1>1, RequestEffect
<1>5. OwnCancel'
  BY <1>1, <1>3 DEF OwnCancel
<1>6. CASE Accepted("cancel") /\ step' = "acknowledge" /\ verdict' = verdict
  <2>1. PathInv'
    BY <1>1, <1>2, <1>6 DEF CaseInv, PathInv
  <2>2. JudgeInv' /\ VerdictInv'
    BY <1>6, NoVerdict DEF JudgeInv
  <2>3. flawed' \/ job'.stopped = "canceled"
    <3>1. /\ job' \in Outcomes("cancel", job)
          /\ flawed' = (flawed \/ Effect("cancel", job) = job)
      BY <1>6 DEF Accepted
    <3>2. Effect("cancel", job) # job => job'.stopped = "canceled"
      BY <1>2, <3>1, OutcomeOnJob
    <3>3. QED
      BY <3>1, <3>2
  <2>4. QED
    BY <1>1, <1>2, <1>4, <1>5, <1>6, <2>1, <2>2, <2>3, RequestStep
<1>7. CASE step' = "done" /\ verdict' = "ERROR"
  <2>1. PathInv' /\ JudgeInv' /\ VerdictInv'
    BY <1>1, <1>7, EndsBadly
  <2>2. QED
    BY <1>1, <1>2, <1>4, <1>5, <1>7, <2>1, RequestStep
<1>8. QED
  BY <1>1, <1>6, <1>7

-----------------------------------------------------------------------------
(* The lifecycle goes on: one action less is left.                         *)

LEMMA ProceedKeeps ==
  ASSUME CaseInv, Proceed, UNCHANGED <<case, cancelled, readVars, serverVars>>,
         step \in {"await", "acknowledge"}, DoneInv'
  PROVE  CaseInv'
<1> USE DEF StepName, EarlyStep, LifecycleStep, CancelStep, ReadStep
<1>1. /\ case' = case /\ cancelled' = cancelled /\ first' = first /\ actual' = actual
      /\ old' = old /\ job' = job /\ flawed' = flawed /\ verdict' = verdict
      /\ todo' = Tail(todo) /\ step' = FirstStep(todo')
  BY DEF Proceed, GoTo, serverVars, readVars
<1>2. /\ case.mode \in Mode /\ todo \in Remaining(case.mode) \ {<<>>}
      /\ case.intent = "positive"
      /\ step = "acknowledge" => Cancels(Head(todo))
  BY CaseTypes DEF CaseInv, PathInv
<1>3. /\ todo' \in Remaining(case.mode) /\ todo' \in Seq(Action)
      /\ step = "acknowledge" => todo' = <<>>
  BY <1>1, <1>2, NextAction
<1>4. /\ step' \in {"readback", "send", "ready"}
      /\ step' = "readback" <=> todo' = <<>>
      /\ step' = "ready" => Cancels(Head(todo'))
  BY <1>1, <1>2, <1>3, FirstStepOfRest
<1>5. TypeOK'
  BY <1>1, <1>3, <1>4 DEF CaseInv, TypeOK
<1>6. PathInv'
  BY <1>1, <1>2, <1>3, <1>4 DEF PathInv
<1>7. EarlyInv' /\ JudgeInv' /\ VerdictInv'
  BY <1>4, NoVerdict DEF EarlyInv, JudgeInv
<1>8. StageInv'
  BY <1>1 DEF CaseInv, StageInv
<1>9. FlawInv'
  BY <1>1, <1>2, <1>3 DEF CaseInv, FlawInv, OwnCancel
<1>10. ReadInv'
  <2>1. Goes
    BY <1>1 DEF Goes
  <2>2. QED
    BY <1>1, <1>4, <2>1, OldReadings DEF CaseInv
<1>11. QED
  BY <1>5, <1>6, <1>7, <1>8, <1>9, <1>10 DEF CaseInv

(* An action is done when the attributes show it, or show a failure.       *)
LEMMA AwaitActionKeeps ==
  ASSUME CaseInv, AwaitAction
  PROVE  CaseInv'
<1> USE DEF StepName, EarlyStep, LifecycleStep, CancelStep, ReadStep
<1>1. /\ UNCHANGED <<case, cancelled, first, old, serverVars>> /\ step = "await"
      /\ job' = job /\ flawed' = flawed /\ case' = case
  BY DEF AwaitAction, serverVars
<1>2. /\ case.mode \in Mode /\ todo \in Remaining(case.mode) \ {<<>>}
      /\ case.intent = "positive" /\ ~Cancels(Head(todo)) /\ cancelled \in BOOLEAN
      /\ case.conflict \in BOOLEAN /\ job \in Job /\ old \in BOOLEAN
  BY <1>1, CaseTypes DEF CaseInv, PathInv
<1>3. PICK r \in Poll({"released", "printed"}), recent \in {"other", Head(todo)} :
        /\ ActionDone(Head(todo), r, recent)
        /\ IF Head(todo) = "rip" /\ ~NoFailure(r)
           THEN Finish("FAIL") /\ actual' = r /\ UNCHANGED todo
           ELSE Proceed /\ UNCHANGED actual
  BY DEF AwaitAction
<1>4. /\ r \in Reading /\ {r.status, r.state} \subseteq {job.stage, "unknown"}
      /\ "released" \in r.shown => job.released
      /\ "printed" \in r.shown => job.printed
  BY <1>2, PolledReading
<1>5. job.stage \in {"failed"} \cup CanceledStage => flawed
  BY <1>1, <1>2 DEF CaseInv, FlawInv, OwnCancel
<1>6. CASE Head(todo) = "rip" /\ ~NoFailure(r)
  <2>1. step' = "done" /\ verdict' = "FAIL" /\ todo' = todo /\ actual' = r
    BY <1>3, <1>6 DEF Finish
  <2>2. flawed
    BY <1>4, <1>5, <1>6 DEF NoFailure, CanceledStage
  <2>3. FailHasCause' /\ DisposableJobsAreDeleted'
    BY <1>1, <1>2, <2>2, FailsForCause
  <2>4. PathInv' /\ JudgeInv' /\ VerdictInv'
    BY <1>1, <2>1, <2>3, EndsBadly
  <2>5. QED
    BY <1>1, <1>2, <1>4, <2>1, <2>4, CalmStep
<1>7. CASE Proceed /\ actual' = actual /\ ~(Head(todo) = "rip" /\ ~NoFailure(r))
  <2>1. todo' = Tail(todo)
    BY <1>7 DEF Proceed
  <2>2. case.mode = "rip" => ~job.released
    BY DEF CaseInv, DoneInv
  <2>3. case.mode \in {"ready-to-print", "press-print"} /\ todo' \in {<<>>, <<"press_print">>} =>
          job.released
    <3>1. SUFFICES ASSUME case.mode \in {"ready-to-print", "press-print"},
                          todo' \in {<<>>, <<"press_print">>}
                   PROVE  job.released
      OBVIOUS
    <3>2. Head(todo) = "production" \/ todo = <<"press_print">>
      BY <1>2, <2>1, <3>1, NextAction
    <3>3. Head(todo) = "production" => job.released
      BY <1>3, <1>4 DEF ActionDone
    <3>4. todo = <<"press_print">> => job.released
      BY <3>1 DEF CaseInv, DoneInv
    <3>5. QED
      BY <3>2, <3>3, <3>4
  <2>4. case.mode = "rip" => job.stage = "ripped"
    <3>1. case.mode = "rip" => Head(todo) = "rip"
      BY <1>2, NextAction
    <3>2. Head(todo) = "rip" => r.status = "ripped"
      BY <1>3, <1>7 DEF ActionDone
    <3>3. QED
      BY <1>4, <3>1, <3>2
  <2>5. ~flawed /\ case.mode = "print" /\ todo' = <<>> => job.printed
    <3>1. case.mode = "print" /\ todo' = <<>> => Head(todo) = "print"
      BY <1>2, <2>1, NextAction
    <3>2. Head(todo) = "print" => PrintCompleted(r)
      BY <1>3 DEF ActionDone
    <3>3. job.stage = "printed" => job.printed
      BY DEF CaseInv, StageInv
    <3>4. ~flawed /\ PrintCompleted(r) => job.printed
      BY <1>4, <1>5, <3>3 DEF PrintCompleted, DonePrinting, CanceledStage
    <3>5. QED
      BY <3>1, <3>2, <3>4
  <2>6. case.mode \in CancelMode => todo' # <<>>
    BY <1>2, <2>1, NextAction
  <2>7. step' # "acknowledge"
    <3>1. step' = FirstStep(todo') /\ todo' \in Remaining(case.mode)
      BY <1>2, <1>7, <2>1, NextAction DEF Proceed, GoTo
    <3>2. QED
      BY <1>2, <3>1, FirstStepOfRest
  <2>8. DoneInv'
    BY <1>1, <2>2, <2>3, <2>4, <2>5, <2>6, <2>7 DEF DoneInv
  <2>9. QED
    BY <1>1, <1>7, <2>8, ProceedKeeps DEF readVars
<1>8. QED
  BY <1>3, <1>6, <1>7

(* A cancellation is the last action of its mode.                          *)
LEMMA AwaitCancelledKeeps ==
  ASSUME CaseInv, AwaitCancelled
  PROVE  CaseInv'
<1> USE DEF StepName, EarlyStep, LifecycleStep, CancelStep, ReadStep
<1>1. /\ UNCHANGED <<case, cancelled, readVars, serverVars>> /\ step = "acknowledge"
      /\ job' = job /\ flawed' = flawed /\ case' = case /\ Proceed
  BY DEF AwaitCancelled, serverVars
<1>2. /\ case.mode \in Mode /\ todo \in Remaining(case.mode) \ {<<>>}
      /\ Cancels(Head(todo))
  BY <1>1, CaseTypes DEF CaseInv, PathInv
<1>3. case.mode \in CancelMode
  BY <1>2, NextAction
<1>4. ~flawed => job.stopped = "canceled"
  BY <1>1, <1>3 DEF CaseInv, DoneInv
<1>5. DoneInv'
  BY <1>1, <1>3, <1>4 DEF DoneInv, CancelMode
<1>6. QED
  BY <1>1, <1>5, ProceedKeeps

-----------------------------------------------------------------------------
(* The readback and the verdict.                                           *)

LEMMA ReadbackStep ==
  ASSUME CaseInv, UNCHANGED <<case, cancelled, todo, serverVars>>, step \in ReadStep,
         step' \in {"merging", "compare", "delete", "done"},
         verdict' \in {"none", "PASS", "FAIL", "ERROR"},
         first' \in Job, actual' \in Reading \cup {NoRead}, old' \in BOOLEAN,
         step' = "merging" => Reached(first)',
         step' = "delete" => case.mode = "delete",
         Shown(actual)', VerdictInv'
  PROVE  CaseInv'
<1> USE DEF StepName, EarlyStep, LifecycleStep, CancelStep, ReadStep
<1>1. /\ case' = case /\ cancelled' = cancelled /\ todo' = todo
      /\ job' = job /\ flawed' = flawed
  BY DEF serverVars
<1>2. /\ case.intent = "positive" /\ todo = <<>>
      /\ case \in Case /\ cancelled \in BOOLEAN /\ todo \in Seq(Action)
      /\ job \in Job /\ flawed \in BOOLEAN
  BY DEF CaseInv, PathInv, TypeOK
<1>3. TypeOK'
  BY <1>1, <1>2 DEF TypeOK
<1>4. PathInv'
  BY <1>1, <1>2 DEF CaseInv, PathInv
<1>5. EarlyInv' /\ JudgeInv'
  BY DEF EarlyInv, JudgeInv
<1>6. StageInv'
  BY <1>1 DEF CaseInv, StageInv
<1>7. FlawInv'
  BY <1>1, <1>2 DEF CaseInv, FlawInv, OwnCancel
<1>8. DoneInv'
  BY <1>1 DEF CaseInv, DoneInv
<1>9. ReadInv'
  BY DEF ReadInv
<1>10. QED
  BY <1>3, <1>4, <1>5, <1>6, <1>7, <1>8, <1>9 DEF CaseInv

(* The job itself has reached what it shows.                               *)
LEMMA ReachedNow ==
  ASSUME CaseInv, step \in ReadStep
  PROVE  Reached(job)
<1> USE DEF ReadStep
<1>1. todo = <<>> /\ step # "acknowledge"
  BY DEF CaseInv, PathInv
<1>2. /\ job.stage = "ripped" => job.raster # "none"
      /\ job.stage = "printed" => job.printed
      /\ job.stage \in CanceledStage => job.stopped # "no"
  BY DEF CaseInv, StageInv
<1>3. /\ job.setting = "refused" => flawed
      /\ ~flawed => job.stage # "failed"
  BY DEF CaseInv, FlawInv
<1>4. ~flawed /\ job.stage = "processCanceled" => case.mode \in CancelMode
  BY DEF CaseInv, FlawInv, OwnCancel, CanceledStage
<1>5. ~flawed /\ case.mode = "rip" => job.stage = "ripped"
  BY <1>1 DEF CaseInv, DoneInv
<1>6. QED
  BY <1>2, <1>3, <1>4, <1>5 DEF Reached

(* A mixture of two states that have been reached shows what has been.     *)
LEMMA MixtureShown ==
  ASSUME NEW a \in Job, NEW b \in Job, Reached(a), Reached(b), NEW x \in Merged(a, b, Decisive)
  PROVE  x \in Reading /\ Shown(x)
<1>1. /\ x \in Reading /\ x # NoRead
      /\ {x.status, x.state} \subseteq {a.stage, b.stage, "unknown"}
      /\ x.setting \in {a.setting, b.setting, "missing"}
      /\ "raster" \in x.shown => "made" \in {a.raster, b.raster}
      /\ "printed" \in x.shown => a.printed \/ b.printed
      /\ "canceled" \in x.shown => "canceled" \in {a.stopped, b.stopped}
      /\ "noted" \in x.shown => a.noted \/ b.noted
  BY MixedReading
<1>2. "raster" \in x.shown => job.raster = "made"
  BY <1>1 DEF Reached
<1>3. x.status = "ripped" => job.raster # "none"
  BY <1>1 DEF Reached
<1>4. "printed" \in x.shown \/ x.status = "printed" => job.printed
  BY <1>1 DEF Reached
<1>5. "canceled" \in x.shown \/ x.status = "canceled" \/ x.state = "processCanceled" =>
        job.stopped # "no"
  BY <1>1 DEF Reached, CanceledStage
<1>6. "noted" \in x.shown => job.noted
  BY <1>1 DEF Reached
<1>7. /\ x.setting = "wanted" => job.setting = "wanted"
      /\ x.setting = "refused" => flawed
  BY <1>1 DEF Reached
<1>8. ~flawed =>
        /\ x.state # "failed"
        /\ x.state = "processCanceled" => case.mode \in CancelMode
        /\ case.mode = "rip" => {x.status, x.state} \subseteq {"ripped", "unknown"}
  BY <1>1 DEF Reached
<1>9. QED
  BY <1>1, <1>2, <1>3, <1>4, <1>5, <1>6, <1>7, <1>8 DEF Shown

LEMMA NothingShown == Shown(NoRead)
BY DEF Shown, NoRead

LEMMA SameReading ==
  ASSUME UNCHANGED <<case, serverVars>>
  PROVE  /\ \A x : x = first' /\ Reached(x) => Reached(first)'
         /\ \A x : x = actual' /\ Shown(x) => Shown(actual)'
BY DEF Reached, Shown, serverVars

LEMMA BeginReadKeeps ==
  ASSUME CaseInv, BeginRead
  PROVE  CaseInv'
<1>1. /\ UNCHANGED <<case, cancelled, todo, serverVars>>
      /\ step = "readback" /\ step' = "merging" /\ verdict' = verdict
      /\ first' = job /\ actual' = NoRead /\ old' = FALSE
  BY DEF BeginRead, GoTo
<1>2. step \in ReadStep
  BY <1>1 DEF ReadStep
<1>3. Reached(job)
  BY <1>2, ReachedNow
<1>4. job \in Job /\ verdict \in {"none", "PASS", "FAIL", "ERROR"}
  BY CaseTypes
<1>5. Reached(first)' /\ Shown(actual)'
  BY <1>1, <1>3, SameReading, NothingShown
<1>6. VerdictInv'
  BY <1>1, NoVerdict
<1>7. QED
  BY <1>1, <1>2, <1>4, <1>5, <1>6, ReadbackStep

LEMMA EndReadKeeps ==
  ASSUME CaseInv, EndRead
  PROVE  CaseInv'
<1>1. /\ UNCHANGED <<case, cancelled, todo, serverVars>>
      /\ step = "merging" /\ step' = "compare" /\ verdict' = verdict
      /\ first' = NoJob /\ old' = old
  BY DEF EndRead, GoTo
<1>2. step \in ReadStep
  BY <1>1 DEF ReadStep
<1>3. Reached(job)
  BY <1>2, ReachedNow
<1>4. /\ Reached(first) /\ first \in Job /\ job \in Job /\ old \in BOOLEAN
      /\ verdict \in {"none", "PASS", "FAIL", "ERROR"}
  BY <1>1 DEF CaseInv, ReadInv, TypeOK
<1>5. PICK second \in {first, job} : actual' \in Merged(first, second, Decisive)
  BY DEF EndRead
<1>6. Reached(second) /\ second \in Job
  BY <1>3, <1>4
<1>7. PICK mixed \in Merged(first, second, Decisive) : actual' = mixed
  BY <1>5
<1>8. mixed \in Reading /\ Shown(mixed)
  BY <1>4, <1>6, MixtureShown
<1>9. Shown(actual)'
  BY <1>1, <1>7, <1>8, SameReading
<1>10. NoJob \in Job
  BY DEF NoJob, Job, Stage, Setting
<1>11. VerdictInv'
  BY <1>1, NoVerdict
<1>12. QED
  BY <1>1, <1>2, <1>4, <1>7, <1>8, <1>9, <1>10, <1>11, ReadbackStep

(* A reading that does not pass shows a flaw, or lacks what would pass.    *)
LEMMA OutcomeIsTrue ==
  ASSUME CaseInv, step \in ReadStep, NEW read \in Reading, Shown(read), read # NoRead
  PROVE  OutcomePasses(read) \/ flawed \/ Incomplete(read)
<1>1. SUFFICES ASSUME ~flawed, ~Incomplete(read)
               PROVE  OutcomePasses(read)
  OBVIOUS
<1>2. /\ read.state # "failed"
      /\ read.state = "processCanceled" => case.mode \in CancelMode
      /\ case.mode = "rip" => {read.status, read.state} \subseteq {"ripped", "unknown"}
  BY <1>1 DEF Shown
<1>3. "unknown" \notin {read.status, read.state} /\ Evidence(job) \cap Decisive \subseteq read.shown
  BY <1>1 DEF Incomplete
<1>4. todo = <<>>
  BY DEF CaseInv, PathInv
<1>5. CASE case.mode \in CancelMode
  <2>1. job.stopped = "canceled"
    BY <1>1, <1>4, <1>5 DEF CaseInv, DoneInv
  <2>2. "canceled" \in Evidence(job) \cap Decisive
    BY <1>5, <2>1 DEF Evidence, Decisive, CancelMode
  <2>3. CancellationObserved(read)
    BY <1>3, <2>2 DEF CancellationObserved
  <2>4. QED
    BY <1>5, <2>3 DEF OutcomePasses, CancelMode
<1>6. CASE case.mode = "rip"
  <2>1. job.stage = "ripped" /\ job.raster = "made"
    BY <1>1, <1>4, <1>6 DEF CaseInv, DoneInv, FlawInv
  <2>2. "raster" \in Evidence(job) \cap Decisive
    BY <1>6, <2>1 DEF Evidence, Decisive, CancelMode
  <2>3. HasRaster(read) /\ NoFailure(read) /\ read.status = "ripped" /\ read.state = "ripped"
    BY <1>2, <1>3, <1>6, <2>2 DEF HasRaster, NoFailure
  <2>4. QED
    BY <1>6, <2>3 DEF OutcomePasses, CancelMode
<1>7. CASE case.mode = "print"
  <2>1. job.printed
    BY <1>1, <1>4, <1>7 DEF CaseInv, DoneInv
  <2>2. "printed" \in Evidence(job) \cap Decisive
    BY <1>7, <2>1 DEF Evidence, Decisive, CancelMode
  <2>3. PrintCompleted(read) /\ NoFailure(read)
    BY <1>2, <1>3, <1>7, <2>2 DEF PrintCompleted, NoFailure, CancelMode
  <2>4. QED
    BY <1>7, <2>3 DEF OutcomePasses, CancelMode
<1>8. CASE case.mode \notin CancelMode \cup {"rip", "print"}
  BY <1>2, <1>8 DEF OutcomePasses, NoFailure
<1>9. QED
  BY <1>5, <1>6, <1>7, <1>8

(* A pass rests on what has been reached, with the gaps of the evidence.   *)
LEMMA PassIsTrue ==
  ASSUME CaseInv, step = "compare", NEW read \in Reading, Shown(read), actual' = read,
         OutcomePasses(read), SettingsMatch(read), case.mode # "delete",
         UNCHANGED <<case, serverVars>>
  PROVE  PassMeansModeHappened' /\ PassMeansSettingsTook'
<1>1. case' = case /\ job' = job
  BY DEF serverVars
<1>2. todo = <<>> /\ job \in Job
  BY DEF CaseInv, PathInv, ReadStep, TypeOK
<1>3. case.mode = "rip" =>
        job.raster = "made" \/ (job.raster = "empty" /\ "num pages" \in read.shown)
  <2>1. case.mode = "rip" => read.status = "ripped" /\ HasRaster(read)
    BY DEF OutcomePasses, CancelMode
  <2>2. job.raster \in {"none", "empty", "made"}
    BY <1>2 DEF Job
  <2>3. QED
    BY <2>1, <2>2 DEF Shown, HasRaster
<1>4. case.mode \in {"ready-to-print", "press-print"} => job.released
  BY <1>2 DEF CaseInv, DoneInv
<1>5. case.mode = "print" => job.printed \/ FailureHidden(read)
  <2>1. case.mode = "print" => NoFailure(read) /\ PrintCompleted(read)
    BY DEF OutcomePasses, CancelMode
  <2>2. QED
    BY <2>1 DEF Shown, PrintCompleted, NoFailure, DonePrinting, FailureHidden
<1>6. case.mode \in CancelMode => job.stopped # "no" \/ job.noted
  <2>1. case.mode \in CancelMode => CancellationObserved(read)
    BY DEF OutcomePasses, CancelMode
  <2>2. QED
    BY <2>1 DEF Shown, CancellationObserved
<1>7. case.settings => job.setting = "wanted" \/ (case.default /\ read.setting = "missing")
  BY DEF Shown, SettingsMatch
<1>8. PassMeansModeHappened'
  BY <1>1, <1>3, <1>4, <1>5, <1>6 DEF PassMeansModeHappened, FailureHidden
<1>9. PassMeansSettingsTook'
  BY <1>1, <1>7 DEF PassMeansSettingsTook
<1>10. QED
  BY <1>8, <1>9

(* Settings that do not match are not taken, refused, or not reported.     *)
LEMMA MismatchIsTrue ==
  ASSUME CaseInv, NEW read \in Reading, Shown(read), ~SettingsMatch(read), actual' = read,
         case.intent = "positive", case' = case, old' = old, flawed => flawed'
  PROVE  ServerOrSettings' \/ RepliesLost'
<1>1. case.settings /\ read.setting \in {"initial", "pending", "refused", "missing"}
  BY DEF SettingsMatch, Reading, Setting
<1>2. CASE old \/ read.setting = "missing"
  <2>1. ~SettingsMatch(actual)'
    BY DEF SettingsMatch
  <2>2. QED
    BY <1>2, <2>1 DEF RepliesLost
<1>3. CASE read.setting = "refused"
  BY <1>3 DEF Shown, ServerOrSettings
<1>4. CASE ~old /\ read.setting \in {"initial", "pending"}
  BY <1>1, <1>4 DEF ServerOrSettings, SettingsNotTaken
<1>5. QED
  BY <1>1, <1>2, <1>3, <1>4

LEMMA SettleKeeps ==
  ASSUME CaseInv, step = "compare", UNCHANGED <<case, cancelled, todo, first, old, serverVars>>,
         NEW read \in {actual, NoRead}, Settle(read)
  PROVE  CaseInv'
<1>1. step \in ReadStep
  BY DEF ReadStep
<1>2. /\ first \in Job /\ actual \in Reading \cup {NoRead} /\ old \in BOOLEAN
      /\ verdict \in {"none", "PASS", "FAIL", "ERROR"} /\ flawed \in BOOLEAN
      /\ Shown(actual) /\ case.intent = "positive"
  BY <1>1 DEF CaseInv, ReadInv, TypeOK, PathInv
<1>3. /\ actual' = read /\ first' = first /\ case' = case /\ flawed' = flawed /\ job' = job
      /\ old' = old /\ Shown(read) /\ read \in Reading \cup {NoRead}
  BY <1>2, NothingShown DEF Settle, serverVars
<1>4. Shown(actual)'
  BY <1>3, SameReading
<1>5. CASE case.mode = "delete"
  <2>1. step' = "delete" /\ verdict' = verdict
    BY <1>5 DEF Settle, GoTo
  <2>2. VerdictInv'
    BY <2>1, NoVerdict
  <2>3. QED
    BY <1>1, <1>2, <1>3, <1>4, <1>5, <2>1, <2>2, ReadbackStep
<1>6. CASE case.mode # "delete" /\ read = NoRead
  <2>1. step' = "done" /\ verdict' = "ERROR"
    BY <1>6 DEF Settle, Finish
  <2>2. VerdictInv'
    BY <2>1, NoVerdict
  <2>3. QED
    BY <1>1, <1>2, <1>3, <1>4, <2>1, <2>2, ReadbackStep
<1>7. CASE case.mode # "delete" /\ read # NoRead
  <2>1. /\ step' = "done" /\ verdict' \in {"PASS", "FAIL"}
        /\ verdict' = "PASS" => OutcomePasses(read) /\ SettingsMatch(read)
        /\ verdict' = "FAIL" => ~OutcomePasses(read) \/ ~SettingsMatch(read)
    BY <1>7 DEF Settle, Finish
  <2>2. read \in Reading
    BY <1>3, <1>7
  <2>3. verdict' = "PASS" => PassMeansModeHappened' /\ PassMeansSettingsTook'
    BY <1>3, <1>7, <2>1, <2>2, PassIsTrue
  <2>4. verdict' # "PASS" => PassMeansModeHappened' /\ PassMeansSettingsTook'
    BY DEF PassMeansModeHappened, PassMeansSettingsTook, Result
  <2>5. PassMeansRejection' /\ DisposableJobsAreDeleted'
    BY <1>2, <1>3 DEF PassMeansRejection, DisposableJobsAreDeleted
  <2>6. ~OutcomePasses(read) => ServerOrSettings' \/ RepliesLost'
    <3>1. SUFFICES ASSUME ~OutcomePasses(read)
                   PROVE  flawed' \/ RepliesLost'
      BY DEF ServerOrSettings
    <3>2. flawed \/ Incomplete(read)
      BY <1>1, <1>3, <1>7, <2>2, <3>1, OutcomeIsTrue
    <3>3. ~OutcomePasses(actual)' /\ (Incomplete(read) => Incomplete(actual)')
      BY <1>3, <3>1 DEF OutcomePasses, Incomplete, Decisive
    <3>4. QED
      BY <1>3, <3>2, <3>3 DEF RepliesLost
  <2>7. ~SettingsMatch(read) => ServerOrSettings' \/ RepliesLost'
    BY <1>2, <1>3, <2>2, MismatchIsTrue
  <2>8. FailHasCause'
    BY <1>2, <1>3, <2>1, <2>6, <2>7 DEF FailHasCause, Result
  <2>9. VerdictInv'
    BY <2>3, <2>4, <2>5, <2>8 DEF VerdictInv
  <2>10. QED
    BY <1>1, <1>2, <1>3, <1>4, <2>1, <2>9, ReadbackStep
<1>8. QED
  BY <1>5, <1>6, <1>7

LEMMA AcceptKeeps ==
  ASSUME CaseInv, Accept \/ GiveUp
  PROVE  CaseInv'
<1>1. PICK read \in {actual, NoRead} : Settle(read)
  BY DEF Accept, GiveUp
<1>2. step = "compare" /\ UNCHANGED <<case, cancelled, todo, first, old, serverVars>>
  BY DEF Accept, GiveUp
<1>3. QED
  BY <1>1, <1>2, SettleKeeps

LEMMA DeleteOwnJobKeeps ==
  ASSUME CaseInv, DeleteOwnJob
  PROVE  CaseInv'
<1> USE DEF StepName, EarlyStep, LifecycleStep, CancelStep, ReadStep
<1>1. /\ UNCHANGED <<case, cancelled, todo, readVars>>
      /\ step = "delete" /\ step' = "done" /\ verdict' \in {"PASS", "FAIL", "ERROR"}
      /\ Accepted("delete") \/ Refused("delete")
      /\ verdict' = "PASS" => Accepted("delete") /\ actual # NoRead /\ SettingsMatch(actual)
      /\ verdict' = "FAIL" => actual # NoRead /\ ~SettingsMatch(actual)
  BY DEF DeleteOwnJob, Finish
<1>2. /\ job' \in {job} \cup Outcomes("delete", job)
      /\ flawed' \in BOOLEAN /\ (flawed => flawed')
  BY <1>1, RequestEffect
<1>3. /\ case.intent = "positive" /\ case.mode = "delete" /\ todo = <<>>
      /\ Shown(actual) /\ job \in Job /\ actual \in Reading \cup {NoRead}
  BY <1>1 DEF CaseInv, TypeOK, PathInv, ReadInv
<1>4. PathInv' /\ JudgeInv'
  BY <1>1 DEF CaseInv, PathInv, JudgeInv
<1>5. job'.setting = job.setting
  BY <1>2, <1>3, OutcomeOnJob
<1>6. verdict' = "PASS" => job'.stage = "deleted"
  BY <1>1, <1>3, OutcomeOnJob DEF Accepted
<1>7. PassMeansModeHappened'
  BY <1>1, <1>3, <1>6 DEF PassMeansModeHappened, Result, CancelMode
<1>8. PassMeansSettingsTook'
  BY <1>1, <1>3, <1>5 DEF PassMeansSettingsTook, Result, SettingsMatch, Shown, readVars
<1>9. FailHasCause'
  <2>1. SUFFICES ASSUME verdict' = "FAIL"
                 PROVE  ServerOrSettings' \/ RepliesLost'
    BY <1>1, <1>3 DEF FailHasCause, Result
  <2>2. PICK read \in Reading : read = actual
    BY <1>1, <1>3, <2>1
  <2>3. ~SettingsMatch(read) /\ Shown(read) /\ actual' = read /\ case' = case /\ old' = old
    BY <1>1, <1>3, <2>1, <2>2 DEF readVars
  <2>4. QED
    BY <1>2, <1>3, <2>3, MismatchIsTrue
<1>10. PassMeansRejection' /\ DisposableJobsAreDeleted'
  BY <1>1, <1>3 DEF PassMeansRejection, DisposableJobsAreDeleted
<1>11. VerdictInv'
  BY <1>7, <1>8, <1>9, <1>10 DEF VerdictInv
<1>12. QED
  BY <1>1, <1>2, <1>3, <1>4, <1>11, RequestStep DEF CancelMode

-----------------------------------------------------------------------------
(* The theorems.                                                           *)

LEMMA InitiallyCaseInv ==
  ASSUME Init
  PROVE  CaseInv
<1> USE DEF StepName, EarlyStep, LifecycleStep, CancelStep, ReadStep
<1>1. case \in Case /\ case.mode \in Mode
  BY DEF Init, Case
<1>2. /\ todo \in Remaining(case.mode) /\ todo \in Seq(Action) /\ todo # <<"press_print">>
      /\ todo = <<>> => case.mode \in {"hold", "delete"}
  BY <1>1, NextAction DEF Init
<1>3. job \in Job
  BY DEF Init, NoJob, Job, Stage, Setting
<1>4. /\ job.stage = "absent" /\ ~job.released /\ job.raster = "none" /\ job.setting = "initial"
  BY DEF Init, NoJob
<1>5. TypeOK
  BY <1>1, <1>2, <1>3 DEF Init, TypeOK
<1>6. PathInv /\ EarlyInv /\ JudgeInv
  BY <1>2, <1>4 DEF Init, PathInv, EarlyInv, JudgeInv
<1>7. StageInv /\ FlawInv
  BY <1>4 DEF StageInv, FlawInv, CanceledStage
<1>8. DoneInv
  BY <1>2, <1>4 DEF Init, DoneInv, CancelMode
<1>9. ReadInv
  BY NothingShown DEF Init, ReadInv
<1>10. VerdictInv
  BY DEF Init, VerdictInv, Result, PassMeansModeHappened, PassMeansSettingsTook,
         PassMeansRejection, FailHasCause, DisposableJobsAreDeleted
<1>11. QED
  BY <1>5, <1>6, <1>7, <1>8, <1>9, <1>10 DEF CaseInv

LEMMA NothingKeeps ==
  ASSUME CaseInv, UNCHANGED vars
  PROVE  CaseInv'
<1>1. /\ case' = case /\ cancelled' = cancelled /\ step' = step /\ todo' = todo
      /\ first' = first /\ actual' = actual /\ old' = old /\ verdict' = verdict
      /\ job' = job /\ flawed' = flawed
  BY DEF vars, readVars, serverVars
<1>2. TypeOK' /\ PathInv' /\ EarlyInv' /\ JudgeInv'
  BY <1>1 DEF CaseInv, TypeOK, PathInv, EarlyInv, JudgeInv
<1>3. StageInv' /\ FlawInv' /\ DoneInv'
  BY <1>1 DEF CaseInv, StageInv, FlawInv, OwnCancel, DoneInv
<1>4. ReadInv'
  BY <1>1 DEF CaseInv, ReadInv, Reached, Shown
<1>5. PassMeansModeHappened' /\ PassMeansSettingsTook' /\ PassMeansRejection'
      /\ DisposableJobsAreDeleted'
  BY <1>1 DEF CaseInv, VerdictInv, Result, PassMeansModeHappened, PassMeansSettingsTook,
              PassMeansRejection, DisposableJobsAreDeleted, FailureHidden
<1>6. FailHasCause'
  <2>1. ServerOrSettings => ServerOrSettings'
    BY <1>1 DEF ServerOrSettings, SettingsNotTaken
  <2>2. RepliesLost => RepliesLost'
    BY <1>1 DEF RepliesLost, SettingsMatch, OutcomePasses, Incomplete, Decisive
  <2>3. QED
    BY <1>1, <2>1, <2>2 DEF CaseInv, VerdictInv, FailHasCause, Result
<1>7. QED
  BY <1>2, <1>3, <1>4, <1>5, <1>6 DEF CaseInv, VerdictInv

(* The invariant of executeJob, however the server, its other users, the   *)
(* network and the cancellation of the run interleave with the worker:     *)
(* where the worker stands, what it has read and what is flawed tell what  *)
(* has happened to the job.                                                *)
THEOREM CaseInvariant == Spec => []CaseInv
<1>1. Init => CaseInv
  BY InitiallyCaseInv
<1>2. CaseInv /\ [Next]_vars => CaseInv'
  <2>1. SUFFICES ASSUME CaseInv, [Next]_vars
                 PROVE  CaseInv'
    OBVIOUS
  <2>2. CASE Prepare
    BY <2>1, <2>2, ImportKeeps, WaitKeeps, AwaitSpooledKeeps, ApplyPresetKeeps,
       CheckConstraintsKeeps, UpdateKeeps DEF Prepare
  <2>3. CASE ConstraintTest
    BY <2>1, <2>3, ApplyInvalidKeeps, ValidateKeeps, CleanUpKeeps DEF ConstraintTest
  <2>4. CASE Lifecycle
    BY <2>1, <2>4, SendActionKeeps, AwaitActionKeeps, WaitKeeps, SendCancelKeeps,
       AwaitCancelledKeeps DEF Lifecycle
  <2>5. CASE ReadBack
    BY <2>1, <2>5, BeginReadKeeps, EndReadKeeps, WaitKeeps, AcceptKeeps, DeleteOwnJobKeeps
       DEF ReadBack
  <2>6. CASE ServerStep
    BY <2>1, <2>6, ServerStepKeeps
  <2>7. CASE Cancel
    BY <2>1, <2>7, CancelKeeps
  <2>8. CASE UNCHANGED vars
    BY <2>1, <2>8, NothingKeeps
  <2>9. QED
    BY <2>1, <2>2, <2>3, <2>4, <2>5, <2>6, <2>7, <2>8 DEF Next, Worker
<1>3. QED
  BY <1>1, <1>2, PTL DEF Spec

(* Every variable of the case keeps its type (executeJob).                 *)
THEOREM TypeCorrect == Spec => []TypeOK
<1>1. CaseInv => TypeOK
  BY DEF CaseInv
<1>2. QED
  BY <1>1, CaseInvariant, PTL

(* A positive case passes only if what its mode promises has happened to   *)
(* the job on the server, but for the gaps of the evidence that            *)
(* PassMeansModeHappened names: an empty RIP with a number of pages, a     *)
(* failure hidden behind "done printing", a cancellation that is only      *)
(* noted or that the server made itself (LifecyclePolicy and Evaluate).    *)
THEOREM PassIsEarned == Spec => []PassMeansModeHappened
<1>1. CaseInv => PassMeansModeHappened
  BY DEF CaseInv, VerdictInv
<1>2. QED
  BY <1>1, CaseInvariant, PTL

(* A positive case with settings passes only if the job has taken them,    *)
(* though the reading that says so may be old, mixed or partial, or if     *)
(* they are the discovered defaults and are missing in the reading         *)
(* (ReadBackAttributes, AttributeValueMatches).                            *)
THEOREM PassedSettingsTook == Spec => []PassMeansSettingsTook
<1>1. CaseInv => PassMeansSettingsTook
  BY DEF CaseInv, VerdictInv
<1>2. QED
  BY <1>1, CaseInvariant, PTL

(* A constraint case passes only if the server finds the conflict and the  *)
(* invalid settings never reached the job (executeConstraintCase).         *)
THEOREM PassedTestRejects == Spec => []PassMeansRejection
<1>1. CaseInv => PassMeansRejection
  BY DEF CaseInv, VerdictInv
<1>2. QED
  BY <1>1, CaseInvariant, PTL

(* A FAIL has a cause in the server or in the settings, or rests on a      *)
(* readback in which replies were lost: one that is from before attempts   *)
(* that failed, or that lacks the attribute that is judged.  Nothing else  *)
(* that is lost or late ends in a FAIL (LifecycleFailure, GetJobAttributes,*)
(* ReadBackAttributes).                                                    *)
THEOREM FailIsEarned == Spec => []FailHasCause
<1>1. CaseInv => FailHasCause
  BY DEF CaseInv, VerdictInv
<1>2. QED
  BY <1>1, CaseInvariant, PTL

(* The disposable job of a constraint case that came to a PASS or a FAIL   *)
(* has been deleted, unless it failed before the test                      *)
(* (executeConstraintCase).                                                *)
THEOREM DisposableJobsGo == Spec => []DisposableJobsAreDeleted
<1>1. CaseInv => DisposableJobsAreDeleted
  BY DEF CaseInv, VerdictInv
<1>2. QED
  BY <1>1, CaseInvariant, PTL
=============================================================================
