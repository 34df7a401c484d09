--------------------------- MODULE ConstraintCheck --------------------------
(***************************************************************************)
(* The optional endpoint that checks the settings of a job                 *)
(* (CheckJobConstraints of internal/fiery/client.go), asked by the workers *)
(* of a run over one client.  The first check is a probe under a mutex; it *)
(* may settle for the lifetime of the client whether the server has the    *)
(* endpoint, and later checks read that without the mutex.                 *)
(*                                                                         *)
(* Abstractions.  The reply to a request is one of: an answer, with or     *)
(* without conflicts (ANSWER); a status that looks like a missing endpoint *)
(* (MISSING: 400, 404, 405, 501) or like a server in trouble (TROUBLE:     *)
(* 500, 502, 503, 504); another status (OTHER); no reply, or the 20        *)
(* seconds are over (NONE); a body that breaks off (BROKEN).  Any reply    *)
(* may come at any time.                                                   *)
(***************************************************************************)
EXTENDS Naturals, FiniteSets

CONSTANT Checker  \* the workers

NoChecker == "no worker"

ASSUME CheckerAssumption == Checker # {} /\ NoChecker \notin Checker

VARIABLES
  constraintStatus,  \* -1 missing, 0 not known, 1 present: here "missing", "unknown", "present"
  constraintProbe,   \* who holds the mutex
  check,             \* where each check stands
  failures,          \* the failed requests of each check
  answer             \* what the last check of each worker returned

latchVars == <<constraintStatus, constraintProbe, check, failures, answer>>

Failure == {"MISSING", "TROUBLE", "OTHER", "NONE"}
CheckStep == {"idle", "looking", "locking", "POST", "PUT"}
Answer == {"none", "answered", "unsupported", "error"}

LatchTypeOK ==
  /\ constraintStatus \in {"missing", "unknown", "present"}
  /\ constraintProbe \in Checker \cup {NoChecker}
  /\ check \in [Checker -> CheckStep]
  /\ failures \in [Checker -> SUBSET Failure]
  /\ answer \in [Checker -> Answer]

LatchInit ==
  /\ constraintStatus = "unknown"
  /\ constraintProbe = NoChecker
  /\ check = [c \in Checker |-> "idle"]
  /\ failures = [c \in Checker |-> {}]
  /\ answer = [c \in Checker |-> "none"]

CheckAt(c, step) == check' = [check EXCEPT ![c] = step]
Answers(c, a) ==
  /\ CheckAt(c, "idle")
  /\ answer' = [answer EXCEPT ![c] = a]
  /\ failures' = [failures EXCEPT ![c] = {}]

-----------------------------------------------------------------------------
(* The latch is read twice without the mutex.                              *)
BeginCheck(c) ==
  /\ check[c] = "idle"
  /\ IF constraintStatus = "missing" THEN Answers(c, "unsupported")
     ELSE CheckAt(c, "looking") /\ UNCHANGED <<failures, answer>>
  /\ UNCHANGED <<constraintStatus, constraintProbe>>

LookAgain(c) ==
  /\ check[c] = "looking"
  /\ CheckAt(c, IF constraintStatus = "unknown" THEN "locking" ELSE "POST")
  /\ UNCHANGED <<constraintStatus, constraintProbe, failures, answer>>

(* Fault: who got the mutex probes, whatever became known meanwhile.       *)
LockAndProbe(c) ==
  /\ check[c] = "locking" /\ constraintProbe = NoChecker
  /\ constraintProbe' = c /\ CheckAt(c, "POST")
  /\ UNCHANGED <<constraintStatus, failures, answer>>

(* With the mutex the latch is read again; only a probe keeps the mutex.   *)
LockProbe(c) ==
  /\ check[c] = "locking" /\ constraintProbe = NoChecker
  /\ CASE constraintStatus = "missing" -> Answers(c, "unsupported") /\ UNCHANGED constraintProbe
       [] constraintStatus = "present" ->
            CheckAt(c, "POST") /\ UNCHANGED <<failures, answer, constraintProbe>>
       [] OTHER -> CheckAt(c, "POST") /\ constraintProbe' = c /\ UNCHANGED <<failures, answer>>
  /\ UNCHANGED constraintStatus

(* The end of a check: a probe stores what it found and releases the mutex.*)
Settle(c, found) ==
  IF constraintProbe = c
  THEN constraintStatus' = found /\ constraintProbe' = NoChecker
  ELSE UNCHANGED <<constraintStatus, constraintProbe>>

(* definitelyUnsupportedConstraintEndpoint.                                *)
DefinitelyUnsupported(failed) == "MISSING" \in failed /\ "TROUBLE" \notin failed

Answered(c) ==
  /\ check[c] \in {"POST", "PUT"}
  /\ Answers(c, "answered") /\ Settle(c, "present")

BreaksOff(c) ==
  /\ check[c] \in {"POST", "PUT"}
  /\ Answers(c, "error") /\ Settle(c, constraintStatus)

TryPut(c, failure) ==
  /\ check[c] = "POST"
  /\ CheckAt(c, "PUT")
  /\ failures' = [failures EXCEPT ![c] = @ \cup {failure}]
  /\ UNCHANGED <<constraintStatus, constraintProbe, answer>>

FailsTwice(c, failure) ==
  LET failed == failures[c] \cup {failure}
  IN /\ check[c] = "PUT"
     /\ Answers(c, "unsupported")
     /\ Settle(c, IF DefinitelyUnsupported(failed) THEN "missing" ELSE constraintStatus)

CheckStepOf(c) ==
  \/ LookAgain(c) \/ LockProbe(c) \/ Answered(c) \/ BreaksOff(c)
  \/ \E failure \in Failure : TryPut(c, failure) \/ FailsTwice(c, failure)

(* Any worker may ask, at any time.                                        *)
LatchNext == \E c \in Checker : BeginCheck(c) \/ CheckStepOf(c)
LatchSpec == LatchInit /\ [][LatchNext]_latchVars

-----------------------------------------------------------------------------
(* The mutex is kept by a probe only, and only until something is known    *)
(* (CheckJobConstraints unlocks before it asks when the latch is set).     *)
ProbeKnowsNothing == constraintStatus # "unknown" => constraintProbe = NoChecker

(* What a probe has settled stays settled: a worker that waited for the    *)
(* mutex, or an answer that comes late, never changes it.                  *)
LatchIsFinal == [][constraintStatus # "unknown" => UNCHANGED constraintStatus]_latchVars
=============================================================================
