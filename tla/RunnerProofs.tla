---------------------------- MODULE RunnerProofs ----------------------------
(***************************************************************************)
(* Proofs about Runner, for every finite set of workers and every number   *)
(* of planned cases: every case is reported at most once, a completed run  *)
(* has reported all of them, and the terminal event is the last thing a    *)
(* run publishes, after all its workers have returned, with the counters   *)
(* of the published results and a true word about the result file.  The    *)
(* run uses its queue as EventQueue says, so that the theorems of          *)
(* EventQueueProofs hold of every run.                                     *)
(***************************************************************************)
EXTENDS Runner, SequenceTheorems, FiniteSetTheorems, TLAPS

-----------------------------------------------------------------------------
(* The inductive invariant.                                                *)

OverStates == {"ended", "recorded", "sealing", "sealed", "finished"}

(* A worker that has a case and has not yet published its result.          *)
Active(w) == worker[w] \in {"running", "recording", "counting", "reporting"}

LogTypes ==
  /\ log \in Seq(Event)
  /\ run \in RunState
  /\ worker \in [Worker -> WorkerState]
  /\ next \in 1..Planned + 1
  /\ held \in [Worker -> 0..Planned]
  /\ cancelled \in BOOLEAN
  /\ terminal \in Terminal \cup {NoTerminal}
  /\ verdict \in [Worker -> Verdict]
  /\ kept \in [Worker -> BOOLEAN]
  /\ snapshot \in [Worker -> Counts]
  /\ progress \in Counts
  /\ storageError \in BOOLEAN

(* The life of the workers follows the run goroutine.                      *)
WorkersFollowRun ==
  /\ closed => run \in {"sealed", "finished"}
  /\ run \in {"starting", "connected"} => \A w \in Worker : worker[w] = "unborn"
  /\ run = "producing" => \A w \in Worker : worker[w] \notin {"unborn", "returned"}
  /\ run = "waiting" => \A w \in Worker : worker[w] # "unborn"
  /\ run \in OverStates => /\ terminal \in Terminal
                      /\ \A w \in Worker : worker[w] \in {"unborn", "returned"}

(* What the workers hold, what was handed over and what is in the log.     *)
CasesAccounted ==
  /\ \A w \in Worker : Active(w) => held[w] \in 1..next - 1
  /\ \A v, w \in Worker : Active(v) /\ Active(w) /\ held[v] = held[w] => v = w
  /\ \A i \in ResultsIn(log) :
       /\ log[i].case \in 1..next - 1
       /\ \A w \in Worker : Active(w) => held[w] # log[i].case
  /\ \A c \in 1..next - 1 :
       c \in Reported \/ \E w \in Worker : Active(w) /\ held[w] = c

(* Completed is said only when the producer went through all the cases.    *)
CompletedMeansAll ==
  /\ run = "waiting" /\ ~cancelled => next = Planned + 1
  /\ run \in OverStates /\ terminal.status = "Completed" => Reported = Case

TerminalPublished ==
  /\ TerminalsIn(log) # {} => run \in {"sealing", "sealed", "finished"}
  /\ \A i \in TerminalsIn(log) : i = Len(log) /\ log[i] = terminal

RunInv ==
  /\ LogTypes
  /\ WorkersFollowRun
  /\ CasesAccounted
  /\ ReportedOnce
  /\ CompletedMeansAll
  /\ TerminalPublished

-----------------------------------------------------------------------------
(* What a publication does to the log.                                     *)

LEMMA PublishEffect ==
  ASSUME NEW p, NEW e, Queue!Publish(p, e)
  PROVE  /\ closed' = closed
         /\ \/ log' = log /\ (e \in Progress \/ closed)
            \/ log' = Append(log, e) /\ e \notin Progress
BY DEF Queue!Publish, Queue!Coalesce, Queue!Enqueue, Queue!Discard, Queue!queueVars

LEMMA NotProgress ==
  ASSUME NEW e, e.kind # "progress"
  PROVE  e \notin Progress
BY DEF Progress

LEMMA LogIndexed ==
  ASSUME NEW s \in Seq(Event)
  PROVE  DOMAIN s = 1..Len(s) /\ Len(s) \in Nat
BY LenProperties

LEMMA LogAppended ==
  ASSUME NEW s \in Seq(Event), NEW e \in Event, NEW t, t = Append(s, e)
  PROVE  /\ t \in Seq(Event)
         /\ Len(t) = Len(s) + 1
         /\ DOMAIN t = 1..Len(s) + 1
         /\ \A i \in 1..Len(s) : t[i] = s[i]
         /\ t[Len(s) + 1] = e
BY LogIndexed

(* Events that are neither results nor terminal change nothing that the    *)
(* properties look at.                                                     *)
SameRecord ==
  /\ ResultsIn(log') = ResultsIn(log)
  /\ TerminalsIn(log') = TerminalsIn(log)
  /\ \A i \in ResultsIn(log) \cup TerminalsIn(log) : log'[i] = log[i]
  /\ Reported' = Reported
  /\ log' \in Seq(Event)

LEMMA SameLog ==
  ASSUME log \in Seq(Event), log' = log
  PROVE  SameRecord
BY DEF SameRecord, Reported

LEMMA QuietPublication ==
  ASSUME log \in Seq(Event), NEW p, NEW e, Queue!Publish(p, e),
         e \in Progress \/ (e \in Event /\ e.kind \notin {"result", "terminal"})
  PROVE  SameRecord /\ closed' = closed
<1>1. closed' = closed
  BY PublishEffect
<1>2. CASE log' = log
  BY <1>1, <1>2, SameLog
<1>3. CASE log' = Append(log, e) /\ e \notin Progress
  <2>1. e \in Event /\ e.kind \notin {"result", "terminal"}
    BY <1>3
  <2>2. DOMAIN log = 1..Len(log) /\ Len(log) \in Nat
    BY LogIndexed
  <2>3. /\ log' \in Seq(Event)
        /\ DOMAIN log' = 1..Len(log) + 1
        /\ \A i \in 1..Len(log) : log'[i] = log[i]
        /\ log'[Len(log) + 1] = e
    BY <1>3, <2>1, LogAppended
  <2>4. ResultsIn(log') = ResultsIn(log) /\ TerminalsIn(log') = TerminalsIn(log)
    BY <2>1, <2>2, <2>3 DEF ResultsIn, TerminalsIn
  <2>5. \A i \in ResultsIn(log) \cup TerminalsIn(log) : log'[i] = log[i]
    BY <2>2, <2>3 DEF ResultsIn, TerminalsIn
  <2>6. QED
    BY <1>1, <2>3, <2>4, <2>5 DEF SameRecord, Reported
<1>4. QED
  BY <1>2, <1>3, PublishEffect

(* A published result is the only new one.                                 *)
LEMMA ResultPublication ==
  ASSUME log \in Seq(Event), NEW p, NEW e \in Result, Queue!Publish(p, e), ~closed
  PROVE  /\ closed' = closed
         /\ log' \in Seq(Event)
         /\ ResultsIn(log') = ResultsIn(log) \cup {Len(log) + 1}
         /\ TerminalsIn(log') = TerminalsIn(log)
         /\ \A i \in ResultsIn(log) \cup TerminalsIn(log) : i # Len(log) + 1 /\ log'[i] = log[i]
         /\ log'[Len(log) + 1] = e
         /\ Reported' = Reported \cup {e.case}
<1>1. e.kind = "result" /\ e \in Event
  BY DEF Result, Event
<1>2. log' = Append(log, e) /\ closed' = closed
  BY <1>1, PublishEffect, NotProgress
<1>3. DOMAIN log = 1..Len(log) /\ Len(log) \in Nat
  BY LogIndexed
<1>4. /\ log' \in Seq(Event)
      /\ DOMAIN log' = 1..Len(log) + 1
      /\ \A i \in 1..Len(log) : log'[i] = log[i]
      /\ log'[Len(log) + 1] = e
  BY <1>1, <1>2, LogAppended
<1>5. /\ ResultsIn(log') = ResultsIn(log) \cup {Len(log) + 1}
      /\ TerminalsIn(log') = TerminalsIn(log)
  BY <1>1, <1>3, <1>4 DEF ResultsIn, TerminalsIn
<1>6. \A i \in ResultsIn(log) \cup TerminalsIn(log) : i # Len(log) + 1 /\ log'[i] = log[i]
  BY <1>3, <1>4 DEF ResultsIn, TerminalsIn
<1>7. Reported' = Reported \cup {e.case}
  BY <1>4, <1>5, <1>6 DEF Reported
<1>8. QED
  BY <1>2, <1>4, <1>5, <1>6, <1>7

-----------------------------------------------------------------------------
(* Steps that leave the record of the run alone.                           *)

(* The parts of RunInv that read the log only through the results and the  *)
(* terminal event survive any step that keeps those and keeps what the     *)
(* workers hold.                                                           *)
LEMMA SameHoldings ==
  ASSUME RunInv, SameRecord, next' = next,
         \A w \in Worker : Active(w)' <=> Active(w),
         \A w \in Worker : Active(w) => held'[w] = held[w]
  PROVE  CasesAccounted' /\ ReportedOnce'
<1>1. CasesAccounted'
  BY DEF RunInv, CasesAccounted, SameRecord
<1>2. ReportedOnce'
  BY DEF RunInv, ReportedOnce, SameRecord
<1>3. QED
  BY <1>1, <1>2

LEMMA SameTerminals ==
  ASSUME RunInv, SameRecord, log' = log \/ TerminalsIn(log) = {},
         TerminalsIn(log) # {} => run' \in {"sealing", "sealed", "finished"},
         TerminalsIn(log) # {} => terminal' = terminal
  PROVE  TerminalPublished'
BY DEF RunInv, TerminalPublished, SameRecord

(* A worker has a case only while the run produces or waits.               *)
LEMMA ActiveRun ==
  ASSUME RunInv, NEW w \in Worker, worker[w] \notin {"unborn", "returned"}
  PROVE  run \in {"producing", "waiting"} /\ ~closed /\ TerminalsIn(log) = {}
BY DEF RunInv, LogTypes, RunState, WorkersFollowRun, OverStates, TerminalPublished

LEMMA EndWithEffect ==
  ASSUME NEW status \in Status, EndWith(status)
  PROVE  terminal' \in Terminal /\ terminal'.status = status /\ run' = "ended"
BY DEF EndWith, Terminal, Counts, ZeroCounts

LEMMA RequestFails ==
  ASSUME RejectRequest \/ ConnectFails
  PROVE  /\ terminal' \in Terminal /\ terminal'.status # "Completed"
         /\ run = "starting" /\ run' = "ended"
         /\ cancelled' = cancelled /\ UNCHANGED workVars /\ UNCHANGED countVars
<1>1. PICK status \in Status \ {"Completed"} : EndWith(status)
  BY DEF RejectRequest, ConnectFails, Status
<1>2. QED
  BY <1>1, EndWithEffect DEF RejectRequest, ConnectFails, RunAt

(* A step of the run goroutine, or of the environment, that publishes      *)
(* nothing and hands nothing over.                                         *)
LEMMA RunGoroutineStep ==
  ASSUME RunInv,
         Cancel \/ RejectRequest \/ ConnectFails \/ StopProducing
           \/ CloseRecorder \/ Finish
  PROVE  RunInv'
<1> USE DEF RunInv, RunAt
<1>1. SameRecord
  BY SameLog DEF LogTypes, Cancel, RejectRequest, ConnectFails, StopProducing,
       CloseRecorder, Finish, queueVars
<1>2. UNCHANGED <<worker, held, next>> /\ UNCHANGED queueVars
  BY DEF Cancel, RejectRequest, ConnectFails, StopProducing, CloseRecorder,
       Finish, queueVars, workVars
<1>3. CasesAccounted' /\ ReportedOnce'
  BY <1>1, <1>2, SameHoldings DEF Active
<1>4. LogTypes'
  <2>1. CASE RejectRequest \/ ConnectFails
    BY <1>1, <1>2, <2>1, RequestFails DEF LogTypes, SameRecord, RunState, workVars, countVars
  <2>2. CASE CloseRecorder
    <3>1. terminal \in Terminal
      BY <2>2 DEF CloseRecorder, WorkersFollowRun, OverStates
    <3>2. storageError' \in BOOLEAN /\ progress' = progress /\ progress \in Counts
      BY <2>2 DEF CloseRecorder, LogTypes
    <3>3. terminal' \in Terminal
      BY <2>2, <3>1, <3>2 DEF CloseRecorder, Terminal
    <3>4. QED
      BY <1>1, <1>2, <2>2, <3>2, <3>3 DEF CloseRecorder, LogTypes, SameRecord, RunState, workVars
  <2>3. CASE Cancel \/ StopProducing \/ Finish
    <3>1. /\ terminal' = terminal /\ UNCHANGED workVars /\ UNCHANGED countVars
      BY <2>3 DEF Cancel, StopProducing, Finish
    <3>2. /\ verdict' = verdict /\ kept' = kept /\ snapshot' = snapshot /\ progress' = progress
          /\ storageError' = storageError
      BY <3>1 DEF workVars, countVars
    <3>3. run' \in RunState /\ cancelled' \in BOOLEAN
      BY <2>3 DEF Cancel, StopProducing, Finish, LogTypes, RunState
    <3>4. QED
      BY <1>1, <1>2, <3>1, <3>2, <3>3 DEF LogTypes, SameRecord
  <2>4. QED
    BY <2>1, <2>2, <2>3
<1>5. WorkersFollowRun'
  <2>1. terminal' \in Terminal \cup {NoTerminal}
    BY <1>4 DEF LogTypes
  <2>2. CASE RejectRequest \/ ConnectFails
    BY <1>2, <2>2, RequestFails DEF WorkersFollowRun, OverStates, queueVars
  <2>3. CASE CloseRecorder
    <3>1. terminal \in Terminal
      BY <2>3 DEF CloseRecorder, WorkersFollowRun, OverStates
    <3>2. terminal' \in Terminal
      BY <2>3, <3>1, <1>4 DEF CloseRecorder, Terminal, LogTypes
    <3>3. QED
      BY <1>2, <2>3, <3>2 DEF CloseRecorder, WorkersFollowRun, OverStates, queueVars
  <2>4. CASE Cancel \/ StopProducing \/ Finish
    <3>1. worker' = worker /\ terminal' = terminal /\ closed' = closed
      <4>1. closed' = closed
        BY <1>2 DEF queueVars
      <4>2. QED
        BY <1>2, <2>4, <4>1 DEF Cancel, StopProducing, Finish
    <3>2. CASE Cancel
      BY <3>1, <3>2 DEF Cancel, WorkersFollowRun
    <3>3. CASE StopProducing
      BY <3>1, <3>3 DEF StopProducing, WorkersFollowRun, OverStates
    <3>4. CASE Finish
      BY <3>1, <3>4 DEF Finish, WorkersFollowRun, OverStates
    <3>5. QED
      BY <2>4, <3>2, <3>3, <3>4
  <2>5. QED
    BY <2>2, <2>3, <2>4
<1>6. CompletedMeansAll'
  <2>1. Reported' = Reported
    BY <1>1 DEF SameRecord
  <2>2. CASE RejectRequest \/ ConnectFails
    BY <2>1, <2>2, RequestFails DEF CompletedMeansAll, OverStates
  <2>3. CASE CloseRecorder
    <3>1. terminal \in Terminal
      BY <2>3 DEF CloseRecorder, WorkersFollowRun, OverStates
    <3>2. terminal'.status = terminal.status
      BY <2>3, <3>1 DEF CloseRecorder, Terminal
    <3>3. QED
      BY <1>2, <2>1, <2>3, <3>2 DEF CloseRecorder, CompletedMeansAll, OverStates
  <2>4. CASE Cancel
    BY <2>1, <2>4 DEF Cancel, CompletedMeansAll, OverStates
  <2>5. CASE StopProducing
    BY <2>1, <2>5, PlannedAssumption DEF StopProducing, CompletedMeansAll, OverStates, LogTypes
  <2>6. CASE Finish
    BY <2>1, <2>6 DEF Finish, CompletedMeansAll, OverStates
  <2>7. QED
    BY <2>2, <2>3, <2>4, <2>5, <2>6
<1>7. TerminalPublished'
  <2>1. log' = log
    BY <1>2 DEF queueVars
  <2>2. TerminalsIn(log) # {} => run \in {"sealing", "sealed", "finished"}
    BY DEF TerminalPublished
  <2>3. TerminalsIn(log) # {} => run' \in {"sealing", "sealed", "finished"} /\ terminal' = terminal
    BY <2>2 DEF Cancel, RejectRequest, ConnectFails, StopProducing, CloseRecorder, Finish
  <2>4. QED
    BY <1>1, <2>1, <2>3, SameTerminals
<1>8. QED
  BY <1>3, <1>4, <1>5, <1>6, <1>7

(* wg.Wait has returned: nobody is active any more, so every case that was *)
(* handed over is in the log.                                              *)
LEMMA EndRunStep ==
  ASSUME RunInv, EndRun
  PROVE  RunInv'
<1> USE DEF RunInv
<1>1. PICK status \in Status : EndWith(status) /\ (status = "Completed" => ~cancelled)
  BY DEF EndRun, Status
<1>2. /\ UNCHANGED <<valid, cancelled, next, done>> /\ UNCHANGED workVars
      /\ UNCHANGED countVars /\ UNCHANGED queueVars
      /\ run = "waiting" /\ run' = "ended"
      /\ \A w \in Worker : worker[w] = "returned"
  BY <1>1, EndWithEffect DEF EndRun, RunAt
<1>3. /\ worker' = worker /\ held' = held /\ verdict' = verdict /\ kept' = kept /\ snapshot' = snapshot
      /\ progress' = progress /\ storageError' = storageError
      /\ closed' = closed /\ log' = log
  BY <1>2 DEF workVars, countVars, queueVars
<1>4. SameRecord
  BY <1>3, SameLog DEF LogTypes
<1>5. CasesAccounted' /\ ReportedOnce'
  BY <1>2, <1>3, <1>4, SameHoldings DEF Active
<1>6. LogTypes'
  BY <1>1, <1>2, <1>3, EndWithEffect DEF LogTypes, RunState
<1>7. WorkersFollowRun'
  BY <1>1, <1>2, <1>3, EndWithEffect DEF WorkersFollowRun, OverStates
<1>8. CompletedMeansAll'
  <2>1. SUFFICES ASSUME terminal'.status = "Completed" PROVE Reported' = Case
    BY <1>2 DEF CompletedMeansAll
  <2>2. next = Planned + 1
    BY <1>1, <1>2, <2>1, EndWithEffect DEF CompletedMeansAll
  <2>3. 1..next - 1 = Case
    BY <2>2, PlannedAssumption DEF Case
  <2>4. Case \subseteq Reported
    BY <1>2, <2>3 DEF CasesAccounted, Active
  <2>5. Reported \subseteq Case
    BY <2>3 DEF CasesAccounted, Reported
  <2>6. QED
    BY <1>4, <2>4, <2>5 DEF SameRecord
<1>9. TerminalPublished'
  BY <1>2, <1>3, <1>4, SameTerminals DEF TerminalPublished
<1>10. QED
  BY <1>5, <1>6, <1>7, <1>8, <1>9

(* The next case goes to an idle worker: nobody holds it and it is not in  *)
(* the log.                                                                *)
LEMMA HandOverStep ==
  ASSUME RunInv, NEW w \in Worker, HandOver(w)
  PROVE  RunInv'
<1> USE DEF RunInv
<1>1. /\ run = "producing" /\ run' = run /\ cancelled' = cancelled
      /\ terminal' = terminal /\ next <= Planned /\ next' = next + 1
      /\ verdict' = verdict /\ kept' = kept /\ snapshot' = snapshot /\ progress' = progress
      /\ storageError' = storageError /\ closed' = closed /\ log' = log
  BY DEF HandOver, RunAt, countVars, queueVars
<1>2. /\ worker[w] = "idle"
      /\ worker' = [worker EXCEPT ![w] = "running"]
      /\ held' = [held EXCEPT ![w] = next]
  BY DEF HandOver
<1>3. next \in 1..Planned /\ next' - 1 = next /\ 1..next' - 1 = (1..next - 1) \cup {next}
  BY <1>1, PlannedAssumption DEF LogTypes
<1>4. SameRecord
  BY <1>1, SameLog DEF LogTypes
<1>5. \A v \in Worker : v # w => (Active(v)' <=> Active(v)) /\ held'[v] = held[v]
  BY <1>2 DEF LogTypes, Active
<1>6. Active(w)' /\ held'[w] = next /\ ~Active(w)
  BY <1>2 DEF LogTypes, Active
<1>7. ReportedOnce'
  BY <1>4 DEF ReportedOnce, SameRecord
<1>8. CasesAccounted'
  <2>1. \A v \in Worker : Active(v) => held[v] \in 1..next - 1 /\ held[v] # next
    BY <1>3 DEF CasesAccounted
  <2>2. \A v \in Worker : Active(v)' => held'[v] \in 1..next' - 1
    BY <1>3, <1>5, <1>6, <2>1
  <2>3. \A u, v \in Worker : Active(u)' /\ Active(v)' /\ held'[u] = held'[v] => u = v
    BY <1>5, <1>6, <2>1 DEF CasesAccounted
  <2>4. \A i \in ResultsIn(log) : log[i].case \in 1..next - 1 /\ log[i].case # next
    BY <1>3 DEF CasesAccounted
  <2>5. \A i \in ResultsIn(log') :
          /\ log'[i].case \in 1..next' - 1
          /\ \A v \in Worker : Active(v)' => held'[v] # log'[i].case
    BY <1>3, <1>4, <1>5, <1>6, <2>4 DEF CasesAccounted, SameRecord
  <2>6. \A c \in 1..next' - 1 :
          c \in Reported' \/ \E v \in Worker : Active(v)' /\ held'[v] = c
    <3>1. TAKE c \in 1..next' - 1
    <3>2. CASE c = next
      BY <1>6, <3>2
    <3>3. CASE c \in 1..next - 1
      BY <1>4, <1>5, <1>6, <3>3 DEF CasesAccounted, SameRecord
    <3>4. QED
      BY <1>3, <3>2, <3>3
  <2>7. QED
    BY <2>2, <2>3, <2>5, <2>6 DEF CasesAccounted
<1>9. LogTypes'
  <2>1. held' \in [Worker -> 0..Planned] /\ worker' \in [Worker -> WorkerState]
    BY <1>2, <1>3, PlannedAssumption DEF LogTypes, WorkerState
  <2>2. next' \in 1..Planned + 1
    BY <1>1, <1>3, PlannedAssumption
  <2>3. QED
    BY <1>1, <1>4, <2>1, <2>2 DEF LogTypes, SameRecord
<1>10. WorkersFollowRun' /\ CompletedMeansAll'
  BY <1>1, <1>2 DEF LogTypes, WorkersFollowRun, CompletedMeansAll, OverStates
<1>11. TerminalPublished'
  BY <1>1, <1>4, SameTerminals DEF TerminalPublished
<1>12. QED
  BY <1>7, <1>8, <1>9, <1>10, <1>11

-----------------------------------------------------------------------------
(* The workers.                                                            *)

(* A worker takes a step of its own from one state to another: the run     *)
(* goroutine stands still.                                                 *)
WorkerMoves(w, state) ==
  /\ worker[w] \notin {"unborn", "returned"}
  /\ state # "unborn" /\ (state = "returned" => run = "waiting")
  /\ worker' = [worker EXCEPT ![w] = state]
  /\ UNCHANGED runVars /\ closed' = closed

LEMMA RunUndisturbed ==
  ASSUME RunInv, NEW w \in Worker, NEW state \in WorkerState,
         WorkerMoves(w, state), Reported \subseteq Reported'
  PROVE  /\ worker' \in [Worker -> WorkerState]
         /\ run' = run /\ next' = next /\ cancelled' = cancelled /\ terminal' = terminal
         /\ WorkersFollowRun' /\ CompletedMeansAll'
<1> USE DEF RunInv, WorkerMoves
<1>1. run' = run /\ next' = next /\ cancelled' = cancelled /\ terminal' = terminal
  BY DEF runVars
<1>2. run \in {"producing", "waiting"} /\ ~closed
  BY ActiveRun
<1>3. worker' \in [Worker -> WorkerState]
  BY DEF LogTypes
<1>4. WorkersFollowRun'
  BY <1>1, <1>2 DEF LogTypes, WorkersFollowRun, OverStates
<1>5. CompletedMeansAll'
  BY <1>1, <1>2 DEF CompletedMeansAll, OverStates
<1>6. QED
  BY <1>1, <1>3, <1>4, <1>5

(* A step of a worker that publishes no result and keeps what is held.     *)
LEMMA QuietWorkerStep ==
  ASSUME RunInv, NEW w \in Worker, NEW state \in WorkerState,
         WorkerMoves(w, state), SameRecord,
         Active(w)' <=> Active(w), Active(w) => held'[w] = held[w],
         \A v \in Worker \ {w} : held'[v] = held[v],
         held' \in [Worker -> 0..Planned], verdict' \in [Worker -> Verdict],
         kept' \in [Worker -> BOOLEAN], snapshot' \in [Worker -> Counts],
         progress' \in Counts, storageError' \in BOOLEAN
  PROVE  RunInv'
<1>1. Reported \subseteq Reported'
  BY DEF SameRecord
<1>2. /\ worker' \in [Worker -> WorkerState]
      /\ run' = run /\ next' = next /\ cancelled' = cancelled /\ terminal' = terminal
      /\ WorkersFollowRun' /\ CompletedMeansAll'
  BY <1>1, RunUndisturbed
<1>3. \A v \in Worker \ {w} : worker'[v] = worker[v]
  BY DEF WorkerMoves, RunInv, LogTypes
<1>4. CasesAccounted' /\ ReportedOnce'
  BY <1>2, <1>3, SameHoldings DEF Active
<1>5. LogTypes'
  BY <1>2 DEF RunInv, LogTypes, SameRecord
<1>6. TerminalsIn(log) = {}
  BY ActiveRun DEF WorkerMoves
<1>7. TerminalPublished'
  BY <1>2, <1>6, SameTerminals
<1>8. QED
  BY <1>2, <1>4, <1>5, <1>7 DEF RunInv

LEMMA SilentWorkerStep ==
  ASSUME RunInv, NEW w \in Worker,
         JobReturns(w) \/ AppendResult(w) \/ Count(w) \/ Return(w)
  PROVE  RunInv'
<1>1. LogTypes
  BY DEF RunInv
<1>2. UNCHANGED queueVars /\ UNCHANGED runVars /\ held' = held
  BY DEF JobReturns, AppendResult, Count, Return
<1>3. SameRecord /\ closed' = closed
  BY <1>1, <1>2, SameLog DEF LogTypes, queueVars
<1>4. held' \in [Worker -> 0..Planned] /\ \A v \in Worker : held'[v] = held[v]
  BY <1>1, <1>2 DEF LogTypes
<1>5. verdict' \in [Worker -> Verdict]
  <2>1. CASE JobReturns(w)
    <3>1. PICK v \in Verdict : verdict' = [verdict EXCEPT ![w] = v]
      BY <2>1 DEF JobReturns
    <3>2. QED
      BY <1>1, <3>1 DEF LogTypes
  <2>2. CASE AppendResult(w) \/ Count(w) \/ Return(w)
    BY <1>1, <2>2 DEF AppendResult, Count, Return, LogTypes
  <2>3. QED
    BY <2>1, <2>2
<1>6. kept' \in [Worker -> BOOLEAN] /\ storageError' \in BOOLEAN
  BY <1>1 DEF JobReturns, AppendResult, Count, Return, LogTypes, countVars
<1>7. progress' \in Counts /\ snapshot' \in [Worker -> Counts]
  <2>1. CASE Count(w)
    <3>1. progress' \in Counts
      BY <1>1, <2>1 DEF Count, AddResult, LogTypes, Counts
    <3>2. QED
      BY <1>1, <2>1, <3>1 DEF Count, LogTypes
  <2>2. CASE JobReturns(w) \/ AppendResult(w) \/ Return(w)
    BY <1>1, <2>2 DEF JobReturns, AppendResult, Return, LogTypes, countVars
  <2>3. QED
    BY <2>1, <2>2
<1>8. PICK state \in WorkerState :
        WorkerMoves(w, state) /\ (Active(w) <=> Active(w)')
  BY <1>1, <1>2, <1>3 DEF JobReturns, AppendResult, Count, Return, WorkerAt, Advance,
       WorkerMoves, WorkerState, LogTypes, Active
<1>9. QED
  BY <1>3, <1>4, <1>5, <1>6, <1>7, <1>8, QuietWorkerStep

(* The publications of a worker that are not a result.                     *)
LEMMA ChattyWorkerStep ==
  ASSUME RunInv, NEW w \in Worker,
         JobPublishes(w) \/ JobPanics(w) \/ PublishProgress(w)
  PROVE  RunInv'
<1>1. LogTypes
  BY DEF RunInv
<1>2. UNCHANGED runVars /\ UNCHANGED countVars
  BY DEF JobPublishes, JobPanics, PublishProgress
<1>3. progress' \in Counts /\ storageError' \in BOOLEAN
  BY <1>1, <1>2 DEF LogTypes, countVars
<1>4. SameRecord /\ closed' = closed
  <2>1. CASE JobPublishes(w)
    <3> DEFINE e == [kind |-> "job", case |-> held[w]]
    <3>1. Active(w) /\ held[w] \in Case
      BY <2>1, PlannedAssumption DEF JobPublishes, WorkerAt, Active, RunInv, CasesAccounted, LogTypes, Case
    <3>2. e \in Event /\ e.kind \notin {"result", "terminal"}
      BY <3>1 DEF Event, JobEvent
    <3>3. Queue!Publish(w, e)
      BY <2>1 DEF JobPublishes
    <3>4. QED
      BY <1>1, <3>2, <3>3, QuietPublication DEF LogTypes
  <2>2. CASE JobPanics(w)
    <3> DEFINE e == [kind |-> "panic", case |-> held[w]]
    <3>1. Active(w) /\ held[w] \in Case
      BY <2>2, PlannedAssumption DEF JobPanics, WorkerAt, Active, RunInv, CasesAccounted, LogTypes, Case
    <3>2. e \in Event /\ e.kind \notin {"result", "terminal"}
      BY <3>1 DEF Event, JobEvent
    <3>3. Queue!Publish(w, e)
      BY <2>2 DEF JobPanics
    <3>4. QED
      BY <1>1, <3>2, <3>3, QuietPublication DEF LogTypes
  <2>3. CASE PublishProgress(w)
    <3> DEFINE e == [kind |-> "progress", counts |-> snapshot[w]]
    <3>1. Queue!Publish(w, e)
      BY <2>3 DEF PublishProgress
    <3>2. e \in Progress
      BY <1>1 DEF LogTypes, Progress
    <3>3. QED
      BY <1>1, <3>1, <3>2, QuietPublication DEF LogTypes
  <2>4. QED
    BY <2>1, <2>2, <2>3
<1>5. /\ held' \in [Worker -> 0..Planned]
      /\ \A v \in Worker \ {w} : held'[v] = held[v]
      /\ Active(w) => held'[w] = held[w]
  <2>1. CASE JobPublishes(w) \/ JobPanics(w)
    BY <1>1, <2>1 DEF JobPublishes, JobPanics, LogTypes
  <2>2. CASE PublishProgress(w)
    <3>1. ~Active(w) /\ held' = [held EXCEPT ![w] = 0] /\ 0 \in 0..Planned
      BY <2>2, PlannedAssumption DEF PublishProgress, WorkerAt, Active
    <3>2. QED
      BY <1>1, <3>1 DEF LogTypes
  <2>3. QED
    BY <2>1, <2>2
<1>6. verdict' \in [Worker -> Verdict] /\ kept' \in [Worker -> BOOLEAN]
  BY <1>1 DEF JobPublishes, JobPanics, PublishProgress, LogTypes, Verdict
<1>7. snapshot' \in [Worker -> Counts]
  <2>1. ZeroCounts \in Counts
    BY DEF ZeroCounts, Counts
  <2>2. snapshot' = snapshot \/ snapshot' = [snapshot EXCEPT ![w] = ZeroCounts]
    BY DEF JobPublishes, JobPanics, PublishProgress
  <2>3. QED
    BY <1>1, <2>1, <2>2 DEF LogTypes
<1>8. PICK state \in WorkerState :
        WorkerMoves(w, state) /\ (Active(w) <=> Active(w)')
  <2>1. CASE JobPublishes(w)
    BY <1>1, <1>4, <2>1 DEF JobPublishes, WorkerAt, WorkerMoves, WorkerState, LogTypes, Active
  <2>2. CASE JobPanics(w) \/ PublishProgress(w)
    BY <1>1, <1>2, <1>4, <2>2 DEF JobPanics, PublishProgress, WorkerAt, Advance,
         WorkerMoves, WorkerState, LogTypes, Active
  <2>3. QED
    BY <2>1, <2>2
<1>9. QED
  BY <1>3, <1>4, <1>5, <1>6, <1>7, <1>8, QuietWorkerStep

(* The result of the case a worker holds goes into the log: it was not     *)
(* there, and no other worker holds it.                                    *)
LEMMA PublishResultStep ==
  ASSUME RunInv, NEW w \in Worker, PublishResult(w)
  PROVE  RunInv'
<1> DEFINE e == [kind |-> "result", case |-> held[w], verdict |-> verdict[w], kept |-> kept[w]]
           n == Len(log) + 1
<1>1. LogTypes /\ CasesAccounted /\ ReportedOnce
  BY DEF RunInv
<1>2. /\ worker[w] = "reporting" /\ worker' = [worker EXCEPT ![w] = "refreshing"]
      /\ Queue!Publish(w, e)
      /\ held' = held /\ verdict' = verdict /\ kept' = kept /\ snapshot' = snapshot
      /\ UNCHANGED runVars /\ UNCHANGED countVars
  BY DEF PublishResult, WorkerAt, Advance
<1>3. Active(w) /\ ~Active(w)' /\ \A v \in Worker \ {w} : Active(v)' <=> Active(v)
  BY <1>1, <1>2 DEF LogTypes, Active
<1>4. held[w] \in 1..next - 1 /\ held[w] \in Case
  BY <1>1, <1>3, PlannedAssumption DEF LogTypes, CasesAccounted, Case
<1>5. e \in Result
  BY <1>1, <1>4 DEF LogTypes, Result
<1>6. ~closed /\ TerminalsIn(log) = {}
  BY <1>2, ActiveRun
<1>7. /\ closed' = closed
      /\ log' \in Seq(Event)
      /\ ResultsIn(log') = ResultsIn(log) \cup {n}
      /\ TerminalsIn(log') = TerminalsIn(log)
      /\ \A i \in ResultsIn(log) : i # n /\ log'[i] = log[i]
      /\ log'[n].case = held[w]
      /\ Reported' = Reported \cup {held[w]}
  BY <1>1, <1>2, <1>5, <1>6, ResultPublication DEF LogTypes
<1> HIDE DEF e, n
<1>8. WorkerMoves(w, "refreshing") /\ "refreshing" \in WorkerState
  BY <1>2, <1>7 DEF WorkerMoves, WorkerState
<1>9. /\ worker' \in [Worker -> WorkerState]
      /\ run' = run /\ next' = next /\ cancelled' = cancelled /\ terminal' = terminal
      /\ WorkersFollowRun' /\ CompletedMeansAll'
  BY <1>7, <1>8, RunUndisturbed
<1>10. LogTypes'
  <2>1. progress' = progress /\ storageError' = storageError
    BY <1>2 DEF countVars
  <2>2. QED
    BY <1>1, <1>2, <1>7, <1>9, <2>1 DEF LogTypes
<1>11. ReportedOnce'
  <2>1. \A i \in ResultsIn(log) : log'[i].case # held[w]
    BY <1>1, <1>3, <1>7 DEF CasesAccounted
  <2>2. \A i, j \in ResultsIn(log) : log'[i].case = log'[j].case => i = j
    BY <1>1, <1>7 DEF ReportedOnce
  <2>3. QED
    BY <1>7, <2>1, <2>2 DEF ReportedOnce
<1>12. CasesAccounted'
  <2>1. \A v \in Worker : Active(v)' => v # w /\ held'[v] \in 1..next - 1 /\ held'[v] # held[w]
    BY <1>1, <1>2, <1>3 DEF CasesAccounted
  <2>2. \A u, v \in Worker : Active(u)' /\ Active(v)' /\ held'[u] = held'[v] => u = v
    BY <1>1, <1>2, <1>3 DEF CasesAccounted
  <2>3. \A i \in ResultsIn(log') :
          /\ log'[i].case \in 1..next - 1
          /\ \A v \in Worker : Active(v)' => held'[v] # log'[i].case
    BY <1>1, <1>2, <1>3, <1>4, <1>7, <2>1 DEF CasesAccounted
  <2>4. \A c \in 1..next - 1 :
          c \in Reported' \/ \E v \in Worker : Active(v)' /\ held'[v] = c
    BY <1>1, <1>2, <1>3, <1>7 DEF CasesAccounted
  <2>5. QED
    BY <1>9, <2>1, <2>2, <2>3, <2>4 DEF CasesAccounted
<1>13. TerminalPublished'
  BY <1>6, <1>7 DEF TerminalPublished
<1>14. QED
  BY <1>9, <1>10, <1>11, <1>12, <1>13 DEF RunInv

-----------------------------------------------------------------------------
(* The publications of the run goroutine, and the queue.                   *)

LEMMA StartStep ==
  ASSUME RunInv, AnnounceStart \/ StartWorkers
  PROVE  RunInv'
<1> USE DEF RunInv, RunAt
<1>1. SameRecord /\ closed' = closed
  <2>1. CASE AnnounceStart
    <3>1. Started \in Event /\ Started.kind \notin {"result", "terminal"}
      BY DEF Started, Event
    <3>2. QED
      BY <2>1, <3>1, QuietPublication DEF AnnounceStart, LogTypes
  <2>2. CASE StartWorkers
    <3>1. [kind |-> "progress", counts |-> progress] \in Progress
      BY DEF LogTypes, Progress
    <3>2. QED
      BY <2>2, <3>1, QuietPublication DEF StartWorkers, LogTypes
  <2>3. QED
    BY <2>1, <2>2
<1>2. /\ held' = held /\ next' = next /\ cancelled' = cancelled /\ terminal' = terminal
      /\ verdict' = verdict /\ kept' = kept /\ snapshot' = snapshot
      /\ progress' = progress /\ storageError' = storageError
  BY DEF AnnounceStart, StartWorkers, workVars, countVars
<1>3. /\ run \in {"starting", "connected"} /\ run' \in {"connected", "producing"}
      /\ \A w \in Worker : worker[w] = "unborn"
      /\ \/ run' = "connected" /\ worker' = worker
         \/ run' = "producing" /\ worker' = [w \in Worker |-> "idle"]
  BY DEF AnnounceStart, StartWorkers, WorkersFollowRun, workVars
<1>4. CasesAccounted' /\ ReportedOnce'
  <2>1. \A w \in Worker : (Active(w)' <=> Active(w)) /\ held'[w] = held[w]
    BY <1>2, <1>3 DEF Active
  <2>2. QED
    BY <1>1, <1>2, <2>1, SameHoldings
<1>5. LogTypes'
  BY <1>1, <1>2, <1>3 DEF LogTypes, RunState, WorkerState, SameRecord
<1>6. WorkersFollowRun' /\ CompletedMeansAll'
  BY <1>1, <1>2, <1>3 DEF WorkersFollowRun, CompletedMeansAll, OverStates
<1>7. TerminalsIn(log) = {}
  BY <1>3 DEF TerminalPublished
<1>8. TerminalPublished'
  BY <1>1, <1>7, SameTerminals
<1>9. QED
  BY <1>4, <1>5, <1>6, <1>8

(* The terminal event is published to an open queue, once.                 *)
LEMMA PublishTerminalStep ==
  ASSUME RunInv, PublishTerminal
  PROVE  RunInv'
<1> DEFINE n == Len(log) + 1
<1> USE DEF RunInv
<1>1. /\ run = "recorded" /\ run' = "sealing" /\ Queue!Publish(Run, terminal)
      /\ next' = next /\ cancelled' = cancelled /\ terminal' = terminal
      /\ UNCHANGED workVars /\ UNCHANGED countVars
  BY DEF PublishTerminal, RunAt
<1>2. /\ worker' = worker /\ held' = held /\ verdict' = verdict /\ kept' = kept
      /\ snapshot' = snapshot /\ progress' = progress /\ storageError' = storageError
  BY <1>1 DEF workVars, countVars
<1>3. terminal \in Terminal /\ ~closed /\ TerminalsIn(log) = {}
  BY <1>1 DEF WorkersFollowRun, OverStates, TerminalPublished
<1>4. terminal.kind = "terminal" /\ terminal \in Event
  BY <1>3 DEF Terminal, Event
<1>5. log' = Append(log, terminal) /\ closed' = closed
  BY <1>1, <1>3, <1>4, PublishEffect, NotProgress
<1>6. /\ DOMAIN log = 1..Len(log) /\ Len(log) \in Nat
      /\ log' \in Seq(Event) /\ Len(log') = n /\ DOMAIN log' = 1..n
      /\ \A i \in 1..Len(log) : log'[i] = log[i]
      /\ log'[n] = terminal
  BY <1>4, <1>5, LogIndexed, LogAppended DEF LogTypes
<1>7. ResultsIn(log') = ResultsIn(log)
  BY <1>4, <1>6 DEF ResultsIn
<1>8. TerminalsIn(log') = {n}
  <2>1. \A i \in 1..Len(log) : log'[i].kind # "terminal"
    BY <1>3, <1>6 DEF TerminalsIn
  <2>2. QED
    BY <1>4, <1>6, <2>1 DEF TerminalsIn
<1>9. \A i \in ResultsIn(log) : log'[i] = log[i]
  BY <1>6 DEF ResultsIn
<1>10. Reported' = Reported
  BY <1>7, <1>9 DEF Reported
<1>11. CasesAccounted'
  <2>1. \A w \in Worker : Active(w)' <=> Active(w)
    BY <1>2 DEF Active
  <2>2. QED
    BY <1>1, <1>2, <1>7, <1>9, <1>10, <2>1 DEF CasesAccounted
<1>12. ReportedOnce'
  BY <1>7, <1>9 DEF ReportedOnce
<1>13. LogTypes'
  BY <1>1, <1>2, <1>6 DEF LogTypes, RunState
<1>14. WorkersFollowRun' /\ CompletedMeansAll'
  BY <1>1, <1>2, <1>5, <1>10 DEF WorkersFollowRun, CompletedMeansAll, OverStates
<1>15. TerminalPublished'
  BY <1>1, <1>6, <1>8 DEF TerminalPublished
<1>16. QED
  BY <1>11, <1>12, <1>13, <1>14, <1>15

(* The queue delivers, or is closed, and the log stays.                    *)
LEMMA QueueStep ==
  ASSUME RunInv,
         \/ CloseQueue \/ Dispatch \/ Receive \/ UNCHANGED vars
         \/ \E p \in Worker \cup {Run} : Notify(p)
  PROVE  RunInv'
<1> USE DEF RunInv
<1>1. /\ log' = log /\ next' = next /\ cancelled' = cancelled /\ terminal' = terminal
      /\ UNCHANGED workVars /\ UNCHANGED countVars
      /\ \/ run' = run /\ closed' = closed
         \/ run = "sealing" /\ run' = "sealed"
  <2>1. CASE CloseQueue
    BY <2>1 DEF CloseQueue, RunAt, Queue!Close
  <2>2. CASE Dispatch
    BY <2>2 DEF Dispatch, Queue!Dispatch, Queue!TakeHead, Queue!FindEmpty, Queue!Wake, runVars
  <2>3. CASE Receive
    BY <2>3 DEF Receive, Queue!Receive, runVars
  <2>4. CASE UNCHANGED vars
    BY <2>4 DEF vars, runVars, queueVars
  <2>5. CASE \E p \in Worker \cup {Run} : Notify(p)
    BY <2>5 DEF Notify, Queue!Notify, runVars
  <2>6. QED
    BY <2>1, <2>2, <2>3, <2>4, <2>5
<1>2. /\ worker' = worker /\ held' = held /\ verdict' = verdict /\ kept' = kept
      /\ snapshot' = snapshot /\ progress' = progress /\ storageError' = storageError
  BY <1>1 DEF workVars, countVars
<1>3. SameRecord
  BY <1>1, SameLog DEF LogTypes
<1>4. CasesAccounted' /\ ReportedOnce'
  BY <1>1, <1>2, <1>3, SameHoldings DEF Active
<1>5. LogTypes'
  BY <1>1, <1>2, <1>3 DEF LogTypes, RunState, SameRecord
<1>6. WorkersFollowRun' /\ CompletedMeansAll'
  <2>1. Reported' = Reported
    BY <1>3 DEF SameRecord
  <2>2. CASE run' = run /\ closed' = closed
    BY <1>1, <1>2, <2>1, <2>2 DEF WorkersFollowRun, CompletedMeansAll, OverStates
  <2>3. CASE run = "sealing" /\ run' = "sealed"
    BY <1>1, <1>2, <2>1, <2>3 DEF WorkersFollowRun, CompletedMeansAll, OverStates
  <2>4. QED
    BY <1>1, <2>2, <2>3
<1>7. TerminalPublished'
  BY <1>1, <1>3, SameTerminals DEF TerminalPublished
<1>8. QED
  BY <1>4, <1>5, <1>6, <1>7

-----------------------------------------------------------------------------
(* The theorems.                                                           *)

LEMMA InitiallyRunInv == Init => RunInv
<1>1. SUFFICES ASSUME Init PROVE RunInv
  OBVIOUS
<1>2. log = <<>> /\ closed = FALSE
  BY <1>1 DEF Init, Queue!Init
<1>3. ResultsIn(log) = {} /\ TerminalsIn(log) = {} /\ log \in Seq(Event)
  BY <1>2 DEF ResultsIn, TerminalsIn
<1>4. LogTypes
  <2>1. /\ worker \in [Worker -> WorkerState] /\ held \in [Worker -> 0..Planned]
        /\ verdict \in [Worker -> Verdict] /\ kept \in [Worker -> BOOLEAN]
    BY <1>1, PlannedAssumption DEF Init, WorkerState, Verdict
  <2>2. ZeroCounts \in Counts
    BY DEF ZeroCounts, Counts
  <2>3. next \in 1..Planned + 1
    BY <1>1, PlannedAssumption DEF Init
  <2>4. QED
    BY <1>1, <1>3, <2>1, <2>2, <2>3 DEF Init, LogTypes, RunState
<1>5. CasesAccounted /\ ReportedOnce
  BY <1>1, <1>3 DEF Init, CasesAccounted, ReportedOnce, Active
<1>6. WorkersFollowRun /\ CompletedMeansAll /\ TerminalPublished
  BY <1>1, <1>2, <1>3 DEF Init, WorkersFollowRun, CompletedMeansAll, TerminalPublished, OverStates
<1>7. QED
  BY <1>4, <1>5, <1>6 DEF RunInv

(* Every reachable state of a run, whatever the number of workers and of   *)
(* planned cases, satisfies the inductive invariant (Start, run,           *)
(* recordResult).                                                          *)
THEOREM RunInvariant == Spec => []RunInv
<1>1. Init => RunInv
  BY InitiallyRunInv
<1>2. RunInv /\ [Next]_vars => RunInv'
  <2>1. SUFFICES ASSUME RunInv, [Next]_vars PROVE RunInv'
    OBVIOUS
  <2>2. CASE Cancel
    BY <2>1, <2>2, RunGoroutineStep
  <2>3. CASE RunStep
    <3>1. CASE RejectRequest \/ ConnectFails \/ StopProducing \/ CloseRecorder \/ Finish
      BY <2>1, <3>1, RunGoroutineStep
    <3>2. CASE AnnounceStart \/ StartWorkers
      BY <2>1, <3>2, StartStep
    <3>3. CASE \E w \in Worker : HandOver(w)
      BY <2>1, <3>3, HandOverStep
    <3>4. CASE EndRun
      BY <2>1, <3>4, EndRunStep
    <3>5. CASE PublishTerminal
      BY <2>1, <3>5, PublishTerminalStep
    <3>6. CASE CloseQueue
      BY <2>1, <3>6, QueueStep
    <3>7. QED
      BY <2>3, <3>1, <3>2, <3>3, <3>4, <3>5, <3>6 DEF RunStep
  <2>4. ASSUME NEW w \in Worker, WorkerStep(w) PROVE RunInv'
    <3>1. CASE JobReturns(w) \/ AppendResult(w) \/ Count(w) \/ Return(w)
      BY <2>1, <3>1, SilentWorkerStep
    <3>2. CASE JobPublishes(w) \/ JobPanics(w) \/ PublishProgress(w)
      BY <2>1, <3>2, ChattyWorkerStep
    <3>3. CASE PublishResult(w)
      BY <2>1, <3>3, PublishResultStep
    <3>4. QED
      BY <2>4, <3>1, <3>2, <3>3 DEF WorkerStep
  <2>5. CASE Dispatch \/ Receive \/ \E p \in Worker \cup {Run} : Notify(p)
    BY <2>1, <2>5, QueueStep
  <2>6. CASE Over \/ UNCHANGED vars
    BY <2>1, <2>6, QueueStep DEF Over
  <2>7. QED
    BY <2>1, <2>2, <2>3, <2>4, <2>5, <2>6 DEF Next
<1>3. QED
  BY <1>1, <1>2, PTL DEF Spec

(* No case is reported twice, however the workers interleave and whether   *)
(* or not jobs panic or the run is cancelled (executeJobSafely,            *)
(* recordResult).                                                          *)
THEOREM CasesReportedOnce == Spec => []ReportedOnce
<1>1. RunInv => ReportedOnce
  BY DEF RunInv
<1>2. QED
  BY <1>1, RunInvariant, PTL

(* A terminal event with the status Completed stands behind the results of *)
(* all planned cases (run, Start).                                         *)
THEOREM CompletedRunsReportAll == Spec => []CompletedReportsAll
<1>1. RunInv => CompletedReportsAll
  <2>1. SUFFICES ASSUME RunInv, NEW i \in TerminalsIn(log), log[i].status = "Completed"
                 PROVE  Reported = Case
    BY DEF CompletedReportsAll
  <2>2. log[i] = terminal /\ run \in OverStates
    BY <2>1 DEF RunInv, TerminalPublished, OverStates
  <2>3. QED
    BY <2>1, <2>2 DEF RunInv, CompletedMeansAll
<1>2. QED
  BY <1>1, RunInvariant, PTL

(* Nothing follows the terminal event in the log, and no worker is left    *)
(* when it is published (Start, run).                                      *)
THEOREM TerminalComesLast == Spec => []TerminalIsLast
<1>1. RunInv => TerminalIsLast
  BY DEF RunInv, TerminalIsLast, TerminalPublished, WorkersFollowRun, OverStates
<1>2. QED
  BY <1>1, RunInvariant, PTL

-----------------------------------------------------------------------------
(* The queue of a run.                                                     *)

QueueProofs == INSTANCE EventQueueProofs WITH
  Publisher <- Worker \cup {Run},
  MaxTrail <- 0

LEMMA QueueAssumptions == Progress \subseteq Event /\ 0 \in Nat
BY DEF Event

(* What the goroutines of a run publish are events.                        *)
LEMMA RunPublishesEvents ==
  ASSUME RunInv, NEW e,
         \/ e = Started
         \/ e = [kind |-> "progress", counts |-> progress]
         \/ e = terminal /\ run = "recorded"
  PROVE  e \in Event
<1>1. CASE e = Started
  BY <1>1 DEF Event
<1>2. CASE e = [kind |-> "progress", counts |-> progress]
  BY <1>2 DEF RunInv, LogTypes, Progress, Event
<1>3. CASE e = terminal /\ run = "recorded"
  BY <1>3 DEF RunInv, WorkersFollowRun, OverStates, Event
<1>4. QED
  BY <1>1, <1>2, <1>3

LEMMA WorkersPublishEvents ==
  ASSUME RunInv, NEW w \in Worker, NEW e,
         \/ Active(w) /\ e = [kind |-> "job", case |-> held[w]]
         \/ Active(w) /\ e = [kind |-> "panic", case |-> held[w]]
         \/ Active(w) /\ e = [kind |-> "result", case |-> held[w],
                              verdict |-> verdict[w], kept |-> kept[w]]
         \/ e = [kind |-> "progress", counts |-> snapshot[w]]
  PROVE  e \in Event
<1>1. LogTypes
  BY DEF RunInv
<1>2. Active(w) => held[w] \in Case
  BY <1>1, PlannedAssumption DEF RunInv, CasesAccounted, LogTypes, Case
<1>3. verdict[w] \in Verdict /\ kept[w] \in BOOLEAN /\ snapshot[w] \in Counts
  BY <1>1 DEF LogTypes
<1>4. CASE Active(w) /\ e = [kind |-> "job", case |-> held[w]]
  BY <1>2, <1>4 DEF JobEvent, Event
<1>5. CASE Active(w) /\ e = [kind |-> "panic", case |-> held[w]]
  BY <1>2, <1>5 DEF JobEvent, Event
<1>6. CASE Active(w) /\ e = [kind |-> "result", case |-> held[w],
                             verdict |-> verdict[w], kept |-> kept[w]]
  BY <1>2, <1>3, <1>6 DEF Result, Event
<1>7. CASE e = [kind |-> "progress", counts |-> snapshot[w]]
  BY <1>3, <1>7 DEF Progress, Event
<1>8. QED
  BY <1>4, <1>5, <1>6, <1>7

(* A step of a run is a step of its queue, or leaves the queue alone: the  *)
(* goroutines of a run use the queue as any set of publishers would.       *)
LEMMA RunStepsQueue ==
  ASSUME RunInv, [Next]_vars
  PROVE  Queue!Step \/ UNCHANGED queueVars
<1>1. ASSUME NEW p \in Worker \cup {Run}, NEW e \in Event, Queue!Publish(p, e)
      PROVE  Queue!Step
  BY <1>1 DEF Queue!Step
<1>2. CASE Cancel
  BY <1>2 DEF Cancel
<1>3. CASE RunStep
  <2>1. CASE AnnounceStart
    BY <1>1, <2>1, RunPublishesEvents DEF AnnounceStart
  <2>2. CASE StartWorkers
    BY <1>1, <2>2, RunPublishesEvents DEF StartWorkers
  <2>3. CASE PublishTerminal
    BY <1>1, <2>3, RunPublishesEvents DEF PublishTerminal, RunAt
  <2>4. CASE CloseQueue
    BY <2>4 DEF CloseQueue, Queue!Step
  <2>5. CASE RejectRequest \/ ConnectFails \/ (\E w \in Worker : HandOver(w))
             \/ StopProducing \/ EndRun \/ CloseRecorder \/ Finish
    BY <2>5 DEF RejectRequest, ConnectFails, HandOver, StopProducing, EndRun,
         CloseRecorder, Finish
  <2>6. QED
    BY <1>3, <2>1, <2>2, <2>3, <2>4, <2>5 DEF RunStep
<1>4. ASSUME NEW w \in Worker, WorkerStep(w)
      PROVE  Queue!Step \/ UNCHANGED queueVars
  <2>1. CASE JobPublishes(w)
    BY <1>1, <2>1, WorkersPublishEvents DEF JobPublishes, WorkerAt, Active
  <2>2. CASE JobPanics(w)
    BY <1>1, <2>2, WorkersPublishEvents DEF JobPanics, WorkerAt, Active
  <2>3. CASE PublishResult(w)
    BY <1>1, <2>3, WorkersPublishEvents DEF PublishResult, WorkerAt, Active
  <2>4. CASE PublishProgress(w)
    BY <1>1, <2>4, WorkersPublishEvents DEF PublishProgress
  <2>5. CASE JobReturns(w) \/ AppendResult(w) \/ Count(w) \/ Return(w)
    BY <2>5 DEF JobReturns, AppendResult, Count, Return
  <2>6. QED
    BY <1>4, <2>1, <2>2, <2>3, <2>4, <2>5 DEF WorkerStep
<1>5. CASE Dispatch \/ Receive \/ \E p \in Worker \cup {Run} : Notify(p)
  BY <1>5 DEF Dispatch, Receive, Notify, Queue!Step
<1>6. CASE Over \/ UNCHANGED vars
  BY <1>6 DEF Over, vars
<1>7. QED
  BY <1>2, <1>3, <1>4, <1>5, <1>6 DEF Next

(* The events of a run pass through a queue of EventQueue, so that all     *)
(* that holds of the queue holds of the run (Operation, newEventQueue).    *)
THEOREM RunUsesQueue == Spec => Queue!QueueSpec
<1>1. Init => Queue!Init
  BY DEF Init
<1>2. RunInv /\ [Next]_vars => [Queue!Step]_(Queue!queueVars)
  BY RunStepsQueue DEF queueVars, Queue!queueVars
<1>3. QED
  BY <1>1, <1>2, RunInvariant, PTL DEF Spec, Queue!QueueSpec

LEMMA SameQueue == Queue!QueueSpec => QueueProofs!QueueSpec
<1>1. Queue!Init => QueueProofs!Init
  BY DEF Queue!Init, QueueProofs!Init
<1>2. [Queue!Step]_(Queue!queueVars) => [QueueProofs!Step]_(QueueProofs!queueVars)
  BY DEF Queue!Step, QueueProofs!Step, Queue!queueVars, QueueProofs!queueVars,
     Queue!Publish, QueueProofs!Publish, Queue!Coalesce, QueueProofs!Coalesce,
     Queue!Enqueue, QueueProofs!Enqueue, Queue!Discard, QueueProofs!Discard,
     Queue!EndsInProgress, QueueProofs!EndsInProgress,
     Queue!Close, QueueProofs!Close, Queue!Notify, QueueProofs!Notify,
     Queue!Dispatch, QueueProofs!Dispatch, Queue!TakeHead, QueueProofs!TakeHead,
     Queue!FindEmpty, QueueProofs!FindEmpty, Queue!Wake, QueueProofs!Wake,
     Queue!Receive, QueueProofs!Receive
<1>3. QED
  BY <1>1, <1>2, PTL DEF Queue!QueueSpec, QueueProofs!QueueSpec

(* In a run the dispatcher never sleeps through an event of a worker or    *)
(* through the end of the run (publish, close, dispatch).                  *)
THEOREM RunLosesNoWakeup == Spec => []Queue!NoLostWakeup
<1>1. QueueProofs!QueueSpec => []QueueProofs!NoLostWakeup
  BY QueueAssumptions, QueueProofs!WakeupNeverLost
<1>2. QueueProofs!NoLostWakeup => Queue!NoLostWakeup
  BY DEF QueueProofs!NoLostWakeup, Queue!NoLostWakeup
<1>3. QED
  BY <1>1, <1>2, RunUsesQueue, SameQueue, PTL

(* No result, log line or terminal event of a run is lost, repeated or     *)
(* overtaken on its way to the consumer (publish, dispatch).               *)
THEOREM RunLosesNoEvent == Spec => []Queue!NoCriticalLost
<1>1. QueueProofs!QueueSpec => []QueueProofs!NoCriticalLost
  BY QueueAssumptions, QueueProofs!CriticalNeverLost
<1>2. QueueProofs!NoCriticalLost => Queue!NoCriticalLost
  BY DEF QueueProofs!NoCriticalLost, Queue!NoCriticalLost, QueueProofs!Numbered,
     Queue!Numbered, QueueProofs!LastNo, Queue!LastNo, QueueProofs!Trail, Queue!Trail,
     QueueProofs!Predecessor, Queue!Predecessor
<1>3. QED
  BY <1>1, <1>2, RunUsesQueue, SameQueue, PTL

(* A run keeps the promise of Operation to its consumer.                   *)
THEOREM RunImplementsFeed == Spec => Queue!FeedSpec
<1>1. QueueProofs!QueueSpec => QueueProofs!FeedSpec
  BY QueueAssumptions, QueueProofs!QueueImplementsFeed
<1>2. QueueProofs!Feed!Init => Queue!Feed!Init
  BY DEF QueueProofs!Feed!Init, Queue!Feed!Init, QueueProofs!LastNo, Queue!LastNo
<1>3. [QueueProofs!Feed!Next]_(QueueProofs!Feed!feedVars) => [Queue!Feed!Next]_(Queue!Feed!feedVars)
  BY DEF QueueProofs!Feed!Next, Queue!Feed!Next, QueueProofs!Feed!feedVars, Queue!Feed!feedVars,
     QueueProofs!Feed!Accept, Queue!Feed!Accept, QueueProofs!Feed!Seal, Queue!Feed!Seal,
     QueueProofs!Feed!See, Queue!Feed!See, QueueProofs!Feed!End, Queue!Feed!End,
     QueueProofs!LastNo, Queue!LastNo, QueueProofs!Critical, Queue!Critical
<1>4. QED
  BY <1>1, <1>2, <1>3, RunUsesQueue, SameQueue, PTL
  DEF QueueProofs!FeedSpec, Queue!FeedSpec, QueueProofs!Feed!Spec, Queue!Feed!Spec

-----------------------------------------------------------------------------
(* The accounts of a run: the result file, the counters and the terminal   *)
(* event against the results in the log.  A case that a worker has stored, *)
(* or counted, and not yet published is what sets them apart.              *)

RecordedStates == {"recorded", "sealing", "sealed", "finished"}

(* A worker whose result is in the file, if it was accepted, and not yet   *)
(* in the log; and one whose result is counted and not yet in the log.     *)
Stored(w) == worker[w] \in {"counting", "reporting"}
Unpublished(V) == {w \in Worker : worker[w] = "reporting" /\ verdict[w] \in V}

InLog(V) == {i \in ResultsIn(log) : log[i].verdict \in V}

Tally(V) == Cardinality(InLog(V)) + Cardinality(Unpublished(V))

OtherTypes ==
  /\ valid \in BOOLEAN
  /\ jobEvents \in [Worker -> 0..MaxJobEvents]
  /\ stored \subseteq Case
  /\ done \in BOOLEAN

StoredAccounted ==
  ~storageError => stored = Reported \cup {held[w] : w \in {v \in Worker : Stored(v)}}

ResultsCounted ==
  progress = [executed |-> Tally(Verdict), passed |-> Tally({"PASS"}),
              failed |-> Tally({"FAIL"}), errors |-> Tally({"ERROR"})]

TerminalFilled ==
  run \in RecordedStates =>
    /\ terminal.storageError = storageError
    /\ terminal.counts = progress

AccountInv == OtherTypes /\ StoredAccounted /\ ResultsCounted /\ TerminalFilled

-----------------------------------------------------------------------------
(* What a step does to the results in the log.                             *)

SameResults ==
  /\ ResultsIn(log') = ResultsIn(log)
  /\ \A i \in ResultsIn(log) : log'[i] = log[i]
  /\ Reported' = Reported

LEMMA UnchangedResults ==
  ASSUME log' = log
  PROVE  SameResults
BY DEF SameResults, Reported

LEMMA OtherPublication ==
  ASSUME log \in Seq(Event), NEW p, NEW e \in Event, Queue!Publish(p, e),
         e.kind # "result"
  PROVE  SameResults
<1>1. CASE log' = log
  BY <1>1, UnchangedResults
<1>2. CASE log' = Append(log, e)
  <2>1. DOMAIN log = 1..Len(log) /\ Len(log) \in Nat
    BY LogIndexed
  <2>2. /\ DOMAIN log' = 1..Len(log) + 1
        /\ \A i \in 1..Len(log) : log'[i] = log[i]
        /\ log'[Len(log) + 1] = e
    BY <1>2, LogAppended
  <2>3. ResultsIn(log') = ResultsIn(log)
    BY <2>1, <2>2 DEF ResultsIn
  <2>4. \A i \in ResultsIn(log) : log'[i] = log[i]
    BY <2>1, <2>2 DEF ResultsIn
  <2>5. QED
    BY <2>3, <2>4 DEF SameResults, Reported
<1>3. QED
  BY <1>1, <1>2, PublishEffect

(* Only PublishResult changes what the log says of the results.            *)
LEMMA OtherStepsKeepResults ==
  ASSUME RunInv, [Next]_vars, \A w \in Worker : ~PublishResult(w)
  PROVE  SameResults
<1>1. log \in Seq(Event)
  BY DEF RunInv, LogTypes
<1>2. ASSUME UNCHANGED queueVars PROVE SameResults
  BY <1>2, UnchangedResults DEF queueVars
<1>3. CASE Cancel
  BY <1>2, <1>3 DEF Cancel
<1>4. CASE RunStep
  <2>1. CASE AnnounceStart
    <3>1. Started \in Event /\ Started.kind # "result"
      BY DEF Started, Event
    <3>2. QED
      BY <1>1, <2>1, <3>1, OtherPublication DEF AnnounceStart
  <2>2. CASE StartWorkers
    <3> DEFINE e == [kind |-> "progress", counts |-> progress]
    <3>1. e \in Event /\ e.kind # "result"
      BY RunPublishesEvents
    <3>2. Queue!Publish(Run, e)
      BY <2>2 DEF StartWorkers
    <3>3. QED
      BY <1>1, <3>1, <3>2, OtherPublication
  <2>3. CASE PublishTerminal
    <3>1. terminal \in Terminal
      BY <2>3 DEF PublishTerminal, RunAt, RunInv, WorkersFollowRun, OverStates
    <3>2. terminal \in Event /\ terminal.kind # "result"
      BY <3>1 DEF Terminal, Event
    <3>3. QED
      BY <1>1, <2>3, <3>2, OtherPublication DEF PublishTerminal
  <2>4. CASE CloseQueue
    BY <2>4, UnchangedResults DEF CloseQueue, Queue!Close
  <2>5. CASE RejectRequest \/ ConnectFails \/ (\E w \in Worker : HandOver(w))
             \/ StopProducing \/ EndRun \/ CloseRecorder \/ Finish
    BY <1>2, <2>5 DEF RejectRequest, ConnectFails, HandOver, StopProducing, EndRun,
         CloseRecorder, Finish
  <2>6. QED
    BY <1>4, <2>1, <2>2, <2>3, <2>4, <2>5 DEF RunStep
<1>5. ASSUME NEW w \in Worker, WorkerStep(w)
      PROVE  SameResults
  <2>1. CASE JobPublishes(w)
    <3> DEFINE e == [kind |-> "job", case |-> held[w]]
    <3>1. e \in Event /\ e.kind # "result" /\ Queue!Publish(w, e)
      BY <2>1, WorkersPublishEvents DEF JobPublishes, WorkerAt, Active
    <3>2. QED
      BY <1>1, <3>1, OtherPublication
  <2>2. CASE JobPanics(w)
    <3> DEFINE e == [kind |-> "panic", case |-> held[w]]
    <3>1. e \in Event /\ e.kind # "result" /\ Queue!Publish(w, e)
      BY <2>2, WorkersPublishEvents DEF JobPanics, WorkerAt, Active
    <3>2. QED
      BY <1>1, <3>1, OtherPublication
  <2>3. CASE PublishProgress(w)
    <3> DEFINE e == [kind |-> "progress", counts |-> snapshot[w]]
    <3>1. e \in Event /\ e.kind # "result" /\ Queue!Publish(w, e)
      BY <2>3, WorkersPublishEvents DEF PublishProgress
    <3>2. QED
      BY <1>1, <3>1, OtherPublication
  <2>4. CASE JobReturns(w) \/ AppendResult(w) \/ Count(w) \/ Return(w)
    BY <1>2, <2>4 DEF JobReturns, AppendResult, Count, Return
  <2>5. QED
    BY <1>5, <2>1, <2>2, <2>3, <2>4 DEF WorkerStep
<1>6. CASE Dispatch \/ Receive \/ \E p \in Worker \cup {Run} : Notify(p)
  <2>1. log' = log
    BY <1>6 DEF Dispatch, Receive, Notify, Queue!Dispatch, Queue!TakeHead, Queue!FindEmpty,
         Queue!Wake, Queue!Receive, Queue!Notify
  <2>2. QED
    BY <2>1, UnchangedResults
<1>7. CASE Over \/ UNCHANGED vars
  BY <1>2, <1>7 DEF Over, vars
<1>8. QED
  BY <1>3, <1>4, <1>5, <1>6, <1>7 DEF Next

-----------------------------------------------------------------------------
(* The tally.                                                              *)

LEMMA TallyIsFinite ==
  ASSUME RunInv, NEW V
  PROVE  /\ IsFiniteSet(InLog(V)) /\ Cardinality(InLog(V)) \in Nat
         /\ IsFiniteSet(Unpublished(V)) /\ Cardinality(Unpublished(V)) \in Nat
<1>1. DOMAIN log = 1..Len(log) /\ Len(log) \in Nat
  BY LogIndexed DEF RunInv, LogTypes
<1>2. IsFiniteSet(1..Len(log))
  BY <1>1, FS_Interval
<1>3. InLog(V) \in SUBSET (1..Len(log)) /\ Unpublished(V) \in SUBSET Worker
  BY <1>1 DEF InLog, ResultsIn, Unpublished
<1>4. IsFiniteSet(InLog(V)) /\ IsFiniteSet(Unpublished(V))
  BY <1>2, <1>3, FS_Subset, WorkerAssumption
<1>5. QED
  BY <1>4, FS_CardinalityType

LEMMA SameTally ==
  ASSUME SameResults, NEW V,
         \A w \in Worker : worker[w] = "reporting" \/ worker'[w] = "reporting" =>
           worker'[w] = worker[w] /\ verdict'[w] = verdict[w]
  PROVE  Tally(V)' = Tally(V)
<1>1. InLog(V)' = InLog(V)
  BY DEF SameResults, InLog
<1>2. Unpublished(V)' = Unpublished(V)
  BY DEF Unpublished
<1>3. QED
  BY <1>1, <1>2 DEF Tally

(* Counting a result adds it to what is counted and not yet published.     *)
LEMMA CountTally ==
  ASSUME RunInv, SameResults, NEW w \in Worker, Count(w), NEW V
  PROVE  Tally(V)' = Tally(V) + (IF verdict[w] \in V THEN 1 ELSE 0)
<1>1. /\ worker[w] = "counting" /\ worker' = [worker EXCEPT ![w] = "reporting"]
      /\ verdict' = verdict /\ worker \in [Worker -> WorkerState]
  BY DEF Count, WorkerAt, Advance, RunInv, LogTypes
<1>2. InLog(V)' = InLog(V)
  BY DEF SameResults, InLog
<1>3. w \notin Unpublished(V)
  BY <1>1 DEF Unpublished
<1>4. Unpublished(V)' = IF verdict[w] \in V THEN Unpublished(V) \cup {w} ELSE Unpublished(V)
  BY <1>1 DEF Unpublished
<1>5. Cardinality(Unpublished(V))' = Cardinality(Unpublished(V)) + (IF verdict[w] \in V THEN 1 ELSE 0)
  <2>1. CASE verdict[w] \in V
    BY <1>3, <1>4, <2>1, TallyIsFinite, FS_AddElement
  <2>2. CASE verdict[w] \notin V
    BY <1>4, <2>2, TallyIsFinite
  <2>3. QED
    BY <2>1, <2>2
<1>6. QED
  BY <1>2, <1>5, TallyIsFinite DEF Tally

(* Publishing a result moves it from the one part of the tally to the      *)
(* other.                                                                  *)
LEMMA PublishTally ==
  ASSUME RunInv, NEW w \in Worker, PublishResult(w), NEW V,
         ResultsIn(log') = ResultsIn(log) \cup {Len(log) + 1},
         \A i \in ResultsIn(log) : i # Len(log) + 1 /\ log'[i] = log[i],
         log'[Len(log) + 1].verdict = verdict[w]
  PROVE  Tally(V)' = Tally(V)
<1> DEFINE n == Len(log) + 1
<1>1. /\ worker[w] = "reporting" /\ worker' = [worker EXCEPT ![w] = "refreshing"]
      /\ verdict' = verdict /\ worker \in [Worker -> WorkerState]
  BY DEF PublishResult, WorkerAt, Advance, RunInv, LogTypes
<1> HIDE DEF n
<1>2. n \notin InLog(V)
  BY DEF InLog, n
<1>3. InLog(V)' = IF verdict[w] \in V THEN InLog(V) \cup {n} ELSE InLog(V)
  BY DEF InLog, n
<1>4. Unpublished(V)' = Unpublished(V) \ {w}
  BY <1>1 DEF Unpublished
<1>5. w \in Unpublished(V) <=> verdict[w] \in V
  BY <1>1 DEF Unpublished
<1>6. CASE verdict[w] \in V
  <2>1. Cardinality(InLog(V))' = Cardinality(InLog(V)) + 1
    BY <1>2, <1>3, <1>6, TallyIsFinite, FS_AddElement
  <2>2. Cardinality(Unpublished(V))' = Cardinality(Unpublished(V)) - 1
    BY <1>4, <1>5, <1>6, TallyIsFinite, FS_RemoveElement
  <2>3. QED
    BY <2>1, <2>2, TallyIsFinite DEF Tally
<1>7. CASE verdict[w] \notin V
  <2>1. Unpublished(V)' = Unpublished(V)
    BY <1>4, <1>5, <1>7
  <2>2. QED
    BY <1>3, <1>7, <2>1 DEF Tally
<1>8. QED
  BY <1>6, <1>7

-----------------------------------------------------------------------------
(* The accounts through every step.                                        *)

LEMMA OtherTypesStep ==
  ASSUME RunInv, OtherTypes, [Next]_vars
  PROVE  OtherTypes'
<1> USE DEF OtherTypes
<1>1. ASSUME UNCHANGED runVars, UNCHANGED countVars, UNCHANGED workVars PROVE OtherTypes'
  BY <1>1 DEF runVars, countVars, workVars
<1>2. CASE Cancel
  BY <1>2 DEF Cancel, countVars, workVars
<1>3. CASE RunStep
  <2>1. valid' = valid /\ jobEvents' = jobEvents
    BY <1>3 DEF RunStep, RejectRequest, ConnectFails, AnnounceStart, StartWorkers, HandOver,
       StopProducing, EndRun, CloseRecorder, PublishTerminal, CloseQueue, Finish, workVars
  <2>2. done' \in BOOLEAN
    BY <1>3 DEF RunStep, RejectRequest, ConnectFails, AnnounceStart, StartWorkers, HandOver,
       StopProducing, EndRun, CloseRecorder, PublishTerminal, CloseQueue, Finish
  <2>3. stored' \subseteq Case
    <3>1. CASE CloseRecorder
      BY <3>1 DEF CloseRecorder
    <3>2. CASE ~CloseRecorder
      BY <1>3, <3>2 DEF RunStep, RejectRequest, ConnectFails, AnnounceStart, StartWorkers,
         HandOver, StopProducing, EndRun, PublishTerminal, CloseQueue, Finish, countVars
    <3>3. QED
      BY <3>1, <3>2
  <2>4. QED
    BY <2>1, <2>2, <2>3
<1>4. ASSUME NEW w \in Worker, WorkerStep(w)
      PROVE  OtherTypes'
  <2>1. valid' = valid /\ done' = done
    BY <1>4 DEF WorkerStep, JobPublishes, JobReturns, JobPanics, AppendResult, Count,
       PublishResult, PublishProgress, Return, runVars
  <2>2. jobEvents' \in [Worker -> 0..MaxJobEvents]
    <3>1. CASE JobPublishes(w)
      <4>1. jobEvents' = [jobEvents EXCEPT ![w] = @ + 1] /\ jobEvents[w] < MaxJobEvents
        BY <3>1 DEF JobPublishes
      <4>2. jobEvents[w] + 1 \in 0..MaxJobEvents
        BY <4>1, MaxJobEventsAssumption
      <4>3. QED
        BY <4>1, <4>2
    <3>2. CASE PublishProgress(w)
      BY <3>2, MaxJobEventsAssumption DEF PublishProgress
    <3>3. CASE ~JobPublishes(w) /\ ~PublishProgress(w)
      <4>1. jobEvents' = jobEvents
        BY <1>4, <3>3 DEF WorkerStep, JobReturns, JobPanics, AppendResult, Count,
           PublishResult, Return
      <4>2. QED
        BY <4>1
    <3>4. QED
      BY <3>1, <3>2, <3>3
  <2>3. stored' \subseteq Case
    <3>1. CASE AppendResult(w)
      <4>1. held[w] \in Case
        BY <3>1, PlannedAssumption DEF AppendResult, WorkerAt, Active, RunInv, CasesAccounted,
           LogTypes, Case
      <4>2. QED
        BY <3>1, <4>1 DEF AppendResult
    <3>2. CASE ~AppendResult(w)
      BY <1>4, <3>2 DEF WorkerStep, JobPublishes, JobReturns, JobPanics, Count, PublishResult,
         PublishProgress, Return, countVars
    <3>3. QED
      BY <3>1, <3>2
  <2>4. QED
    BY <2>1, <2>2, <2>3
<1>5. CASE Dispatch \/ Receive \/ \E p \in Worker \cup {Run} : Notify(p)
  BY <1>1, <1>5 DEF Dispatch, Receive, Notify
<1>6. CASE Over \/ UNCHANGED vars
  BY <1>1, <1>6 DEF Over, vars
<1>7. QED
  BY <1>2, <1>3, <1>4, <1>5, <1>6 DEF Next

(* Most steps neither store nor count nor publish a result.                *)
LEMMA QuietAccounts ==
  ASSUME AccountInv, SameResults, UNCHANGED countVars,
         \A w \in Worker : Stored(w) \/ Stored(w)' =>
           worker'[w] = worker[w] /\ held'[w] = held[w] /\ verdict'[w] = verdict[w],
         run' \in RecordedStates => run \in RecordedStates /\ terminal' = terminal
  PROVE  StoredAccounted' /\ ResultsCounted' /\ TerminalFilled'
<1>1. progress' = progress /\ storageError' = storageError /\ stored' = stored
  BY DEF countVars
<1>2. StoredAccounted'
  <2>1. {held[w] : w \in {v \in Worker : Stored(v)}}' = {held[w] : w \in {v \in Worker : Stored(v)}}
    BY DEF Stored
  <2>2. QED
    BY <1>1, <2>1 DEF AccountInv, StoredAccounted, SameResults
<1>3. ResultsCounted'
  <2>1. \A w \in Worker : worker[w] = "reporting" \/ worker'[w] = "reporting" =>
          worker'[w] = worker[w] /\ verdict'[w] = verdict[w]
    BY DEF Stored
  <2>2. /\ Tally(Verdict)' = Tally(Verdict)
        /\ Tally({"PASS"})' = Tally({"PASS"})
        /\ Tally({"FAIL"})' = Tally({"FAIL"})
        /\ Tally({"ERROR"})' = Tally({"ERROR"})
    BY <2>1, SameTally
  <2>3. QED
    BY <1>1, <2>2 DEF AccountInv, ResultsCounted
<1>4. TerminalFilled'
  BY <1>1 DEF AccountInv, TerminalFilled
<1>5. QED
  BY <1>2, <1>3, <1>4

(* Recorder.Close: nobody is between storing and publishing any more.      *)
LEMMA CloseRecorderAccounts ==
  ASSUME RunInv, AccountInv, SameResults, CloseRecorder
  PROVE  StoredAccounted' /\ ResultsCounted' /\ TerminalFilled'
<1>1. /\ worker' = worker /\ held' = held /\ verdict' = verdict /\ progress' = progress
      /\ run' = "recorded"
  BY DEF CloseRecorder, workVars
<1>2. storageError' \/ (storageError' = storageError /\ stored' = stored)
  BY DEF CloseRecorder, RunInv, LogTypes
<1>3. StoredAccounted'
  BY <1>1, <1>2 DEF AccountInv, StoredAccounted, Stored, SameResults
<1>4. ResultsCounted'
  <2>1. /\ Tally(Verdict)' = Tally(Verdict)
        /\ Tally({"PASS"})' = Tally({"PASS"})
        /\ Tally({"FAIL"})' = Tally({"FAIL"})
        /\ Tally({"ERROR"})' = Tally({"ERROR"})
    BY <1>1, SameTally
  <2>2. QED
    BY <1>1, <2>1 DEF AccountInv, ResultsCounted
<1>5. TerminalFilled'
  BY <1>1 DEF CloseRecorder, TerminalFilled
<1>6. QED
  BY <1>3, <1>4, <1>5

(* Append: the result is in the file, or the error is remembered.          *)
LEMMA AppendAccounts ==
  ASSUME RunInv, AccountInv, SameResults, NEW w \in Worker, AppendResult(w)
  PROVE  StoredAccounted' /\ ResultsCounted' /\ TerminalFilled'
<1>1. /\ worker[w] = "recording" /\ worker' = [worker EXCEPT ![w] = "counting"]
      /\ held' = held /\ verdict' = verdict /\ progress' = progress
      /\ run' = run /\ worker \in [Worker -> WorkerState]
  BY DEF AppendResult, WorkerAt, Advance, RunInv, LogTypes, runVars
<1>2. storageError' \/ (~storageError /\ ~storageError' /\ stored' = stored \cup {held[w]})
  BY DEF AppendResult, RunInv, LogTypes
<1>3. StoredAccounted'
  <2>1. SUFFICES ASSUME ~storageError'
                 PROVE  stored' = Reported' \cup {held[v] : v \in {v \in Worker : Stored(v)}}'
    BY DEF StoredAccounted
  <2>2. {v \in Worker : Stored(v)}' = {v \in Worker : Stored(v)} \cup {w}
    BY <1>1 DEF Stored
  <2>3. {held[v] : v \in {v \in Worker : Stored(v)}}'
          = {held[v] : v \in {v \in Worker : Stored(v)}} \cup {held[w]}
    BY <1>1, <2>2
  <2>4. QED
    BY <1>2, <2>1, <2>3 DEF AccountInv, StoredAccounted, SameResults
<1>4. ResultsCounted'
  <2>1. \A v \in Worker : worker[v] = "reporting" \/ worker'[v] = "reporting" =>
          worker'[v] = worker[v] /\ verdict'[v] = verdict[v]
    BY <1>1
  <2>2. /\ Tally(Verdict)' = Tally(Verdict)
        /\ Tally({"PASS"})' = Tally({"PASS"})
        /\ Tally({"FAIL"})' = Tally({"FAIL"})
        /\ Tally({"ERROR"})' = Tally({"ERROR"})
    BY <2>1, SameTally
  <2>3. QED
    BY <1>1, <2>2 DEF AccountInv, ResultsCounted
<1>5. run \in {"producing", "waiting"}
  BY <1>1, ActiveRun
<1>6. TerminalFilled'
  BY <1>1, <1>5 DEF TerminalFilled, RecordedStates
<1>7. QED
  BY <1>3, <1>4, <1>6

LEMMA CountAccounts ==
  ASSUME RunInv, AccountInv, SameResults, NEW w \in Worker, Count(w)
  PROVE  StoredAccounted' /\ ResultsCounted' /\ TerminalFilled'
<1>1. /\ worker[w] = "counting" /\ worker' = [worker EXCEPT ![w] = "reporting"]
      /\ held' = held /\ verdict' = verdict
      /\ storageError' = storageError /\ stored' = stored
      /\ progress' = AddResult(progress, verdict[w])
      /\ run' = run /\ worker \in [Worker -> WorkerState] /\ verdict[w] \in Verdict
  BY DEF Count, WorkerAt, Advance, RunInv, LogTypes, runVars
<1>2. StoredAccounted'
  <2>1. {v \in Worker : Stored(v)}' = {v \in Worker : Stored(v)}
    BY <1>1 DEF Stored
  <2>2. {held[v] : v \in {v \in Worker : Stored(v)}}' = {held[v] : v \in {v \in Worker : Stored(v)}}
    BY <1>1, <2>1
  <2>3. QED
    BY <1>1, <2>2 DEF AccountInv, StoredAccounted, SameResults
<1>3. ResultsCounted'
  <2>1. /\ Tally(Verdict)' = Tally(Verdict) + 1
        /\ Tally({"PASS"})' = Tally({"PASS"}) + (IF verdict[w] = "PASS" THEN 1 ELSE 0)
        /\ Tally({"FAIL"})' = Tally({"FAIL"}) + (IF verdict[w] = "FAIL" THEN 1 ELSE 0)
        /\ Tally({"ERROR"})' = Tally({"ERROR"}) + (IF verdict[w] = "ERROR" THEN 1 ELSE 0)
    <3>1. Tally(Verdict)' = Tally(Verdict) + (IF verdict[w] \in Verdict THEN 1 ELSE 0)
      BY CountTally
    <3>2. Tally({"PASS"})' = Tally({"PASS"}) + (IF verdict[w] \in {"PASS"} THEN 1 ELSE 0)
      BY CountTally
    <3>3. Tally({"FAIL"})' = Tally({"FAIL"}) + (IF verdict[w] \in {"FAIL"} THEN 1 ELSE 0)
      BY CountTally
    <3>4. Tally({"ERROR"})' = Tally({"ERROR"}) + (IF verdict[w] \in {"ERROR"} THEN 1 ELSE 0)
      BY CountTally
    <3>5. QED
      BY <1>1, <3>1, <3>2, <3>3, <3>4
  <2>2. /\ progress.executed = Tally(Verdict) /\ progress.passed = Tally({"PASS"})
        /\ progress.failed = Tally({"FAIL"}) /\ progress.errors = Tally({"ERROR"})
    BY DEF AccountInv, ResultsCounted
  <2>3. QED
    BY <1>1, <2>1, <2>2 DEF AddResult, ResultsCounted
<1>4. run \in {"producing", "waiting"}
  BY <1>1, ActiveRun
<1>5. TerminalFilled'
  BY <1>1, <1>4 DEF TerminalFilled, RecordedStates
<1>6. QED
  BY <1>2, <1>3, <1>5

LEMMA PublishAccounts ==
  ASSUME RunInv, AccountInv, NEW w \in Worker, PublishResult(w)
  PROVE  StoredAccounted' /\ ResultsCounted' /\ TerminalFilled'
<1> DEFINE e == [kind |-> "result", case |-> held[w], verdict |-> verdict[w], kept |-> kept[w]]
<1>1. /\ worker[w] = "reporting" /\ worker' = [worker EXCEPT ![w] = "refreshing"]
      /\ held' = held /\ verdict' = verdict
      /\ storageError' = storageError /\ stored' = stored /\ progress' = progress
      /\ run' = run /\ worker \in [Worker -> WorkerState]
      /\ Queue!Publish(w, e) /\ log \in Seq(Event)
  BY DEF PublishResult, WorkerAt, Advance, RunInv, LogTypes, runVars, countVars
<1>2. run \in {"producing", "waiting"} /\ ~closed
  BY <1>1, ActiveRun
<1>3. e \in Result
  <2>1. held[w] \in Case
    BY <1>1, PlannedAssumption DEF Active, RunInv, CasesAccounted, LogTypes, Case
  <2>2. QED
    BY <2>1 DEF RunInv, LogTypes, Result
<1>4. /\ ResultsIn(log') = ResultsIn(log) \cup {Len(log) + 1}
      /\ \A i \in ResultsIn(log) : i # Len(log) + 1 /\ log'[i] = log[i]
      /\ log'[Len(log) + 1].verdict = verdict[w]
      /\ Reported' = Reported \cup {held[w]}
  BY <1>1, <1>2, <1>3, ResultPublication
<1> HIDE DEF e
<1>5. StoredAccounted'
  <2>1. {v \in Worker : Stored(v)} = {v \in Worker : Stored(v)}' \cup {w}
    BY <1>1 DEF Stored
  <2>2. {held[v] : v \in {v \in Worker : Stored(v)}}
          = {held[v] : v \in {v \in Worker : Stored(v)}}' \cup {held[w]}
    BY <1>1, <2>1
  <2>3. QED
    BY <1>1, <1>4, <2>2 DEF AccountInv, StoredAccounted
<1>6. ResultsCounted'
  <2>1. ASSUME NEW V PROVE Tally(V)' = Tally(V)
    BY <1>4, PublishTally
  <2>2. QED
    BY <1>1, <2>1 DEF AccountInv, ResultsCounted
<1>7. TerminalFilled'
  BY <1>1, <1>2 DEF TerminalFilled, RecordedStates
<1>8. QED
  BY <1>5, <1>6, <1>7

(* Every other step leaves the accounts as they are.                       *)
LEMMA OtherAccounts ==
  ASSUME RunInv, AccountInv, SameResults, [Next]_vars, ~CloseRecorder,
         \A w \in Worker : ~AppendResult(w) /\ ~Count(w) /\ ~PublishResult(w)
  PROVE  StoredAccounted' /\ ResultsCounted' /\ TerminalFilled'
<1>1. worker \in [Worker -> WorkerState] /\ held \in [Worker -> 0..Planned]
      /\ verdict \in [Worker -> Verdict]
  BY DEF RunInv, LogTypes
<1>2. ASSUME UNCHANGED runVars, UNCHANGED workVars, UNCHANGED countVars
      PROVE  StoredAccounted' /\ ResultsCounted' /\ TerminalFilled'
  BY <1>2, QuietAccounts DEF runVars, workVars, Stored, RecordedStates
<1>3. CASE Cancel
  BY <1>3, QuietAccounts DEF Cancel, workVars, Stored, RecordedStates
<1>4. CASE RunStep
  <2>1. CASE RejectRequest \/ ConnectFails
    BY <2>1, RequestFails, QuietAccounts DEF workVars, Stored, RecordedStates
  <2>2. CASE AnnounceStart \/ StopProducing \/ CloseQueue \/ Finish \/ PublishTerminal
    <3>1. UNCHANGED workVars /\ UNCHANGED countVars /\ terminal' = terminal
          /\ (run' \in RecordedStates => run \in RecordedStates)
      BY <2>2 DEF AnnounceStart, StopProducing, CloseQueue, Finish, PublishTerminal, RunAt,
         RecordedStates
    <3>2. QED
      BY <3>1, QuietAccounts DEF workVars, Stored
  <2>3. CASE EndRun
    <3>1. UNCHANGED workVars /\ UNCHANGED countVars /\ run' = "ended"
      BY <2>3 DEF EndRun, EndWith
    <3>2. QED
      BY <3>1, QuietAccounts DEF workVars, Stored, RecordedStates
  <2>4. CASE StartWorkers
    <3>1. /\ UNCHANGED countVars /\ run' = "producing"
          /\ \A w \in Worker : worker[w] = "unborn" /\ worker'[w] = "idle"
      BY <2>4 DEF StartWorkers, RunAt, RunInv, WorkersFollowRun
    <3>2. QED
      BY <3>1, QuietAccounts DEF Stored, RecordedStates
  <2>5. ASSUME NEW w \in Worker, HandOver(w)
        PROVE  StoredAccounted' /\ ResultsCounted' /\ TerminalFilled'
    <3>1. /\ UNCHANGED countVars /\ run' = "producing" /\ verdict' = verdict
          /\ worker[w] = "idle" /\ worker' = [worker EXCEPT ![w] = "running"]
          /\ held' = [held EXCEPT ![w] = next]
      BY <2>5 DEF HandOver, RunAt
    <3>2. QED
      BY <1>1, <3>1, QuietAccounts DEF Stored, RecordedStates
  <2>6. QED
    BY <1>4, <2>1, <2>2, <2>3, <2>4, <2>5 DEF RunStep
<1>5. ASSUME NEW w \in Worker, WorkerStep(w)
      PROVE  StoredAccounted' /\ ResultsCounted' /\ TerminalFilled'
  <2>1. UNCHANGED countVars /\ run' = run /\ terminal' = terminal
    BY <1>5 DEF WorkerStep, JobPublishes, JobReturns, JobPanics, PublishProgress, Return, runVars
  <2>2. /\ worker[w] \in {"idle", "running", "refreshing"}
        /\ \/ worker' = worker
           \/ \E state \in {"idle", "recording", "returned"} : worker' = [worker EXCEPT ![w] = state]
    BY <1>5 DEF WorkerStep, JobPublishes, JobReturns, JobPanics, PublishProgress, Return, WorkerAt,
       Advance
  <2>3. /\ held' = held \/ held' = [held EXCEPT ![w] = 0]
        /\ verdict' = verdict \/ \E v \in Verdict : verdict' = [verdict EXCEPT ![w] = v]
    BY <1>5 DEF WorkerStep, JobPublishes, JobReturns, JobPanics, PublishProgress, Return, Verdict
  <2>4. \A v \in Worker : v # w =>
          worker'[v] = worker[v] /\ held'[v] = held[v] /\ verdict'[v] = verdict[v]
    BY <1>1, <2>2, <2>3
  <2>5. ~Stored(w) /\ ~Stored(w)'
    BY <1>1, <2>2 DEF Stored
  <2>6. QED
    BY <2>1, <2>4, <2>5, QuietAccounts DEF Stored
<1>6. CASE Dispatch \/ Receive \/ \E p \in Worker \cup {Run} : Notify(p)
  BY <1>2, <1>6 DEF Dispatch, Receive, Notify
<1>7. CASE Over \/ UNCHANGED vars
  BY <1>2, <1>7 DEF Over, vars
<1>8. QED
  BY <1>3, <1>4, <1>5, <1>6, <1>7 DEF Next

LEMMA InitiallyAccountInv == Init => AccountInv
<1>1. SUFFICES ASSUME Init PROVE AccountInv
  OBVIOUS
<1>2. /\ log = <<>> /\ stored = {} /\ progress = ZeroCounts /\ run = "starting"
      /\ worker = [w \in Worker |-> "unborn"]
  BY <1>1 DEF Init, Queue!Init
<1>3. ResultsIn(log) = {}
  BY <1>2 DEF ResultsIn
<1>4. OtherTypes
  <2>1. valid \in BOOLEAN
    <3>1. CASE Planned = 0
      BY <1>1, <3>1 DEF Init
    <3>2. CASE Planned # 0
      BY <1>1, <3>2 DEF Init
    <3>3. QED
      BY <3>1, <3>2
  <2>2. jobEvents \in [Worker -> 0..MaxJobEvents]
    BY <1>1, MaxJobEventsAssumption DEF Init
  <2>3. stored \subseteq Case /\ done \in BOOLEAN
    BY <1>1 DEF Init
  <2>4. QED
    BY <2>1, <2>2, <2>3 DEF OtherTypes
<1>5. StoredAccounted
  BY <1>2, <1>3 DEF StoredAccounted, Reported, Stored
<1>6. ASSUME NEW V PROVE Tally(V) = 0
  <2>1. InLog(V) = {} /\ Unpublished(V) = {}
    BY <1>2, <1>3 DEF InLog, Unpublished
  <2>2. QED
    BY <2>1, FS_EmptySet DEF Tally
<1>7. ResultsCounted
  BY <1>2, <1>6 DEF ResultsCounted, ZeroCounts
<1>8. TerminalFilled
  BY <1>2 DEF TerminalFilled, RecordedStates
<1>9. QED
  BY <1>4, <1>5, <1>7, <1>8 DEF AccountInv

(* In every reachable state the counters are those of the results that are *)
(* in the log or counted and about to be published, and, unless a storage  *)
(* error is known, the file has the results that are in the log or stored  *)
(* and about to be (recordResult, Start).                                  *)
THEOREM AccountInvariant == Spec => []AccountInv
<1>1. Init => AccountInv
  BY InitiallyAccountInv
<1>2. RunInv /\ AccountInv /\ [Next]_vars => AccountInv'
  <2>1. SUFFICES ASSUME RunInv, AccountInv, [Next]_vars PROVE AccountInv'
    OBVIOUS
  <2>2. OtherTypes'
    BY <2>1, OtherTypesStep DEF AccountInv
  <2>3. CASE \E w \in Worker : PublishResult(w)
    BY <2>1, <2>2, <2>3, PublishAccounts DEF AccountInv
  <2>4. CASE \A w \in Worker : ~PublishResult(w)
    <3>1. SameResults
      BY <2>1, <2>4, OtherStepsKeepResults
    <3>2. CASE \E w \in Worker : AppendResult(w)
      BY <2>1, <2>2, <3>1, <3>2, AppendAccounts DEF AccountInv
    <3>3. CASE \E w \in Worker : Count(w)
      BY <2>1, <2>2, <3>1, <3>3, CountAccounts DEF AccountInv
    <3>4. CASE CloseRecorder
      BY <2>1, <2>2, <3>1, <3>4, CloseRecorderAccounts DEF AccountInv
    <3>5. CASE ~CloseRecorder /\ \A w \in Worker : ~AppendResult(w) /\ ~Count(w)
      BY <2>1, <2>2, <2>4, <3>1, <3>5, OtherAccounts DEF AccountInv
    <3>6. QED
      BY <3>2, <3>3, <3>4, <3>5
  <2>5. QED
    BY <2>3, <2>4
<1>3. QED
  BY <1>1, <1>2, RunInvariant, PTL DEF Spec

(* The counters of the terminal event are those of the results published   *)
(* before it, for any number of workers and cases: no result is counted    *)
(* twice or left out, and none is published after the count was taken      *)
(* (recordResult, progressSnapshot, Start).                                *)
THEOREM TerminalCountIsExact == Spec => []TerminalCountsResults
<1>1. RunInv /\ AccountInv => TerminalCountsResults
  <2>1. SUFFICES ASSUME RunInv, AccountInv, NEW i \in TerminalsIn(log)
                 PROVE  log[i].counts = [executed |-> Cardinality(ResultsIn(log)),
                                         passed |-> ResultsWith("PASS"),
                                         failed |-> ResultsWith("FAIL"),
                                         errors |-> ResultsWith("ERROR")]
    BY DEF TerminalCountsResults
  <2>2. log[i] = terminal /\ run \in {"sealing", "sealed", "finished"}
    BY <2>1 DEF RunInv, TerminalPublished
  <2>3. log[i].counts = progress
    BY <2>1, <2>2 DEF AccountInv, TerminalFilled, RecordedStates
  <2>4. \A w \in Worker : worker[w] # "reporting"
    BY <2>1, <2>2 DEF RunInv, WorkersFollowRun, OverStates
  <2>5. ASSUME NEW V PROVE Tally(V) = Cardinality(InLog(V))
    <3>1. Unpublished(V) = {}
      BY <2>4 DEF Unpublished
    <3>2. QED
      BY <2>1, <3>1, FS_EmptySet, TallyIsFinite DEF Tally
  <2>6. InLog(Verdict) = ResultsIn(log)
    <3>1. \A j \in ResultsIn(log) : log[j] \in Event /\ log[j].kind = "result"
      BY <2>1, LogIndexed, ElementOfSeq DEF RunInv, LogTypes, ResultsIn
    <3>2. \A e \in Event : e.kind = "result" => e.verdict \in Verdict
      BY DEF Event, Progress, Started, JobEvent, Result, Terminal
    <3>3. QED
      BY <3>1, <3>2 DEF InLog
  <2>7. /\ InLog({"PASS"}) = {j \in ResultsIn(log) : log[j].verdict = "PASS"}
        /\ InLog({"FAIL"}) = {j \in ResultsIn(log) : log[j].verdict = "FAIL"}
        /\ InLog({"ERROR"}) = {j \in ResultsIn(log) : log[j].verdict = "ERROR"}
    BY DEF InLog
  <2>8. QED
    BY <2>1, <2>3, <2>5, <2>6, <2>7 DEF AccountInv, ResultsCounted, ResultsWith
<1>2. QED
  BY <1>1, RunInvariant, AccountInvariant, PTL

(* A run whose terminal event carries no storage error has all reported    *)
(* results, and nothing else, in its file (recordResult, setStorageError,  *)
(* Recorder.Close).                                                        *)
THEOREM ReportedIsStored == Spec => []StoredOrReported
<1>1. RunInv /\ AccountInv => StoredOrReported
  <2>1. SUFFICES ASSUME RunInv, AccountInv, NEW i \in TerminalsIn(log), ~log[i].storageError
                 PROVE  stored = Reported
    BY DEF StoredOrReported
  <2>2. log[i] = terminal /\ run \in {"sealing", "sealed", "finished"}
    BY <2>1 DEF RunInv, TerminalPublished
  <2>3. ~storageError
    BY <2>1, <2>2 DEF AccountInv, TerminalFilled, RecordedStates
  <2>4. {w \in Worker : Stored(w)} = {}
    BY <2>1, <2>2 DEF RunInv, WorkersFollowRun, OverStates, Stored
  <2>5. QED
    BY <2>1, <2>3, <2>4 DEF AccountInv, StoredAccounted
<1>2. QED
  BY <1>1, RunInvariant, AccountInvariant, PTL

(* The variables of a run, of its workers and of its queue keep their      *)
(* types.                                                                  *)
THEOREM TypeCorrect == Spec => []TypeOK
<1>1. QueueProofs!QueueSpec => []QueueProofs!TypeOK
  BY QueueAssumptions, QueueProofs!TypeCorrect
<1>2. QueueProofs!TypeOK => Queue!TypeOK
  BY DEF QueueProofs!TypeOK, Queue!TypeOK, QueueProofs!Entry, Queue!Entry,
     QueueProofs!Critical, Queue!Critical, QueueProofs!DispatcherState, Queue!DispatcherState
<1>3. RunInv /\ AccountInv /\ Queue!TypeOK => TypeOK
  BY DEF RunInv, LogTypes, AccountInv, OtherTypes, TypeOK
<1>4. QED
  BY <1>1, <1>2, <1>3, RunUsesQueue, SameQueue, RunInvariant, AccountInvariant, PTL
=============================================================================
