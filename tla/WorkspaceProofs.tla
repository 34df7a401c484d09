--------------------------- MODULE WorkspaceProofs --------------------------
(***************************************************************************)
(* Proofs about Workspace, for every number of concurrent calls, servers   *)
(* and restarts: what holds between the connection, the evidence learnt    *)
(* from a server, the requests of an operation and a run, although some    *)
(* calls do not take operationMu.                                          *)
(***************************************************************************)
EXTENDS Workspace, TLAPS

-----------------------------------------------------------------------------
(* The inductive invariant.                                                *)

(* operationMu is held by the one caller that is in a locked method, and   *)
(* by nobody while a run is under way.                                     *)
LockInv ==
  /\ \A c \in Caller : call[c] \in Locked <=> lock = c
  /\ running => lock = NoCaller

(* Each method has its own steps.                                          *)
StepInv ==
  \A c \in Caller :
    /\ step[c] = "idle" <=> call[c] = "none"
    /\ step[c] \in {"testing", "passed"} <=> call[c] = "TestConnection"
    /\ step[c] = "applied" <=> call[c] = "ApplyConnection"
    /\ step[c] = "changing" <=> call[c] = "ChangeConnection"
    /\ step[c] = "starting" <=> call[c] = "StartAutomation"
    /\ step[c] = "probed" => call[c] = "RefreshOverview"
    /\ step[c] \in {"confirming", "accepted", "recovering"} => call[c] = "ControlServer"

(* A locked call works on the active server, and every session is one of   *)
(* the server its call works on.                                           *)
TargetInv ==
  \A c \in Caller :
    /\ call[c] \in Locked \ {"TestConnection", "ApplyConnection"} => target[c] = active
    /\ step[c] \notin {"idle", "changing", "applied"} => target[c] \in Server
    /\ step[c] \in WithSession => session[c].server = target[c]

(* What is known of a server is known of the active one, or of the one     *)
(* before it as long as ApplyConnection has not forgotten it.              *)
EvidenceInv ==
  /\ (\A c \in Caller : step[c] # "applied")
       => {capability, inventory} \subseteq {NoServer, active}
  /\ \A c \in Caller :
       step[c] = "applied" => {capability, inventory} \subseteq {NoServer, target[c]}

RunInv == RunPinsConnection

WorkspaceInv ==
  /\ TypeOK
  /\ LockInv
  /\ StepInv
  /\ TargetInv
  /\ EvidenceInv
  /\ RunInv

-----------------------------------------------------------------------------
(* What does not depend on types: the effect of beginning, going on and    *)
(* returning on the rest of the invariant.                                 *)

Rest == LockInv /\ StepInv /\ TargetInv /\ EvidenceInv /\ RunInv

(* The steps a method may be in.                                           *)
StepOf(method, s) ==
  /\ s = "idle" <=> method = "none"
  /\ s \in {"testing", "passed"} <=> method = "TestConnection"
  /\ s = "applied" <=> method = "ApplyConnection"
  /\ s = "changing" <=> method = "ChangeConnection"
  /\ s = "starting" <=> method = "StartAutomation"
  /\ s = "probed" => method = "RefreshOverview"
  /\ s \in {"confirming", "accepted", "recovering"} => method = "ControlServer"

(* A call that returns, having learnt something only if it was a locked    *)
(* one.                                                                    *)
LEMMA Returning ==
  ASSUME WorkspaceInv, NEW c \in Caller, Return(c), step[c] # "applied",
         active' = active, UNCHANGED runVars,
         \/ capability' = capability /\ inventory' = inventory
         \/ call[c] \in Locked /\ capability' \in {capability, active}
                               /\ inventory' \in {inventory, active}
  PROVE  Rest'
<1> USE DEF WorkspaceInv
<1>1. /\ call'[c] = "none" /\ step'[c] = "idle"
      /\ \A d \in Caller \ {c} :
           /\ call'[d] = call[d] /\ step'[d] = step[d]
           /\ target'[d] = target[d] /\ session'[d] = session[d]
  BY DEF Return, TypeOK
<1>2. LockInv'
  <2>1. \A d \in Caller \ {c} : call'[d] \in Locked <=> lock' = d
    BY <1>1, CallerAssumption DEF Return, LockInv
  <2>2. call'[c] \notin Locked /\ lock' # c
    BY <1>1, CallerAssumption DEF Return, Locked
  <2>3. running' => lock' = NoCaller
    BY DEF Return, LockInv, runVars
  <2>4. QED
    BY <2>1, <2>2, <2>3 DEF LockInv
<1>3. StepInv' /\ TargetInv'
  BY <1>1 DEF StepInv, TargetInv, Locked, WithSession
<1>4. EvidenceInv'
  BY <1>1 DEF EvidenceInv, LockInv, StepInv, Locked
<1>5. RunInv'
  BY DEF RunInv, RunPinsConnection, runVars
<1>6. QED
  BY <1>2, <1>3, <1>4, <1>5 DEF Rest

(* A call that goes on to another step of its method.                      *)
LEMMA GoingOn ==
  ASSUME WorkspaceInv, NEW c \in Caller, NEW s, NEW z,
         step' = [step EXCEPT ![c] = s], session' = [session EXCEPT ![c] = z],
         UNCHANGED <<lock, call, target, active, capability>>, UNCHANGED runVars,
         inventory' \in {inventory, NoServer},
         StepOf(call[c], s), call[c] # "ApplyConnection",
         s # "idle" /\ s # "changing" => target[c] \in Server,
         s \in WithSession => z.server = target[c]
  PROVE  Rest'
<1> USE DEF WorkspaceInv
<1>1. /\ step'[c] = s /\ session'[c] = z
      /\ \A d \in Caller \ {c} : step'[d] = step[d] /\ session'[d] = session[d]
  BY DEF TypeOK
<1>2. LockInv'
  BY DEF LockInv, runVars
<1>3. StepInv'
  BY <1>1 DEF StepInv, StepOf
<1>4. TargetInv'
  BY <1>1 DEF TargetInv
<1>5. EvidenceInv'
  BY <1>1 DEF EvidenceInv, StepInv, StepOf
<1>6. RunInv'
  BY DEF RunInv, RunPinsConnection, runVars
<1>7. QED
  BY <1>2, <1>3, <1>4, <1>5, <1>6 DEF Rest

(* A call that begins and leaves the active server alone.                  *)
LEMMA Beginning ==
  ASSUME WorkspaceInv, NEW c \in Caller, NEW m \in Method, NEW s \in Step \ WithSession,
         NEW t \in Server \cup {NoServer}, Begin(c, m, s, t),
         \/ m \notin Locked /\ lock' = lock
         \/ m \in Locked /\ lock = NoCaller /\ lock' = c /\ ~running,
         UNCHANGED <<active, capability, inventory>>, UNCHANGED runVars,
         StepOf(m, s), m # "ApplyConnection",
         s # "changing" => t \in Server,
         m \in Locked \ {"TestConnection"} => t = active
  PROVE  Rest'
<1> USE DEF WorkspaceInv
<1>1. /\ call'[c] = m /\ step'[c] = s /\ target'[c] = t /\ session' = session
      /\ step[c] = "idle" /\ call[c] = "none"
      /\ \A d \in Caller \ {c} :
           /\ call'[d] = call[d] /\ step'[d] = step[d] /\ target'[d] = target[d]
  BY DEF Begin, TypeOK, StepInv
<1>2. LockInv'
  BY <1>1, CallerAssumption DEF LockInv, Locked, runVars
<1>3. StepInv'
  BY <1>1 DEF StepInv, StepOf
<1>4. TargetInv'
  BY <1>1 DEF TargetInv
<1>5. EvidenceInv'
  BY <1>1 DEF EvidenceInv, StepOf
<1>6. RunInv'
  BY DEF RunInv, RunPinsConnection, runVars
<1>7. QED
  BY <1>2, <1>3, <1>4, <1>5, <1>6 DEF Rest

-----------------------------------------------------------------------------
(* Types.                                                                  *)

LEMMA CallTypes ==
  ASSUME TypeOK, NEW c \in Caller, NEW m \in Method, NEW s \in Step,
         NEW t \in Server \cup {NoServer}, NEW z \in Session \cup {NoSession},
         s \in WithSession => z \in Session,
         call' = [call EXCEPT ![c] = m], step' = [step EXCEPT ![c] = s],
         target' = [target EXCEPT ![c] = t], session' = [session EXCEPT ![c] = z]
  PROVE  /\ call' \in [Caller -> Method] /\ step' \in [Caller -> Step]
         /\ target' \in [Caller -> Server \cup {NoServer}]
         /\ session' \in [Caller -> Session \cup {NoSession}]
         /\ \A d \in Caller : step'[d] \in WithSession => session'[d] \in Session
BY DEF TypeOK

-----------------------------------------------------------------------------
(* The steps that return.                                                  *)

QuietReturn(c) ==
  \/ Fail(c) \/ TestFails(c) \/ KeepTestedClient(c) \/ ResetTest(c)
  \/ StoreWorkload(c) \/ RefuseRun(c) \/ Decline(c)
  \/ ConfirmRecovery(c) \/ RecoveryTimesOut(c) \/ LoseRestartReply(c)

EvidenceReturn(c) == StoreCapabilities(c) \/ RecordInventory(c)

LEMMA ReturnTypes ==
  ASSUME TypeOK, NEW c \in Caller, Return(c)
  PROVE  /\ lock' \in Caller \cup {NoCaller}
         /\ call' \in [Caller -> Method] /\ step' \in [Caller -> Step]
         /\ target' \in [Caller -> Server \cup {NoServer}]
         /\ session' \in [Caller -> Session \cup {NoSession}]
         /\ \A d \in Caller : step'[d] \in WithSession => session'[d] \in Session
<1>1. "none" \in Method /\ "idle" \in Step /\ "idle" \notin WithSession
  BY DEF Method, Step, WithSession
<1>2. lock' \in Caller \cup {NoCaller}
  BY DEF Return, TypeOK
<1>3. QED
  BY <1>1, <1>2, CallTypes DEF Return

LEMMA QuietReturnStep ==
  ASSUME WorkspaceInv, NEW c \in Caller, QuietReturn(c)
  PROVE  WorkspaceInv'
<1> USE DEF WorkspaceInv
<1>1. /\ Return(c) /\ step[c] # "applied" /\ active' = active /\ UNCHANGED runVars
      /\ capability' = capability /\ inventory' = inventory
  BY DEF QuietReturn, Fail, TestFails, KeepTestedClient, ResetTest, StoreWorkload, RefuseRun,
       Decline, ConfirmRecovery, RecoveryTimesOut, LoseRestartReply, At, connectionVars, learntVars
<1>2. Rest'
  BY <1>1, Returning
<1>3. approved' \in {approved, NoServer}
  BY DEF QuietReturn, Fail, TestFails, KeepTestedClient, ResetTest, StoreWorkload, RefuseRun,
       Decline, ConfirmRecovery, RecoveryTimesOut, LoseRestartReply, connectionVars
<1>4. workload' \in {workload, target[c]}
  BY DEF QuietReturn, Fail, TestFails, KeepTestedClient, ResetTest, StoreWorkload, RefuseRun,
       Decline, ConfirmRecovery, RecoveryTimesOut, LoseRestartReply, learntVars
<1>5. client' \in {client, session[c]}
  BY DEF QuietReturn, Fail, TestFails, KeepTestedClient, ResetTest, StoreWorkload, RefuseRun,
       Decline, ConfirmRecovery, RecoveryTimesOut, LoseRestartReply, learntVars
<1>6. boot' = boot /\ phase' \in [Server -> {"up", "stopping", "down"}]
  BY DEF QuietReturn, Fail, TestFails, KeepTestedClient, ResetTest, StoreWorkload, RefuseRun,
       Decline, ConfirmRecovery, RecoveryTimesOut, LoseRestartReply, serverVars, TypeOK
<1>7. confirmed' \in [Server -> 0..MaxRestarts]
  <2>1. confirmed' = confirmed \/ confirmed' = [confirmed EXCEPT ![target[c]] = boot[target[c]]]
    BY DEF QuietReturn, Fail, TestFails, KeepTestedClient, ResetTest, StoreWorkload, RefuseRun,
         Decline, ConfirmRecovery, RecoveryTimesOut, LoseRestartReply
  <2>2. ConfirmRecovery(c) => target[c] \in Server
    BY DEF ConfirmRecovery, At, TargetInv
  <2>3. CASE confirmed' = confirmed
    BY <2>3 DEF TypeOK
  <2>4. CASE ConfirmRecovery(c)
    BY <2>2, <2>4 DEF ConfirmRecovery, TypeOK
  <2>5. QED
    BY <2>3, <2>4 DEF QuietReturn, Fail, TestFails, KeepTestedClient, ResetTest, StoreWorkload,
         RefuseRun, Decline, RecoveryTimesOut, LoseRestartReply
<1>8. TypeOK'
  <2>1. {active', approved', capability', workload', inventory', runServer', runCapability'}
          \subseteq Server \cup {NoServer}
    BY <1>1, <1>3, <1>4 DEF TypeOK, runVars
  <2>2. client' \in Session \cup {NoSession} /\ running' \in BOOLEAN
    BY <1>1, <1>5 DEF TypeOK, runVars
  <2>3. QED
    BY <1>1, <1>6, <1>7, <2>1, <2>2, ReturnTypes DEF TypeOK
<1>9. QED
  BY <1>2, <1>8 DEF Rest

LEMMA EvidenceReturnStep ==
  ASSUME WorkspaceInv, NEW c \in Caller, EvidenceReturn(c)
  PROVE  WorkspaceInv'
<1> USE DEF WorkspaceInv
<1>1. call[c] \in Locked /\ target[c] = active
  BY DEF EvidenceReturn, StoreCapabilities, RecordInventory, At, TargetInv, Locked
<1>2. /\ Return(c) /\ step[c] # "applied" /\ active' = active /\ UNCHANGED runVars
      /\ capability' \in {capability, active} /\ inventory' \in {inventory, active}
      /\ workload' \in {workload, active}
      /\ approved' = approved /\ client' = client
      /\ UNCHANGED serverVars /\ confirmed' = confirmed
  BY <1>1 DEF EvidenceReturn, StoreCapabilities, RecordInventory, At, connectionVars
<1>3. Rest'
  BY <1>1, <1>2, Returning
<1>4. TypeOK'
  <2>1. {active', approved', capability', workload', inventory', runServer', runCapability'}
          \subseteq Server \cup {NoServer}
    BY <1>2 DEF TypeOK, runVars
  <2>2. QED
    BY <1>2, <2>1, ReturnTypes DEF TypeOK, runVars, serverVars
<1>5. QED
  BY <1>3, <1>4 DEF Rest

(* The run that starts was planned for the active server: the caller of    *)
(* StartAutomation is the only one in a locked method, so the capabilities *)
(* are those of the active server.                                         *)
LEMMA StartRunStep ==
  ASSUME WorkspaceInv, NEW c \in Caller, StartRun(c)
  PROVE  WorkspaceInv'
<1> USE DEF WorkspaceInv
<1>1. /\ call[c] = "StartAutomation" /\ step[c] = "starting" /\ capability # NoServer
      /\ running' = TRUE /\ runServer' = target[c] /\ runCapability' = capability
      /\ Return(c) /\ active' = active /\ approved' = approved /\ client' = client
      /\ capability' = capability /\ workload' = workload /\ inventory' = inventory
      /\ UNCHANGED serverVars /\ confirmed' = confirmed
  BY DEF StartRun, At, connectionVars, learntVars
<1>2. lock = c /\ call[c] \in Locked /\ target[c] = active
  BY <1>1 DEF LockInv, TargetInv, Locked
<1>3. \A d \in Caller : step[d] # "applied"
  BY <1>1, <1>2 DEF LockInv, StepInv, Locked
<1>4. capability = active
  BY <1>1, <1>3 DEF EvidenceInv
<1>5. /\ call'[c] = "none" /\ step'[c] = "idle" /\ lock' = NoCaller
      /\ \A d \in Caller \ {c} :
           /\ call'[d] = call[d] /\ step'[d] = step[d]
           /\ target'[d] = target[d] /\ session'[d] = session[d]
  BY <1>1, <1>2 DEF Return, TypeOK
<1>6. LockInv'
  <2>1. \A d \in Caller : call'[d] \notin Locked /\ lock' # d
    BY <1>2, <1>5, CallerAssumption DEF LockInv, Locked
  <2>2. QED
    BY <1>5, <2>1 DEF LockInv
<1>7. StepInv' /\ TargetInv'
  BY <1>1, <1>5 DEF StepInv, TargetInv, Locked, WithSession
<1>8. EvidenceInv'
  BY <1>1, <1>5 DEF EvidenceInv
<1>9. RunInv'
  BY <1>1, <1>2, <1>4 DEF RunInv, RunPinsConnection
<1>10. TypeOK'
  <2>1. {active', approved', capability', workload', inventory', runServer', runCapability'}
          \subseteq Server \cup {NoServer}
    BY <1>1, <1>2 DEF TypeOK
  <2>2. QED
    BY <1>1, <2>1, ReturnTypes DEF TypeOK, serverVars
<1>11. QED
  BY <1>6, <1>7, <1>8, <1>9, <1>10

-----------------------------------------------------------------------------
(* The steps that go on.                                                   *)

LEMMA MoveTypes ==
  ASSUME TypeOK, NEW c \in Caller, NEW s \in Step, NEW z \in Session \cup {NoSession},
         s \in WithSession => z \in Session,
         step' = [step EXCEPT ![c] = s], session' = [session EXCEPT ![c] = z]
  PROVE  /\ step' \in [Caller -> Step]
         /\ session' \in [Caller -> Session \cup {NoSession}]
         /\ \A d \in Caller : step'[d] \in WithSession => session'[d] \in Session
BY DEF TypeOK

(* The step and session of a call change, and perhaps the cached client.   *)
LEMMA MoveKeepsTypes ==
  ASSUME TypeOK, NEW c \in Caller, NEW s \in Step, NEW z \in Session \cup {NoSession},
         s \in WithSession => z \in Session,
         step' = [step EXCEPT ![c] = s], session' = [session EXCEPT ![c] = z],
         UNCHANGED <<lock, call, target, active, capability, workload, boot, confirmed>>,
         UNCHANGED runVars,
         approved' \in Server \cup {NoServer}, inventory' \in {inventory, NoServer},
         client' \in Session \cup {NoSession},
         phase' \in [Server -> {"up", "stopping", "down"}]
  PROVE  TypeOK'
<1>1. {active', approved', capability', workload', inventory', runServer', runCapability'}
        \subseteq Server \cup {NoServer}
  BY DEF TypeOK, runVars
<1>2. QED
  BY <1>1, MoveTypes DEF TypeOK, runVars

(* The call has no session of its own yet, or keeps it.                    *)
LEMMA SessionKept ==
  ASSUME TypeOK, NEW c \in Caller
  PROVE  session[c] \in Session \cup {NoSession} /\ session = [session EXCEPT ![c] = session[c]]
BY DEF TypeOK

LEMMA LoginStep ==
  ASSUME WorkspaceInv, NEW c \in Caller, TestPasses(c) \/ UseCachedClient(c) \/ Login(c)
  PROVE  WorkspaceInv'
<1> USE DEF WorkspaceInv
<1>1. target[c] \in Server
  BY DEF TestPasses, UseCachedClient, Authenticating, Login, At, TargetInv
<1>2. PICK s \in WithSession, z \in Session :
        /\ step' = [step EXCEPT ![c] = s] /\ session' = [session EXCEPT ![c] = z]
        /\ z.server = target[c] /\ StepOf(call[c], s)
  <2>1. CASE TestPasses(c)
    <3>1. [server |-> target[c], boot |-> boot[target[c]]] \in Session
      BY <1>1 DEF Session, TypeOK
    <3>2. QED
      BY <2>1, <3>1 DEF TestPasses, At, WithSession, StepOf
  <2>2. CASE UseCachedClient(c)
    <3>1. client \in Session
      BY <1>1, <2>2, ServerAssumption DEF UseCachedClient, TypeOK, NoSession
    <3>2. QED
      BY <2>2, <3>1 DEF UseCachedClient, Authenticating, WithSession, StepOf, StepInv
  <2>3. CASE Login(c)
    <3>1. [server |-> target[c], boot |-> boot[target[c]]] \in Session
      BY <1>1 DEF Session, TypeOK
    <3>2. QED
      BY <2>3, <3>1 DEF Login, WithSession, StepOf, StepInv
  <2>4. QED
    BY <2>1, <2>2, <2>3
<1>3. /\ UNCHANGED <<lock, call, target, active, capability, workload, boot, confirmed>>
      /\ UNCHANGED runVars /\ inventory' = inventory /\ client' = client /\ phase' = phase
  BY DEF TestPasses, UseCachedClient, Login, connectionVars, learntVars, serverVars
<1>4. approved' \in Server \cup {NoServer}
  BY <1>1 DEF TestPasses, UseCachedClient, Login, connectionVars, TypeOK
<1>5. call[c] # "ApplyConnection" /\ s \in Step
  BY <1>2 DEF StepOf, WithSession, Step
<1>6. Rest'
  BY <1>1, <1>2, <1>3, <1>5, GoingOn
<1>7. TypeOK'
  <2>1. client' \in Session \cup {NoSession} /\ phase' \in [Server -> {"up", "stopping", "down"}]
    BY <1>3 DEF TypeOK
  <2>2. QED
    BY <1>2, <1>3, <1>4, <1>5, <2>1, MoveKeepsTypes
<1>8. QED
  BY <1>6, <1>7 DEF Rest

LEMMA OtherStep ==
  ASSUME WorkspaceInv, NEW c \in Caller,
         \/ MissClient(c) \/ StoreClient(c) \/ ProbeJobs(c)
         \/ Confirm(c) \/ RequestRestart(c) \/ DropClient(c)
  PROVE  WorkspaceInv'
<1> USE DEF WorkspaceInv
<1>1. PICK s \in {"login", "calling", "probed", "authenticating", "accepted", "recovering"} :
        /\ step' = [step EXCEPT ![c] = s] /\ session' = session
        /\ StepOf(call[c], s) /\ (s \in WithSession => step[c] \in WithSession)
        /\ step[c] \notin {"idle", "changing", "applied"}
  <2>1. CASE MissClient(c) \/ StoreClient(c)
    BY <2>1 DEF MissClient, StoreClient, Authenticating, GoOn, StepOf, StepInv, WithSession
  <2>2. CASE ProbeJobs(c) \/ Confirm(c) \/ RequestRestart(c) \/ DropClient(c)
    BY <2>2 DEF ProbeJobs, Confirm, RequestRestart, DropClient, At, GoOn, StepOf, WithSession
  <2>3. QED
    BY <2>1, <2>2
<1>2. /\ UNCHANGED <<lock, call, target, active, capability, workload, boot, confirmed>>
      /\ UNCHANGED runVars /\ approved' = approved
      /\ inventory' \in {inventory, NoServer} /\ client' \in {client, session[c], NoSession}
  BY DEF MissClient, StoreClient, ProbeJobs, Confirm, RequestRestart, DropClient, GoOn,
       connectionVars, learntVars, serverVars
<1>3. phase' \in [Server -> {"up", "stopping", "down"}]
  BY DEF MissClient, StoreClient, ProbeJobs, Confirm, RequestRestart, DropClient,
       serverVars, TypeOK
<1>4. target[c] \in Server /\ call[c] # "ApplyConnection" /\ s \in Step
  BY <1>1 DEF TargetInv, StepInv, Step
<1>5. /\ session[c] \in Session \cup {NoSession} /\ session' = [session EXCEPT ![c] = session[c]]
      /\ s \in WithSession => session[c] \in Session /\ session[c].server = target[c]
  BY <1>1, SessionKept DEF TypeOK, TargetInv
<1>6. Rest'
  BY <1>1, <1>2, <1>4, <1>5, GoingOn
<1>7. TypeOK'
  <2>1. client' \in Session \cup {NoSession} /\ approved' \in Server \cup {NoServer}
    BY <1>2, <1>5 DEF TypeOK
  <2>2. QED
    BY <1>1, <1>2, <1>3, <1>4, <1>5, <2>1, MoveKeepsTypes
<1>8. QED
  BY <1>6, <1>7 DEF Rest

-----------------------------------------------------------------------------
(* The steps that begin.                                                   *)

LEMMA BeginTypes ==
  ASSUME TypeOK, NEW c \in Caller, NEW m \in Method, NEW s \in Step \ WithSession,
         NEW t \in Server \cup {NoServer}, Begin(c, m, s, t), lock' \in {lock, c},
         active' \in Server \cup {NoServer}, approved' \in {approved, NoServer},
         UNCHANGED learntVars, UNCHANGED runVars, UNCHANGED serverVars, confirmed' = confirmed
  PROVE  TypeOK'
<1>1. /\ call' \in [Caller -> Method] /\ step' \in [Caller -> Step]
      /\ target' \in [Caller -> Server \cup {NoServer}]
      /\ session' \in [Caller -> Session \cup {NoSession}]
      /\ \A d \in Caller : step'[d] \in WithSession => session'[d] \in Session
  BY DEF Begin, TypeOK
<1>2. {active', approved', capability', workload', inventory', runServer', runCapability'}
        \subseteq Server \cup {NoServer}
  BY DEF TypeOK, runVars, learntVars
<1>3. QED
  BY <1>1, <1>2 DEF TypeOK, learntVars, runVars, serverVars

LEMMA BeginStep ==
  ASSUME WorkspaceInv, NEW c \in Caller,
         \/ \E s \in Server : BeginTest(c, s)
         \/ BeginChange(c) \/ BeginOverview(c) \/ BeginDiscovery(c)
         \/ BeginInspection(c) \/ BeginAutomation(c) \/ BeginControl(c)
  PROVE  WorkspaceInv'
<1> USE DEF WorkspaceInv
<1>1. active \in Server \cup {NoServer}
  BY DEF TypeOK
<1>2. PICK m \in Method, s \in Step \ WithSession, t \in Server \cup {NoServer} :
        /\ Begin(c, m, s, t)
        /\ \/ m \notin Locked /\ lock' = lock
           \/ m \in Locked /\ lock = NoCaller /\ lock' = c /\ ~running
        /\ StepOf(m, s) /\ m # "ApplyConnection"
        /\ s # "changing" => t \in Server
        /\ m \in Locked \ {"TestConnection"} => t = active
  <2>1. CASE \E s \in Server : BeginTest(c, s)
    BY <2>1 DEF BeginTest, BeginLocked, Method, Locked, Step, WithSession, StepOf
  <2>2. CASE BeginChange(c)
    BY <2>2 DEF BeginChange, Method, Locked, Step, WithSession, StepOf
  <2>3. CASE BeginOverview(c)
    BY <1>1, <2>3 DEF BeginOverview, Method, Locked, Step, WithSession, StepOf
  <2>4. CASE BeginDiscovery(c)
    BY <1>1, <2>4 DEF BeginDiscovery, BeginLocked, Method, Locked, Step, WithSession, StepOf
  <2>5. CASE BeginInspection(c)
    BY <1>1, <2>5 DEF BeginInspection, BeginLocked, Method, Locked, Step, WithSession, StepOf
  <2>6. CASE BeginAutomation(c)
    BY <1>1, <2>6 DEF BeginAutomation, BeginLocked, Method, Locked, Step, WithSession, StepOf
  <2>7. CASE BeginControl(c)
    BY <1>1, <2>7 DEF BeginControl, BeginLocked, Method, Locked, Step, WithSession, StepOf
  <2>8. QED
    BY <2>1, <2>2, <2>3, <2>4, <2>5, <2>6, <2>7
<1>3. /\ active' = active /\ approved' \in {approved, NoServer} /\ lock' \in {lock, c}
      /\ UNCHANGED learntVars /\ UNCHANGED runVars /\ UNCHANGED serverVars
      /\ confirmed' = confirmed
  BY <1>2 DEF BeginTest, BeginChange, BeginOverview, BeginDiscovery, BeginInspection,
       BeginAutomation, BeginControl, connectionVars
<1>4. UNCHANGED <<active, capability, inventory>>
  BY <1>3 DEF learntVars
<1>5. Rest'
  BY <1>2, <1>3, <1>4, Beginning
<1>6. TypeOK'
  BY <1>1, <1>2, <1>3, BeginTypes
<1>7. QED
  BY <1>5, <1>6 DEF Rest

(* The active server changes while nobody but the caller of                *)
(* ApplyConnection is in a locked method and no run is under way.          *)
LEMMA ApplyStep ==
  ASSUME WorkspaceInv, NEW c \in Caller, ApplyConnection(c)
  PROVE  WorkspaceInv'
<1> USE DEF WorkspaceInv
<1>1. /\ approved # NoServer /\ lock = NoCaller /\ ~running /\ lock' = c
      /\ Begin(c, "ApplyConnection", "applied", active)
      /\ active' = approved /\ approved' = NoServer
      /\ UNCHANGED learntVars /\ UNCHANGED runVars /\ UNCHANGED serverVars
      /\ confirmed' = confirmed
  BY DEF ApplyConnection, BeginLocked
<1>2. \A d \in Caller : call[d] \notin Locked /\ step[d] # "applied"
  BY <1>1, CallerAssumption DEF LockInv, StepInv, Locked
<1>3. /\ call'[c] = "ApplyConnection" /\ step'[c] = "applied" /\ target'[c] = active
      /\ session' = session
      /\ \A d \in Caller \ {c} :
           /\ call'[d] = call[d] /\ step'[d] = step[d] /\ target'[d] = target[d]
  BY <1>1 DEF Begin, TypeOK
<1>4. LockInv'
  BY <1>1, <1>2, <1>3 DEF LockInv, Locked, runVars
<1>5. StepInv' /\ TargetInv'
  BY <1>2, <1>3 DEF StepInv, TargetInv, WithSession
<1>6. EvidenceInv'
  BY <1>1, <1>2, <1>3 DEF EvidenceInv, learntVars
<1>7. RunInv'
  BY <1>1 DEF RunInv, RunPinsConnection, runVars
<1>8. TypeOK'
  <2>1. /\ "ApplyConnection" \in Method /\ "applied" \in Step \ WithSession
        /\ active \in Server \cup {NoServer} /\ active' \in Server \cup {NoServer}
    BY <1>1 DEF Method, Locked, Step, WithSession, TypeOK
  <2>2. QED
    BY <1>1, <2>1, BeginTypes
<1>9. QED
  BY <1>4, <1>5, <1>6, <1>7, <1>8

LEMMA ForgetStep ==
  ASSUME WorkspaceInv, NEW c \in Caller, ForgetOldServer(c)
  PROVE  WorkspaceInv'
<1> USE DEF WorkspaceInv
<1>1. /\ call[c] = "ApplyConnection" /\ step[c] = "applied" /\ Return(c)
      /\ \/ target[c] = active /\ UNCHANGED learntVars
         \/ /\ capability' = NoServer /\ workload' = NoServer /\ inventory' = NoServer
            /\ client' \in {client, NoSession}
      /\ active' = active /\ approved' = approved
      /\ UNCHANGED runVars /\ UNCHANGED serverVars /\ confirmed' = confirmed
  BY DEF ForgetOldServer, At, connectionVars
<1>2. lock = c /\ ~running
  BY <1>1, CallerAssumption DEF LockInv, Locked
<1>3. /\ call'[c] = "none" /\ step'[c] = "idle" /\ lock' = NoCaller
      /\ \A d \in Caller \ {c} :
           /\ call'[d] = call[d] /\ step'[d] = step[d]
           /\ target'[d] = target[d] /\ session'[d] = session[d]
  BY <1>1, <1>2 DEF Return, TypeOK
<1>4. \A d \in Caller \ {c} : call[d] \notin Locked
  BY <1>2 DEF LockInv
<1>5. LockInv'
  <2>1. \A d \in Caller : call'[d] \notin Locked /\ lock' # d
    BY <1>3, <1>4, CallerAssumption DEF Locked
  <2>2. QED
    BY <1>3, <2>1 DEF LockInv
<1>6. StepInv' /\ TargetInv'
  BY <1>1, <1>3 DEF StepInv, TargetInv, Locked, WithSession
<1>7. EvidenceInv'
  <2>1. {capability', inventory'} \subseteq {NoServer, active'}
    BY <1>1 DEF EvidenceInv, learntVars
  <2>2. \A d \in Caller : step'[d] # "applied"
    BY <1>3, <1>4 DEF StepInv, Locked
  <2>3. QED
    BY <2>1, <2>2 DEF EvidenceInv
<1>8. RunInv'
  BY <1>1, <1>2 DEF RunInv, RunPinsConnection, runVars
<1>9. TypeOK'
  <2>1. {active', approved', capability', workload', inventory', runServer', runCapability'}
          \subseteq Server \cup {NoServer}
    BY <1>1 DEF TypeOK, runVars, learntVars
  <2>2. client' \in Session \cup {NoSession}
    BY <1>1 DEF TypeOK, learntVars
  <2>3. QED
    BY <1>1, <2>1, <2>2, ReturnTypes DEF TypeOK, runVars, serverVars
<1>10. QED
  BY <1>5, <1>6, <1>7, <1>8, <1>9

LEMMA EnvironmentStep ==
  ASSUME WorkspaceInv,
         RunEnds \/ (\E s \in Server : GoDown(s) \/ ComeUp(s)) \/ UNCHANGED vars
  PROVE  WorkspaceInv'
<1> USE DEF WorkspaceInv
<1>1. /\ UNCHANGED <<lock, confirmed>> /\ UNCHANGED connectionVars
      /\ UNCHANGED learntVars /\ UNCHANGED callVars
  BY DEF RunEnds, GoDown, ComeUp, vars
<1>2. /\ lock' = lock /\ active' = active /\ approved' = approved /\ client' = client
      /\ capability' = capability /\ workload' = workload /\ inventory' = inventory
      /\ call' = call /\ step' = step /\ target' = target /\ session' = session
      /\ confirmed' = confirmed
  BY <1>1 DEF connectionVars, learntVars, callVars
<1>3. \/ UNCHANGED runVars
      \/ running' = FALSE /\ runServer' = NoServer /\ runCapability' = NoServer
  BY DEF RunEnds, GoDown, ComeUp, vars
<1>4. phase' \in [Server -> {"up", "stopping", "down"}] /\ boot' \in [Server -> 0..MaxRestarts]
  BY MaxRestartsAssumption DEF RunEnds, GoDown, ComeUp, vars, serverVars, TypeOK
<1>5. StepInv' /\ TargetInv' /\ EvidenceInv'
  BY <1>2 DEF StepInv, TargetInv, EvidenceInv
<1>6. LockInv' /\ RunInv'
  BY <1>2, <1>3 DEF LockInv, RunInv, RunPinsConnection, runVars
<1>7. TypeOK'
  <2>1. {active', approved', capability', workload', inventory', runServer', runCapability'}
          \subseteq Server \cup {NoServer}
    BY <1>2, <1>3 DEF TypeOK, runVars
  <2>2. running' \in BOOLEAN
    BY <1>3 DEF TypeOK, runVars
  <2>3. QED
    BY <1>2, <1>4, <2>1, <2>2 DEF TypeOK
<1>8. QED
  BY <1>5, <1>6, <1>7

-----------------------------------------------------------------------------
(* The theorems.                                                           *)

(* The inductive invariant holds in every reachable state of the service.  *)
THEOREM WorkspaceInvariant == Spec => []WorkspaceInv
<1>1. Init => WorkspaceInv
  <2>1. SUFFICES ASSUME Init PROVE WorkspaceInv
    OBVIOUS
  <2>2. TypeOK
    <3>1. {active, approved, capability, workload, inventory, runServer, runCapability}
            \subseteq Server \cup {NoServer}
      BY <2>1 DEF Init
    <3>2. /\ call \in [Caller -> Method] /\ step \in [Caller -> Step]
          /\ target \in [Caller -> Server \cup {NoServer}]
          /\ session \in [Caller -> Session \cup {NoSession}]
          /\ \A c \in Caller : step[c] \notin WithSession
      BY <2>1 DEF Init, Method, Step, WithSession
    <3>3. boot \in [Server -> 0..MaxRestarts] /\ confirmed \in [Server -> 0..MaxRestarts]
      BY <2>1, MaxRestartsAssumption DEF Init
    <3>4. QED
      BY <2>1, <3>1, <3>2, <3>3 DEF Init, TypeOK
  <2>3. LockInv /\ StepInv /\ TargetInv /\ EvidenceInv /\ RunInv
    BY <2>1, CallerAssumption DEF Init, LockInv, StepInv, TargetInv, EvidenceInv, RunInv,
         RunPinsConnection, Locked, WithSession
  <2>4. QED
    BY <2>2, <2>3 DEF WorkspaceInv
<1>2. WorkspaceInv /\ [Next]_vars => WorkspaceInv'
  <2>1. SUFFICES ASSUME WorkspaceInv, [Next]_vars PROVE WorkspaceInv'
    OBVIOUS
  <2>2. ASSUME NEW c \in Caller,
               Fail(c) \/ Connection(c) \/ Authentication(c) \/ Evidence(c)
                 \/ Automation(c) \/ Control(c)
        PROVE  WorkspaceInv'
    <3>1. CASE QuietReturn(c)
      BY <2>1, <3>1, QuietReturnStep
    <3>2. CASE EvidenceReturn(c)
      BY <2>1, <3>2, EvidenceReturnStep
    <3>3. CASE StartRun(c)
      BY <2>1, <3>3, StartRunStep
    <3>4. CASE TestPasses(c) \/ UseCachedClient(c) \/ Login(c)
      BY <2>1, <3>4, LoginStep
    <3>5. CASE MissClient(c) \/ StoreClient(c) \/ ProbeJobs(c) \/ Confirm(c)
                 \/ RequestRestart(c) \/ DropClient(c)
      BY <2>1, <3>5, OtherStep
    <3>6. CASE \/ \E s \in Server : BeginTest(c, s)
               \/ BeginChange(c) \/ BeginOverview(c) \/ BeginDiscovery(c)
               \/ BeginInspection(c) \/ BeginAutomation(c) \/ BeginControl(c)
      BY <2>1, <3>6, BeginStep
    <3>7. CASE ApplyConnection(c)
      BY <2>1, <3>7, ApplyStep
    <3>8. CASE ForgetOldServer(c)
      BY <2>1, <3>8, ForgetStep
    <3>9. QED
      BY <2>2, <3>1, <3>2, <3>3, <3>4, <3>5, <3>6, <3>7, <3>8
         DEF Connection, Authentication, Evidence, Automation, Control, QuietReturn, EvidenceReturn
  <2>3. CASE RunEnds \/ (\E s \in Server : GoDown(s) \/ ComeUp(s)) \/ UNCHANGED vars
    BY <2>1, <2>3, EnvironmentStep
  <2>4. QED
    BY <2>1, <2>2, <2>3 DEF Next
<1>3. QED
  BY <1>1, <1>2, PTL DEF Spec

(* The variables of the service and of its calls keep their types; a call  *)
(* that uses a session has one (authenticatedClient).                      *)
THEOREM TypeCorrect == Spec => []TypeOK
<1>1. WorkspaceInv => TypeOK
  BY DEF WorkspaceInv
<1>2. QED
  BY <1>1, WorkspaceInvariant, PTL

(* Whatever calls are under way, between two operations the capabilities   *)
(* and the inventory describe the active server (ApplyConnection,          *)
(* DiscoverCapabilities, InspectJobs).                                     *)
THEOREM EvidenceDescribesActiveServer == Spec => []EvidenceOfActiveServer
<1>1. WorkspaceInv => EvidenceOfActiveServer
  <2>1. SUFFICES ASSUME WorkspaceInv, lock = NoCaller
                 PROVE  {capability, inventory} \subseteq {NoServer, active}
    BY DEF EvidenceOfActiveServer
  <2>2. \A c \in Caller : step[c] # "applied"
    BY <2>1, CallerAssumption DEF WorkspaceInv, LockInv, StepInv, Locked
  <2>3. QED
    BY <2>1, <2>2 DEF WorkspaceInv, EvidenceInv
<1>2. QED
  BY <1>1, WorkspaceInvariant, PTL

(* A run keeps the server it was planned for (StartAutomation,             *)
(* ApplyConnection).                                                       *)
THEOREM RunKeepsConnection == Spec => []RunPinsConnection
<1>1. WorkspaceInv => RunPinsConnection
  BY DEF WorkspaceInv, RunInv
<1>2. QED
  BY <1>1, WorkspaceInvariant, PTL

(* No operation is under way together with a run (operationMu,             *)
(* automationRunning).                                                     *)
THEOREM RunExcludesOperations == Spec => []OperationsExcludeRun
<1>1. WorkspaceInv => OperationsExcludeRun
  BY CallerAssumption DEF WorkspaceInv, LockInv, OperationsExcludeRun
<1>2. QED
  BY <1>1, WorkspaceInvariant, PTL

(* The session of an operation is one of the active server                 *)
(* (authenticatedClient).                                                  *)
THEOREM OperationsReachActiveServer == Spec => []RequestsReachActiveServer
<1>1. WorkspaceInv => RequestsReachActiveServer
  BY DEF WorkspaceInv, TargetInv, RequestsReachActiveServer
<1>2. QED
  BY <1>1, WorkspaceInvariant, PTL
=============================================================================
