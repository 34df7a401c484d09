------------------------------ MODULE Workspace -----------------------------
(***************************************************************************)
(* The service behind the desktop window (internal/appwails/service.go,    *)
(* automation.go, administration.go over application/connection.go): which *)
(* server the workspace is connected to, and everything that was learnt    *)
(* from that server.  Every binding call runs in a goroutine of its own, a *)
(* caller; most calls hold operationMu from beginning to end, but          *)
(* RefreshOverview and the start and cancel of a connection change do not. *)
(*                                                                         *)
(* Abstractions.  A server stands for a ConnectionKey: address, secret and *)
(* password.  The capability view and model, the job workload and the job  *)
(* inventory are the server they were read from.  A session remembers the  *)
(* boot of the server it was opened at; a server accepts only sessions of  *)
(* its current boot.  Any request may fail at any time.  A call that finds *)
(* its precondition unsatisfied returns an error and changes nothing; such *)
(* calls are left out.  ClearAllJobs and ManageJob are left to module      *)
(* Administration, and what a run does to module Runner.                   *)
(*                                                                         *)
(* Bound: every server restarts at most MaxRestarts times.                 *)
(***************************************************************************)
EXTENDS Naturals

CONSTANTS
  Caller,       \* the goroutines of binding calls
  Server,
  Monitor,      \* the callers that may call RefreshOverview
  MaxRestarts

NoServer == "none"
NoCaller == "nobody"

ASSUME CallerAssumption == NoCaller \notin Caller /\ Monitor \subseteq Caller
ASSUME ServerAssumption == NoServer \notin Server
ASSUME MaxRestartsAssumption == MaxRestarts \in Nat

VARIABLES
  lock,         \* the caller that holds operationMu
  active,       \* ConnectionState.active
  approved,     \* the server of testedKey while testOK
  client,       \* client, session and clientKey
  capability,   \* the server that capability and capabilities describe
  workload,     \* the server that jobWorkload describes
  inventory,    \* the server that the job inventory describes
  running,      \* service.run has the status Running
  runServer,    \* the server of the connector given to that run
  runCapability,\* the server whose capability model the run was planned with
  call,         \* the method each caller is in
  step,         \* where in that method it is
  target,       \* the server the call is about
  session,      \* the session it uses
  phase,        \* what each Fiery server does
  boot,         \* how often each Fiery server has come up again
  confirmed     \* the boot at which recovery of a server was last confirmed

connectionVars == <<active, approved>>
learntVars == <<client, capability, workload, inventory>>
runVars == <<running, runServer, runCapability>>
callVars == <<call, step, target, session>>
serverVars == <<phase, boot>>
vars == <<lock, connectionVars, learntVars, runVars, callVars, serverVars, confirmed>>

Session == [server : Server, boot : 0..MaxRestarts]
NoSession == [server |-> NoServer, boot |-> 0]

Locked ==
  {"TestConnection", "ApplyConnection", "DiscoverCapabilities",
   "StartAutomation", "InspectJobs", "ControlServer"}

Method == Locked \cup {"none", "ChangeConnection", "RefreshOverview"}

Step ==
  {"idle", "testing", "passed", "applied", "changing", "confirming", "starting",
   "authenticating", "login", "storing", "calling", "probed", "accepted", "recovering"}

(* The steps of a call that has logged in or taken the cached client.      *)
WithSession == {"passed", "storing", "calling", "probed", "accepted", "recovering"}

TypeOK ==
  /\ lock \in Caller \cup {NoCaller}
  /\ {active, approved, capability, workload, inventory, runServer, runCapability}
       \subseteq Server \cup {NoServer}
  /\ client \in Session \cup {NoSession}
  /\ running \in BOOLEAN
  /\ call \in [Caller -> Method]
  /\ step \in [Caller -> Step]
  /\ target \in [Caller -> Server \cup {NoServer}]
  /\ session \in [Caller -> Session \cup {NoSession}]
  /\ \A c \in Caller : step[c] \in WithSession => session[c] \in Session
  /\ phase \in [Server -> {"up", "stopping", "down"}]
  /\ boot \in [Server -> 0..MaxRestarts]
  /\ confirmed \in [Server -> 0..MaxRestarts]

Init ==
  /\ lock = NoCaller
  /\ active = NoServer /\ approved = NoServer
  /\ client = NoSession
  /\ capability = NoServer /\ workload = NoServer /\ inventory = NoServer
  /\ running = FALSE /\ runServer = NoServer /\ runCapability = NoServer
  /\ call = [c \in Caller |-> "none"]
  /\ step = [c \in Caller |-> "idle"]
  /\ target = [c \in Caller |-> NoServer]
  /\ session = [c \in Caller |-> NoSession]
  /\ phase = [s \in Server |-> "up"]
  /\ boot = [s \in Server |-> 0]
  /\ confirmed = [s \in Server |-> 0]

-----------------------------------------------------------------------------
(* A call begins, goes on and returns.                                     *)

Begin(c, method, first, server) ==
  /\ step[c] = "idle"
  /\ call' = [call EXCEPT ![c] = method]
  /\ step' = [step EXCEPT ![c] = first]
  /\ target' = [target EXCEPT ![c] = server]
  /\ UNCHANGED session

(* It gets operationMu and finds no automation running.                    *)
BeginLocked(c, method, first, server) ==
  /\ lock = NoCaller
  /\ ~running
  /\ lock' = c
  /\ Begin(c, method, first, server)

At(c, method, s) == call[c] = method /\ step[c] = s

GoOn(c, next) ==
  /\ step' = [step EXCEPT ![c] = next]
  /\ UNCHANGED <<call, target, session>>

Return(c) ==
  /\ lock' = IF lock = c THEN NoCaller ELSE lock
  /\ call' = [call EXCEPT ![c] = "none"]
  /\ step' = [step EXCEPT ![c] = "idle"]
  /\ target' = [target EXCEPT ![c] = NoServer]
  /\ session' = [session EXCEPT ![c] = NoSession]

(* The server answers a request made with the session of the caller.       *)
Answers(c) ==
  LET s == session[c].server IN
  /\ s \in Server
  /\ phase[s] # "down" /\ boot[s] = session[c].boot

(* The call fails on the network and returns the error.  A discovery       *)
(* tolerates failed requests.                                              *)
Fail(c) ==
  /\ \/ step[c] = "login"
     \/ step[c] = "calling" /\ call[c] # "DiscoverCapabilities"
  /\ Return(c)
  /\ UNCHANGED <<connectionVars, learntVars, runVars, serverVars, confirmed>>

-----------------------------------------------------------------------------
(* TestConnection, ApplyConnection and connection changes.                 *)

BeginTest(c, s) ==
  /\ BeginLocked(c, "TestConnection", "testing", s)
  /\ approved' = NoServer
  /\ UNCHANGED <<active, learntVars, runVars, serverVars, confirmed>>

TestFails(c) ==
  /\ At(c, "TestConnection", "testing")
  /\ approved' = NoServer
  /\ Return(c)
  /\ UNCHANGED <<active, learntVars, runVars, serverVars, confirmed>>

(* Login succeeds and CompleteTest approves the draft.                     *)
TestPasses(c) ==
  LET s == target[c] IN
  /\ At(c, "TestConnection", "testing")
  /\ phase[s] # "down"
  /\ approved' = s
  /\ step' = [step EXCEPT ![c] = "passed"]
  /\ session' = [session EXCEPT ![c] = [server |-> s, boot |-> boot[s]]]
  /\ UNCHANGED <<lock, active, learntVars, runVars, call, target, serverVars, confirmed>>

KeepTestedClient(c) ==
  /\ At(c, "TestConnection", "passed")
  /\ client' = session[c]
  /\ Return(c)
  /\ UNCHANGED <<connectionVars, capability, workload, inventory, runVars, serverVars, confirmed>>

(* ConnectionState.Apply accepts exactly the tested draft.  target keeps   *)
(* the previous server, which tells whether the connection changed.        *)
ApplyConnection(c) ==
  /\ approved # NoServer
  /\ BeginLocked(c, "ApplyConnection", "applied", active)
  /\ active' = approved
  /\ approved' = NoServer
  /\ UNCHANGED <<learntVars, runVars, serverVars, confirmed>>

(* Fault: what was learnt from the old server survives the change.         *)
ForgetClientOnly(c) ==
  /\ At(c, "ApplyConnection", "applied")
  /\ client' = IF client.server = active THEN client ELSE NoSession
  /\ Return(c)
  /\ UNCHANGED <<connectionVars, capability, workload, inventory, runVars, serverVars, confirmed>>

(* ApplyConnection invalidates what was learnt from another server.        *)
ForgetOldServer(c) ==
  /\ At(c, "ApplyConnection", "applied")
  /\ IF target[c] = active
     THEN UNCHANGED learntVars
     ELSE /\ capability' = NoServer /\ workload' = NoServer /\ inventory' = NoServer
          /\ client' = IF client.server = active THEN client ELSE NoSession
  /\ Return(c)
  /\ UNCHANGED <<connectionVars, runVars, serverVars, confirmed>>

(* StartConnectionChange and CancelConnectionChange: the test for a        *)
(* running automation, then BeginChange, without operationMu.              *)
BeginChange(c) ==
  /\ ~running
  /\ Begin(c, "ChangeConnection", "changing", NoServer)
  /\ UNCHANGED <<lock, connectionVars, learntVars, runVars, serverVars, confirmed>>

ResetTest(c) ==
  /\ At(c, "ChangeConnection", "changing")
  /\ approved' = NoServer
  /\ Return(c)
  /\ UNCHANGED <<active, learntVars, runVars, serverVars, confirmed>>

-----------------------------------------------------------------------------
(* authenticatedClient.                                                    *)

Authenticating(c) == step[c] = "authenticating"

(* Fault: the cached client is used whatever server it talks to.           *)
UseAnyClient(c) ==
  /\ Authenticating(c)
  /\ client # NoSession
  /\ session' = [session EXCEPT ![c] = client]
  /\ step' = [step EXCEPT ![c] = "calling"]
  /\ UNCHANGED <<lock, connectionVars, learntVars, runVars, call, target, serverVars, confirmed>>

(* Fault: the test for a nil client is dropped.                            *)
UseNilClient(c) ==
  /\ Authenticating(c)
  /\ client.server \in {target[c], NoServer}
  /\ session' = [session EXCEPT ![c] = client]
  /\ step' = [step EXCEPT ![c] = "calling"]
  /\ UNCHANGED <<lock, connectionVars, learntVars, runVars, call, target, serverVars, confirmed>>

UseCachedClient(c) ==
  /\ Authenticating(c)
  /\ client.server = target[c]
  /\ session' = [session EXCEPT ![c] = client]
  /\ step' = [step EXCEPT ![c] = "calling"]
  /\ UNCHANGED <<lock, connectionVars, learntVars, runVars, call, target, serverVars, confirmed>>

MissClient(c) ==
  /\ Authenticating(c)
  /\ client.server # target[c]
  /\ GoOn(c, "login")
  /\ UNCHANGED <<lock, connectionVars, learntVars, runVars, serverVars, confirmed>>

Login(c) ==
  LET s == target[c] IN
  /\ step[c] = "login"
  /\ phase[s] # "down"
  /\ session' = [session EXCEPT ![c] = [server |-> s, boot |-> boot[s]]]
  /\ step' = [step EXCEPT ![c] = "storing"]
  /\ UNCHANGED <<lock, connectionVars, learntVars, runVars, call, target, serverVars, confirmed>>

StoreClient(c) ==
  /\ step[c] = "storing"
  /\ client' = session[c]
  /\ GoOn(c, "calling")
  /\ UNCHANGED <<lock, connectionVars, capability, workload, inventory, runVars, serverVars, confirmed>>

-----------------------------------------------------------------------------
(* RefreshOverview: Active, the client, the status, the job probe, and     *)
(* then the store of the workload, which nothing compares with the         *)
(* connection that is active by now.                                       *)

BeginOverview(c) ==
  /\ c \in Monitor
  /\ active # NoServer
  /\ Begin(c, "RefreshOverview", "authenticating", active)
  /\ UNCHANGED <<lock, connectionVars, learntVars, runVars, serverVars, confirmed>>

ProbeJobs(c) ==
  /\ At(c, "RefreshOverview", "calling")
  /\ Answers(c)
  /\ GoOn(c, "probed")
  /\ UNCHANGED <<lock, connectionVars, learntVars, runVars, serverVars, confirmed>>

StoreWorkload(c) ==
  /\ At(c, "RefreshOverview", "probed")
  /\ workload' = target[c]
  /\ Return(c)
  /\ UNCHANGED <<connectionVars, client, capability, inventory, runVars, serverVars, confirmed>>

-----------------------------------------------------------------------------
(* DiscoverCapabilities and InspectJobs.                                   *)

BeginDiscovery(c) ==
  /\ active # NoServer
  /\ BeginLocked(c, "DiscoverCapabilities", "authenticating", active)
  /\ UNCHANGED <<connectionVars, learntVars, runVars, serverVars, confirmed>>

StoreCapabilities(c) ==
  /\ At(c, "DiscoverCapabilities", "calling")
  /\ capability' = target[c]
  /\ workload' = target[c]
  /\ Return(c)
  /\ UNCHANGED <<connectionVars, client, inventory, runVars, serverVars, confirmed>>

BeginInspection(c) ==
  /\ active # NoServer
  /\ BeginLocked(c, "InspectJobs", "authenticating", active)
  /\ UNCHANGED <<connectionVars, learntVars, runVars, serverVars, confirmed>>

RecordInventory(c) ==
  /\ At(c, "InspectJobs", "calling")
  /\ Answers(c)
  /\ inventory' = target[c]
  /\ Return(c)
  /\ UNCHANGED <<connectionVars, client, capability, workload, runVars, serverVars, confirmed>>

-----------------------------------------------------------------------------
(* StartAutomation: the server is read before the capabilities, the run is *)
(* published last.                                                         *)

BeginAutomation(c) ==
  /\ active # NoServer
  /\ BeginLocked(c, "StartAutomation", "starting", active)
  /\ UNCHANGED <<connectionVars, learntVars, runVars, serverVars, confirmed>>

(* Fault: the test for discovered capabilities is dropped.                 *)
StartRunUndiscovered(c) ==
  /\ At(c, "StartAutomation", "starting")
  /\ running' = TRUE
  /\ runServer' = target[c]
  /\ runCapability' = capability
  /\ Return(c)
  /\ UNCHANGED <<connectionVars, learntVars, serverVars, confirmed>>

StartRun(c) ==
  /\ At(c, "StartAutomation", "starting")
  /\ capability # NoServer
  /\ running' = TRUE
  /\ runServer' = target[c]
  /\ runCapability' = capability
  /\ Return(c)
  /\ UNCHANGED <<connectionVars, learntVars, serverVars, confirmed>>

(* No capabilities, or no valid files, plan or modes.                      *)
RefuseRun(c) ==
  /\ At(c, "StartAutomation", "starting")
  /\ Return(c)
  /\ UNCHANGED <<connectionVars, learntVars, runVars, serverVars, confirmed>>

(* consumeRun applies the terminal event.                                  *)
RunEnds ==
  /\ running
  /\ running' = FALSE
  /\ runServer' = NoServer /\ runCapability' = NoServer
  /\ UNCHANGED <<lock, connectionVars, learntVars, callVars, serverVars, confirmed>>

-----------------------------------------------------------------------------
(* ControlServer: confirm, invalidate the inventory, request the restart   *)
(* or reboot, drop the cached client, and poll until the API is ready.     *)

(* Fault: the precondition is tested before operationMu is taken, so it is *)
(* stale when the lock is there.                                           *)
BeginControlUnchecked(c) ==
  /\ active # NoServer
  /\ lock = NoCaller
  /\ lock' = c
  /\ Begin(c, "ControlServer", "confirming", active)
  /\ UNCHANGED <<connectionVars, learntVars, runVars, serverVars, confirmed>>

BeginControl(c) ==
  /\ active # NoServer
  /\ BeginLocked(c, "ControlServer", "confirming", active)
  /\ UNCHANGED <<connectionVars, learntVars, runVars, serverVars, confirmed>>

Decline(c) ==
  /\ At(c, "ControlServer", "confirming")
  /\ Return(c)
  /\ UNCHANGED <<connectionVars, learntVars, runVars, serverVars, confirmed>>

Confirm(c) ==
  /\ At(c, "ControlServer", "confirming")
  /\ inventory' = NoServer
  /\ GoOn(c, "authenticating")
  /\ UNCHANGED <<lock, connectionVars, client, capability, workload, runVars, serverVars, confirmed>>

(* The server accepts the request; it goes on answering for a while.       *)
RequestRestart(c) ==
  LET s == target[c] IN
  /\ At(c, "ControlServer", "calling")
  /\ Answers(c)
  /\ boot[s] < MaxRestarts
  /\ phase' = [phase EXCEPT ![s] = "stopping"]
  /\ GoOn(c, "accepted")
  /\ UNCHANGED <<lock, connectionVars, learntVars, runVars, boot, confirmed>>

(* The server accepts it, but the reply is lost and the call fails.        *)
LoseRestartReply(c) ==
  LET s == target[c] IN
  /\ At(c, "ControlServer", "calling")
  /\ Answers(c)
  /\ boot[s] < MaxRestarts
  /\ phase' = [phase EXCEPT ![s] = "stopping"]
  /\ Return(c)
  /\ UNCHANGED <<connectionVars, learntVars, runVars, boot, confirmed>>

DropClient(c) ==
  /\ At(c, "ControlServer", "accepted")
  /\ client' = NoSession
  /\ GoOn(c, "recovering")
  /\ UNCHANGED <<lock, connectionVars, capability, workload, inventory, runVars, serverVars, confirmed>>

(* WaitForRecovery: a probe logs in and finds the server running.          *)
ConfirmRecovery(c) ==
  LET s == target[c] IN
  /\ At(c, "ControlServer", "recovering")
  /\ phase[s] # "down"
  /\ confirmed' = [confirmed EXCEPT ![s] = boot[s]]
  /\ Return(c)
  /\ UNCHANGED <<connectionVars, learntVars, runVars, serverVars>>

RecoveryTimesOut(c) ==
  /\ At(c, "ControlServer", "recovering")
  /\ Return(c)
  /\ UNCHANGED <<connectionVars, learntVars, runVars, serverVars, confirmed>>

(* The Fiery server goes down and comes up with its sessions gone.         *)
GoDown(s) ==
  /\ phase[s] = "stopping"
  /\ phase' = [phase EXCEPT ![s] = "down"]
  /\ UNCHANGED <<lock, connectionVars, learntVars, runVars, callVars, boot, confirmed>>

ComeUp(s) ==
  /\ phase[s] = "down"
  /\ boot[s] < MaxRestarts
  /\ phase' = [phase EXCEPT ![s] = "up"]
  /\ boot' = [boot EXCEPT ![s] = @ + 1]
  /\ UNCHANGED <<lock, connectionVars, learntVars, runVars, callVars, confirmed>>

-----------------------------------------------------------------------------

Connection(c) ==
  \/ \E s \in Server : BeginTest(c, s)
  \/ TestFails(c) \/ TestPasses(c) \/ KeepTestedClient(c)
  \/ ApplyConnection(c) \/ ForgetOldServer(c)
  \/ BeginChange(c) \/ ResetTest(c)

Authentication(c) ==
  UseCachedClient(c) \/ MissClient(c) \/ Login(c) \/ StoreClient(c)

Evidence(c) ==
  \/ BeginOverview(c) \/ ProbeJobs(c) \/ StoreWorkload(c)
  \/ BeginDiscovery(c) \/ StoreCapabilities(c)
  \/ BeginInspection(c) \/ RecordInventory(c)

Automation(c) == BeginAutomation(c) \/ StartRun(c) \/ RefuseRun(c)

Control(c) ==
  \/ BeginControl(c) \/ Decline(c) \/ Confirm(c) \/ RequestRestart(c) \/ LoseRestartReply(c)
  \/ DropClient(c) \/ ConfirmRecovery(c) \/ RecoveryTimesOut(c)

Next ==
  \/ \E c \in Caller :
       \/ Fail(c) \/ Connection(c) \/ Authentication(c) \/ Evidence(c)
       \/ Automation(c) \/ Control(c)
  \/ RunEnds
  \/ \E s \in Server : GoDown(s) \/ ComeUp(s)

Spec == Init /\ [][Next]_vars

-----------------------------------------------------------------------------
(* Properties.                                                             *)

(* Between operations, the capabilities and the job inventory are those of *)
(* the active server ("A server change invalidates server identity,        *)
(* capabilities, ... inventory evidence", docs/ux.md:27).                  *)
EvidenceOfActiveServer ==
  lock = NoCaller => {capability, inventory} \subseteq {NoServer, active}

(* A run was planned with the capabilities of the server it talks to, and  *)
(* that server stays the active one until the run is over                  *)
(* (StartAutomation, ApplyConnection).                                     *)
RunPinsConnection == running => runServer = active /\ runCapability = active

(* No test, connection change, discovery, inspection or restart is under   *)
(* way while a run is: the precondition of an operation stays true until   *)
(* it returns (operationMu with automationRunning).                        *)
OperationsExcludeRun == running => \A c \in Caller : call[c] \notin Locked

(* The requests of an operation go to the active server, whatever server   *)
(* the cached client was left with by a test or an overview                *)
(* (authenticatedClient).                                                  *)
RequestsReachActiveServer ==
  \A c \in Caller :
    /\ call[c] \in Locked \ {"TestConnection", "ApplyConnection"}
    /\ step[c] \in WithSession
    => session[c].server = active

(* Between operations, the job workload is that of the active server ("A   *)
(* server change invalidates ... cached health", docs/ux.md:27).           *)
WorkloadOfActiveServer == lock = NoCaller => workload \in {NoServer, active}

(* Once the recovery of a restarted server has been confirmed, no session  *)
(* from before the restart is cached ("Recovery monitoring and             *)
(* re-authentication are handled by the caller",                           *)
(* internal/fiery/administration.go:166).                                  *)
NoSessionFromBeforeRecovery ==
  client # NoSession => client.boot >= confirmed[client.server]
=============================================================================
