----------------------------- MODULE Lifecycle -----------------------------
(***************************************************************************)
(* XrayService and XrayProvisioningService: the lifecycle requests         *)
(* (install, config/apply, uninstall, start, stop, status), the handlers   *)
(* they give to the coordinator of Operations, the records they keep in    *)
(* `agent_meta`, and the helper runs of HostHelper that change the host.   *)
(*                                                                         *)
(* A request reads the state, awaits (a helper, DNS and port checks,       *)
(* systemctl) and then acts on what it read; `callers` holds the requests  *)
(* that are awaiting, `jobs` the handlers that are.                        *)
(***************************************************************************)
EXTENDS HostHelper

CONSTANTS
  Inputs,           \* [protocol, revision, payload] of install and apply
  Callers,          \* requests that may be in progress together
  Polls,            \* status requests that may be in progress together
  MaxOperations     \* bound: operations accepted in a behaviour

AgentFaults ==
  {"agent_crash",   \* the process dies between two turns
   "torn_write",    \* it dies between two SQLite writes of one turn
   "write_failure"} \* a write of a plan or of a record throws

ASSUME FaultsAssumption == Faults \subseteq HelperFaults \cup AgentFaults
ASSUME BoundsAssumption == MaxFaults \in Nat /\ MaxOperations \in Nat

VARIABLES
  up, running, operations, created, starting, awaiting, observing,
  protocol,         \* meta xray.protocol, or "none"
  config,           \* meta xray.runtimeConfig, or NoConfig
  jobs,             \* per operation, what its handler awaits (memory)
  callers,          \* per caller, the request in progress (memory)
  seen              \* per status request, the runtime was installed (memory)

opsVars == <<up, running, operations, created, starting, awaiting, observing>>
records == <<protocol, config>>
waiting == <<jobs, callers, seen>>
vars == <<opsVars, hostVars, records, waiting>>

Protocols == {input.protocol : input \in Inputs}

\* The body of an uninstall operation; its fingerprint leaves out nothing.
UninstallInput(p) == [protocol |-> p, revision |-> 0, payload |-> "none"]

Fingerprints == Inputs \cup {UninstallInput(p) : p \in Protocols}

Ops == INSTANCE Operations

\* runtimeConfigHash(): everything but the revision.
ConfigHash(c) == IF c = NoConfig THEN NoConfig ELSE <<c.protocol, c.payload>>

\* A protocol has a name, and a configuration a hash that differs from none.
ASSUME InputsAssumption ==
  "none" \notin Protocols /\ \A input \in Inputs : ConfigHash(input) # NoConfig

SomeActive == \E id \in Ops!OperationIds : Ops!Active(id)

NoJob == [at |-> "none", input |-> NoConfig, child |-> 0]
Job(at, input, child) == [at |-> at, input |-> input, child |-> child]

Idle == [at |-> "idle", request |-> "none", input |-> NoConfig, child |-> 0]
Call(at, request, input, child) ==
  [at |-> at, request |-> request, input |-> input, child |-> child]

Init ==
  /\ Ops!Init
  /\ HostInit
  /\ protocol = "none"
  /\ config = NoConfig
  /\ jobs = [id \in Ops!OperationIds |-> NoJob]
  /\ callers = [c \in Callers |-> Idle]
  /\ seen = [poll \in Polls |-> FALSE]

\* No code of the agent runs inside the synchronous part of start().
Serving == up /\ starting = {}

Arrives(c) == Serving /\ callers[c] = Idle

Waits(c, at, request, input, child) ==
  callers' = [callers EXCEPT ![c] = Call(at, request, input, child)]

Answers(c) == callers' = [callers EXCEPT ![c] = Idle]

(***************************************************************************)
(* Requests.  One that is answered at once without a change (wrong         *)
(* protocol, already installed, stale or equal revision) is a stutter.     *)
(***************************************************************************)

MayInstall(input) ==
  /\ ~Installed
  /\ ~(marker /\ protocol \notin {"none", input.protocol})

\* Resources without a recorded configuration are remains of an install.
PartialInstall == ~SomeActive /\ marker /\ config = NoConfig

Install(c, input) ==
  /\ Arrives(c)
  /\ \/ /\ PartialInstall
        /\ Waits(c, "cleaning", "install", input, FreshPid)
        /\ Spawn("uninstall", NoConfig)
     \/ /\ ~PartialInstall
        /\ MayInstall(input)
        /\ Waits(c, "checked", "install", input, 0)
        /\ UNCHANGED helpers
  /\ UNCHANGED <<opsVars, host, faults, records, jobs, seen>>

\* cleanupPartialInstall() returned; the checks of install() follow.
Cleaned(c) ==
  /\ Serving
  /\ callers[c].at = "cleaning"
  /\ LET call == callers[c] IN
       /\ ~Alive(call.child)
       /\ IF Exited(call.child, "ok") /\ MayInstall(call.input)
          THEN Waits(c, "checked", "install", call.input, 0)
          ELSE Answers(c)
       /\ Collect(call.child)
  /\ UNCHANGED <<opsVars, host, faults, records, jobs, seen>>

InstalledFor(p) == Installed /\ protocol = p

\* A later revision of the same payload is recorded at once.
Apply(c, input) ==
  /\ Arrives(c)
  /\ InstalledFor(input.protocol)
  /\ config # NoConfig => input.revision > config.revision
  /\ IF ConfigHash(config) = ConfigHash(input)
     THEN config' = input /\ UNCHANGED callers
     ELSE Waits(c, "checked", "reconfigure", input, 0) /\ UNCHANGED config
  /\ UNCHANGED <<opsVars, hostVars, protocol, jobs, seen>>

Uninstall(c, p) ==
  /\ Arrives(c)
  /\ protocol \in {"none", p}
  /\ marker
  /\ Waits(c, "checked", "uninstall", UninstallInput(p), 0)
  /\ UNCHANGED <<opsVars, hostVars, records, jobs, seen>>

\* The awaited state and preflight are fine: the coordinator takes the
\* request, what was read before is not read again.
Submit(c) ==
  /\ callers[c].at = "checked"
  /\ Ops!Accept(callers[c].request, callers[c].input)
  /\ jobs' = [jobs EXCEPT ![created + 1] = Job("queued", callers[c].input, 0)]
  /\ Answers(c)
  /\ UNCHANGED <<hostVars, records, seen>>

\* Preflight fails, or start() finds the same operation or another one.
Decline(c) ==
  /\ Serving
  /\ callers[c].at = "checked"
  /\ Answers(c)
  /\ UNCHANGED <<opsVars, hostVars, records, jobs, seen>>

\* start and stop run the helper without an operation.
StartOrStop(c, command, p) ==
  /\ Arrives(c)
  /\ ~SomeActive
  /\ InstalledFor(p)
  /\ Waits(c, "service", command, NoConfig, FreshPid)
  /\ Spawn(command, NoConfig)
  /\ UNCHANGED <<opsVars, host, faults, records, jobs, seen>>

\* Mutant: a failed start or stop is never answered.
ServiceAnsweredIfOk(c) ==
  /\ Serving
  /\ callers[c].at = "service"
  /\ Exited(callers[c].child, "ok")
  /\ Collect(callers[c].child)
  /\ Answers(c)
  /\ UNCHANGED <<opsVars, host, faults, records, jobs, seen>>

ServiceAnswered(c) ==
  /\ Serving
  /\ callers[c].at = "service"
  /\ ~Alive(callers[c].child)
  /\ Collect(callers[c].child)
  /\ Answers(c)
  /\ UNCHANGED <<opsVars, host, faults, records, jobs, seen>>

(***************************************************************************)
(* The handlers of the operations.                                         *)
(***************************************************************************)

HelperCommand(type) ==
  CASE type = "install" -> "install"
    [] type = "reconfigure" -> "apply"
    [] type = "uninstall" -> "uninstall"

Type(id) == operations[id].operationType

Begin(id) ==
  /\ Ops!Begin(id)
  /\ Spawn(HelperCommand(Type(id)), jobs[id].input)
  /\ jobs' = [jobs EXCEPT ![id] = Job("helper", @.input, FreshPid)]
  /\ UNCHANGED <<host, faults, records, callers, seen>>

\* Mutant: the exit code is not looked at.
HelperEndedAnyhow(id, at, status) ==
  jobs[id].at = at /\ ~Alive(jobs[id].child)

\* The handler is in phase `at` and its helper run ended with `status`.
HelperEnded(id, at, status) ==
  jobs[id].at = at /\ Exited(jobs[id].child, status)

Finished(id) == jobs' = [jobs EXCEPT ![id] = NoJob]

Succeeds(id) == Ops!Succeed(id) /\ Finished(id)

\* Mutant: the protocol is not recorded.
FinishInstallUnrecorded(id) ==
  /\ Type(id) = "install"
  /\ HelperEnded(id, "helper", "ok")
  /\ config' = jobs[id].input
  /\ Collect(jobs[id].child)
  /\ Succeeds(id)
  /\ UNCHANGED <<host, faults, protocol, callers, seen>>

FinishInstall(id) ==
  /\ Type(id) = "install"
  /\ HelperEnded(id, "helper", "ok")
  /\ protocol' = jobs[id].input.protocol
  /\ config' = jobs[id].input
  /\ Collect(jobs[id].child)
  /\ Succeeds(id)
  /\ UNCHANGED <<host, faults, callers, seen>>

\* cleanupFailedInstall(), whose own failure is only logged.
CleanUp(id) ==
  /\ Serving
  /\ Type(id) = "install"
  /\ HelperEnded(id, "helper", "failed")
  /\ helpers' = [helpers EXCEPT ![jobs[id].child] = NewRun("uninstall", NoConfig)]
  /\ jobs' = [jobs EXCEPT ![id].at = "cleanup"]
  /\ UNCHANGED <<opsVars, host, faults, records, callers, seen>>

\* The configuration is recorded; a runtime that was online when the request
\* came gets its users back before the operation ends.
FinishApply(id) ==
  /\ Serving
  /\ Type(id) = "reconfigure"
  /\ HelperEnded(id, "helper", "ok")
  /\ config' = jobs[id].input
  /\ Collect(jobs[id].child)
  /\ \/ Succeeds(id)
     \/ /\ jobs' = [jobs EXCEPT ![id] = Job("restoring", @.input, 0)]
        /\ UNCHANGED opsVars
  /\ UNCHANGED <<host, faults, protocol, callers, seen>>

UsersRestored(id) ==
  /\ jobs[id].at = "restoring"
  /\ Succeeds(id)
  /\ UNCHANGED <<hostVars, records, callers, seen>>

\* Mutant: the configuration stays recorded.
FinishUninstallKeepingConfig(id) ==
  /\ Type(id) = "uninstall"
  /\ HelperEnded(id, "helper", "ok")
  /\ protocol' = "none"
  /\ Collect(jobs[id].child)
  /\ Succeeds(id)
  /\ UNCHANGED <<host, faults, config, callers, seen>>

FinishUninstall(id) ==
  /\ Type(id) = "uninstall"
  /\ HelperEnded(id, "helper", "ok")
  /\ protocol' = "none"
  /\ config' = NoConfig
  /\ Collect(jobs[id].child)
  /\ Succeeds(id)
  /\ UNCHANGED <<host, faults, callers, seen>>

\* Mutant: an installation whose cleanup has ended is not settled.
HandlerFailsUncleaned(id) ==
  /\ Type(id) # "install"
  /\ HelperEnded(id, "helper", "failed")
  /\ Ops!Fail(id)
  /\ Finished(id)
  /\ Collect(jobs[id].child)
  /\ UNCHANGED <<host, faults, records, callers, seen>>

\* What the end of a handler has written when it is cut short: the protocol
\* goes before the configuration.
PartlyRecorded(id) ==
  \/ UNCHANGED records
  \/ /\ Type(id) = "install"
     /\ protocol' = jobs[id].input.protocol
     /\ config' \in {config, jobs[id].input}
  \/ /\ Type(id) = "reconfigure"
     /\ config' = jobs[id].input
     /\ UNCHANGED protocol
  \/ /\ Type(id) = "uninstall"
     /\ protocol' = "none"
     /\ config' \in {config, NoConfig}

\* Mutant: a record that could not be written is not reported.
WriteFailsUnnoticed(id) ==
  /\ CountFault("write_failure")
  /\ HelperEnded(id, "helper", "ok")
  /\ PartlyRecorded(id)
  /\ Collect(jobs[id].child)
  /\ Succeeds(id)
  /\ UNCHANGED <<host, callers, seen>>

\* A write throws: that of the plan before the helper is started, one of a
\* record after it succeeded, or the last one of the row.  The operation
\* fails in an agent that lives on; what was written stays.
WriteFails(id) ==
  /\ CountFault("write_failure")
  /\ \/ jobs[id].at \in {"queued", "restoring"} /\ UNCHANGED <<helpers, records>>
     \/ /\ HelperEnded(id, "helper", "ok")
        /\ PartlyRecorded(id)
        /\ Collect(jobs[id].child)
  /\ Ops!Fail(id)
  /\ Finished(id)
  /\ UNCHANGED <<host, callers, seen>>

\* The helper of an apply or uninstall failed, or the cleanup has ended.
HandlerFails(id) ==
  /\ \/ Type(id) # "install" /\ HelperEnded(id, "helper", "failed")
     \/ jobs[id].at = "cleanup" /\ ~Alive(jobs[id].child)
  /\ Ops!Fail(id)
  /\ Finished(id)
  /\ Collect(jobs[id].child)
  /\ UNCHANGED <<host, faults, records, callers, seen>>

(***************************************************************************)
(* Status, and the death and restart of the agent.                         *)
(***************************************************************************)

Status(poll, p) ==
  /\ Ops!Observe(poll)
  /\ seen' = [seen EXCEPT ![poll] = InstalledFor(p)]
  /\ UNCHANGED <<hostVars, records, jobs, callers>>

Reached(poll) ==
  \/ Type(observing[poll]) = "install" /\ seen[poll] /\ active
  \/ Type(observing[poll]) = "uninstall" /\ ~marker

StatusRecovers(poll) ==
  /\ observing[poll] # 0
  /\ Reached(poll)
  /\ Ops!Recover(poll)
  /\ UNCHANGED <<hostVars, records, waiting>>

StatusAnswers(poll) ==
  /\ Ops!Decline(poll)
  /\ UNCHANGED <<hostVars, records, waiting>>

Dies ==
  /\ Ops!Crash
  /\ jobs' = [id \in Ops!OperationIds |-> NoJob]
  /\ callers' = [c \in Callers |-> Idle]
  /\ seen' = [poll \in Polls |-> FALSE]
  /\ Abandon

\* The agent dies between two turns; the helper runs live on.
AgentCrash ==
  /\ CountFault("agent_crash")
  /\ Dies
  /\ UNCHANGED <<host, records>>

\* It dies between two SQLite writes at the end of a handler.
TornWrite(id) ==
  /\ HelperEnded(id, "helper", "ok")
  /\ CountFault("torn_write")
  /\ PartlyRecorded(id)
  /\ Dies
  /\ UNCHANGED host

Restart ==
  /\ Ops!Bootstrap
  /\ UNCHANGED <<hostVars, records, waiting>>

HostStep(pid) ==
  /\ HelperStep(pid)
  /\ UNCHANGED <<opsVars, records, waiting>>

-----------------------------------------------------------------------------

Request(c) ==
  \/ \E input \in Inputs : Install(c, input) \/ Apply(c, input)
  \/ \E p \in Protocols : Uninstall(c, p)
  \/ \E p \in Protocols, command \in {"start", "stop"} : StartOrStop(c, command, p)

Resume(c) == Cleaned(c) \/ Submit(c) \/ Decline(c) \/ ServiceAnswered(c)

Handler(id) ==
  \/ Begin(id) \/ FinishInstall(id) \/ CleanUp(id) \/ FinishApply(id)
  \/ UsersRestored(id) \/ FinishUninstall(id) \/ HandlerFails(id)
  \/ WriteFails(id)

StatusStep(poll) ==
  \/ \E p \in Protocols : Status(poll, p)
  \/ StatusRecovers(poll) \/ StatusAnswers(poll)

Next ==
  \/ \E c \in Callers : Request(c) \/ Resume(c)
  \/ \E id \in Ops!OperationIds : Handler(id) \/ TornWrite(id)
  \/ \E poll \in Polls : StatusStep(poll)
  \/ AgentCrash \/ Restart
  \/ \E pid \in DOMAIN helpers : HostStep(pid)

Spec == Init /\ [][Next]_vars

\* What a waiter waits for.
RunOfHandler(id) == jobs[id].child # 0 /\ HostStep(jobs[id].child)
RunOfCaller(c) == callers[c].child # 0 /\ HostStep(callers[c].child)

SomeHandler == \E id \in Ops!OperationIds : Handler(id)
SomeRunOfHandler == \E id \in Ops!OperationIds : RunOfHandler(id)

\* PM2 restarts the agent, Node runs the continuation of every settled
\* promise, a preflight ends by itself, and a run of the helper somebody
\* waits for takes its steps: each command it waits for has a timeout.  The
\* continuation of a request is put off, but not lost, while the synchronous
\* turn of start() runs: strong fairness.
CallerFairness(c) == WF_vars(RunOfCaller(c)) /\ SF_vars(Resume(c))

Fairness ==
  /\ WF_vars(Restart)
  /\ WF_vars(SomeHandler)
  /\ WF_vars(SomeRunOfHandler)
  /\ \A c \in Callers : CallerFairness(c)

FairSpec == Spec /\ Fairness

-----------------------------------------------------------------------------
(***************************************************************************)
(* Properties.                                                             *)
(***************************************************************************)

Plans == Inputs \cup {UninstallInput(p) : p \in Protocols} \cup {NoConfig}

\* Every variable keeps to its type.
TypeOK ==
  /\ Ops!TypeOK
  /\ {marker, files, active, disturbed} \subseteq BOOLEAN
  /\ hostConfig \in Inputs \cup {NoConfig}
  /\ config \in Inputs \cup {NoConfig}
  /\ protocol \in Protocols \cup {"none"}
  /\ faults \in 0 .. MaxFaults
  /\ \A pid \in DOMAIN helpers :
       helpers[pid] \in [command : Command, plan : Plans, at : Progress,
                         backup : Plans]
  /\ \A id \in Ops!OperationIds :
       /\ jobs[id].at \in {"none", "queued", "helper", "cleanup", "restoring"}
       /\ jobs[id].input \in Plans
       /\ jobs[id].child \in DOMAIN helpers \cup {0}
  /\ \A c \in Callers :
       /\ callers[c].at \in {"idle", "cleaning", "checked", "service"}
       /\ callers[c].input \in Plans
       /\ callers[c].child \in DOMAIN helpers \cup {0}
  /\ seen \in [Polls -> BOOLEAN]

ChangesHost(pid) ==
  helpers[pid].command \in {"install", "apply", "uninstall"} /\ Alive(pid)

\* At most one run of the helper installs, reconfigures or uninstalls at a
\* time, the cleanup of a failed install included: what the coordinator is
\* for.  The cleanup an install request starts is not an operation, and is
\* left out.
CleanupOfRequest(pid) ==
  \E c \in Callers : callers[c].at = "cleaning" /\ callers[c].child = pid

HelpersExclusive ==
  \A pid, other \in {p \in DOMAIN helpers : ChangesHost(p) /\ ~CleanupOfRequest(p)} :
    pid = other

Quiet ==
  /\ up
  /\ ~SomeActive
  /\ \A pid \in DOMAIN helpers : ~Alive(pid)

\* When nothing is in progress and a runtime is installed, the records are
\* those of this runtime: config.json was generated from the recorded
\* configuration, whatever requests overlapped and whichever runs of the
\* helper failed.
InstalledAsRecorded ==
  Quiet /\ Installed =>
    /\ ConfigHash(config) = ConfigHash(hostConfig)
    /\ protocol # "none"

\* When runs fail after the switch, or records cannot be written, the two
\* may differ; while the agent lives that is never taken for settled: the
\* operation that left it so is the latest one and is reported as failed.
LatestFailed == created > 0 /\ operations[created].state = "failed"

DivergenceIsReported == []up => [](InstalledAsRecorded \/ LatestFailed)

\* When none is installed, no configuration is recorded, as long as no
\* run of the helper fails: the cleanup of a failed install wipes the host
\* and leaves the records of an earlier one as they are.
RecordedIsInstalled ==
  faults = 0 /\ Quiet /\ config # NoConfig => Installed

\* After an uninstall that the operations table reports as succeeded, the
\* marker and the records are gone; and neither a binary or unit, nor
\* config.json, nor a running service is left on the host, unless an
\* uninstall ran beside another run of the helper (a `start`, which takes no
\* lock, or the cleanup an install request waits for).
UninstallIsClean ==
  Quiet /\ created > 0 /\ Type(created) = "uninstall"
        /\ operations[created].state = "succeeded"
    => /\ ~marker /\ protocol = "none" /\ config = NoConfig
       /\ ~disturbed => ~files /\ hostConfig = NoConfig /\ ~active

\* But for an installation, the recorded revision never goes back while a
\* configuration is recorded.
Installing ==
  \E id \in Ops!OperationIds : Ops!Active(id) /\ Type(id) = "install"

RevisionKept ==
  config # NoConfig /\ config' # NoConfig /\ ~Installing
    => config'.revision >= config.revision

RevisionMonotone == [][RevisionKept]_vars

\* Through any crash, a row is active in a running agent exactly when a
\* handler is pending for it, and what the handlers and the requests wait
\* for are runs of their own.
WaitsFor(waiter, pid) == waiter.child = pid

WaitsAreServed ==
  /\ up => \A id \in Ops!OperationIds : Ops!Active(id) <=> jobs[id].at # "none"
  /\ \A pid \in DOMAIN helpers :
       Cardinality({id \in Ops!OperationIds : WaitsFor(jobs[id], pid)})
         + Cardinality({c \in Callers : WaitsFor(callers[c], pid)}) <= 1

\* Nobody waits for what cannot come: an agent that is down can restart, a
\* handler or a request whose run of the helper is alive has a run that can
\* take a step, and one that waits for nothing more can go on itself.
StepsEnabled ==
  /\ ~up => ENABLED <<Restart>>_vars
  /\ \A id \in Ops!OperationIds : jobs[id].at # "none" =>
       IF jobs[id].child # 0 /\ Alive(jobs[id].child)
       THEN ENABLED <<SomeRunOfHandler>>_vars
       ELSE ENABLED <<SomeHandler>>_vars
  /\ \A c \in Callers : callers[c] # Idle =>
       IF callers[c].child # 0 /\ Alive(callers[c].child)
       THEN ENABLED <<RunOfCaller(c)>>_vars
       ELSE starting = {} => ENABLED <<Resume(c)>>_vars

\* Every request is answered, or forgotten in a crash, and every operation
\* is settled.
RequestsAnswered ==
  \A c \in Callers : callers[c] # Idle ~> callers[c] = Idle

OperationsSettle ==
  \A id \in Ops!OperationIds : Ops!Active(id) ~> ~Ops!Active(id)

=============================================================================
