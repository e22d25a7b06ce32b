----------------------------- MODULE HostHelper -----------------------------
(***************************************************************************)
(* The root helper (helper.ts) and what it changes on the host: the marker *)
(* of managed resources, the binary and unit, the configuration file and   *)
(* the Xray service.  Each run of the helper is a process of its own; it   *)
(* outlives the agent that started it, and it takes no lock, so the steps  *)
(* of two runs may interleave.                                             *)
(***************************************************************************)
EXTENDS Integers, FiniteSets, Functions

CONSTANTS
  NoConfig,         \* model value: no configuration
  Faults,           \* kinds of failure that happen, see HelperFaults
  MaxFaults         \* bound: failures in a behaviour

HelperFaults ==
  {"helper_failure",   \* a step fails before the new configuration is written
   "late_failure",     \* a step fails after that
   "cleanup_failure",  \* an uninstall stops half-way
   "stop_failure"}     \* it goes on though the service could not be stopped

VARIABLES
  marker,           \* runtimes/xray/.managed exists: hasManagedResources()
  files,            \* binary and unit exist
  active,           \* systemd reports eagleway-xray active
  hostConfig,       \* what config.json was generated from
  disturbed,        \* history: an uninstall ran beside another run
  helpers,          \* the runs nobody has collected yet, by process id
  faults            \* failures so far

runtime == <<marker, files, active, hostConfig>>
host == <<runtime, disturbed>>
hostVars == <<host, helpers, faults>>

\* XrayClientService.isInstalled()
Installed == marker /\ files

Command == {"install", "apply", "uninstall", "start", "stop"}
Ended == {"ok", "failed"}
Progress ==
  {"started", "half", "configured", "placed", "running", \* install
   "switched", "stalled",                                \* apply
   "stopped"} \cup Ended                                 \* uninstall

HostInit ==
  /\ marker = FALSE
  /\ files = FALSE
  /\ active = FALSE
  /\ hostConfig = NoConfig
  /\ disturbed = FALSE
  /\ helpers = [pid \in {} |-> 0]
  /\ faults = 0

FreshPid ==
  CHOOSE pid \in 1 .. Cardinality(DOMAIN helpers) + 1 : pid \notin DOMAIN helpers

\* `backup` is the configuration an apply replaced.
NewRun(command, plan) ==
  [command |-> command, plan |-> plan, at |-> "started", backup |-> NoConfig]

\* PrivilegedHelperService.run(): a child process.
Spawn(command, plan) ==
  helpers' = [pid \in DOMAIN helpers \cup {FreshPid} |->
                IF pid = FreshPid THEN NewRun(command, plan) ELSE helpers[pid]]

Alive(pid) == helpers[pid].at \notin Ended

\* The agent saw the exit of the run.
Collect(pid) == helpers' = Restrict(helpers, DOMAIN helpers \ {pid})

\* Nobody is left to see the exit of the runs that have ended.
Abandon == helpers' = Restrict(helpers, {pid \in DOMAIN helpers : Alive(pid)})

Exited(pid, status) == helpers[pid].at = status

Moves(pid, at) == helpers' = [helpers EXCEPT ![pid].at = at]

Runs(pid, command, at) ==
  helpers[pid].command = command /\ helpers[pid].at = at

FaultAllowed(kind) == kind \in Faults /\ faults < MaxFaults

CountFault(kind) == FaultAllowed(kind) /\ faults' = faults + 1

FaultOf(pid) ==
  CASE helpers[pid].command = "uninstall" -> "cleanup_failure"
    [] helpers[pid].at \in {"configured", "placed", "running", "switched", "stalled"}
         -> "late_failure"
    [] OTHER -> "helper_failure"

\* A run ends before it changed anything more: a command failed, or the run
\* was killed.
HelperFails(pid) ==
  /\ Alive(pid)
  /\ CountFault(FaultOf(pid))
  /\ Moves(pid, "failed")
  /\ UNCHANGED runtime

(***************************************************************************)
(* install: refuses resources it does not own, writes the marker before    *)
(* anything else, then the binary, the configuration, the unit, and starts *)
(* the service.  Nothing is removed when a step fails.                     *)
(***************************************************************************)

InstallMarks(pid) ==
  /\ Runs(pid, "install", "started")
  /\ IF marker \/ ~files
     THEN marker' = TRUE /\ Moves(pid, "half")
     ELSE UNCHANGED marker /\ Moves(pid, "failed")
  /\ UNCHANGED <<files, active, hostConfig, faults>>

InstallConfigures(pid) ==
  /\ Runs(pid, "install", "half")
  /\ hostConfig' = helpers[pid].plan
  /\ Moves(pid, "configured")
  /\ UNCHANGED <<marker, files, active, faults>>

InstallPlaces(pid) ==
  /\ Runs(pid, "install", "configured")
  /\ files' = TRUE
  /\ Moves(pid, "placed")
  /\ UNCHANGED <<marker, active, hostConfig, faults>>

InstallRestarts(pid) ==
  /\ Runs(pid, "install", "placed")
  /\ \/ active' = TRUE /\ Moves(pid, "running") /\ UNCHANGED faults
     \/ active' = FALSE /\ Moves(pid, "failed") /\ CountFault("late_failure")
  /\ UNCHANGED <<marker, files, hostConfig>>

InstallFinishes(pid) ==
  /\ Runs(pid, "install", "running")
  /\ Moves(pid, "ok")
  /\ UNCHANGED <<runtime, faults>>

(***************************************************************************)
(* apply-config: validates, which takes the binary but not the unit,       *)
(* switches the file, restarts an active service,                          *)
(* rolls the file back when the restart fails, and then settles the        *)
(* firewall, whose failure no longer rolls the file back.                  *)
(***************************************************************************)

ApplyStarts(pid) ==
  /\ Runs(pid, "apply", "started")
  /\ Moves(pid, IF marker /\ hostConfig # NoConfig THEN "half" ELSE "failed")
  /\ UNCHANGED <<runtime, faults>>

ApplySwitches(pid) ==
  /\ Runs(pid, "apply", "half")
  /\ \/ /\ hostConfig # NoConfig
        /\ hostConfig' = helpers[pid].plan
        /\ helpers' = [helpers EXCEPT ![pid].at = "switched",
                                     ![pid].backup = hostConfig]
     \/ /\ ~files \/ hostConfig = NoConfig
        /\ Moves(pid, "failed")
        /\ UNCHANGED hostConfig
  /\ UNCHANGED <<marker, files, active, faults>>

ApplyFinishes(pid) ==
  /\ Runs(pid, "apply", "switched")
  /\ Moves(pid, "ok")
  /\ UNCHANGED <<runtime, faults>>

\* A service that outlived its files goes on.
ApplyRestartFails(pid) ==
  /\ Runs(pid, "apply", "switched")
  /\ active
  /\ \/ active' = FALSE /\ CountFault("helper_failure")
     \/ ~files /\ UNCHANGED <<active, faults>>
  /\ Moves(pid, "stalled")
  /\ UNCHANGED <<marker, files, hostConfig>>

\* Whether the service comes up with the old file is not looked at.
ApplyRollsBack(pid) ==
  /\ Runs(pid, "apply", "stalled")
  /\ hostConfig' = helpers[pid].backup
  /\ active' \in BOOLEAN
  /\ Moves(pid, "failed")
  /\ UNCHANGED <<marker, files, faults>>

(***************************************************************************)
(* uninstall: nothing to do without the marker; otherwise the service is   *)
(* stopped, then the unit and the binary go, the directory with the        *)
(* configuration and the marker last.  That systemctl could not stop the   *)
(* service is not looked at.                                               *)
(***************************************************************************)

\* Mutant: the unit is disabled, the service goes on.
UninstallDisables(pid) ==
  /\ Runs(pid, "uninstall", "started")
  /\ Moves(pid, IF marker THEN "stopped" ELSE "ok")
  /\ UNCHANGED <<runtime, faults>>

UninstallStops(pid) ==
  /\ Runs(pid, "uninstall", "started")
  /\ \/ marker /\ active' = FALSE /\ Moves(pid, "stopped") /\ UNCHANGED faults
     \/ /\ marker /\ Moves(pid, "stopped")
        /\ CountFault("stop_failure")
        /\ UNCHANGED active
     \/ ~marker /\ Moves(pid, "ok") /\ UNCHANGED <<active, faults>>
  /\ UNCHANGED <<marker, files, hostConfig>>

UninstallRemovesFiles(pid) ==
  /\ Runs(pid, "uninstall", "stopped")
  /\ files' = FALSE
  /\ Moves(pid, "half")
  /\ UNCHANGED <<marker, active, hostConfig, faults>>

UninstallFinishes(pid) ==
  /\ Runs(pid, "uninstall", "half")
  /\ marker' = FALSE
  /\ hostConfig' = NoConfig
  /\ Moves(pid, "ok")
  /\ UNCHANGED <<files, active, faults>>

\* systemctl start and stop fail for a unit that does not exist, but for the
\* stop of a service that still runs; a service without its configuration does
\* not stay up.
ServiceCommand(pid) ==
  /\ \/ /\ Runs(pid, "start", "started")
        /\ active' = (active \/ (files /\ hostConfig # NoConfig))
        /\ Moves(pid, IF files THEN "ok" ELSE "failed")
     \/ /\ Runs(pid, "stop", "started")
        /\ active' = FALSE
        /\ Moves(pid, IF files \/ active THEN "ok" ELSE "failed")
  /\ UNCHANGED <<marker, files, hostConfig, faults>>

\* A step of an uninstall beside another run, or of another run beside it.
Disturbs(pid) ==
  \E other \in DOMAIN helpers \ {pid} :
    /\ Alive(other)
    /\ "uninstall" \in {helpers[pid].command, helpers[other].command}

RunStep(pid) ==
  \/ InstallMarks(pid) \/ InstallConfigures(pid) \/ InstallPlaces(pid)
  \/ InstallRestarts(pid) \/ InstallFinishes(pid)
  \/ ApplyStarts(pid) \/ ApplySwitches(pid) \/ ApplyFinishes(pid)
  \/ ApplyRestartFails(pid) \/ ApplyRollsBack(pid)
  \/ UninstallStops(pid) \/ UninstallRemovesFiles(pid) \/ UninstallFinishes(pid)
  \/ ServiceCommand(pid)
  \/ HelperFails(pid)

HelperStep(pid) == RunStep(pid) /\ disturbed' = (disturbed \/ Disturbs(pid))

\* The host under any agent: runs of any plan, started and collected at will.
HostNext(plans) ==
  \/ \E command \in Command, plan \in plans :
       Spawn(command, plan) /\ UNCHANGED <<host, faults>>
  \/ \E pid \in DOMAIN helpers :
       \/ HelperStep(pid)
       \/ ~Alive(pid) /\ Collect(pid) /\ UNCHANGED <<host, faults>>

=============================================================================
