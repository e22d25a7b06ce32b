------------------------------ MODULE HelperRun ------------------------------
(***************************************************************************)
(* The root helper (helper.ts) command by command: what install,           *)
(* apply-config and uninstall do to the files and the service of Xray, to  *)
(* the rules of the host firewall, and to the manifest in which the helper *)
(* notes the rules it added, and to the files it keeps for certificates.   *)
(* One run follows another; each may fail or be killed at any step.        *)
(* HostHelper is the abstraction the agent is modelled against, and this   *)
(* module implements it.                                                   *)
(***************************************************************************)
EXTENDS Integers, FiniteSets

CONSTANTS
  Plans,            \* ports of the protocol in the plans: a plan is its port
  HttpPort,         \* the port of the certificate challenge: 80
  NoConfig,         \* model value: no configuration
  Foreigns,         \* what others may have set up before: firewall, rules, files
  MaxRuns,          \* bound: runs of the helper
  MaxFaults,        \* bound: failures and kills
  MaxEdits          \* bound: acts of the administrator

ASSUME PortsAssumption == HttpPort \in Nat /\ Plans \subseteq Nat
ASSUME NoConfigAssumption == NoConfig \notin Plans
ASSUME BoundsAssumption == {MaxRuns, MaxFaults} \subseteq Nat

Ports == Plans \cup {HttpPort}
Managers == {"ufw", "firewalld"}

\* UFW has one list of rules; firewalld has those of the running firewall and
\* those it is loaded from.  `runtimeAdded` and `permanentAdded` of a rule in
\* the manifest are the entries of its port.
Layers(m) == IF m = "ufw" THEN {"ufw"} ELSE {"permanent", "runtime"}
Entries == {"ufw", "permanent", "runtime"} \X Ports

\* The site of the certificate challenge and the hook of renewals.
CertFiles == {"vhost", "hook"}

ASSUME ForeignsAssumption ==
  \A f \in Foreigns :
    /\ f.manager \in Managers
    /\ f.rules \subseteq Layers(f.manager) \X Ports
    /\ f.files \subseteq CertFiles

VARIABLES
  manager,          \* the firewall installed
  enabled,          \* it is active
  foreign,          \* rules of others
  opened,           \* rules the helper made and has not removed
  manifest,         \* firewall-rules.json
  dir,              \* the directory runtimes/xray exists
  marker,           \* and the marker in it
  binary,
  unit,
  config,           \* the plan of config.json
  certificate,      \* none, panel: the panel keeps one, issued: by certbot
  taken,            \* CertFiles that others have put where the helper's go
  owned,            \* CertFiles the helper has written
  serving,          \* the plan the running service was started with
  run,              \* the run of the helper
  runs, faults, edits,
  \* what only properties read
  phase,            \* progress of the run as HostHelper sees it
  failures,         \* runs that failed, as HostHelper counts them
  forgotten,        \* rules lost to a known gap, see NothingForgotten
  contested,        \* rules of others that the manifest lists
  reloaded,         \* firewalld was loaded from its permanent rules
  excused           \* the served port may be closed, see ServedPortIsOpen

firewall == <<manager, enabled, foreign, opened>>
certs == <<certificate, taken, owned>>
files == <<dir, marker, binary, unit, config, certs>>
bounds == <<runs, faults, edits>>
history == <<phase, failures, forgotten, contested, reloaded, excused>>
vars == <<firewall, manifest, files, serving, run, bounds, history>>

NoRun ==
  [command |-> "none", plan |-> NoConfig, at |-> "idle", prior |-> {},
   ports |-> {}, todo |-> {}, backup |-> NoConfig]

Init ==
  /\ \E f \in Foreigns : manager = f.manager /\ foreign = f.rules /\ taken = f.files
  /\ enabled \in {on \in BOOLEAN : on \/ \A e \in foreign : e[1] # "runtime"}
  /\ opened = {}
  /\ manifest = {}
  /\ dir = FALSE
  /\ marker = FALSE
  /\ binary = FALSE
  /\ unit = FALSE
  /\ config = NoConfig
  /\ certificate \in {"none", "panel"}
  /\ owned = {}
  /\ serving = NoConfig
  /\ run = NoRun
  /\ runs = 0
  /\ faults = 0
  /\ edits = 0
  /\ phase = "started"
  /\ failures = 0
  /\ forgotten = {}
  /\ contested = {}
  /\ reloaded = FALSE
  /\ excused = FALSE

-----------------------------------------------------------------------------

At(command, at) == run.command = command /\ run.at = at
Goes(at) == run' = [run EXCEPT !.at = at]
Reaches(progress) ==
  phase' = progress /\ UNCHANGED <<failures, forgotten, contested, reloaded, excused>>

\* Mutant: a port is open when the helper opened it.
IsOpenByUs(e) == e \in opened

IsOpen(e) == e \in opened \cup foreign
Required(plan) == {HttpPort, plan}
Obsolete == {e \in manifest : e[2] \notin Required(run.plan)}

\* Mutant: the manifests are compared by port.
AddedByPort == {e \in manifest : e[2] \notin {x[2] : x \in run.prior}}

\* What the manifest gained since the run began, by rule and by layer.
Added == manifest \ run.prior

Begin(command, plan) ==
  /\ run.at = "idle"
  /\ runs < MaxRuns
  /\ runs' = runs + 1
  /\ run' = [NoRun EXCEPT !.command = command, !.plan = plan, !.at = "started"]
  /\ Reaches("started")
  /\ UNCHANGED <<firewall, manifest, files, serving, faults, edits>>

\* The agent saw the exit of the run.
Exit ==
  /\ run.at \in {"ok", "failed"}
  /\ run' = NoRun
  /\ UNCHANGED <<firewall, manifest, files, serving, bounds, history>>

(***************************************************************************)
(* The firewall.                                                           *)
(***************************************************************************)

\* Without an active firewall there is nothing to open.
FindManager ==
  /\ run.at = "ensuring"
  /\ run' = [run EXCEPT !.at = IF enabled THEN "examining" ELSE "certifying",
                        !.ports = Required(run.plan)]
  /\ excused' = (excused \/ ~enabled)
  /\ UNCHANGED <<firewall, manifest, files, serving, bounds,
                 phase, failures, forgotten, contested, reloaded>>

\* Mutant: a rule that is missing in the manifest is left out of it.
AdoptedNever(p) == {}

\* The helper knows its own UFW rules by their comment, and takes one that is
\* missing in the manifest back into it.
Adopted(p) == {e \in opened : e = <<"ufw", p>>}

\* A port that is open already is left to whoever opened it.
Examine(p) ==
  /\ run.at = "examining"
  /\ p \in run.ports
  /\ \A q \in run.ports : p <= q
  /\ LET missing == {e \in Layers(manager) \X {p} : ~IsOpen(e)}
     IN  run' = [run EXCEPT !.at = IF missing = {} THEN "examining" ELSE "opening",
                            !.ports = @ \ {p},
                            !.todo = missing]
  /\ manifest' = manifest \cup Adopted(p)
  /\ forgotten' = forgotten \ Adopted(p)
  /\ UNCHANGED <<firewall, files, serving, bounds, phase, failures, contested, reloaded, excused>>

AllExamined ==
  /\ run.at = "examining"
  /\ run.ports = {}
  /\ Goes("certifying")
  /\ UNCHANGED <<firewall, manifest, files, serving, bounds, history>>

\* firewalld: the permanent rule first.
Next1(entries) == CHOOSE e \in entries : e[1] = "runtime" => entries = {e}

Open ==
  /\ run.at = "opening"
  /\ opened' = opened \cup {Next1(run.todo)}
  /\ Goes("recording")
  /\ UNCHANGED <<manager, enabled, foreign, manifest, files, serving, bounds, history>>

Record ==
  /\ run.at = "recording"
  /\ manifest' = manifest \cup {Next1(run.todo)}
  /\ forgotten' = forgotten \ {Next1(run.todo)}
  /\ LET rest == run.todo \ {Next1(run.todo)}
     IN  run' = [run EXCEPT !.at = IF rest = {} THEN "examining" ELSE "opening",
                            !.todo = rest]
  /\ UNCHANGED <<firewall, files, serving, bounds, phase, failures, contested, reloaded, excused>>

\* removeFirewallRule().  An inactive UFW lists no rules, so none is removed;
\* an inactive firewalld has permanent rules only, which the offline tool
\* removes.  firewalld does not know who opened a port.
Close(e) ==
  /\ run.todo # {}
  /\ e \in run.todo
  /\ e[1] = "permanent" => <<"runtime", e[2]>> \notin run.todo
  /\ run' = [run EXCEPT !.todo = @ \ {e}]
  /\ IF e[1] = "permanent" \/ enabled
     THEN opened' = opened \ {e} /\ UNCHANGED forgotten
     ELSE forgotten' = forgotten \cup (opened \cap {e}) /\ UNCHANGED opened
  /\ foreign' = IF e[1] = "ufw" THEN foreign ELSE foreign \ {e}
  /\ UNCHANGED <<manager, enabled, manifest, files, serving, bounds,
                 phase, failures, contested, reloaded, excused>>

CloseObsolete(e) == run.at = "reconciling" /\ Close(e)
CloseAdded(e) == run.at = "restoring" /\ Close(e)
CloseManaged(e) == run.at = "withdrawing" /\ Close(e)

ReconcileEnds ==
  /\ run.at = "reconciling"
  /\ run.todo = {}
  /\ manifest' = manifest \ Obsolete
  /\ Goes("ok")
  /\ phase' = "ok"
  /\ excused' = (excused /\ ~enabled)
  /\ UNCHANGED <<firewall, files, serving, bounds, failures, forgotten, contested, reloaded>>

RestoreEnds ==
  /\ run.at = "restoring"
  /\ run.todo = {}
  /\ manifest' = run.prior
  /\ Goes("failed")
  /\ UNCHANGED <<firewall, files, serving, bounds, history>>

(***************************************************************************)
(* install.                                                                *)
(***************************************************************************)

\* assertManagedResourceBoundary(), then the directory.  A refusal for a
\* directory without a marker counts as a failure: HostHelper has no
\* directory.
InstallChecks ==
  /\ At("install", "started")
  /\ IF marker \/ ~(dir \/ binary \/ unit)
     THEN dir' = TRUE /\ Goes("marking") /\ UNCHANGED <<phase, failures>>
     ELSE /\ Goes("failed")
          /\ phase' = "failed"
          /\ failures' = failures + 1
          /\ UNCHANGED dir
  /\ UNCHANGED <<firewall, manifest, marker, binary, unit, config, certs, serving, bounds,
                 forgotten, contested, reloaded, excused>>

InstallMarks ==
  /\ run.at = "marking"
  /\ marker' = TRUE
  /\ Goes("fetching")
  /\ Reaches("half")
  /\ UNCHANGED <<firewall, manifest, dir, binary, unit, config, certs, serving, bounds>>

\* The archive from the cache or from a download whose checksum is right.
PlaceBinary ==
  /\ run.at = "fetching"
  /\ binary' = TRUE
  /\ run' = [run EXCEPT !.at = "ensuring", !.prior = manifest]
  /\ UNCHANGED <<firewall, manifest, dir, marker, unit, config, certs, serving, bounds, history>>

\* ensureCertificate(): the certificate of the panel, else the one certbot
\* has issued, else a new one, for which BaoTa may have a site already.
Certified == IF run.command = "install" THEN "configuring" ELSE "switching"

Certify ==
  /\ run.at = "certifying"
  /\ \/ certificate = "panel" /\ Goes(Certified)
     \/ certificate = "issued" /\ Goes("hooking")
     \/ certificate = "none" /\ (Goes("hosting") \/ Goes("issuing"))
  /\ UNCHANGED <<firewall, manifest, files, serving, bounds, history>>

\* A file of others is left alone, and the run fails.
Keep(file, next) ==
  /\ run.at = IF file = "hook" THEN "hooking" ELSE "hosting"
  /\ file \notin taken
  /\ owned' = owned \cup {file}
  /\ Goes(next)
  /\ UNCHANGED <<firewall, manifest, dir, marker, binary, unit, config,
                 certificate, taken, serving, bounds, history>>

PlaceVhost == Keep("vhost", "issuing")
PlaceHook == Keep("hook", Certified)

CertFileTaken ==
  /\ \/ run.at = "hosting" /\ "vhost" \in taken
     \/ run.at = "hooking" /\ "hook" \in taken
  /\ run' = [run EXCEPT !.at = "restoring", !.todo = Added]
  /\ phase' = "failed"
  /\ failures' = failures + 1
  /\ UNCHANGED <<firewall, manifest, files, serving, bounds, forgotten, contested, reloaded, excused>>

Issue ==
  /\ run.at = "issuing"
  /\ certificate' = "issued"
  /\ Goes("hooking")
  /\ UNCHANGED <<firewall, manifest, dir, marker, binary, unit, config,
                 taken, owned, serving, bounds, history>>

Configure ==
  /\ run.at = "configuring"
  /\ config' = run.plan
  /\ Goes("placing")
  /\ Reaches("configured")
  /\ UNCHANGED <<firewall, manifest, dir, marker, binary, unit, certs, serving, bounds>>

PlaceUnit ==
  /\ run.at = "placing"
  /\ unit' = TRUE
  /\ Goes("restarting")
  /\ Reaches("placed")
  /\ UNCHANGED <<firewall, manifest, dir, marker, binary, config, certs, serving, bounds>>

(***************************************************************************)
(* apply-config.                                                           *)
(***************************************************************************)

ApplyChecks ==
  /\ At("apply", "started")
  /\ IF marker /\ config # NoConfig
     THEN /\ run' = [run EXCEPT !.at = "ensuring", !.prior = manifest]
          /\ Reaches("half")
     ELSE Goes("failed") /\ Reaches("failed")
  /\ UNCHANGED <<firewall, manifest, files, serving, bounds>>

\* The candidate passed its test, which takes the binary.
Switch ==
  /\ run.at = "switching"
  /\ binary
  /\ config' = run.plan
  /\ run' = [run EXCEPT !.at = IF serving # NoConfig THEN "restarting" ELSE "reconciling",
                        !.todo = Obsolete,
                        !.backup = config]
  /\ Reaches("switched")
  /\ UNCHANGED <<firewall, manifest, dir, marker, binary, unit, certs, serving, bounds>>

SwitchRefused ==
  /\ run.at = "switching"
  /\ ~binary
  /\ run' = [run EXCEPT !.at = "restoring", !.todo = Added]
  /\ Reaches("failed")
  /\ UNCHANGED <<firewall, manifest, files, serving, bounds>>

Restart ==
  /\ run.at = "restarting"
  /\ unit
  /\ serving' = config
  /\ run' = [run EXCEPT !.at = "reconciling", !.todo = Obsolete]
  /\ Reaches(IF run.command = "install" THEN "running" ELSE phase)
  /\ UNCHANGED <<firewall, manifest, files, bounds>>

CountFault == faults < MaxFaults /\ faults' = faults + 1

\* The configuration in place is not the one the firewall is put back for.
HalfDone ==
  phase \in {"configured", "placed", "running", "switched", "stalled", "stopped"}

\* A service that outlived its unit cannot be restarted, and goes on.
RestartRefused ==
  /\ run.at = "restarting"
  /\ ~unit
  /\ Goes("rollingBack")
  /\ Reaches("stalled")
  /\ UNCHANGED <<firewall, manifest, files, serving, bounds>>

RestartFails ==
  /\ run.at = "restarting"
  /\ unit
  /\ CountFault
  /\ serving' = NoConfig
  /\ failures' = failures + 1
  /\ IF run.command = "install"
     THEN /\ run' = [run EXCEPT !.at = "restoring", !.todo = Added]
          /\ phase' = "failed"
          /\ excused' = TRUE
     ELSE Goes("rollingBack") /\ phase' = "stalled" /\ UNCHANGED excused
  /\ UNCHANGED <<firewall, manifest, files, runs, edits, forgotten, contested, reloaded>>

\* Mutant: the service is restarted without putting the file back.
RollBackWithoutFile ==
  /\ run.at = "rollingBack"
  /\ serving' \in {config, NoConfig}
  /\ run' = [run EXCEPT !.at = "restoring", !.todo = Added]
  /\ Reaches("failed")
  /\ UNCHANGED <<firewall, manifest, files, bounds>>

\* The outcome of the second restart is not looked at.
RollBack ==
  /\ run.at = "rollingBack"
  /\ config' = run.backup
  /\ serving' \in IF unit THEN {run.backup, NoConfig} ELSE {serving}
  /\ run' = [run EXCEPT !.at = "restoring", !.todo = Added]
  /\ Reaches("failed")
  /\ UNCHANGED <<firewall, manifest, dir, marker, binary, unit, certs, bounds>>

(***************************************************************************)
(* uninstall: the directory with the marker goes last, so that a run that  *)
(* was cut short can be repeated.  start and stop.                         *)
(***************************************************************************)

UninstallStops ==
  /\ At("uninstall", "started")
  /\ IF marker
     THEN /\ serving' = NoConfig
          /\ run' = [run EXCEPT !.at = "withdrawing", !.todo = manifest]
          /\ Reaches("stopped")
     ELSE Goes("ok") /\ Reaches("ok") /\ UNCHANGED serving
  /\ UNCHANGED <<firewall, manifest, files, bounds>>

\* systemctl could not stop the service, which is not looked at: the rest is
\* removed under it.
StopIgnored ==
  /\ At("uninstall", "started")
  /\ marker
  /\ CountFault
  /\ run' = [run EXCEPT !.at = "withdrawing", !.todo = manifest]
  /\ phase' = "stopped"
  /\ failures' = failures + 1
  /\ excused' = TRUE
  /\ UNCHANGED <<firewall, manifest, files, serving, runs, edits, forgotten, contested, reloaded>>

WithdrawEnds ==
  /\ run.at = "withdrawing"
  /\ run.todo = {}
  /\ manifest' = {}
  /\ Goes("removingUnit")
  /\ UNCHANGED <<firewall, files, serving, bounds, history>>

\* Mutant: the marker goes with the unit.
RemoveUnitAndMarker ==
  /\ run.at = "removingUnit"
  /\ unit' = FALSE
  /\ marker' = FALSE
  /\ Goes("removingBinary")
  /\ Reaches("half")
  /\ UNCHANGED <<firewall, manifest, dir, binary, config, certs, serving, bounds>>

RemoveUnit ==
  /\ run.at = "removingUnit"
  /\ unit' = FALSE
  /\ Goes("removingBinary")
  /\ Reaches("half")
  /\ UNCHANGED <<firewall, manifest, dir, marker, binary, config, certs, serving, bounds>>

RemoveBinary ==
  /\ run.at = "removingBinary"
  /\ binary' = FALSE
  /\ Goes("removingCertFiles")
  /\ UNCHANGED <<firewall, manifest, dir, marker, unit, config, certs, serving, bounds, history>>

\* The certificate itself stays.
RemoveCertFile(file) ==
  /\ run.at = "removingCertFiles"
  /\ file \in owned
  /\ file = "vhost" => "hook" \notin owned
  /\ owned' = owned \ {file}
  /\ UNCHANGED <<firewall, manifest, dir, marker, binary, unit, config,
                 certificate, taken, serving, run, bounds, history>>

RemoveDirectory ==
  /\ run.at = "removingCertFiles"
  /\ owned = {}
  /\ dir' = FALSE
  /\ marker' = FALSE
  /\ config' = NoConfig
  /\ manifest' = {}
  /\ Goes("ok")
  /\ Reaches("ok")
  /\ UNCHANGED <<firewall, binary, unit, certs, serving, bounds>>

\* A service that runs can be stopped though its unit is gone.
ServiceCommand ==
  /\ run.command \in {"start", "stop"}
  /\ run.at = "started"
  /\ LET possible == (binary /\ unit) \/ (run.command = "stop" /\ serving # NoConfig)
         done == IF possible THEN "ok" ELSE "failed"
     IN  Goes(done) /\ Reaches(done)
  /\ serving' = IF run.command = "stop" THEN NoConfig
                ELSE IF ~(binary /\ unit) \/ serving # NoConfig THEN serving
                ELSE config
  /\ UNCHANGED <<firewall, manifest, files, bounds>>

(***************************************************************************)
(* Failures, kills, and the administrator.                                 *)
(***************************************************************************)

Guarded ==
  {"ensuring", "examining", "opening", "recording", "certifying", "hosting", "issuing",
   "hooking", "configuring", "placing", "switching", "restarting", "rollingBack",
   "reconciling"}

Working ==
  Guarded \cup {"started", "marking", "fetching", "restoring",
                "withdrawing", "removingUnit", "removingBinary", "removingCertFiles"}

\* A rule whose command was carried out and that is not in the manifest yet.
Unrecorded == IF run.at = "recording" THEN {Next1(run.todo)} ELSE {}

Ends(at, todo) ==
  /\ CountFault
  /\ run' = [run EXCEPT !.at = at, !.todo = todo]
  /\ phase' = "failed"
  /\ failures' = IF phase = "failed" THEN failures ELSE failures + 1
  /\ forgotten' = forgotten \cup Unrecorded
  /\ UNCHANGED <<firewall, manifest, files, serving, runs, edits, contested, reloaded>>

\* A command or a write fails, other than that the service does not come up.
\* The catch clauses of install and apply-config put the firewall back to
\* where it was; an uninstall, or a failure while putting back, ends there.
Fails ==
  /\ \/ run.at \in Guarded /\ Ends("restoring", Added)
     \/ run.at \in Working \ Guarded /\ Ends("failed", {})
  /\ excused' = (excused \/ HalfDone)

Killed ==
  /\ run.at \in Working
  /\ Ends("failed", {})
  /\ excused' = (excused \/ phase = "stopped")

\* firewalld is loaded from its permanent rules.
Loaded(rules) ==
  {e \in rules : e[1] # "runtime"}
    \cup {<<"runtime", e[2]>> : e \in {x \in rules : x[1] = "permanent"}}

Reloads ==
  /\ opened' = Loaded(opened)
  /\ foreign' = Loaded(foreign)
  /\ forgotten' = forgotten \cup {e \in opened' \ manifest : e[1] = "runtime"}
  /\ reloaded' = TRUE

AdminActs ==
  /\ run.at = "idle"
  /\ edits < MaxEdits
  /\ edits' = edits + 1
  /\ UNCHANGED <<manager, manifest, files, serving, run, runs, faults,
                 phase, failures, excused>>

\* Others open a port that is closed.
AdminOpens(e) ==
  /\ AdminActs
  /\ e[1] \in Layers(manager)
  /\ e[1] = "runtime" => enabled
  /\ ~IsOpen(e)
  /\ foreign' = foreign \cup {e}
  /\ contested' = contested \cup ({e} \cap manifest)
  /\ UNCHANGED <<enabled, opened, forgotten, reloaded>>

AdminReloads ==
  /\ AdminActs
  /\ manager = "firewalld"
  /\ enabled
  /\ Reloads
  /\ UNCHANGED <<enabled, contested>>

\* Between runs, the firewall is switched on or off.
AdminSwitches ==
  /\ AdminActs
  /\ enabled' = ~enabled
  /\ UNCHANGED contested
  /\ CASE manager = "ufw" -> UNCHANGED <<opened, foreign, forgotten, reloaded>>
       [] enabled' -> Reloads
       [] OTHER -> /\ opened' = {e \in opened : e[1] # "runtime"}
                   /\ foreign' = {e \in foreign : e[1] # "runtime"}
                   /\ reloaded' = TRUE
                   /\ UNCHANGED forgotten

-----------------------------------------------------------------------------

FirewallStep ==
  \/ FindManager \/ AllExamined \/ Open \/ Record
  \/ \E p \in Ports : Examine(p)
  \/ \E e \in Entries : CloseObsolete(e) \/ CloseAdded(e) \/ CloseManaged(e)
  \/ ReconcileEnds \/ RestoreEnds

InstallStep ==
  InstallChecks \/ InstallMarks \/ PlaceBinary \/ Configure \/ PlaceUnit

CertStep == Certify \/ PlaceVhost \/ CertFileTaken \/ Issue \/ PlaceHook

ApplyStep ==
  \/ ApplyChecks \/ Switch \/ SwitchRefused
  \/ Restart \/ RestartRefused \/ RestartFails \/ RollBack

UninstallStep ==
  \/ UninstallStops \/ StopIgnored \/ WithdrawEnds \/ RemoveUnit \/ RemoveBinary \/ RemoveDirectory
  \/ \E file \in CertFiles : RemoveCertFile(file)

Next ==
  \/ \E plan \in Plans : Begin("install", plan) \/ Begin("apply", plan)
  \/ \E command \in {"uninstall", "start", "stop"} : Begin(command, NoConfig)
  \/ FirewallStep \/ CertStep \/ InstallStep \/ ApplyStep \/ UninstallStep \/ ServiceCommand
  \/ Fails \/ Killed \/ Exit
  \/ AdminReloads \/ AdminSwitches \/ \E e \in Entries : AdminOpens(e)

Spec == Init /\ [][Next]_vars

-----------------------------------------------------------------------------
(***************************************************************************)
(* Properties.                                                             *)
(***************************************************************************)

\* Every variable keeps to its type, and a rule has one owner.
TypeOK ==
  /\ manager \in Managers
  /\ {enabled, dir, marker, binary, unit, reloaded, excused} \subseteq BOOLEAN
  /\ {foreign, opened, manifest, forgotten, contested} \subseteq SUBSET Entries
  /\ foreign \cap opened = {}
  /\ {config, serving} \subseteq Plans \cup {NoConfig}
  /\ certificate \in {"none", "panel", "issued"}
  /\ owned \subseteq CertFiles \ taken
  /\ run \in [command : {"none", "install", "apply", "uninstall", "start", "stop"},
              plan : Plans \cup {NoConfig}, at : Working \cup {"idle", "ok", "failed"},
              prior : SUBSET Entries, ports : SUBSET Ports, todo : SUBSET Entries,
              backup : Plans \cup {NoConfig}]
  /\ {runs, faults, edits, failures} \subseteq Nat

\* The helper never removes a rule that others made, before it or between two
\* runs, although firewalld keeps no owner: what is in the manifest was not
\* open before.  After a reload of firewalld the running rules are copies of
\* the permanent ones, and one the helper had added to the running firewall
\* only may be another's since.  And the manifest may list a rule the helper
\* has closed already, when it failed at putting it back (helper.ts:285).
ForeignRulesStay ==
  [][\A e \in foreign \ foreign' :
       e \in contested \/ (e[1] = "runtime" /\ reloaded')]_vars

\* Between runs every rule the helper made is in the manifest, whatever failed
\* and was put back before, and after an uninstall none is left, nor any file.
\* Lost are a rule whose run ended between the command and the manifest
\* (helper.ts:634), a UFW rule removed while UFW is inactive, and a running
\* rule that firewalld copied from a permanent one when it was reloaded.
NothingForgotten ==
  /\ run.at = "idle" => opened \ forgotten \subseteq manifest
  /\ At("uninstall", "ok") => opened \subseteq forgotten /\ owned = {} /\ ~(binary \/ unit)

\* Where the helper can tell its rules from those of others (UFW), the next
\* install or reconfiguration for the same port heals the first of these gaps:
\* when it ends well, every rule the helper ever made for its ports is in the
\* manifest, so that a later uninstall closes it.
InterruptedRuleIsAdopted ==
  /\ run.at = "ok" /\ run.command \in {"install", "apply"}
  /\ manager = "ufw" /\ enabled
  => {e \in opened : e[2] \in Required(run.plan)} \subseteq manifest

\* While the service runs, the port it serves is open, at every step of every
\* run and after every kill: a port is opened before the service is switched
\* to it and closed after the service has left it.  Excused, until the next
\* run that succeeds, are a run that found the firewall inactive, one that
\* failed after it had put its configuration in place and whose ports were
\* closed again (helper.ts:216, helper.ts:285), an uninstall cut short, and one
\* that could not stop the service.
EffectiveLayer == IF manager = "ufw" THEN "ufw" ELSE "runtime"

ServedPortIsOpen ==
  enabled /\ serving # NoConfig /\ ~excused => IsOpen(<<EffectiveLayer, serving>>)

\* The runs of HostHelper, of which the agent is modelled to start one.
Host == INSTANCE HostHelper WITH
  Faults <- {"helper_failure", "late_failure", "cleanup_failure", "stop_failure"},
  MaxFaults <- MaxFaults + MaxRuns,
  files <- binary /\ unit,
  active <- serving # NoConfig,
  hostConfig <- config,
  disturbed <- FALSE,
  helpers <- [pid \in IF run.at = "idle" THEN {} ELSE {1} |->
                [command |-> run.command, plan |-> run.plan, at |-> phase,
                 backup |-> run.backup]],
  faults <- failures

\* Every step of a run is a step of HostHelper or none.
ImplementsHostHelper ==
  Host!HostInit /\ [][Host!HostNext(Plans \cup {NoConfig})]_(Host!hostVars)

=============================================================================
