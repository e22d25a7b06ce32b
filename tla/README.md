# TLA+ models of the Eagleway node agent

The agent is one Node.js process (NestJS, PM2, single instance) on a proxy
node. A central service asks it over HTTP to install, reconfigure, start, stop
and uninstall Xray and to set the users Xray serves; the agent keeps what it
needs in SQLite, runs a root helper for every change of the host, talks gRPC to
Xray, reports traffic and rotates the logs of Xray.

This directory holds TLA+ modules of the parts of that program in which
interleaving, failure and restart decide whether it is correct, TLC
configurations that check them on small instances, and proofs for TLAPS.

## 1. The system

| Component (under `src/src/`) | State it keeps | Operations | Hard behaviour |
|---|---|---|---|
| `operations/operation-coordinator` | memory: `running`; table `operations` | `start`, `execute`, `onApplicationBootstrap` | two locks (memory, table), crash between any two writes, recovery by `status` |
| `state/*` | SQLite: `operations`, `managed_users`, `report_state`, `owned_resources`, `agent_meta` | one statement per call, few transactions | handlers that need several writes can be cut short |
| `protocols/xray/xray.service` | none of its own | `install`, `applyConfig`, `uninstall`, `start`, `stop`, `status` | every request reads, awaits and acts on what it read |
| `protocols/xray/xray-provisioning` | meta `xray.protocol`, `owned_resources` | helper runs and the records around them | helper failure, cleanup, partial records |
| `protocols/xray/xray-assignments` | `managed_users`, meta `*.requiresUserSync`, memory: `serial` | `sync`, `add`, `remove`, restore at start-up and after `start` | per-user gRPC calls that fail or whose answer is lost; Xray forgets its users when it restarts |
| `helper.ts` (root) | the host: marker, binary, unit, `config.json`, firewall rules and their manifest, certificate, site and hook | `xray-install`, `xray-apply-config`, `xray-uninstall`, `xray-start`, `xray-stop` | fails or is killed half-way; is detached from the agent and outlives it; the firewall belongs to others too |
| `host/process-runner`, `host/privileged-helper` | the child processes | `run` | time-out, output limit, exit |
| `protocols/xray/xray.client`, `protobuf` | none | gRPC and systemctl queries | deadlines, varint boundaries |
| `logs/log-rotation` | memory: `pending`, timers, `retryNeeded`, `cleanedDate`; meta cursor per log; archives | `trigger`, `rotateAndClean`, shutdown hook | Xray appends meanwhile; crash between archive and truncate; ticks while pending |
| `logs/log-reader` | none | pages of a log, newest first | lines across chunk boundaries; the file is appended to and truncated while it is read |
| `reporting/traffic-reporter` | memory: `running`, back-off; `report_state` | `trigger` | snapshot of four calls, clock, retry |
| `host/host-inspector`, `config`, `security`, `common`, `health`, controllers | none | validation, checks, formatting | – |
| `host/artifact-downloader` | the cache of archives, temporary files | `download`: cached, or fetched in at most three attempts | kills and power loss around the rename; what each attempt leaves |

Interaction: the controllers call `XrayService`. A request that changes the
host goes through `OperationCoordinatorService.start()`, which answers at once
and runs a handler; the handler awaits a helper run and then writes records.
`start` and `stop` run the helper without an operation, and so does the cleanup
of a partial install that `install` starts before its checks. User requests are
chained on one promise in `XrayAssignmentsService`, which is also where
`start`, a finished reconfiguration and the bootstrap restore the users.
`status` reads the operations table and repairs it when an interrupted
operation turns out to have reached its goal. Everything shares one event loop:
what runs between two awaits is atomic against the rest of the agent, but not
against a kill, a helper, Xray or systemd.

What makes each part correct, in short: host changes exclude each other and
every accepted operation is settled for good (coordinator); the records describe
the host when nothing is in progress, and revisions only grow (lifecycle); the
table, Xray and the flag `requiresUserSync` agree once the queue is empty, and a
confirmed removal stays removed (assignments); no log entry is lost or archived
twice and every day is rotated (log rotation); `reportedAt` strictly grows and
counters add up within one epoch of Xray (reporter); the helper removes every
firewall rule it made and none that others made, and the port of the running
service stays open (helper); a page is exactly the lines it stands for (reader);
the service is only started with the binary of the pinned release (downloader).

## 2. Modules

| Module | Models | Extends / instances |
|---|---|---|
| `OperationLedger` | abstract promise of the coordinator: outcomes per operation | – |
| `Operations` | `operation-coordinator.service.ts`, the `operations` table, the recovery in `XrayService.status` | refines `OperationLedger` |
| `HostHelper` | a run of `helper.ts` as the agent sees it: marker, files, service, configuration | – |
| `HelperRun` | `helper.ts` step by step: the files, the firewall rules, their manifest, the certificate files | refines `HostHelper` |
| `Lifecycle` | `xray.service.ts`, `xray-provisioning.service.ts` | extends `HostHelper`, instances `Operations` |
| `Assignments` | `xray-assignments.service.ts`, the calls of `xray.client.ts` it makes | – |
| `LogRotation` | `log-rotation.service.ts` | – |
| `TrafficReports` | `traffic-reporter.service.ts`, `nextReportedAt`, the snapshot of `traffic()` | – |
| `Artifact` | `artifact-downloader.ts` and how `helper.ts` gets from the archive to the binary | – |
| `LogReader` | `readNewestLines` of `log-reader.service.ts` | – |
| `Protobuf` | `protobuf.ts` | – |
| `OperationsProofs`, `LifecycleProofs`, `AssignmentsProofs`, `HelperRunProofs`, `LogRotationProofs`, `TrafficReportsProofs`, `ArtifactProofs` | theorems about the module of that name | extend it and `TLAPS` |
| `ReaderProofs` | theorems about the two modules that read bytes | extends `LogReader`, `Protobuf` and `TLAPS` |
| `MCParts` | instance for TLC of `Artifact`, `LogReader` and `Protobuf` side by side | extends the three |
| other `MC*` | instances for TLC | extend the module of the same name |

Definitions whose comment begins with "Mutant:" are wrong variants of the
definition that follows them. Nothing uses them; they are there to be put in the
place of the original, and each makes the property it is listed with in
`PROJECT.json` fail.

### Operations

`up` and `running` are the process and the mutex, `operations` the rows in the
order of `started_at`, `starting` an operation inside the one synchronous turn
of `start()`, `awaiting` the handlers whose promise is pending, `observing` the
row a status request has read and may update. `Accept` is `start()` up to the
call of `execute`, `Begin` the rest of that turn (first stage, handler up to its
first await): they are two steps because a kill can fall between the two
writes, and no other code of the agent runs in between (`starting = {}` guards
everything else but `Crash`). `Succeed` and `Fail` are the two ends of
`execute` with its `finally`; `Fail` also covers a handler that throws inside
`start()`'s turn. `Crash` covers a kill as well as the unhandled rejection when
the update in the catch block throws. `Bootstrap` is `onApplicationBootstrap`.
`Observe`, `Recover` and `Decline` are `status` before and after its await.
A request that joins a matching operation or is refused changes no state and is
a stutter. Only the key `'xray'` is ever passed as protocol, so the model has
one mutex. Row order stands for `started_at`; two rows never share one, as a row
is created only after its predecessor was settled and the helper was run, and
the clock is assumed not to step back across operations.

### HostHelper and Lifecycle

A run of the helper is a process in `helpers` with its command, its plan and
its progress; several may be alive. The host is four variables: the marker, the
files (binary and unit together), the service, and what `config.json` was
generated from. An install goes from the marker to the configuration, the files
and the restart; an apply switches the file, restarts and rolls back if that
fails; an uninstall stops the service, then removes the files, then the marker
and the configuration. A run can end before any of these steps. The kinds of
failure say when: `helper_failure` before the new configuration is written,
`late_failure` after that (the firewall reconciliation, or the time-out of
`ProcessRunner`, which reports a failure whatever the exit code),
`cleanup_failure` in an uninstall. `stop_failure` is different: an uninstall
does not ask whether `systemctl disable --now` succeeded (`helper.ts:292`), so it
goes on under a service that still runs. The history `disturbed` remembers that
an uninstall was alive beside another run.

`callers` holds the requests that are awaiting. A request is `checked` after its
checks and before `start()`, `cleaning` while `cleanupPartialInstall` runs, and
`service` while `start` or `stop` waits. `Submit` acts on what was read earlier
and reads nothing again, as the code does. `jobs` holds the handlers and the
run each waits for. `CleanUp` is `cleanupFailedInstall`. At the end of a handler
several SQLite writes follow each other; `PartlyRecorded` is what can have been
written when they are cut short. `TornWrite` is a death between them,
`WriteFails` a write that throws: that of the plan before the helper is spawned,
one of a record after the helper succeeded, or that of the row. The operation
then fails and the agent lives on. If the update in the catch block of `execute`
throws as well, the rejection is unhandled and ends the process, which is
`Crash`. An agent that dies leaves its helpers alive.

Abstractions: an input is protocol, revision and payload, `ConfigHash` drops
the revision; preflight passes (`Submit`) or fails (`Decline`); `Operations` is
used as it is, through its actions, so its locks are the real ones. The user
rows and flags that `uninstall` and `applyConfig` also write belong to the
composition with `Assignments` that is planned. `status` hides a failed
operation once a later `start` or `stop` has succeeded (`controlSuccessAt`,
`xray.service.ts:262`); this is presentation and changes no row.

### Assignments

One handler (`job`) is at the head of the chain, later ones wait in `queue`. A
handler lists Xray's users, works through the users of the request one by one,
and, when it reconciles, removes the surplus, deletes the rows that are not
wanted and clears the flag. These last writes follow each other without an await:
nothing of the agent can see them half done, but one that throws (`FinishFails`),
a crash and a reboot leave any part of the rows deleted and the flag as it was.
`Take` may refuse a sync, add or remove at any time: `assertRuntimeMutable` does
so when Xray is not active, when nothing is installed and while an operation of
the lifecycle is active, and the last two belong to other modules. `StartRuntime`
is possible while Xray runs; then only the restore follows. A gRPC call is sent,
served or expired, and handled in separate steps. `view` is the list the handler got
and updates itself; Xray
may have changed since. `restore` is the handler chained by `start`, `boot` the
one of the bootstrap, which gives up silently when Xray is not active. The
histories `revoked`, `told`, `blind` and `doubtful` only serve properties. A
call that is served after its deadline has passed is not modelled: Xray answers
on the loopback interface, within the ten second deadline or not at all.

### LogRotation

A run of `rotateAndClean` goes through the files by its steps between awaits:
skip or copy, publish the copy under the first free name of the date, truncate,
record the cursor, then clean the archives. Days are numbers; an entry of a log
is a number Xray appends at any time. The temporary copy is visible to nobody
and is removed by the next run, so it is part of `run`. `io_error` lets a step
of a file throw (`FileFails`, caught per file), the read of the cursor
(`ReadFails`, outside the `try`, so that the other file and the cleaning are left
out), or the cleaning, after some of the archives were removed. A crash leaves
the cleaning half done, too. `long_run` lets midnight fall into a run.

### TrafficReports

`runs` holds the invocations of `trigger()`: `checking` while `isActive()` is
awaited, `collecting` while the calls of the snapshot are, `posting` while the
center is. There is room for two so that an overlap would be seen. Time passes
in units of the back-off; `sinceTick` is the interval timer, which follows real
time, while `clock` is the wall clock that the back-off and `reportedAt` read and
that can be set back. `Return` is the `finally` block. `AcceptedUnrecorded` is
`markReportSuccess` throwing after memory was reset: the report counts as failed.
`markReportFailure` throwing rejects a promise nobody awaits, which ends the
process like `AgentCrash`. A traffic query shares only the row of `reportedAt`
with the reporter (`Query`). Of the four calls, `userTraffic` and `invocationId`
read state that a restart of Xray changes and are separate steps. Assumed: within
an epoch a counter never goes back. `node-api-contract.md` says that a sync keeps
the counters of users it need not replace; that to replace a user (remove and add
again) resets them, as this suggests, is not modelled here. Who is listed
changes at any time, so `Post` takes any set; the number of users online and the
columns of `report_state` that no code reads are left out.

### HelperRun

One run of `helper.ts` follows another. `run` is the run, its step `at` the place
in the code between two commands or writes; `prior` is the manifest read when
the firewall work began, `ports` and `todo` what is left to examine and to open
or close, `backup` the configuration an apply replaced. Rules are pairs of a
layer and a port: UFW has one layer, firewalld the running and the permanent
rules. `opened` are the rules the helper made, `foreign` those of others; the
code can tell them apart only by `manifest` (`firewall-rules.json`) and, for UFW,
by the comment of a rule. `ensureFirewall` goes through the ports in order
(`Examine`), opens what is missing rule by rule and writes the manifest after
each (`Open`, `Record`); `reconcileFirewall`, the restore of the catch clauses
and the withdrawal of an uninstall close rules (`CloseObsolete`, `CloseAdded`,
`CloseManaged`) and write the manifest at their end. `certificate`, `taken` and
`owned` are the certificate, the files of others where the site and the hook
belong, and those the helper wrote. `Fails` is a command or write that throws and
runs the catch clause, also between the switch, the restart and the rollback of an
apply; `RestartFails` is a service that does not come up, `RestartRefused` one that
outlived its unit, and `StopIgnored` one that an uninstall could not stop and
removes the rest under. `Killed` is a run that is cut off at any step; the
administrator may open a port, reload firewalld or switch the firewall between
two runs.

`ImplementsHostHelper` maps a run to the single helper process of `HostHelper`:
`phase` is its progress, `failures` its count of failures, `binary /\ unit` its
`files`. `forgotten`, `contested`, `reloaded` and `excused` record the gaps that
the properties except, and nothing else reads them.

Assumed: removing the directory in an uninstall is one step (`RemoveDirectory`). The
code calls one recursive `rmSync` (`helper.ts:335`); a kill within it can leave the
directory without its marker, which later runs refuse like the directory of
`helper.ts:156`. Further, firewalld has one zone, and BaoTa may or may not have a site
for the domain already.

### Artifact

A run of the download and of what `install` does with the archive: `archive` is
the file in the cache, `temporaries` are the files beside it, each named anew, `extract`
and `binary` what the extraction and the copy left. A failed attempt keeps its
temporary file during the delay before the next one (`retrying`), since the
`finally` clause runs after it. The status of the first `unzip` is not asked for,
so what it extracts may be torn; the copy writes in place. Both are caught by
the test run before the service is started, for which it is assumed that half a
binary does not run. The archive is renamed without a sync, so a loss of power
can leave something else under its name (`PowerLoss`). One helper runs at a time;
two that share the directory of the extraction are a consequence of
`lifecycle_orphan`.

### LogReader and Protobuf

`LogReader` reads a file backwards, chunk by chunk; each `readSync` is a step and
may return fewer bytes than asked for, and between two of them Xray appends to
the file or the rotation truncates it. `pending` is the end of a line whose
beginning is in an earlier chunk. The sizes of a chunk and of a line are
parameters, and a byte is a carriage return, a line feed or a letter.

`Protobuf` encodes a message of varint, length-delimited and fixed fields and
reads it, or its beginning, field by field. A varint is a row of groups whose
size and number are parameters; `Weight` is the shift of a group. `CodecSizes` says
what is assumed of the parameters: a number of a field or a value has no more
groups than the reader accepts, and a fixed width belongs to a wire type of its
own. In the code a tenth byte may carry more bits
than a 64-bit counter has; the reader accepts it, and Xray never sends it.

## 3. Runs

| Run | Question | Bounds | Result |
|---|---|---|---|
| `operations` | locks, recovery, finality, refinement, settling, no deadlock | 2 inputs, 2 polls, 3 operations | holds |
| `assignments` | table, Xray and flag agree; revocation; the queue never stalls | 2 users, 2 credentials, 3 requests, 1 waiting, 2 faults of 6 kinds | holds |
| `assignments_reboot` | users come back after a reboot | 1 reboot | violated |
| `assignments_lost_reply` | a changed credential is replaced | 1 lost answer | violated |
| `lifecycle` | records describe the host, helpers exclude each other | 3 inputs, 2 callers, 3 operations, 2 faults | holds |
| `lifecycle_crashes` | waiters are served and can go on, requests answered, operations settled, divergence reported | 2 inputs, 1 caller, 2 operations, 2 faults of 7 kinds | holds |
| `lifecycle_revision` | the recorded revision never goes back | no fault, 2 operations | violated |
| `lifecycle_orphan` | helpers exclude each other across a crash | 1 crash | violated |
| `helper_run` | rules of others stay, own ones are not forgotten or are taken back, the served port is open; `HostHelper` is implemented | 2 plans, UFW and firewalld, 3 runs, 2 faults, 1 act of the administrator | holds |
| `parts` | a page is exact, a message survives, only the release starts, downloads end clean | file of 6 bytes, chunk 2, line 3, 2 edits; 2 fields of up to 3 groups; 3 runs, 3 attempts, 2 faults | holds |
| `log_rotation` | nothing lost or doubled, every day rotated | 3 days, 2 files, 2 entries, 2 faults | holds |
| `traffic_reports` | one report at a time, in order, adding up, back-off bounded | 1 user, 2 triggers, interval 2, clock up to 6, 2 starts of Xray, 2 faults of 5 kinds | holds |

What the passing runs check, by name (`TypeOK` is the type invariant where listed):

- `operations`: `SingleActive`, one active row and one handler at most;
  `LocksAgree`; `RecoversInterruptedOnly`, `SettledStays`; `ImplementsLedger`, the
  refinement of `OperationLedger`; `AcceptedSettles`, every accepted operation ends.
- `assignments`: `TypeOK`; `RevokedNotServed`, `UnflaggedMeansServed`,
  `UnflaggedMeansCurrent`; `NeverStalls`; `SyncInstallsDesired`, a sync that ends with the
  flag cleared left exactly the rows asked for; `RowOutlivesAccess`, a row goes only after
  Xray stopped serving the user; `UnchangedKeepsCounters`, a sync takes no
  unchanged user away from Xray, which would reset the traffic counters.
- `lifecycle`: `HelpersExclusive`, `InstalledAsRecorded`,
  `RecordedIsInstalled`, `UninstallIsClean`.
- `lifecycle_crashes`: `WaitsAreServed`, an active row of a running agent has
  its handler and nobody waits for the helper run of another; `StepsEnabled`,
  whoever waits has a step of the platform enabled; `DivergenceIsReported`, where
  host and records differ the latest operation is reported as failed;
  `RequestsAnswered`, every request gets an answer or is forgotten in a crash;
  `OperationsSettle`, no operation stays in progress.
- `helper_run`: `NothingForgotten`, `InterruptedRuleIsAdopted`, `ServedPortIsOpen`,
  `ForeignRulesStay`,
  `ImplementsHostHelper`.
- `parts`: `PagesAreExact`, `MessagesSurvive`, `OnlyTheReleaseStarts`,
  `DownloadsEndClean`.
- `log_rotation`: `NothingLost`; `DuplicatesOnlyWhenTorn`, an entry is in
  two files only after a run cut between copy and truncate; `RestsOnlyWhenRotated`;
  `RotationCatchesUp`, every log is rotated for the last day in the end.
- `traffic_reports`: `RunningIsHeld`, the reporter's `running` is set exactly while
  one report is between its checks and its `finally`;
  `BackoffSkipsOneTick`; `PostsInOrder`, `reportedAt` grows strictly with each post;
  `ReportsAccumulate`.

Why the bounds suffice: an operation interferes with the one before and the one
after it, so three operations show every pair and one operation after it; two
callers give every pair of overlapping requests, and no handler looks at more
than one other request. Two users give a request that changes one and not the
other, and a user to be removed beside one to be kept; two credentials give a
change and a change back, for which three requests are needed (set, change,
change back). Two faults give a fault during the recovery from another one.
Three days give a missed day and the day after, with a retention of one day the
expiry of an archive. Six units of time give three ticks of a reporter with an
interval of two, hence a failed report, a refused tick and a retry, with a
second failure or a set-back clock on the way. Three runs of the helper are an
install, a change of the port and what follows it, each of which can fail and
have its cleanup fail too. Six bytes in chunks of two are three chunks, so that a
line can begin in one, fill the next and end in the third, and lines of three
bytes are cut across a border. Where a run declares symmetry, the permuted values are
compared for equality only and the run has no liveness property; runs with
liveness declare none. `CHECK_DEADLOCK FALSE` is set where the budgets for
requests, runs and faults run out, after which the system rests; `operations` checks
deadlock.

Properties that deserve a word:

- `LocksAgree`: the agent would refuse every operation until its restart if the
  mutex or a row stayed behind; this says it never does.
- `RecoversInterruptedOnly` and `SettledStays`: `status` updates a row it read
  before an await. That is sound only because a row it may pick was settled by
  the bootstrap and no handler can own it any more.
- `RevokedNotServed`: a user whose removal was confirmed is neither in Xray nor
  in the table until requested again, through every fault of the run.
- `UnflaggedMeansServed` excludes Xray restarts nobody noticed (`blind`), and
  `UnflaggedMeansCurrent` users whose addition was served with its answer lost
  (`doubtful`). The unconditional forms are `UsersComeBack` and
  `CredentialsReplaced`, which the code does not meet.
- `InstalledAsRecorded` holds with failing helpers and cleanups. It fails under
  `late_failure`: `applyConfig` of the helper reconciles the firewall after the
  switch and can then restore the firewall only (`helper.ts:283`), so the new
  configuration runs while the old one is recorded. A later apply of another
  payload repairs it; one of the payload that is recorded does not, because it
  is recorded again without asking the host (`xray.service.ts:110`).
- `DivergenceIsReported` is what remains then, and it is checked with
  `late_failure`, `cleanup_failure`, `stop_failure` and `write_failure`: as long as
  the agent does not die, host and records differ only while the latest
  operation is recorded as failed. The center learns of it from the operation;
  in `status` a later `start` or `stop` hides it. The property
  is about an installed runtime. With nothing installed, a second request whose
  cleanup removes what the first one installed makes the same claim false.
- `RecordedIsInstalled` is stated for behaviours without a helper failure.
  Two install requests can both pass `isInstalled()`, and one is then accepted
  over the runtime the other installed; if it fails, it is cleaned up by an
  uninstall, which wipes the working runtime while the records still say
  installed.
- `UninstallIsClean`: marker, protocol and configuration are gone after every
  uninstall that is reported as succeeded, and so are the binary, the unit,
  `config.json` and the running service, unless an uninstall ran beside another
  helper (`disturbed`). There are two ways to that, both in the code: a `start`
  takes no lock, and beside an uninstall it can start the service again after it
  was stopped; and the cleanup an install request waits for can remove the marker
  in the middle of an install, after which an uninstall finds no marker and reports
  success without removing the rest. The property is false if `systemctl disable`
  fails (`stop_failure`), whose result the helper ignores, and if the agent dies
  after the helper removed the runtime and before the records are deleted: then
  `status` reports the interrupted uninstall as succeeded with protocol and
  configuration still recorded. Neither is in the run.
- `HelpersExclusive` leaves out the cleanup an install request starts on its
  own (`xray.service.ts:39`). That one holds no lock and can overlap an
  operation accepted meanwhile.
- `RestsOnlyWhenRotated` holds while no run lasts until midnight. A tick that
  meets a pending run is answered with that run (`log-rotation.service.ts:69`),
  whose date is that of its start, and no retry is set; the new day is rotated at
  the next midnight or restart. Enabling `long_run` shows it.
- `NothingLost` excepts entries appended between the copy and the truncate, a
  loss the source names itself (`log-rotation.service.ts:174`).
- `NeverStalls` says that a waiting request always has a step of the agent or an
  answer of Xray ahead of it (`AlwaysAStep`, in terms of the guards, which is
  proved), and that the step is enabled when its guard holds. Every such step
  leaves less ahead (`HandlersEnd`, proved), so with the platform doing its part
  the queue drains.
- `StepsEnabled` of `Lifecycle` is the half of the liveness properties that is about
  guards: a dead process can restart, a handler or request whose helper run is alive
  has a step of that run enabled, one that waits for nothing more can go on. The
  other half, that these steps lead to the goal, is proved. `Operations` and
  `LogRotation` have a formula of that name as well; there it follows from the guards
  alone, so it is not checked by itself and is only the hypothesis of a theorem.
- `ReportsAccumulate` excepts snapshots during which Xray was started. The four
  calls are not atomic: the counters can be those before the start and the
  `runtimeEpoch` the one after it, and the code has no means to notice.
- `BackoffSkipsOneTick` excepts a wall clock set back, which prolongs the
  back-off by the step (`traffic-reporter.service.ts:50`).
- `ForeignRulesStay`: firewalld keeps no owner of a rule, so the helper must not
  list a port somebody else opened. Excepted are the running rules once
  firewalld has been reloaded, because they are then copies of the permanent
  ones, and rules that others made while the manifest still listed the port
  after a failed restore (`contested`).
- `NothingForgotten` leaves out three known gaps: a run killed between the
  command and the manifest (`helper.ts:634`), a UFW rule removed while UFW is
  inactive, which lists no rules, and a running rule firewalld copied from a
  permanent one.
- `InterruptedRuleIsAdopted` is about the first of these gaps: with UFW, where a rule
  carries the comment of the helper, an install or apply for the same port that ends
  well takes the rule back into the manifest.
- `ServedPortIsOpen` holds at every step of a change of the port, not only
  between runs. Excused until the next success are runs that found the firewall
  inactive, runs that failed after their configuration was in place and whose
  ports were closed again (`helper.ts:216`, `helper.ts:285`), an uninstall cut
  short, and one that could not stop the service.
- `PagesAreExact` excepts a file that was truncated and has grown over the place
  that is being read (`mixed`).
- `OnlyTheReleaseStarts` and `DownloadsEndClean`: whatever is cached, sent, or left
  by a killed run, the service starts with the pinned release only, and the
  temporary files that stay are those of killed runs and failed removals.

Hazards the code has and no passing property catches, because the property that
would be about them excepts them or the run leaves their fault out: the rule made
while the manifest lists its port after a failed restore (`contested`), reloads and
switches of the firewall between runs (`reloaded`), the run over midnight
(`long_run`), the mixed traffic snapshot, and a helper run that never ends, which
fairness excludes. `PROJECT.json` lists them with the reason; a death of the agent
between the helper's success and the records of an uninstall is among the steps of
`lifecycle_crashes`, but no property holds of the records it leaves.

### What the violated runs show

- `assignments_reboot`. After a reboot the agent may bootstrap before
  `eagleway-xray` is active. `onApplicationBootstrap` then returns without
  setting the flag; Xray starts without users, `requiresUserSync` reads false.
  The same happens, without a reboot, when systemd (`Restart=on-failure`) or the
  certificate hook restarts Xray.
- `assignments_lost_reply`. The row holds c1; a change to c2 is served by Xray
  but its answer is lost, so the row stays c1 and the request is reported as
  failed. A sync back to c1 finds the user listed and the row equal, replaces
  nothing and clears the flag: Xray keeps c2.
- `lifecycle_revision`. While a reconfiguration to revision 2 runs, an apply of
  revision 3 with the payload recorded for revision 1 is recorded at once
  without asking the coordinator. The reconfiguration then records revision 2.
- `lifecycle_orphan`. The helper of an interrupted operation is still working
  when the restarted agent accepts the next operation, whose helper runs beside.

## 4. Fairness

Fairness is assumed only of what the platform does by itself: PM2 restarts
the agent (`Bootstrap`, `Restart`); Node runs the continuation of a settled
promise (`Begin`, `Succeed`, `Fail`; `Handler`, `Resume`; `RunStep`) and fires timers;
what is awaited ends, because every helper command has a time-out (`helper.ts`, `run`)
and file operations return. No fairness is assumed of callers, of status requests, of
midnight or of faults, and none of a helper run for which nobody waits any more.
`Assignments`, `TrafficReports`, `HelperRun`, `Artifact`, `LogReader` and `Protobuf`
have no liveness property and no fairness.

It is weak fairness, with one exception. In `Lifecycle` the continuation of a request
(`Resume`) is strongly fair: it is put off, not lost, while another request is inside
the synchronous turn of `start()`, so it is enabled again and again but not
continuously. A queue of settled promises is first in, first out, so none is passed
over for ever. In a model with `MaxOperations` operations weak fairness would do, since
there are only so many turns, and TLC finds `lifecycle_crashes` to hold with it; strong
fairness is what the agent, which has no such bound, needs.
Handlers share one condition, and so do their helper runs: the coordinator lets only
one be active, so nobody starves behind another. Each caller has its own.

Faults are bounded in the runs, which is the assumption that they do not go on for
ever. The theorems about the coordinator and the lifecycle need no such assumption:
a crash settles what it interrupts.

## 5. Proofs

TLAPS checks every theorem for all values of the constants. Each proof module
extends the module it is about, defines the inductive invariant as a conjunction
of named parts, has one lemma per action or group of actions, and combines them
in the last step with PTL.

| Module | Inductive invariant | Theorems | Assumptions |
|---|---|---|---|
| `OperationsProofs` | `IInv`: the three invariants with `TypeOK`, `RowsInOrder` (rows are allocated in order), `DeadForgets` (a dead process holds no lock and no handler) | `MutualExclusion`, `LocksAlwaysAgree`, `RecoverySound`, `SettledIsFinal`, `Refinement`, `AcceptedAlwaysSettles`, `TypeCorrect` | `MaxOperationsAssumption`; `[]StepsEnabled`, for `AcceptedAlwaysSettles` only |
| `LifecycleProofs` | `IInv`: `Coordinated` (that of `Operations`), `HelpersTyped`, `HostTyped`, `JobsMatch`, `CallersMatch`, `ChildrenExist`, `ChildrenDiffer`; for the exclusion also `RunsOwnedBy`; for the records `RunsServe`, `UninstallsWipe`, `RecordsMatch`, `NoneInterrupted`, `LastClean`, `Unfailed`; for liveness `LiveInv` | `UsesTheCoordinator`, `WaitersAlwaysServed`, `OneRunAtATime`, `RecordsDescribeTheHost`, `UninstallLeavesNothing`, `RecordedWhileUnfailed`, `OperationsAlwaysSettle`, `RequestsAlwaysAnswered`, `TypeCorrect` | `InputsAssumption`: no input has the values that stand for none; no death of the agent, for `OneRunAtATime`, `RecordsDescribeTheHost` and `UninstallLeavesNothing`; no `late_failure` and no `write_failure`, for `RecordsDescribeTheHost` only; no `stop_failure`, for `UninstallLeavesNothing` only; `[]StepsEnabled`, for the two about liveness |
| `AssignmentsProofs` | `ViewSound`, `ProcessedSound`, `CredentialsMatch`, `SeenHolds`, `UsersAgree`, `NotRevived`, `CallServed` | `RevokedStayOut`, `FlagIsHonest`, `CredentialsAreCurrent`, `SyncIsExact`, `NoForgottenAccess`, `SyncKeepsUnchanged`, `ChainNeverStalls`, `HandlersEnd`, `TypeCorrect` | a finite set of users, `BoundsAssumption` |
| `HelperRunProofs` | `RunsInOrder`, `OpensTheClosed`, `ListsOwn`, `Books`, `Marks`; `UsedIsKept`, `PlanIsOpen`, `InOrder`; `AsHostSees`, `FilesTogether`, `FailuresCounted` | `OthersKeepTheirRules`, `RulesAreNotForgotten`, `ServedPortStaysOpen`, `HelperRefinement`, `TypeCorrect` | ports are numbers, what others set up is well-formed, `BoundsAssumption` |
| `TrafficReportsProofs` | `DeadForgets`, `TimesGrow`; `TimerTypes`, `FirstReportAhead`, `NextTickAllowed`; `SentIsPast`, `Between` | `RunningAlwaysHeld`, `PostsAlwaysInOrder`, `BackoffIsShort`, `CountersAccumulate`, `TypeCorrect` | `ReportAssumption`: the first report comes before the first tick of the interval; the minimum of the interval is 10 s (`app-config.ts`) |
| `LogRotationProofs` | `CopyIsPublished`; `RunIsForToday`; `CopiesCounted`; `NumbersCounted`; for liveness `RotationInv` | `NoEntryIsLost`, `RestMeansRotated`, `DuplicatesNeedATornRun`, `RotationAlwaysCatchesUp`, `TypeCorrect` | `BoundsAssumption`; no `long_run`, for `RestMeansRotated` and `RotationAlwaysCatchesUp`; `[]StepsEnabled` and an end of days and faults, for the latter |
| `ReaderProofs` | `PageFills`, `ScanMatches`; `CodecInv` | `MemoryIsBounded`, `PagesAlwaysExact`; `MessagesAlwaysSurvive` | `ReaderSizes`; `CodecSizes` |
| `ArtifactProofs` | `ReleaseAtHand`, `NamesAreFresh`, `AttemptsCounted` | `OnlyTheRelease`, `CleanDownloads` | `AttemptsAssumption` |

Along which argument:

- *Coordinator.* `start()` checks the mutex and the table and takes both without an
  await in between, so a running agent holds the mutex exactly while a row is
  active. That is inductive only with the handlers: each active row has exactly
  one, and a restart, which drops the handlers, interrupts the rows in the same
  step. `Refinement` maps a row to its outcome in the ledger.
- *Lifecycle.* Every step of `Lifecycle` is a step of `Operations` or leaves its
  variables alone (`UsesTheCoordinator`: `Spec => Ops!Spec`), so the theorems of
  `OperationsProofs` hold of it unproved again. `HelpersExclusive` then follows from
  who owns a run: an operation waits for its run, and its row is active meanwhile.
- *Records.* Between the switch of `config.json` and the writes of the handler the
  records are behind the host. `RecordsMatch` says by what: the configuration on
  the host is the plan of the run of the one operation in progress, and what a
  failed switch goes back to is what the records say. `Unfailed` says the same of
  marker, files and recorded configuration while nothing has failed, when no
  cleanup is ever needed. Both are about one run only because the operations
  exclude each other, which is why the death of the agent is excluded: a run that
  outlives its agent has no operation. `LastClean` needs `NoneInterrupted`: in an
  agent that lives, no status request turns an interrupted row into a success.
- *Assignments.* What a job has read (`list` of users, the old row) may be used
  after an await because the queue runs one job at a time; `ViewSound` and
  `SeenHolds` say what of it still holds after lost answers and restarts.
  `ChainNeverStalls` follows from what belongs together: a handler that prunes has a
  call, a call has a handler, every task is of a kind that is taken. `HandlersEnd`
  gives what is ahead a number, `Ahead`, which every step of a handler and every
  answer makes smaller: 8 for a user of the loop, 4 more for the one it is at if that
  one may have to be removed first, 3 for a surplus user, up to 3 for the call, and
  for a task that waits more than any handler can have ahead. It needs `CallSeen`: a
  removal is of a user the handler still counts as served.
- *Helper.* A rule is closed only from a list, and `ListsOwn` says that a rule of
  others gets into a list only through the two named exceptions, because a port
  that is open is never opened. `Books` counts the other way round: what the helper
  opened is in the manifest, or is the rule between command and manifest.
  `ServedPortStaysOpen` is about every port in use, the one that is served and the
  one a start would serve: it is open for good (`KeptOpen`: in the rules that
  survive a reload, too) and no rule of it is among those a failed run takes back
  (`Untouched`), since a port that is open is not opened. The port of the plan
  gets there while it is examined, before the configuration is switched.
  `HelperRefinement` relates the place of a run to the progress `HostHelper` sees,
  and counts failures: each run can fail once of itself, all else is a fault.
- *Reporter.* `reportedAt` grows because it is read from the row that the last
  report left, also after a crash. Counters: a snapshot read in the running epoch
  lies between the last one sent and the present counters.
- *Rotation.* An entry leaves the file only after its copy was published, and the
  torn runs count how often one can have been published twice. That free numbers
  and days stay within their bounds takes the least element of a set of naturals,
  which is derived from the well-foundedness of finite proper subsets.
- *Reader.* The scan is always in the middle of one line of the file that was
  opened: `Scans(end)` says which one ends where, that `pending` is its part behind
  the place the scan has come to, cut where the line is too long, and that `total`
  counts the ends behind it. `PageMatches` says that the lines kept are those of
  the page among the first `total` from the end. What is appended lies behind the
  bytes that are read; a truncation is caught by the file being shorter than the
  place to read, or sets `mixed`.
- *Codec.* `CodecInv` is about two sequences: the fields read are the first `k` of
  the message, and the offset is the length of their bytes. A field that comes
  next is read as it is (`FieldIsRead`) because its key and its length say where it
  ends, which comes down to the varint: all groups but the last are continued
  (`VarintSplits`), and their sum is the number (`ValueIsRead`).
- *Downloader.* A run may only rename what it has checked itself: the temporary
  name is fresh and its bytes are those of the checked download.

- *Liveness.* Weak fairness is used through its rule: from a phase P a step leads to P
  or to Q, the helpful step leads from P to Q, and it is enabled in P. `StepsEnabled`
  supplies the last of the three. In `Operations` an active operation is `Starts`,
  `Awaited` or `Orphaned`, and each is left by its own step, or by a crash for
  `Orphaned`. In `Lifecycle` a handler waits for its helper run, whose `StepsLeft` (at
  most six) every step of the run makes smaller and nothing else makes larger; it then
  passes from `queued` to `helper`, `cleanup` or `restoring`, and to its end, and never
  back. A request goes through `InCleanup` and `Asked` in the same way; since `Asked` is
  left by `Resume` only outside the turn of `start()`, the proof first shows that every
  turn ends (`TurnEnds`). In `LogRotation` a log that is late is before the run that
  rotates it (`Reaching`, `Retrying`), behind it in the run (`Passed`), in a process that
  leaves or is dead; a run has at most nine steps left.

What is computed over sequences and numbers of any size (the varint, the message)
is proved by induction over sets of naturals: `LeastExists` gives every
such set that is not empty a least element, from the well-foundedness of finite
proper subsets, and `AllNaturals` and `Iterated` make induction and recursion of it.
They take sets and functions where the library's theorems take operators.

`TypeOK` of `Operations`, `Lifecycle`, `LogRotation`, `HelperRun` and
`TrafficReports` is proved and not checked in a run; the runs of these modules check
invariants that evaluate the same state.

What stays with TLC, because ENABLED is beyond the prover: `StepsEnabled` of
`Lifecycle` and the half of `NeverStalls` that is about enabled steps. The liveness
theorems have `[]StepsEnabled` as a hypothesis. For `Lifecycle`, TLC checks that it
holds, so what is proved and what is checked meet in this formula. For `Operations`
and `LogRotation` it holds by the guards of the steps it names, and TLC checks what
the theorems conclude, `AcceptedSettles` and `RotationCatchesUp`, without it.
`DivergenceIsReported` and `InterruptedRuleIsAdopted` are model-checked only.
`RotationCatchesUp` is proved
for behaviours in which days and faults end (`<>[][Undisturbed]_vars`). That the
bounds `MaxDay` and `MaxFaults` make them end takes an induction over numbers of any
size in temporal logic, which the prover cannot do; TLC checks the property
without the condition. The properties of the runs that fail are false and have no
proof.

## 6. Not modelled

| Part | Why |
|---|---|
| `host/host-inspector` | one pass of read-only checks over files and commands, no state |
| list of logs, parsing and redaction of log lines | formatting of single lines |
| online list of users | a query of Xray that is passed on |
| `config/*`, the part of `helper.ts` that writes runtime configuration | validation and formatting of a file; the outcome (written or failed) is a step of `HelperRun` |
| `security/*` (credential vault, request guard) | cryptography; a record of a credential is atomic in the models |
| controllers, DTOs, `common/*` | validation, error envelopes |
| `owned_resources` and the schema migration of `state/*` | written beside the protocol record and read by nothing that decides; migration runs once before anything else |
| `main.ts`, `health/*` | process entry, constants |
| deployment scripts | outside the program; PM2 and systemd appear as restarts |

Left out of modelled parts:

- An apply for another protocol than the recorded one is accepted when its
  check is older than an uninstall and an install that both ended meanwhile, and
  leaves a configuration of another protocol than the recorded one. It takes four
  operations; the runs of `Lifecycle` have three and no property about it.
- What becomes of the users when the lifecycle changes: `uninstall` and
  `applyConfig` also write user rows and the flag `requiresUserSync`. `Lifecycle`
  only waits for the users to be restored, and in `Assignments` Xray restarts
  without saying why. Their composition is the first item of the plan.

## 7. Plan

Done: the coordinator and its refinement, lifecycle and helper as the agent sees
it, assignments, reporter, rotation, the helper command by command and its
refinement, downloader, reader, codec, and the proofs above. What would add most
from here:

1. the composition of `Lifecycle` and `Assignments`: a queue that restores users
   while an operation that uninstalls is in progress;
2. a fourth operation in `Lifecycle`, for the stale check named in section 6.
