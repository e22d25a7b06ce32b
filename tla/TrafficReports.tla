--------------------------- MODULE TrafficReports ---------------------------
(***************************************************************************)
(* TrafficReporterService with report_state of the state store, and the    *)
(* snapshot that XrayAssignmentsService.traffic() takes with four          *)
(* concurrent calls.                                                       *)
(*                                                                         *)
(* A byte counter is a number of transfers; upload and download are one.   *)
(* The unit of time is that of the back-off.  Of Xray only its start and   *)
(* its counters are state: which users it lists changes at any time, so    *)
(* the answer to listUserIds is any set, and the number of users online is *)
(* left out, as are the three columns of report_state that no code reads.  *)
(***************************************************************************)
EXTENDS Integers

CONSTANTS
  Users,            \* assignments with a user in Xray
  Triggers,         \* invocations of trigger() that may be in progress
  Interval,         \* REPORT_INTERVAL_SECONDS: ten seconds or more
  InitialDelay,     \* the delay of the first report: five
  Faults,           \* kinds of fault that happen, see ReportFaults
  MaxFaults,        \* bound: faults in a behaviour
  MaxClock,         \* bound: the wall clock
  MaxEpoch,         \* bound: starts of Xray
  MaxTraffic        \* bound: transfers per user and start of Xray

ReportFaults ==
  {"rpc_error",     \* isActive(), a gRPC call or systemctl fails
   "center_error",  \* the center answers anything but 204, or not in time
   "db_error",      \* markReportSuccess throws
   "clock_back",    \* the wall clock is set back
   "agent_crash"}

ASSUME ReportAssumption ==
  /\ Interval \in Nat
  /\ InitialDelay \in 1 .. Interval - 1
  /\ MaxClock \in Nat /\ MaxEpoch \in Nat \ {0} /\ MaxTraffic \in Nat
  /\ Faults \subseteq ReportFaults /\ MaxFaults \in Nat

VARIABLES
  up,                   \* the agent process runs
  clock,                \* Date.now()
  sinceTick,            \* time since the interval timer fired last
  initialPending,       \* the timer of the first report is set (memory)
  running,              \* memory
  consecutiveFailures,  \* memory
  nextAllowedAt,        \* memory
  lastReportedAt,       \* table report_state (SQLite), 0 for NULL
  runs,                 \* the invocations of trigger() (memory)
  xray,                 \* the start of Xray and its counters since
  sent,                 \* the last report that was posted, or NoReport
  faults,               \* faults so far
  stepped,              \* history: the clock was set back
  skipped               \* history: ticks refused by the back-off in a row

timers == <<sinceTick, initialPending>>
backoff == <<running, consecutiveFailures, nextAllowedAt>>
history == <<stepped, skipped>>
vars == <<up, clock, timers, backoff, lastReportedAt, runs, xray, sent,
          faults, history>>

\* The calls whose answers depend on when they are made.
Calls == {"userTraffic", "invocationId"}

Idle == [at |-> "idle", reportedAt |-> 0, answered |-> {},
         traffic |-> [user \in Users |-> 0], epoch |-> 0, restarted |-> FALSE]

NoReport == [reportedAt |-> 0, runtimeEpoch |-> 0,
             users |-> [user \in {} |-> 0], restarted |-> FALSE]

Least(a, b) == IF a < b THEN a ELSE b
Largest(a, b) == IF a > b THEN a ELSE b

Init ==
  /\ up = TRUE
  /\ clock = 1
  /\ sinceTick = 0
  /\ initialPending = TRUE
  /\ running = FALSE
  /\ consecutiveFailures = 0
  /\ nextAllowedAt = 0
  /\ lastReportedAt = 0
  /\ runs = [trigger \in Triggers |-> Idle]
  /\ xray = [epoch |-> 1, traffic |-> [user \in Users |-> 0]]
  /\ sent = NoReport
  /\ faults = 0
  /\ stepped = FALSE
  /\ skipped = 0

Fault(kind) ==
  /\ kind \in Faults
  /\ faults < MaxFaults
  /\ faults' = faults + 1

(***************************************************************************)
(* trigger(), up to its first await.  Whether the runtime is installed is  *)
(* read from the disk, which others change: a choice.                      *)
(***************************************************************************)

\* Mutant: a trigger ignores the one in progress.
MayTriggerAgain == clock >= nextAllowedAt

MayTrigger == ~running /\ clock >= nextAllowedAt

Trigger ==
  \/ /\ MayTrigger
     /\ \E trigger \in Triggers :
          /\ runs[trigger].at = "idle"
          /\ runs' = [runs EXCEPT ![trigger].at = "checking"]
     /\ running' = TRUE
     /\ skipped' = 0
     /\ UNCHANGED <<consecutiveFailures, nextAllowedAt>>
  \/ /\ MayTrigger      \* not installed
     /\ skipped' = 0
     /\ UNCHANGED <<backoff, runs>>
  \/ /\ ~MayTrigger
     /\ skipped' = IF running THEN skipped ELSE skipped + 1
     /\ UNCHANGED <<backoff, runs>>

InitialTimerFires ==
  /\ up
  /\ initialPending
  /\ sinceTick = InitialDelay
  /\ initialPending' = FALSE
  /\ Trigger
  /\ UNCHANGED <<up, clock, sinceTick, lastReportedAt, xray, sent, faults,
                 stepped>>

IntervalTimerFires ==
  /\ up
  /\ sinceTick = Interval
  /\ sinceTick' = 0
  /\ Trigger
  /\ UNCHANGED <<up, clock, initialPending, lastReportedAt, xray, sent, faults,
                 stepped>>

(***************************************************************************)
(* The snapshot.                                                           *)
(***************************************************************************)

\* Mutant: the time of the report is the wall clock.
ReportedAtIsNow == clock

NextReportedAt == Largest(clock, lastReportedAt + 1)

\* isActive() answered yes and the protocol is known: trafficReport() takes
\* its time and makes the four calls.
StartCollecting(trigger) ==
  /\ runs[trigger].at = "checking"
  /\ runs' = [runs EXCEPT ![trigger] = [Idle EXCEPT
                !.at = "collecting", !.reportedAt = NextReportedAt]]
  /\ lastReportedAt' = NextReportedAt
  /\ UNCHANGED <<up, clock, timers, backoff, xray, sent, faults, history>>

\* A traffic query takes its time from the same row; its snapshot goes to the
\* caller and leaves nothing behind.
Query ==
  /\ up
  /\ NextReportedAt <= MaxClock
  /\ lastReportedAt' = NextReportedAt
  /\ UNCHANGED <<up, clock, timers, backoff, runs, xray, sent, faults, history>>

\* Mutant: returns past the finally block.
ReturnHoldingRunning(trigger) ==
  /\ runs' = [runs EXCEPT ![trigger] = Idle]
  /\ UNCHANGED running

\* The end of trigger() with its finally block.
Return(trigger) ==
  /\ runs' = [runs EXCEPT ![trigger] = Idle]
  /\ running' = FALSE

\* isActive() answered no, or no protocol is recorded.
NotActive(trigger) ==
  /\ runs[trigger].at = "checking"
  /\ Return(trigger)
  /\ UNCHANGED <<up, clock, timers, consecutiveFailures, nextAllowedAt,
                 lastReportedAt, xray, sent, faults, history>>

\* One call is answered with what Xray or systemd knows at that time.
Answer(trigger, call) ==
  /\ runs[trigger].at = "collecting"
  /\ call \notin runs[trigger].answered
  /\ runs' = [runs EXCEPT
       ![trigger].answered = @ \cup {call},
       ![trigger].traffic = IF call = "userTraffic" THEN xray.traffic ELSE @,
       ![trigger].epoch = IF call = "invocationId" THEN xray.epoch ELSE @]
  /\ UNCHANGED <<up, clock, timers, backoff, lastReportedAt, xray, sent, faults,
                 history>>

\* A listed user without a counter is reported with 0.
Report(trigger, listed) ==
  LET run == runs[trigger]
  IN [reportedAt |-> run.reportedAt, runtimeEpoch |-> run.epoch,
      users |-> [user \in listed |-> run.traffic[user]],
      restarted |-> run.restarted]

Post(trigger) ==
  /\ runs[trigger].at = "collecting"
  /\ runs[trigger].answered = Calls
  /\ \E listed \in SUBSET Users : sent' = Report(trigger, listed)
  /\ runs' = [runs EXCEPT ![trigger] = [Idle EXCEPT
                !.at = "posting", !.reportedAt = runs[trigger].reportedAt]]
  /\ UNCHANGED <<up, clock, timers, backoff, lastReportedAt, xray, faults,
                 history>>

(***************************************************************************)
(* The answer of the center, and the catch block.                          *)
(***************************************************************************)

Accepted(trigger) ==
  /\ runs[trigger].at = "posting"
  /\ Return(trigger)
  /\ consecutiveFailures' = 0
  /\ nextAllowedAt' = 0
  /\ UNCHANGED <<up, clock, timers, lastReportedAt, xray, sent, faults, history>>

\* Mutant: steeper, and bounded by the exponent only.
UnboundedDelay(failures) == 4 ^ Least(failures, 8)

Delay(failures) == Least(Interval, 2 ^ Least(failures, 8))

\* markReportFailure that throws rejects trigger(), which nobody awaits: the
\* process dies, see AgentCrash.
Failed(trigger, failures) ==
  /\ Return(trigger)
  /\ consecutiveFailures' = failures
  /\ nextAllowedAt' = clock + Delay(failures)
  /\ skipped' = 0
  /\ UNCHANGED <<up, clock, timers, lastReportedAt, xray, sent, stepped>>

CollectFails(trigger) ==
  /\ runs[trigger].at \in {"checking", "collecting"}
  /\ Fault("rpc_error")
  /\ Failed(trigger, consecutiveFailures + 1)

Refused(trigger) ==
  /\ runs[trigger].at = "posting"
  /\ Fault("center_error")
  /\ Failed(trigger, consecutiveFailures + 1)

\* Memory is reset before markReportSuccess throws.
AcceptedUnrecorded(trigger) ==
  /\ runs[trigger].at = "posting"
  /\ Fault("db_error")
  /\ Failed(trigger, 1)

(***************************************************************************)
(* Time, the process, and Xray.                                            *)
(***************************************************************************)

TimerDue ==
  \/ sinceTick = Interval
  \/ initialPending /\ sinceTick = InitialDelay

Tick ==
  /\ clock < MaxClock
  /\ up => ~TimerDue
  /\ clock' = clock + 1
  /\ sinceTick' = IF up THEN sinceTick + 1 ELSE 0
  /\ UNCHANGED <<up, initialPending, backoff, lastReportedAt, runs, xray, sent,
                 faults, history>>

ClockBack ==
  /\ Fault("clock_back")
  /\ clock' \in 0 .. clock - 1
  /\ stepped' = TRUE
  /\ UNCHANGED <<up, timers, backoff, lastReportedAt, runs, xray, sent, skipped>>

AgentCrash ==
  /\ up
  /\ Fault("agent_crash")
  /\ up' = FALSE
  /\ sinceTick' = 0
  /\ initialPending' = TRUE
  /\ running' = FALSE
  /\ consecutiveFailures' = 0
  /\ nextAllowedAt' = 0
  /\ runs' = [trigger \in Triggers |-> Idle]
  /\ skipped' = 0
  /\ UNCHANGED <<clock, lastReportedAt, xray, sent, stepped>>

Bootstrap ==
  /\ ~up
  /\ up' = TRUE
  /\ UNCHANGED <<clock, timers, backoff, lastReportedAt, runs, xray, sent,
                 faults, history>>

\* A start gives systemd a new InvocationID and Xray empty counters.
XrayRestarts ==
  /\ xray.epoch < MaxEpoch
  /\ xray' = [epoch |-> xray.epoch + 1, traffic |-> [user \in Users |-> 0]]
  /\ runs' = [trigger \in Triggers |->
       [runs[trigger] EXCEPT
          !.restarted = @ \/ runs[trigger].at = "collecting"]]
  /\ UNCHANGED <<up, clock, timers, backoff, lastReportedAt, sent, faults,
                 history>>

\* Assumed: within an epoch a counter never goes back.  Xray keeps it by the
\* name of the user; that to replace a user (remove, then add again) resets it,
\* as the contract suggests, is not modelled here.
Transfer(user) ==
  /\ xray.traffic[user] < MaxTraffic
  /\ xray' = [xray EXCEPT !.traffic[user] = @ + 1]
  /\ UNCHANGED <<up, clock, timers, backoff, lastReportedAt, runs, sent, faults,
                 history>>

Next ==
  \/ InitialTimerFires \/ IntervalTimerFires \/ Query
  \/ \E trigger \in Triggers :
       \/ StartCollecting(trigger) \/ NotActive(trigger) \/ Post(trigger)
       \/ \E call \in Calls : Answer(trigger, call)
       \/ Accepted(trigger) \/ AcceptedUnrecorded(trigger)
       \/ CollectFails(trigger) \/ Refused(trigger)
  \/ Tick \/ ClockBack \/ AgentCrash \/ Bootstrap
  \/ XrayRestarts
  \/ \E user \in Users : Transfer(user)

Spec == Init /\ [][Next]_vars

-----------------------------------------------------------------------------
(***************************************************************************)
(* Properties.                                                             *)
(***************************************************************************)

RunType ==
  [at : {"idle", "checking", "collecting", "posting"}, reportedAt : Nat,
   answered : SUBSET Calls, traffic : [Users -> Nat], epoch : Nat,
   restarted : BOOLEAN]

ReportType(report) ==
  /\ DOMAIN report.users \subseteq Users
  /\ report \in [reportedAt : Nat, runtimeEpoch : Nat,
                 users : [DOMAIN report.users -> Nat], restarted : BOOLEAN]

\* The types of the memory of the reporter, of the row and of the last report.
TypeOK ==
  /\ up \in BOOLEAN
  /\ clock \in Nat
  /\ sinceTick \in 0 .. Interval
  /\ initialPending \in BOOLEAN
  /\ running \in BOOLEAN
  /\ consecutiveFailures \in Nat
  /\ nextAllowedAt \in Nat
  /\ lastReportedAt \in Nat
  /\ runs \in [Triggers -> RunType]
  /\ xray \in [epoch : Nat, traffic : [Users -> Nat]]
  /\ ReportType(sent)
  /\ faults \in Nat
  /\ stepped \in BOOLEAN
  /\ skipped \in Nat

\* The flag is held exactly while a trigger is between its checks and its
\* finally block: never by two of them, and never left behind, after which the
\* agent would not report again until its restart.
RunningIsHeld ==
  /\ running <=> \E trigger \in Triggers : runs[trigger].at # "idle"
  /\ \A t1, t2 \in Triggers :
       runs[t1].at # "idle" /\ runs[t2].at # "idle" => t1 = t2

\* Reports leave the agent in the order of their strictly growing reportedAt,
\* whatever the wall clock does, across restarts and beside traffic queries.
PostsInOrder ==
  [][sent' # sent => sent'.reportedAt > sent.reportedAt]_vars

\* A user's counter does not decrease from one report to the next of the same
\* epoch, unless Xray was started during one of the two snapshots.
ReportsAccumulate ==
  [][/\ sent' # sent
     /\ sent'.runtimeEpoch = sent.runtimeEpoch
     /\ ~sent.restarted /\ ~sent'.restarted
     => \A user \in DOMAIN sent.users \cap DOMAIN sent'.users :
          sent'.users[user] >= sent.users[user]]_vars

\* After a failure the back-off refuses at most one tick of the timer, as long
\* as the wall clock is not set back.
BackoffSkipsOneTick == ~stepped => skipped <= 1

=============================================================================
