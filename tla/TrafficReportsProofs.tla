------------------------ MODULE TrafficReportsProofs ------------------------
(***************************************************************************)
(* Proofs about TrafficReports, for every set of triggers, every interval  *)
(* and every kind and number of faults.                                    *)
(***************************************************************************)
EXTENDS TrafficReports, TLAPS

\* The part of TypeOK the order of the reports rests on; the back-off and the
\* timers play no role in it.
ReportTypes ==
  /\ up \in BOOLEAN
  /\ clock \in Nat
  /\ running \in BOOLEAN
  /\ lastReportedAt \in Nat
  /\ runs \in [Triggers -> RunType]
  /\ xray \in [epoch : Nat, traffic : [Users -> Nat]]
  /\ sent.reportedAt \in Nat

\* A dead process has no invocation and does not hold the flag.
DeadForgets == ~up => ~running

\* The row of the table is at least as new as every report, and the report
\* being collected is newer than the one sent last.
TimesGrow ==
  /\ sent.reportedAt <= lastReportedAt
  /\ \A trigger \in Triggers :
       runs[trigger].at = "collecting" =>
         /\ sent.reportedAt < runs[trigger].reportedAt
         /\ runs[trigger].reportedAt <= lastReportedAt

IInv == ReportTypes /\ RunningIsHeld /\ DeadForgets /\ TimesGrow


LEMMA IdleIsRun == Idle \in RunType /\ Idle.at = "idle"
BY DEF Idle, RunType

\* The initial state satisfies the inductive invariant.
LEMMA InitEstablishes == Init => IInv
<1> SUFFICES ASSUME Init PROVE IInv
  OBVIOUS
<1>1. \A trigger \in Triggers : runs[trigger].at = "idle"
  BY IdleIsRun DEF Init
<1>2. sent.reportedAt = 0
  BY DEF Init, NoReport
<1>3. runs \in [Triggers -> RunType]
  BY IdleIsRun DEF Init
<1>4. ReportTypes
  <2>1. xray \in [epoch : Nat, traffic : [Users -> Nat]]
    BY DEF Init
  <2>2. up \in BOOLEAN /\ running \in BOOLEAN
    BY DEF Init
  <2>3. clock \in Nat /\ lastReportedAt \in Nat
    BY DEF Init
  <2> QED
    BY <1>2, <1>3, <2>1, <2>2, <2>3 DEF ReportTypes
<1>5. RunningIsHeld /\ DeadForgets
  BY <1>1 DEF Init, RunningIsHeld, DeadForgets
<1>6. TimesGrow
  BY <1>1, <1>2 DEF Init, TimesGrow
<1> QED
  BY <1>4, <1>5, <1>6 DEF IInv

\* The invocation in progress takes a step and goes on.
LEMMA GoesOn ==
  ASSUME ReportTypes, RunningIsHeld, NEW trigger \in Triggers,
         NEW run \in RunType, run.at # "idle", runs[trigger].at # "idle",
         runs' = [runs EXCEPT ![trigger] = run], running' = running
  PROVE  RunningIsHeld'
BY DEF ReportTypes, RunningIsHeld

\* The invocation in progress ends and releases the flag; nobody is left.
LEMMA Ends ==
  ASSUME ReportTypes, RunningIsHeld, NEW trigger \in Triggers,
         runs[trigger].at # "idle", Return(trigger)
  PROVE  /\ RunningIsHeld'
         /\ running' = FALSE
         /\ runs' \in [Triggers -> RunType]
         /\ \A other \in Triggers : runs'[other].at = "idle"
BY IdleIsRun DEF ReportTypes, RunningIsHeld, Return

\* A timer fires: trigger() starts an invocation only when none is in progress.
LEMMA TriggerPreserves ==
  ASSUME IInv, Trigger, up, UNCHANGED <<up, clock, lastReportedAt, xray, sent>>
  PROVE  IInv'
<1> USE DEF IInv, ReportTypes, DeadForgets, TimesGrow
<1>1. ASSUME MayTrigger, NEW trigger \in Triggers,
             runs' = [runs EXCEPT ![trigger].at = "checking"], running' = TRUE
      PROVE  IInv'
  <2>1. \A other \in Triggers : runs[other].at = "idle"
    BY <1>1 DEF MayTrigger, RunningIsHeld
  <2>2. runs' \in [Triggers -> RunType]
    BY <1>1, SMTT(20) DEF RunType
  <2>3. \A other \in Triggers :
          runs'[other].at = IF other = trigger THEN "checking" ELSE "idle"
    BY <1>1, <2>1 DEF RunType
  <2>4. RunningIsHeld'
    BY <1>1, <2>3 DEF RunningIsHeld
  <2> QED
    BY <1>1, <2>2, <2>3, <2>4
<1>2. CASE UNCHANGED <<backoff, runs>>
  BY <1>2 DEF backoff, RunningIsHeld
<1> QED
  BY <1>1, <1>2 DEF Trigger

\* Taking a time for a report or a query advances the row.
LEMMA NextTimeGrows ==
  ASSUME ReportTypes
  PROVE  NextReportedAt \in Nat /\ NextReportedAt > lastReportedAt
BY DEF ReportTypes, NextReportedAt, Largest

LEMMA StartCollectingPreserves ==
  ASSUME IInv, NEW trigger \in Triggers, StartCollecting(trigger)
  PROVE  IInv'
<1> DEFINE run == [Idle EXCEPT !.at = "collecting",
                               !.reportedAt = NextReportedAt]
<1>1. NextReportedAt \in Nat /\ NextReportedAt > lastReportedAt
  BY NextTimeGrows DEF IInv
<1>2. run \in RunType /\ run.at = "collecting" /\ run.reportedAt = NextReportedAt
  BY <1>1, IdleIsRun DEF RunType, Idle
<1>3. /\ runs' = [runs EXCEPT ![trigger] = run]
      /\ runs[trigger].at = "checking"
      /\ lastReportedAt' = NextReportedAt
      /\ UNCHANGED <<up, clock, running, xray, sent>>
  BY DEF StartCollecting, backoff
<1> HIDE DEF run
<1>4. RunningIsHeld'
  BY <1>2, <1>3, GoesOn DEF IInv
<1>5. ReportTypes' /\ DeadForgets'
  BY <1>1, <1>2, <1>3 DEF IInv, ReportTypes, DeadForgets
<1>6. \A other \in Triggers : other # trigger => runs'[other].at = "idle"
  BY <1>3 DEF IInv, ReportTypes, RunningIsHeld
<1>7. TimesGrow'
  BY <1>1, <1>2, <1>3, <1>6 DEF IInv, ReportTypes, TimesGrow
<1> QED
  BY <1>4, <1>5, <1>7 DEF IInv

LEMMA AnswerPreserves ==
  ASSUME IInv, NEW trigger \in Triggers, NEW call \in Calls,
         Answer(trigger, call)
  PROVE  IInv'
<1> DEFINE run == [runs[trigger] EXCEPT
             !.answered = @ \cup {call},
             !.traffic = IF call = "userTraffic" THEN xray.traffic ELSE @,
             !.epoch = IF call = "invocationId" THEN xray.epoch ELSE @]
<1>1. /\ run \in RunType
      /\ run.at = "collecting"
      /\ run.reportedAt = runs[trigger].reportedAt
  <2>1. PICK old \in RunType : old = runs[trigger]
    BY DEF IInv, ReportTypes
  <2>2. old.at = "collecting" /\ xray.traffic \in [Users -> Nat] /\ xray.epoch \in Nat
    BY <2>1 DEF IInv, ReportTypes, Answer
  <2>3. /\ run = [old EXCEPT !.answered = run.answered, !.traffic = run.traffic,
                              !.epoch = run.epoch]
        /\ run.answered \in SUBSET Calls /\ run.traffic \in [Users -> Nat]
        /\ run.epoch \in Nat
    BY <2>1, <2>2 DEF RunType
  <2> QED
    BY <2>1, <2>2, <2>3 DEF RunType
<1>2. /\ runs' = [runs EXCEPT ![trigger] = run]
      /\ runs[trigger].at = "collecting"
      /\ UNCHANGED <<up, clock, running, lastReportedAt, xray, sent>>
  BY DEF Answer, backoff, IInv, ReportTypes, RunType
<1> HIDE DEF run
<1>3. RunningIsHeld'
  BY <1>1, <1>2, GoesOn DEF IInv
<1>4. ReportTypes' /\ DeadForgets' /\ TimesGrow'
  BY <1>1, <1>2 DEF IInv, ReportTypes, DeadForgets, TimesGrow
<1> QED
  BY <1>3, <1>4 DEF IInv

LEMMA PostPreserves ==
  ASSUME IInv, NEW trigger \in Triggers, Post(trigger)
  PROVE  IInv' /\ sent'.reportedAt > sent.reportedAt
<1> DEFINE run == [Idle EXCEPT !.at = "posting",
                               !.reportedAt = runs[trigger].reportedAt]
<1>1. /\ run \in RunType
      /\ run.at = "posting"
      /\ runs[trigger].reportedAt \in Nat
  BY IdleIsRun DEF IInv, ReportTypes, RunType, Idle
<1>2. /\ runs' = [runs EXCEPT ![trigger] = run]
      /\ runs[trigger].at = "collecting"
      /\ UNCHANGED <<up, clock, running, lastReportedAt, xray>>
  BY DEF Post, backoff
<1>3. sent'.reportedAt = runs[trigger].reportedAt
  BY DEF Post, Report
<1> HIDE DEF run
<1>4. RunningIsHeld'
  BY <1>1, <1>2, GoesOn DEF IInv
<1>5. \A other \in Triggers : runs'[other].at # "collecting"
  BY <1>1, <1>2 DEF IInv, ReportTypes, RunningIsHeld
<1>6. ReportTypes' /\ DeadForgets' /\ TimesGrow'
  BY <1>1, <1>2, <1>3, <1>5 DEF IInv, ReportTypes, DeadForgets, TimesGrow
<1>7. sent'.reportedAt > sent.reportedAt
  BY <1>2, <1>3 DEF IInv, TimesGrow
<1> QED
  BY <1>4, <1>6, <1>7 DEF IInv

\* Every way out of trigger(): the early returns, the success, the failures.
LEMMA EndPreserves ==
  ASSUME IInv, NEW trigger \in Triggers, runs[trigger].at # "idle",
         Return(trigger), UNCHANGED <<up, clock, lastReportedAt, xray, sent>>
  PROVE  IInv'
<1>1. /\ RunningIsHeld'
      /\ running' = FALSE
      /\ runs' \in [Triggers -> RunType]
      /\ \A other \in Triggers : runs'[other].at = "idle"
  BY Ends DEF IInv
<1> QED
  BY <1>1 DEF IInv, ReportTypes, DeadForgets, TimesGrow

LEMMA RestartPreserves ==
  ASSUME IInv, XrayRestarts
  PROVE  IInv'
<1>1. \A trigger \in Triggers :
        /\ runs'[trigger] \in RunType
        /\ runs'[trigger].at = runs[trigger].at
        /\ runs'[trigger].reportedAt = runs[trigger].reportedAt
  <2> SUFFICES ASSUME NEW trigger \in Triggers
               PROVE  /\ runs'[trigger] \in RunType
                      /\ runs'[trigger].at = runs[trigger].at
                      /\ runs'[trigger].reportedAt = runs[trigger].reportedAt
    OBVIOUS
  <2>1. runs[trigger] \in RunType
    BY DEF IInv, ReportTypes
  <2>2. runs'[trigger] = [runs[trigger] EXCEPT
          !.restarted = @ \/ runs[trigger].at = "collecting"]
    BY DEF XrayRestarts
  <2> QED
    BY <2>1, <2>2 DEF RunType
<1>2. runs' \in [Triggers -> RunType]
  BY <1>1 DEF XrayRestarts
<1>3. xray' \in [epoch : Nat, traffic : [Users -> Nat]]
  BY DEF IInv, ReportTypes, XrayRestarts
<1>4. UNCHANGED <<up, clock, running, lastReportedAt, sent>>
  BY DEF XrayRestarts, backoff
<1>5. ReportTypes' /\ DeadForgets'
  BY <1>2, <1>3, <1>4 DEF IInv, ReportTypes, DeadForgets
<1>6. RunningIsHeld'
  BY <1>1, <1>4 DEF IInv, RunningIsHeld
<1>7. TimesGrow'
  BY <1>1, <1>4 DEF IInv, TimesGrow
<1> QED
  BY <1>5, <1>6, <1>7 DEF IInv

\* Time, transfers and the start of the agent touch neither the invocations
\* nor the row.
LEMMA EnvironmentPreserves ==
  ASSUME IInv, Tick \/ ClockBack \/ Bootstrap
               \/ \E user \in Users : Transfer(user)
  PROVE  IInv'
<1>1. clock' \in Nat
  BY DEF IInv, ReportTypes, Tick, ClockBack, Bootstrap, Transfer
<1>2. xray' \in [epoch : Nat, traffic : [Users -> Nat]]
  BY DEF IInv, ReportTypes, Tick, ClockBack, Bootstrap, Transfer
<1>3. UNCHANGED <<running, runs, lastReportedAt, sent>>
  BY DEF Tick, ClockBack, Bootstrap, Transfer, backoff
<1>4. up' = up \/ (up' = TRUE /\ UNCHANGED clock)
  BY DEF Tick, ClockBack, Bootstrap, Transfer
<1> QED
  BY <1>1, <1>2, <1>3, <1>4 DEF IInv, ReportTypes, RunningIsHeld, DeadForgets,
                                TimesGrow

LEMMA CrashPreserves ==
  ASSUME IInv, AgentCrash
  PROVE  IInv'
BY IdleIsRun DEF IInv, ReportTypes, RunningIsHeld, DeadForgets, TimesGrow,
                 AgentCrash

LEMMA QueryPreserves ==
  ASSUME IInv, Query
  PROVE  IInv'
<1>1. NextReportedAt \in Nat /\ NextReportedAt > lastReportedAt
  BY NextTimeGrows DEF IInv
<1>2. lastReportedAt' \in Nat /\ lastReportedAt' > lastReportedAt
  BY <1>1 DEF Query
<1>3. UNCHANGED <<up, clock, running, runs, xray, sent>>
  BY DEF Query, backoff
<1>4. ReportTypes' /\ RunningIsHeld' /\ DeadForgets'
  BY <1>2, <1>3 DEF IInv, ReportTypes, RunningIsHeld, DeadForgets
<1>5. \A trigger \in Triggers : runs[trigger].reportedAt \in Nat
  BY DEF IInv, ReportTypes, RunType
<1>6. TimesGrow'
  BY <1>2, <1>3, <1>5 DEF IInv, ReportTypes, TimesGrow
<1> QED
  BY <1>4, <1>6 DEF IInv

LEMMA StutterPreserves ==
  ASSUME IInv, UNCHANGED vars
  PROVE  IInv'
BY DEF IInv, ReportTypes, RunningIsHeld, DeadForgets, TimesGrow, vars, backoff

\* Every step preserves the invariant, and a step that posts a report posts a
\* newer one.
LEMMA NextPreserves ==
  ASSUME IInv, [Next]_vars
  PROVE  IInv' /\ (sent' # sent => sent'.reportedAt > sent.reportedAt)
<1>1. CASE InitialTimerFires \/ IntervalTimerFires
  BY <1>1, TriggerPreserves DEF InitialTimerFires, IntervalTimerFires
<1>2. CASE Query
  BY <1>2, QueryPreserves DEF Query
<1>3. ASSUME NEW trigger \in Triggers, StartCollecting(trigger)
      PROVE  IInv' /\ sent' = sent
  BY <1>3, StartCollectingPreserves DEF StartCollecting
<1>4. ASSUME NEW trigger \in Triggers, NEW call \in Calls, Answer(trigger, call)
      PROVE  IInv' /\ sent' = sent
  BY <1>4, AnswerPreserves DEF Answer
<1>5. ASSUME NEW trigger \in Triggers, Post(trigger)
      PROVE  IInv' /\ sent'.reportedAt > sent.reportedAt
  BY <1>5, PostPreserves
<1>6. ASSUME NEW trigger \in Triggers,
             \/ NotActive(trigger) \/ Accepted(trigger)
             \/ AcceptedUnrecorded(trigger) \/ CollectFails(trigger)
             \/ Refused(trigger)
      PROVE  IInv' /\ sent' = sent
  <2>1. /\ runs[trigger].at # "idle"
        /\ Return(trigger)
        /\ UNCHANGED <<up, clock, lastReportedAt, xray, sent>>
    BY <1>6 DEF NotActive, Accepted, AcceptedUnrecorded, CollectFails, Refused,
                Failed
  <2> QED
    BY <2>1, EndPreserves
<1>7. CASE \/ Tick \/ ClockBack \/ Bootstrap
           \/ \E user \in Users : Transfer(user)
  BY <1>7, EnvironmentPreserves DEF Tick, ClockBack, Bootstrap, Transfer
<1>8. CASE AgentCrash
  BY <1>8, CrashPreserves DEF AgentCrash
<1>9. CASE XrayRestarts
  BY <1>9, RestartPreserves DEF XrayRestarts
<1>10. CASE UNCHANGED vars
  BY <1>10, StutterPreserves DEF vars
<1> QED
  BY <1>1, <1>2, <1>3, <1>4, <1>5, <1>6, <1>7, <1>8, <1>9, <1>10 DEF Next

\* The inductive invariant holds in every reachable state.
THEOREM Invariance == Spec => []IInv
<1>1. IInv /\ [Next]_vars => IInv'
  BY NextPreserves
<1> QED
  BY InitEstablishes, <1>1, PTL DEF Spec

\* The flag of trigger() is held exactly while one invocation is in progress:
\* reports never overlap and the reporter never locks itself out.
THEOREM RunningAlwaysHeld == Spec => []RunningIsHeld
<1>1. IInv => RunningIsHeld
  BY DEF IInv
<1> QED
  BY Invariance, <1>1, PTL

\* Reports leave the agent with strictly growing reportedAt, whatever the wall
\* clock does, across crashes and beside any number of queries.
THEOREM PostsAlwaysInOrder == Spec => PostsInOrder
<1>1. IInv /\ [Next]_vars => [sent' # sent => sent'.reportedAt > sent.reportedAt]_vars
  BY NextPreserves
<1> QED
  BY Invariance, <1>1, PTL DEF Spec, PostsInOrder

-----------------------------------------------------------------------------
(***************************************************************************)
(* The timers and the back-off.                                            *)
(***************************************************************************)

TimerTypes ==
  /\ sinceTick \in 0 .. Interval
  /\ initialPending \in BOOLEAN
  /\ consecutiveFailures \in Nat
  /\ nextAllowedAt \in Nat
  /\ faults \in Nat
  /\ stepped \in BOOLEAN
  /\ skipped \in Nat
  /\ ReportType(sent)

\* Before the first report nothing has failed, and its timer is not missed.
FirstReportAhead ==
  /\ ~up => sinceTick = 0 /\ initialPending
  /\ initialPending =>
       /\ ~running
       /\ nextAllowedAt = 0
       /\ skipped = 0
       /\ sinceTick <= InitialDelay

\* The tick after the one that was refused is allowed.
NextTickAllowed ==
  ~stepped =>
    /\ nextAllowedAt <= clock + Interval
    /\ skipped > 0 => skipped = 1 /\ nextAllowedAt <= clock + Interval - sinceTick

TimerInv == TimerTypes /\ FirstReportAhead /\ NextTickAllowed

LEMMA DelayIsBounded ==
  ASSUME NEW failures \in Nat
  PROVE  Delay(failures) \in Nat /\ Delay(failures) <= Interval
<1> DEFINE k == Least(failures, 8)
<1>1. k \in 0 .. 8
  BY DEF Least
<1>2. /\ 2 ^ 0 \in Nat /\ 2 ^ 1 \in Nat /\ 2 ^ 2 \in Nat
      /\ 2 ^ 3 \in Nat /\ 2 ^ 4 \in Nat /\ 2 ^ 5 \in Nat
      /\ 2 ^ 6 \in Nat /\ 2 ^ 7 \in Nat /\ 2 ^ 8 \in Nat
  OBVIOUS
<1>3. k = 0 \/ k = 1 \/ k = 2 \/ k = 3 \/ k = 4 \/ k = 5 \/ k = 6 \/ k = 7 \/ k = 8
  BY <1>1
<1> HIDE DEF k
<1>4. 2 ^ k \in Nat
  BY <1>2, <1>3
<1>5. Delay(failures) = Least(Interval, 2 ^ k)
  BY DEF Delay, k
<1> QED
  BY <1>4, <1>5, ReportAssumption DEF Least

LEMMA TimerInit == Init => TimerInv
<1> SUFFICES ASSUME Init PROVE TimerInv
  OBVIOUS
<1>1. ReportType(sent)
  BY DEF Init, ReportType, NoReport
<1>2. TimerTypes
  <2>1. initialPending \in BOOLEAN /\ stepped \in BOOLEAN
    BY DEF Init
  <2>2. /\ sinceTick = 0 /\ consecutiveFailures = 0 /\ nextAllowedAt = 0
        /\ faults = 0 /\ skipped = 0
    BY DEF Init
  <2> QED
    BY <1>1, <2>1, <2>2, ReportAssumption DEF TimerTypes
<1>3. FirstReportAhead /\ NextTickAllowed
  BY ReportAssumption DEF Init, FirstReportAhead, NextTickAllowed
<1> QED
  BY <1>2, <1>3 DEF TimerInv

LEMMA TimersFire ==
  ASSUME IInv, TimerInv, InitialTimerFires \/ IntervalTimerFires
  PROVE  TimerInv'
<1> USE ReportAssumption DEF IInv, ReportTypes, TimerInv, TimerTypes
<1>1. up /\ UNCHANGED <<up, clock, faults, stepped, sent, nextAllowedAt, consecutiveFailures>>
  BY DEF InitialTimerFires, IntervalTimerFires, Trigger, backoff
<1>2. ReportType(sent)'
  BY <1>1 DEF ReportType
<1>3. \/ skipped' = 0
      \/ ~MayTrigger /\ skipped' = (IF running THEN skipped ELSE skipped + 1)
  BY DEF InitialTimerFires, IntervalTimerFires, Trigger
<1>4. CASE InitialTimerFires
  <2>1. MayTrigger /\ skipped' = 0
    BY <1>3, <1>4 DEF InitialTimerFires, FirstReportAhead, MayTrigger
  <2>2. initialPending' = FALSE /\ sinceTick' = sinceTick
    BY <1>4 DEF InitialTimerFires
  <2>3. FirstReportAhead' /\ NextTickAllowed'
    BY <1>1, <2>1, <2>2 DEF FirstReportAhead, NextTickAllowed
  <2>4. TimerTypes'
    BY <1>1, <1>2, <2>1, <2>2
  <2> QED
    BY <2>3, <2>4
<1>5. CASE IntervalTimerFires
  <2>1. /\ ~initialPending /\ initialPending' = initialPending
        /\ sinceTick = Interval /\ sinceTick' = 0
    BY <1>5 DEF IntervalTimerFires, FirstReportAhead
  <2>2. FirstReportAhead'
    BY <1>1, <2>1 DEF FirstReportAhead
  <2>3. NextTickAllowed'
    <3> SUFFICES ASSUME ~stepped
                 PROVE  /\ nextAllowedAt <= clock + Interval
                        /\ skipped' > 0 => skipped' = 1
      BY <1>1, <2>1 DEF NextTickAllowed
    <3>1. skipped > 0 => skipped = 1 /\ nextAllowedAt <= clock
      BY <2>1 DEF NextTickAllowed
    <3> QED
      BY <1>3, <3>1 DEF NextTickAllowed, MayTrigger
  <2>4. skipped' \in Nat
    BY <1>3
  <2>5. TimerTypes'
    BY <1>1, <1>2, <2>1, <2>4
  <2> QED
    BY <2>2, <2>3, <2>5
<1> QED
  BY <1>4, <1>5

\* An invocation is in progress only after the first timer has fired.
LEMMA NotBeforeFirst ==
  ASSUME IInv, TimerInv, NEW trigger \in Triggers, runs[trigger].at # "idle"
  PROVE  up /\ ~initialPending
BY DEF IInv, RunningIsHeld, TimerInv, FirstReportAhead

LEMMA EndsKeepTimers ==
  ASSUME IInv, TimerInv, NEW trigger \in Triggers,
         \/ NotActive(trigger) \/ Accepted(trigger)
         \/ AcceptedUnrecorded(trigger) \/ CollectFails(trigger)
         \/ Refused(trigger)
  PROVE  TimerInv'
<1> USE DEF IInv, ReportTypes, TimerInv, TimerTypes
<1>1. up /\ ~initialPending
  BY NotBeforeFirst DEF NotActive, Accepted, AcceptedUnrecorded, CollectFails, Refused
<1>2. UNCHANGED <<up, clock, sinceTick, initialPending, sent, stepped>> /\ faults' \in Nat
  BY DEF NotActive, Accepted, AcceptedUnrecorded, CollectFails, Refused, Failed, Fault,
         timers, history
<1>3. ReportType(sent)'
  BY <1>2 DEF ReportType
<1>4. FirstReportAhead'
  BY <1>1, <1>2 DEF FirstReportAhead
<1>5. CASE NotActive(trigger) \/ Accepted(trigger)
  <2>1. /\ skipped' = skipped
        /\ \/ UNCHANGED <<consecutiveFailures, nextAllowedAt>>
           \/ consecutiveFailures' = 0 /\ nextAllowedAt' = 0
    BY <1>5 DEF NotActive, Accepted, history
  <2>2. NextTickAllowed'
    BY <1>2, <2>1, ReportAssumption DEF NextTickAllowed
  <2> QED
    BY <1>2, <1>3, <1>4, <2>1, <2>2
<1>6. ASSUME NEW failures \in Nat, Failed(trigger, failures)
      PROVE  TimerInv'
  <2>1. Delay(failures) \in Nat /\ Delay(failures) <= Interval
    BY DelayIsBounded
  <2>2. /\ consecutiveFailures' = failures
        /\ nextAllowedAt' = clock + Delay(failures)
        /\ skipped' = 0
    BY <1>6 DEF Failed
  <2>3. NextTickAllowed'
    BY <1>2, <2>1, <2>2, ReportAssumption DEF NextTickAllowed
  <2> QED
    BY <1>2, <1>3, <1>4, <2>1, <2>2, <2>3
<1> QED
  BY <1>5, <1>6 DEF AcceptedUnrecorded, CollectFails, Refused

LEMMA PostKeepsTimers ==
  ASSUME IInv, TimerInv, NEW trigger \in Triggers, Post(trigger)
  PROVE  TimerInv'
<1>1. UNCHANGED <<up, clock, sinceTick, initialPending, running, consecutiveFailures,
                  nextAllowedAt, faults, stepped, skipped>>
  BY DEF Post, timers, backoff, history
<1>2. runs[trigger] \in RunType
  BY DEF IInv, ReportTypes
<1>3. PICK listed \in SUBSET Users : sent' = Report(trigger, listed)
  BY DEF Post
<1>4. ReportType(Report(trigger, listed))
  BY <1>2 DEF ReportType, Report, RunType
<1>5. ReportType(sent)'
  BY <1>3, <1>4 DEF ReportType
<1> QED
  BY <1>1, <1>5 DEF TimerInv, TimerTypes, FirstReportAhead, NextTickAllowed

LEMMA TimePasses ==
  ASSUME IInv, TimerInv, Tick
  PROVE  TimerInv'
<1> USE ReportAssumption DEF IInv, ReportTypes, TimerInv, TimerTypes
<1>1. /\ clock' = clock + 1
      /\ UNCHANGED <<up, initialPending, running, consecutiveFailures, nextAllowedAt,
                     sent, faults, stepped, skipped>>
  BY DEF Tick, backoff, history
<1>2. ReportType(sent)'
  BY <1>1 DEF ReportType
<1>3. CASE up
  <2>1. sinceTick' = sinceTick + 1 /\ sinceTick # Interval
        /\ (initialPending => sinceTick # InitialDelay)
    BY <1>3 DEF Tick, TimerDue
  <2> QED
    BY <1>1, <1>2, <1>3, <2>1 DEF FirstReportAhead, NextTickAllowed
<1>4. CASE ~up
  <2>1. sinceTick' = 0
    BY <1>4 DEF Tick
  <2> QED
    BY <1>1, <1>2, <1>4, <2>1 DEF FirstReportAhead, NextTickAllowed
<1> QED
  BY <1>3, <1>4

LEMMA ProcessKeepsTimers ==
  ASSUME IInv, TimerInv, ClockBack \/ AgentCrash \/ Bootstrap
  PROVE  TimerInv'
<1> USE ReportAssumption DEF IInv, ReportTypes, TimerInv, TimerTypes
<1>1. UNCHANGED sent /\ faults' \in Nat
  BY DEF ClockBack, AgentCrash, Bootstrap, Fault
<1>2. ReportType(sent)'
  BY <1>1 DEF ReportType
<1>3. CASE ClockBack
  BY <1>1, <1>2, <1>3 DEF ClockBack, FirstReportAhead, NextTickAllowed, timers, backoff
<1>4. CASE AgentCrash
  BY <1>1, <1>2, <1>4 DEF AgentCrash, FirstReportAhead, NextTickAllowed
<1>5. CASE Bootstrap
  BY <1>1, <1>2, <1>5 DEF Bootstrap, FirstReportAhead, NextTickAllowed, timers, backoff, history
<1> QED
  BY <1>3, <1>4, <1>5

\* Every step keeps the timers and the back-off in order.
LEMMA NextKeepsTimers ==
  ASSUME IInv, TimerInv, [Next]_vars
  PROVE  TimerInv'
<1>1. ASSUME UNCHANGED <<up, clock, timers, backoff, sent, faults, history>>
      PROVE  TimerInv'
  <2>1. ReportType(sent)'
    BY <1>1 DEF TimerInv, TimerTypes, ReportType
  <2> QED
    BY <1>1, <2>1
    DEF TimerInv, TimerTypes, FirstReportAhead, NextTickAllowed, timers, backoff, history
<1>2. CASE InitialTimerFires \/ IntervalTimerFires
  BY <1>2, TimersFire
<1>3. CASE Query \/ XrayRestarts \/ (\E user \in Users : Transfer(user)) \/ UNCHANGED vars
  BY <1>1, <1>3 DEF Query, XrayRestarts, Transfer, vars
<1>4. ASSUME NEW trigger \in Triggers,
             \/ StartCollecting(trigger) \/ \E call \in Calls : Answer(trigger, call)
      PROVE  TimerInv'
  BY <1>1, <1>4 DEF StartCollecting, Answer
<1>5. ASSUME NEW trigger \in Triggers, Post(trigger)
      PROVE  TimerInv'
  BY <1>5, PostKeepsTimers
<1>6. ASSUME NEW trigger \in Triggers,
             \/ NotActive(trigger) \/ Accepted(trigger)
             \/ AcceptedUnrecorded(trigger) \/ CollectFails(trigger)
             \/ Refused(trigger)
      PROVE  TimerInv'
  BY <1>6, EndsKeepTimers
<1>7. CASE Tick
  BY <1>7, TimePasses
<1>8. CASE ClockBack \/ AgentCrash \/ Bootstrap
  BY <1>8, ProcessKeepsTimers
<1> QED
  BY <1>2, <1>3, <1>4, <1>5, <1>6, <1>7, <1>8 DEF Next

\* The invariant and what the timers add to it hold in every behaviour.
THEOREM TimerInvariance == Spec => [](IInv /\ TimerInv)
<1>1. IInv /\ TimerInv /\ [Next]_vars => TimerInv'
  BY NextKeepsTimers
<1> QED
  BY Invariance, TimerInit, <1>1, PTL DEF Spec

\* The variables of the reporter keep to their types.
THEOREM TypeCorrect == Spec => []TypeOK
<1>1. IInv /\ TimerInv => TypeOK
  BY DEF IInv, ReportTypes, TimerInv, TimerTypes, TypeOK
<1> QED
  BY TimerInvariance, <1>1, PTL

\* After a failure the back-off refuses at most one tick, for every interval
\* of at least ten seconds and any number of failures, as long as the wall
\* clock is not set back (traffic-reporter.service.ts).
THEOREM BackoffIsShort == Spec => []BackoffSkipsOneTick
<1>1. IInv /\ TimerInv => BackoffSkipsOneTick
  BY DEF TimerInv, TimerTypes, NextTickAllowed, BackoffSkipsOneTick
<1> QED
  BY TimerInvariance, <1>1, PTL

-----------------------------------------------------------------------------
(***************************************************************************)
(* The counters.                                                           *)
(***************************************************************************)

\* What was sent last is not ahead of Xray.
SentIsPast ==
  ~sent.restarted =>
    /\ sent.runtimeEpoch <= xray.epoch
    /\ sent.runtimeEpoch = xray.epoch =>
         \A user \in DOMAIN sent.users : sent.users[user] <= xray.traffic[user]

\* An answer lies between what was sent last and what Xray counts now, as long
\* as Xray was not started since the snapshot began.
Between(run) ==
  run.at = "collecting" /\ ~run.restarted =>
    /\ "invocationId" \in run.answered => run.epoch = xray.epoch
    /\ "userTraffic" \in run.answered =>
         /\ \A user \in Users : run.traffic[user] <= xray.traffic[user]
         /\ ~sent.restarted /\ sent.runtimeEpoch = xray.epoch =>
              \A user \in DOMAIN sent.users : sent.users[user] <= run.traffic[user]

CounterInv == SentIsPast /\ \A trigger \in Triggers : Between(runs[trigger])

LEMMA CounterInit == Init => CounterInv
<1> SUFFICES ASSUME Init PROVE CounterInv
  OBVIOUS
<1>1. \A trigger \in Triggers : runs[trigger].at = "idle"
  BY IdleIsRun DEF Init
<1>2. SentIsPast
  BY DEF Init, NoReport, SentIsPast
<1> QED
  BY <1>1, <1>2 DEF CounterInv, Between

\* The numbers the invariant compares.
LEMMA Numbers ==
  ASSUME IInv, TimerInv
  PROVE  /\ xray.epoch \in Nat /\ \A user \in Users : xray.traffic[user] \in Nat
         /\ sent.runtimeEpoch \in Nat
         /\ DOMAIN sent.users \subseteq Users
         /\ \A user \in DOMAIN sent.users : sent.users[user] \in Nat
         /\ \A trigger \in Triggers, user \in Users : runs[trigger].traffic[user] \in Nat
<1>1. ReportType(sent)
  BY DEF TimerInv, TimerTypes
<1>2. sent.users \in [DOMAIN sent.users -> Nat]
  BY <1>1 DEF ReportType
<1> QED
  BY <1>1, <1>2 DEF IInv, ReportTypes, RunType, ReportType

\* An invocation that is not collecting has no answers to compare.
LEMMA OthersIrrelevant ==
  ASSUME CounterInv, UNCHANGED <<xray, sent>>, NEW trigger \in Triggers,
         NEW run, runs' = [runs EXCEPT ![trigger] = run],
         run.at # "collecting", runs \in [Triggers -> RunType]
  PROVE  CounterInv'
BY DEF CounterInv, SentIsPast, Between

LEMMA AnswerIsBetween ==
  ASSUME IInv, TimerInv, CounterInv, NEW trigger \in Triggers, NEW call \in Calls,
         Answer(trigger, call)
  PROVE  CounterInv'
<1> DEFINE run == [runs[trigger] EXCEPT
             !.answered = @ \cup {call},
             !.traffic = IF call = "userTraffic" THEN xray.traffic ELSE @,
             !.epoch = IF call = "invocationId" THEN xray.epoch ELSE @]
<1>1. /\ run.at = "collecting"
      /\ run.restarted = runs[trigger].restarted
      /\ run.answered = runs[trigger].answered \cup {call}
      /\ run.traffic = IF call = "userTraffic" THEN xray.traffic ELSE runs[trigger].traffic
      /\ run.epoch = IF call = "invocationId" THEN xray.epoch ELSE runs[trigger].epoch
  BY SMTT(20) DEF IInv, ReportTypes, RunType, Answer
<1>2. /\ runs' = [runs EXCEPT ![trigger] = run]
      /\ runs[trigger].at = "collecting"
      /\ UNCHANGED <<xray, sent>>
  BY DEF Answer, IInv, ReportTypes, RunType
<1> HIDE DEF run
<1>3. SentIsPast'
  BY <1>2 DEF CounterInv, SentIsPast
<1>4. Between(run)
  <2>1. call = "userTraffic" \/ call = "invocationId"
    BY DEF Calls
  <2>2. Between(runs[trigger]) /\ SentIsPast
    BY DEF CounterInv
  <2> QED
    BY <1>1, <1>2, <2>1, <2>2, Numbers DEF Between, SentIsPast
<1>5. \A other \in Triggers : Between(runs'[other])
  BY <1>2, <1>4 DEF CounterInv, IInv, ReportTypes
<1> QED
  BY <1>2, <1>3, <1>5 DEF CounterInv, Between

\* The report that is posted is between the last one and the counters of Xray.
LEMMA PostAccumulates ==
  ASSUME IInv, TimerInv, CounterInv, NEW trigger \in Triggers, Post(trigger)
  PROVE  /\ CounterInv'
         /\ sent'.runtimeEpoch = sent.runtimeEpoch /\ ~sent.restarted /\ ~sent'.restarted
              => \A user \in DOMAIN sent.users \cap DOMAIN sent'.users :
                   sent'.users[user] >= sent.users[user]
<1>1. PICK listed \in SUBSET Users : sent' = Report(trigger, listed)
  BY DEF Post
<1>2. /\ sent'.runtimeEpoch = runs[trigger].epoch
      /\ sent'.restarted = runs[trigger].restarted
      /\ DOMAIN sent'.users = listed
      /\ \A user \in listed : sent'.users[user] = runs[trigger].traffic[user]
  BY <1>1 DEF Report
<1>3. /\ runs[trigger].at = "collecting"
      /\ "userTraffic" \in runs[trigger].answered
      /\ "invocationId" \in runs[trigger].answered
      /\ xray' = xray
  BY DEF Post, Calls
<1>4. Between(runs[trigger]) /\ SentIsPast
  BY DEF CounterInv
<1>5. SentIsPast'
  BY <1>2, <1>3, <1>4, Numbers DEF Between, SentIsPast
<1>6. \A other \in Triggers : runs'[other].at # "collecting"
  <2>1. \A other \in Triggers : runs[other].at # "idle" => other = trigger
    BY <1>3 DEF IInv, RunningIsHeld
  <2>2. runs' = [runs EXCEPT ![trigger] = [Idle EXCEPT
                  !.at = "posting", !.reportedAt = runs[trigger].reportedAt]]
    BY DEF Post
  <2> QED
    BY <2>1, <2>2 DEF IInv, ReportTypes, Idle
<1>7. CounterInv'
  BY <1>5, <1>6 DEF CounterInv, Between
<1>8. ASSUME sent'.runtimeEpoch = sent.runtimeEpoch, ~sent.restarted, ~sent'.restarted,
             NEW user \in DOMAIN sent.users \cap DOMAIN sent'.users
      PROVE  sent'.users[user] >= sent.users[user]
  <2>1. sent.runtimeEpoch = xray.epoch
    BY <1>2, <1>3, <1>4, <1>8 DEF Between
  <2> QED
    BY <1>2, <1>3, <1>4, <1>8, <2>1, Numbers DEF Between
<1> QED
  BY <1>7, <1>8

LEMMA XrayKeepsCounters ==
  ASSUME IInv, TimerInv, CounterInv, XrayRestarts \/ \E user \in Users : Transfer(user)
  PROVE  CounterInv'
<1>1. CASE XrayRestarts
  <2>1. xray'.epoch = xray.epoch + 1 /\ sent' = sent
    BY <1>1 DEF XrayRestarts
  <2>2. SentIsPast'
    BY <2>1, Numbers DEF CounterInv, SentIsPast
  <2>3. ASSUME NEW trigger \in Triggers
        PROVE  runs'[trigger].at = "collecting" => runs'[trigger].restarted
    BY <1>1 DEF XrayRestarts, IInv, ReportTypes, RunType
  <2> QED
    BY <2>2, <2>3 DEF CounterInv, Between
<1>2. ASSUME NEW user \in Users, Transfer(user)
      PROVE  CounterInv'
  <2>1. /\ xray'.epoch = xray.epoch
        /\ \A other \in Users : /\ xray'.traffic[other] \in Nat
                                /\ xray'.traffic[other] >= xray.traffic[other]
        /\ UNCHANGED <<sent, runs>>
    BY <1>2 DEF Transfer, IInv, ReportTypes
  <2>2. SentIsPast'
    BY <2>1, Numbers DEF CounterInv, SentIsPast
  <2>3. ASSUME NEW trigger \in Triggers
        PROVE  Between(runs[trigger])'
    BY <2>1, Numbers DEF CounterInv, Between
  <2> QED
    BY <2>1, <2>2, <2>3 DEF CounterInv
<1> QED
  BY <1>1, <1>2

\* Every step keeps the invariant, and the counters of a user accumulate.
LEMMA NextAccumulates ==
  ASSUME IInv, TimerInv, CounterInv, [Next]_vars
  PROVE  /\ CounterInv'
         /\ /\ sent' # sent
            /\ sent'.runtimeEpoch = sent.runtimeEpoch
            /\ ~sent.restarted /\ ~sent'.restarted
            => \A user \in DOMAIN sent.users \cap DOMAIN sent'.users :
                 sent'.users[user] >= sent.users[user]
<1>1. ASSUME UNCHANGED <<runs, xray, sent>>
      PROVE  CounterInv'
  BY <1>1 DEF CounterInv, SentIsPast, Between
<1>2. CASE InitialTimerFires \/ IntervalTimerFires
  <2>1. UNCHANGED <<xray, sent>>
    BY <1>2 DEF InitialTimerFires, IntervalTimerFires
  <2>2. CASE UNCHANGED runs
    BY <1>1, <2>1, <2>2
  <2>3. ASSUME NEW trigger \in Triggers, runs' = [runs EXCEPT ![trigger].at = "checking"]
        PROVE  CounterInv'
    <3> DEFINE run == [runs[trigger] EXCEPT !.at = "checking"]
    <3>1. run.at = "checking" /\ runs' = [runs EXCEPT ![trigger] = run]
      BY <2>3 DEF IInv, ReportTypes, RunType
    <3> HIDE DEF run
    <3> QED
      BY <2>1, <3>1, OthersIrrelevant DEF IInv, ReportTypes
  <2> QED
    BY <1>2, <2>1, <2>2, <2>3 DEF InitialTimerFires, IntervalTimerFires, Trigger
<1>3. CASE Query \/ Tick \/ ClockBack \/ Bootstrap \/ UNCHANGED vars
  BY <1>1, <1>3 DEF Query, Tick, ClockBack, Bootstrap, vars
<1>4. ASSUME NEW trigger \in Triggers, StartCollecting(trigger)
      PROVE  CounterInv' /\ sent' = sent
  <2> DEFINE run == [Idle EXCEPT !.at = "collecting", !.reportedAt = NextReportedAt]
  <2>1. run.answered = {} /\ runs' = [runs EXCEPT ![trigger] = run] /\ UNCHANGED <<xray, sent>>
    BY <1>4 DEF StartCollecting, Idle
  <2> HIDE DEF run
  <2>2. Between(run)
    BY <2>1 DEF Between
  <2> QED
    BY <2>1, <2>2 DEF CounterInv, SentIsPast, Between, IInv, ReportTypes
<1>5. ASSUME NEW trigger \in Triggers, NEW call \in Calls, Answer(trigger, call)
      PROVE  CounterInv' /\ sent' = sent
  BY <1>5, AnswerIsBetween DEF Answer
<1>6. ASSUME NEW trigger \in Triggers,
             \/ NotActive(trigger) \/ Accepted(trigger)
             \/ AcceptedUnrecorded(trigger) \/ CollectFails(trigger)
             \/ Refused(trigger)
      PROVE  CounterInv' /\ sent' = sent
  <2>1. Return(trigger) /\ UNCHANGED <<xray, sent>>
    BY <1>6 DEF NotActive, Accepted, AcceptedUnrecorded, CollectFails, Refused, Failed
  <2> QED
    BY <2>1, IdleIsRun, OthersIrrelevant DEF Return, IInv, ReportTypes
<1>7. CASE AgentCrash
  BY <1>7, IdleIsRun DEF AgentCrash, CounterInv, SentIsPast, Between
<1>8. CASE XrayRestarts \/ \E user \in Users : Transfer(user)
  BY <1>8, XrayKeepsCounters DEF XrayRestarts, Transfer
<1>9. ASSUME NEW trigger \in Triggers, Post(trigger)
      PROVE  /\ CounterInv'
             /\ sent'.runtimeEpoch = sent.runtimeEpoch /\ ~sent.restarted /\ ~sent'.restarted
                  => \A user \in DOMAIN sent.users \cap DOMAIN sent'.users :
                       sent'.users[user] >= sent.users[user]
  BY <1>9, PostAccumulates
<1>10. CASE InitialTimerFires \/ IntervalTimerFires \/ Query \/ Tick \/ ClockBack
            \/ Bootstrap \/ AgentCrash \/ UNCHANGED vars
            \/ XrayRestarts \/ \E user \in Users : Transfer(user)
  <2>1. sent' = sent
    BY <1>10 DEF InitialTimerFires, IntervalTimerFires, Query, Tick, ClockBack, Bootstrap,
                 AgentCrash, vars, XrayRestarts, Transfer
  <2> QED
    BY <1>2, <1>3, <1>7, <1>8, <1>10, <2>1
<1> QED
  BY <1>4, <1>5, <1>6, <1>9, <1>10 DEF Next

\* A user's counter does not decrease between two reports of one start of
\* Xray, for any number of users and of starts, unless Xray was started during
\* one of the snapshots (traffic-reporter.service.ts, xray.client.ts).
THEOREM CountersAccumulate == Spec => ReportsAccumulate
<1>1. IInv /\ TimerInv /\ CounterInv /\ [Next]_vars => CounterInv'
  BY NextAccumulates
<1>2. IInv /\ TimerInv /\ CounterInv /\ [Next]_vars =>
        [/\ sent' # sent
         /\ sent'.runtimeEpoch = sent.runtimeEpoch
         /\ ~sent.restarted /\ ~sent'.restarted
         => \A user \in DOMAIN sent.users \cap DOMAIN sent'.users :
              sent'.users[user] >= sent.users[user]]_vars
  BY NextAccumulates
<1> QED
  BY TimerInvariance, CounterInit, <1>1, <1>2, PTL DEF Spec, ReportsAccumulate

=============================================================================
