-------------------------- MODULE LifecycleProofs --------------------------
(***************************************************************************)
(* Proofs about Lifecycle, for every set of inputs and of requests, every  *)
(* number of operations and every number of failures.                      *)
(***************************************************************************)
EXTENDS Lifecycle, FiniteSetTheorems, TLAPS

OperationIds == Ops!OperationIds

\* What the handlers rely on of the coordinator and its table.
Coordinated ==
  /\ Ops!TypeOK
  /\ ~up => starting = {} /\ awaiting = {}
  /\ up => \A id \in OperationIds : Ops!Active(id) <=> id \in starting \cup awaiting
  /\ \A id, other \in OperationIds : Ops!Active(id) /\ Ops!Active(other) => id = other
  /\ \A poll \in Polls :
       observing[poll] # 0 =>
         /\ observing[poll] <= created
         /\ ~Ops!Active(observing[poll])
         /\ operations[observing[poll]] \in Ops!OperationRecord

RunType ==
  {r \in [command : Command, plan : Plans, at : Progress, backup : Inputs \cup {NoConfig}] :
     r.command \in {"install", "apply"} => r.plan \in Inputs}

\* The processes of the helper, by process id.
HelpersTyped ==
  /\ IsFiniteSet(DOMAIN helpers)
  /\ DOMAIN helpers \subseteq Nat \ {0}
  /\ helpers \in [DOMAIN helpers -> RunType]

HostTyped ==
  /\ {marker, files, active, disturbed} \subseteq BOOLEAN
  /\ hostConfig \in Inputs \cup {NoConfig}
  /\ config \in Inputs \cup {NoConfig}
  /\ protocol \in Protocols \cup {"none"}
  /\ faults \in 0 .. MaxFaults
  /\ seen \in [Polls -> BOOLEAN]

JobType ==
  [at : {"none", "queued", "helper", "cleanup", "restoring"}, input : Plans, child : Nat]

CallType ==
  [at : {"idle", "cleaning", "checked", "service"},
   request : Ops!OperationType \cup {"none", "start", "stop"}, input : Plans, child : Nat]

\* A handler is pending for the operations in progress, and waits for a run
\* when it is to.
JobsMatch ==
  /\ jobs \in [OperationIds -> JobType]
  /\ \A id \in OperationIds :
       /\ jobs[id].at # "none" <=> id \in starting \cup awaiting
       /\ jobs[id].at = "queued" <=> id \in starting
       /\ jobs[id].child # 0 <=> jobs[id].at \in {"helper", "cleanup"}
       /\ jobs[id].at # "none" =>
            /\ Type(id) \in Ops!OperationType
            /\ Type(id) # "uninstall" => jobs[id].input \in Inputs

CallersMatch ==
  /\ callers \in [Callers -> CallType]
  /\ \A c \in Callers :
       /\ callers[c].child # 0 <=> callers[c].at \in {"cleaning", "service"}
       /\ callers[c].at = "cleaning" =>
            callers[c].request = "install" /\ callers[c].input \in Inputs
       /\ callers[c].at = "checked" =>
            /\ callers[c].request \in Ops!OperationType
            /\ callers[c].input \in Fingerprints
            /\ callers[c].request # "uninstall" => callers[c].input \in Inputs

\* Whoever waits for a run waits for one that exists, and alone.
ChildrenExist ==
  /\ \A id \in OperationIds : jobs[id].child \in DOMAIN helpers \cup {0}
  /\ \A c \in Callers : callers[c].child \in DOMAIN helpers \cup {0}

ChildrenDiffer ==
  /\ \A id, other \in OperationIds :
       jobs[id].child # 0 /\ jobs[id].child = jobs[other].child => id = other
  /\ \A c, other \in Callers :
       callers[c].child # 0 /\ callers[c].child = callers[other].child => c = other
  /\ \A id \in OperationIds, c \in Callers :
       jobs[id].child # 0 => jobs[id].child # callers[c].child

IInv ==
  /\ Coordinated
  /\ HelpersTyped
  /\ HostTyped
  /\ JobsMatch
  /\ CallersMatch
  /\ ChildrenExist
  /\ ChildrenDiffer

-----------------------------------------------------------------------------
(***************************************************************************)
(* The coordinator.                                                        *)
(***************************************************************************)

\* What an update of one row does to the rows in progress.
LEMMA RowUpdated ==
  ASSUME Ops!TypeOK, NEW id \in OperationIds, NEW row \in Ops!OperationRecord,
         operations' = [operations EXCEPT ![id] = row]
  PROVE  /\ operations' \in [OperationIds -> Ops!OperationRecord \cup {Ops!Absent}]
         /\ operations'[id] = row
         /\ Ops!Active(id)' <=> row.state \in {"pending", "running"}
         /\ \A other \in OperationIds : other # id =>
              /\ operations'[other] = operations[other]
              /\ Ops!Active(other)' <=> Ops!Active(other)
BY DEF Ops!TypeOK, Ops!Active, OperationIds

LEMMA ActiveRow ==
  ASSUME Ops!TypeOK, NEW id \in OperationIds, Ops!Active(id)
  PROVE  operations[id] \in Ops!OperationRecord
BY DEF Ops!TypeOK, Ops!Active, Ops!Absent, OperationIds

LEMMA AcceptKeeps ==
  ASSUME Coordinated, NEW type \in Ops!OperationType, NEW fingerprint \in Fingerprints,
         Ops!Accept(type, fingerprint)
  PROVE  Coordinated'
<1> USE BoundsAssumption
<1> DEFINE id == created + 1
           row == [operationType |-> type, requestFingerprint |-> fingerprint,
                   state |-> "pending", errorCode |-> "none"]
<1>1. /\ up /\ up' = up /\ starting = {} /\ starting' = {id} /\ awaiting' = awaiting
      /\ running' = TRUE /\ created' = id /\ observing' = observing
      /\ operations' = [operations EXCEPT ![id] = row]
      /\ \A other \in OperationIds : ~Ops!Active(other)
      /\ created < MaxOperations
  BY DEF Ops!Accept, Ops!Admissible, OperationIds
<1>2. id \in OperationIds /\ id \in 1 .. MaxOperations /\ row \in Ops!OperationRecord
  BY <1>1 DEF Coordinated, Ops!TypeOK, OperationIds, Ops!OperationIds, Ops!OperationRecord
<1>3. row.state = "pending"
  OBVIOUS
<1> HIDE DEF row
<1>a. Ops!TypeOK
  BY DEF Coordinated
<1>b. id \in Nat /\ created \in Nat
  BY <1>1, <1>a DEF Ops!TypeOK
<1> HIDE DEF id
<1>4. /\ operations' \in [OperationIds -> Ops!OperationRecord \cup {Ops!Absent}]
      /\ operations'[id] = row
      /\ operations'[id].state = "pending"
      /\ \A other \in OperationIds : other # id =>
           /\ operations'[other] = operations[other]
           /\ operations'[other].state \notin {"pending", "running"}
  BY <1>1, <1>2, <1>3, <1>a, RowUpdated DEF Ops!Active
<1>5. awaiting = {}
  BY <1>1 DEF Coordinated, Ops!TypeOK, OperationIds
<1>6. Ops!TypeOK'
  BY <1>1, <1>2, <1>4, <1>b DEF Coordinated, Ops!TypeOK, OperationIds
<1>7. \A poll \in Polls : observing[poll] # 0 => observing[poll] <= created
                                               /\ observing[poll] \in OperationIds
  BY DEF Coordinated, Ops!TypeOK, OperationIds, Ops!OperationIds
<1>8. ASSUME NEW poll \in Polls, observing[poll] # 0
      PROVE  /\ observing[poll] <= id
             /\ operations'[observing[poll]].state \notin {"pending", "running"}
             /\ operations'[observing[poll]] \in Ops!OperationRecord
  <2>1. observing[poll] <= created /\ operations[observing[poll]] \in Ops!OperationRecord
        /\ observing[poll] \in OperationIds /\ observing[poll] \in Nat
    BY <1>7, <1>8, <1>a DEF Coordinated, Ops!TypeOK
  <2>2. id > created
    BY <1>b DEF id
  <2> QED
    BY <1>4, <1>b, <2>1, <2>2
<1> QED
  BY <1>1, <1>2, <1>4, <1>5, <1>6, <1>8 DEF Coordinated, Ops!Active

LEMMA BeginKeeps ==
  ASSUME Coordinated, NEW id \in OperationIds, Ops!Begin(id)
  PROVE  Coordinated'
<1> DEFINE row == [operations[id] EXCEPT !.state = "running"]
<1>1. /\ id \in starting /\ up /\ Ops!Active(id)
      /\ starting' = starting \ {id} /\ awaiting' = awaiting \cup {id}
      /\ UNCHANGED <<up, running, created, observing>>
  BY DEF Ops!Begin, Coordinated
<1>2. operations[id] \in Ops!OperationRecord
  BY <1>1, ActiveRow DEF Coordinated
<1>3. /\ row \in Ops!OperationRecord /\ row.state = "running"
      /\ operations' = [operations EXCEPT ![id] = row]
  BY <1>2 DEF Ops!Begin, Ops!OperationRecord
<1> HIDE DEF row
<1>4. /\ operations' \in [OperationIds -> Ops!OperationRecord \cup {Ops!Absent}]
      /\ \A other \in OperationIds : Ops!Active(other)' <=> Ops!Active(other)
      /\ \A other \in OperationIds : other # id => operations'[other] = operations[other]
  BY <1>1, <1>3, RowUpdated DEF Coordinated
<1>5. Ops!TypeOK'
  BY <1>1, <1>4 DEF Coordinated, Ops!TypeOK, OperationIds
<1>6. ASSUME NEW poll \in Polls, observing[poll] # 0
      PROVE  /\ observing[poll] \in OperationIds /\ observing[poll] # id
             /\ observing[poll] <= created
             /\ ~Ops!Active(observing[poll])
             /\ operations'[observing[poll]] = operations[observing[poll]]
             /\ operations[observing[poll]] \in Ops!OperationRecord
  BY <1>1, <1>4, <1>6, BoundsAssumption
  DEF Coordinated, Ops!TypeOK, OperationIds, Ops!OperationIds
<1>7. \A poll \in Polls : observing[poll] # 0 => ~Ops!Active(observing[poll])'
  BY <1>1, <1>4, <1>6
<1>8. \A poll \in Polls : observing'[poll] # 0 =>
        operations'[observing'[poll]] \in Ops!OperationRecord
  BY <1>1, <1>6
<1>9. \A poll \in Polls : observing'[poll] # 0 => (~Ops!Active(observing[poll]))'
  BY <1>1, <1>7
<1> QED
  BY <1>1, <1>4, <1>5, <1>6, <1>8, <1>9 DEF Coordinated

LEMMA SettleKeeps ==
  ASSUME Coordinated, NEW id \in OperationIds, Ops!Succeed(id) \/ Ops!Fail(id)
  PROVE  Coordinated'
<1>1. /\ id \in starting \cup awaiting /\ up /\ Ops!Active(id)
      /\ starting' = starting \ {id} /\ awaiting' = awaiting \ {id}
      /\ running' = FALSE
      /\ UNCHANGED <<up, created, observing>>
  BY DEF Ops!Succeed, Ops!Fail, Coordinated
<1>2. operations[id] \in Ops!OperationRecord
  BY <1>1, ActiveRow DEF Coordinated
<1>3. PICK row \in Ops!OperationRecord :
        /\ row.state \in {"succeeded", "failed"}
        /\ operations' = [operations EXCEPT ![id] = row]
  <2>1. CASE Ops!Succeed(id)
    <3>1. [operations[id] EXCEPT !.state = "succeeded"] \in Ops!OperationRecord
      BY <1>2 DEF Ops!OperationRecord
    <3> QED
      BY <2>1, <3>1, <1>2 DEF Ops!Succeed, Ops!OperationRecord
  <2>2. CASE Ops!Fail(id)
    <3>1. [operations[id] EXCEPT !.state = "failed", !.errorCode = "handler"]
            \in Ops!OperationRecord
      BY <1>2 DEF Ops!OperationRecord
    <3>2. operations' = [operations EXCEPT
            ![id] = [operations[id] EXCEPT !.state = "failed", !.errorCode = "handler"]]
      BY <2>2, <1>2 DEF Ops!Fail, Coordinated, Ops!TypeOK, Ops!OperationRecord
    <3> QED
      BY <3>1, <3>2, <1>2 DEF Ops!OperationRecord
  <2> QED
    BY <2>1, <2>2
<1>4. /\ operations' \in [OperationIds -> Ops!OperationRecord \cup {Ops!Absent}]
      /\ ~Ops!Active(id)'
      /\ \A other \in OperationIds :
           other # id => /\ Ops!Active(other)' <=> Ops!Active(other)
                         /\ operations'[other] = operations[other]
  BY <1>3, RowUpdated DEF Coordinated
<1>5. Ops!TypeOK'
  BY <1>1, <1>4 DEF Coordinated, Ops!TypeOK, OperationIds
<1>6. ASSUME NEW poll \in Polls, observing[poll] # 0
      PROVE  /\ observing[poll] \in OperationIds /\ observing[poll] # id
             /\ observing[poll] <= created
             /\ ~Ops!Active(observing[poll])
             /\ operations'[observing[poll]] = operations[observing[poll]]
             /\ operations[observing[poll]] \in Ops!OperationRecord
  BY <1>1, <1>4, <1>6, BoundsAssumption
  DEF Coordinated, Ops!TypeOK, OperationIds, Ops!OperationIds
<1>7. \A poll \in Polls : observing[poll] # 0 => ~Ops!Active(observing[poll])'
  BY <1>1, <1>4, <1>6
<1>8. \A poll \in Polls : observing'[poll] # 0 =>
        operations'[observing'[poll]] \in Ops!OperationRecord
  BY <1>1, <1>6
<1>9. \A poll \in Polls : observing'[poll] # 0 => (~Ops!Active(observing[poll]))'
  BY <1>1, <1>7
<1> QED
  BY <1>1, <1>4, <1>5, <1>6, <1>8, <1>9 DEF Coordinated

LEMMA PollKeeps ==
  ASSUME Coordinated, NEW poll \in Polls,
         Ops!Observe(poll) \/ Ops!Recover(poll) \/ Ops!Decline(poll)
  PROVE  Coordinated'
<1> USE BoundsAssumption
<1>1. UNCHANGED <<up, running, created, starting, awaiting>>
  BY DEF Ops!Observe, Ops!Recover, Ops!Decline
<1>2. \A other \in Polls : observing[other] # 0 => observing[other] \in OperationIds
  BY DEF Coordinated, Ops!TypeOK, OperationIds, Ops!OperationIds
<1>3. CASE Ops!Observe(poll)
  <2>1. created \in OperationIds /\ ~Ops!Active(created) /\ operations' = operations
        /\ observing' = [observing EXCEPT ![poll] = created]
    BY <1>3 DEF Ops!Observe, Coordinated, Ops!TypeOK, OperationIds, Ops!OperationIds
  <2>4. operations[created] \in Ops!OperationRecord
    BY <1>3, <2>1 DEF Ops!Observe, Ops!Recoverable, Ops!Interrupted, Ops!Absent,
                      Coordinated, Ops!TypeOK, OperationIds
  <2>5. created \in Nat
    BY DEF Coordinated, Ops!TypeOK
  <2>2. Ops!TypeOK'
    BY <1>1, <2>1 DEF Coordinated, Ops!TypeOK, OperationIds
  <2>3. \A id : Ops!Active(id)' <=> Ops!Active(id)
    BY <2>1 DEF Ops!Active
  <2> QED
    BY <1>1, <1>2, <2>1, <2>2, <2>3, <2>4, <2>5 DEF Coordinated, Ops!TypeOK
<1>4. CASE Ops!Decline(poll)
  <2>1. operations' = operations /\ observing' = [observing EXCEPT ![poll] = 0]
    BY <1>4 DEF Ops!Decline
  <2>2. Ops!TypeOK'
    BY <1>1, <2>1 DEF Coordinated, Ops!TypeOK, OperationIds
  <2>3. \A id : Ops!Active(id)' <=> Ops!Active(id)
    BY <2>1 DEF Ops!Active
  <2> QED
    BY <1>1, <1>2, <2>1, <2>2, <2>3 DEF Coordinated, Ops!TypeOK
<1>5. CASE Ops!Recover(poll)
  <2> DEFINE id == observing[poll]
             row == [operations[id] EXCEPT !.state = "succeeded", !.errorCode = "none"]
  <2>1. /\ id \in OperationIds /\ ~Ops!Active(id) /\ operations[id] \in Ops!OperationRecord
        /\ observing' = [observing EXCEPT ![poll] = 0]
    BY <1>2, <1>5 DEF Ops!Recover, Coordinated
  <2>2. operations' = [operations EXCEPT ![id] = row]
    BY <1>5, <2>1 DEF Ops!Recover, Coordinated, Ops!TypeOK, Ops!OperationRecord
  <2>3. row \in Ops!OperationRecord /\ row.state = "succeeded"
    BY <2>1 DEF Ops!OperationRecord
  <2> HIDE DEF id, row
  <2>4. /\ operations' \in [OperationIds -> Ops!OperationRecord \cup {Ops!Absent}]
        /\ operations'[id] = row
        /\ \A other \in OperationIds : Ops!Active(other)' <=> Ops!Active(other)
        /\ \A other \in OperationIds : other # id => operations'[other] = operations[other]
    BY <2>1, <2>2, <2>3, RowUpdated DEF Coordinated
  <2>5. Ops!TypeOK'
    BY <1>1, <2>1, <2>4 DEF Coordinated, Ops!TypeOK, OperationIds
  <2>6. ASSUME NEW other \in Polls, observing'[other] # 0
        PROVE  /\ observing'[other] = observing[other]
               /\ observing[other] <= created
               /\ ~Ops!Active(observing[other])
               /\ observing[other] \in OperationIds
               /\ operations'[observing[other]] \in Ops!OperationRecord
    <3>1. observing[other] # 0 /\ observing'[other] = observing[other]
      BY <2>1, <2>6 DEF Coordinated, Ops!TypeOK
    <3> QED
      BY <1>2, <2>3, <2>4, <3>1 DEF Coordinated
  <2>7. ASSUME NEW other \in Polls, observing'[other] # 0
        PROVE  ~Ops!Active(observing[other])'
    BY <2>4, <2>6, <2>7 DEF Ops!Active
  <2> QED
    BY <1>1, <2>4, <2>5, <2>6, <2>7 DEF Coordinated
<1> QED
  BY <1>3, <1>4, <1>5

LEMMA RestartKeeps ==
  ASSUME Coordinated, Ops!Crash \/ Ops!Bootstrap
  PROVE  Coordinated'
<1>1. CASE Ops!Crash
  <2>1. Ops!TypeOK'
    <3>1. up' \in BOOLEAN /\ running' \in BOOLEAN
      BY <1>1 DEF Ops!Crash, Ops!ForgetMemory
    <3>2. starting' = {} /\ awaiting' = {} /\ observing' \in [Polls -> 0 .. MaxOperations]
      BY <1>1, BoundsAssumption DEF Ops!Crash, Ops!ForgetMemory
    <3>3. UNCHANGED <<operations, created>>
      BY <1>1 DEF Ops!Crash
    <3> QED
      BY <3>1, <3>2, <3>3 DEF Coordinated, Ops!TypeOK
  <2>2. \A id : Ops!Active(id)' <=> Ops!Active(id)
    BY <1>1 DEF Ops!Crash, Ops!Active
  <2> QED
    BY <1>1, <2>1, <2>2 DEF Coordinated, Ops!Crash, Ops!ForgetMemory
<1>2. CASE Ops!Bootstrap
  <2>1. \A row \in Ops!OperationRecord \cup {Ops!Absent} :
          /\ Ops!MarkInterrupted(row) \in Ops!OperationRecord \cup {Ops!Absent}
          /\ Ops!MarkInterrupted(row).state \notin {"pending", "running"}
          /\ row \in Ops!OperationRecord => Ops!MarkInterrupted(row) \in Ops!OperationRecord
    <3> SUFFICES ASSUME NEW row \in Ops!OperationRecord \cup {Ops!Absent}
                 PROVE  /\ Ops!MarkInterrupted(row) \in Ops!OperationRecord \cup {Ops!Absent}
                        /\ Ops!MarkInterrupted(row).state \notin {"pending", "running"}
                        /\ row \in Ops!OperationRecord =>
                             Ops!MarkInterrupted(row) \in Ops!OperationRecord
      OBVIOUS
    <3>1. CASE row.state \in {"pending", "running"}
      <4>1. row \in Ops!OperationRecord
        BY <3>1 DEF Ops!Absent
      <4>2. Ops!MarkInterrupted(row) =
              [row EXCEPT !.state = "failed", !.errorCode = "interrupted"]
        BY <3>1 DEF Ops!MarkInterrupted
      <4> QED
        BY <4>1, <4>2 DEF Ops!OperationRecord
    <3>2. CASE row.state \notin {"pending", "running"}
      BY <3>2 DEF Ops!MarkInterrupted
    <3> QED
      BY <3>1, <3>2
  <2>2. /\ operations' = [id \in OperationIds |-> Ops!MarkInterrupted(operations[id])]
        /\ ~up /\ up' = TRUE /\ UNCHANGED <<created, running, starting, awaiting, observing>>
        /\ starting = {} /\ awaiting = {}
    BY <1>2 DEF Ops!Bootstrap, Ops!memory, OperationIds, Coordinated
  <2>3. \A id \in OperationIds : operations[id] \in Ops!OperationRecord \cup {Ops!Absent}
    BY DEF Coordinated, Ops!TypeOK, OperationIds
  <2>4. /\ operations' \in [OperationIds -> Ops!OperationRecord \cup {Ops!Absent}]
        /\ \A id \in OperationIds : ~Ops!Active(id)'
        /\ \A id \in OperationIds : operations[id] \in Ops!OperationRecord =>
             operations'[id] \in Ops!OperationRecord
    BY <2>1, <2>2, <2>3 DEF Ops!Active
  <2>5. Ops!TypeOK'
    BY <2>2, <2>4 DEF Coordinated, Ops!TypeOK, OperationIds
  <2>6. \A poll \in Polls : observing[poll] # 0 => observing[poll] \in OperationIds
    BY BoundsAssumption DEF Coordinated, Ops!TypeOK, OperationIds, Ops!OperationIds
  <2>7. \A poll \in Polls : observing[poll] # 0 => (~Ops!Active(observing[poll]))'
    BY <2>2, <2>4, <2>6
  <2> QED
    BY <2>2, <2>4, <2>5, <2>6, <2>7 DEF Coordinated
<1> QED
  BY <1>1, <1>2

LEMMA CoordinatorKeeps == Coordinated /\ [Ops!Next]_opsVars => Coordinated'
<1> SUFFICES ASSUME Coordinated, [Ops!Next]_opsVars PROVE Coordinated'
  OBVIOUS
<1>1. CASE UNCHANGED opsVars
  BY <1>1 DEF opsVars, Coordinated, Ops!TypeOK, Ops!Active
<1>2. CASE Ops!Next
  BY <1>2, AcceptKeeps, BeginKeeps, SettleKeeps, PollKeeps, RestartKeeps
  DEF Ops!Next, OperationIds
<1> QED
  BY <1>1, <1>2

\* An operation in progress keeps its type.
LEMMA TypesKept ==
  ASSUME Coordinated, [Ops!Next]_opsVars, NEW id \in OperationIds, Ops!Active(id)
  PROVE  operations'[id].operationType = operations[id].operationType
<1>1. /\ Ops!TypeOK /\ operations[id] \in Ops!OperationRecord
      /\ operations \in [OperationIds -> Ops!OperationRecord \cup {Ops!Absent}]
  BY ActiveRow DEF Coordinated, Ops!TypeOK, OperationIds
<1>2. CASE \E type \in Ops!OperationType, fingerprint \in Fingerprints :
             Ops!Accept(type, fingerprint)
  BY <1>2 DEF Ops!Accept, Ops!Admissible, OperationIds
<1>3. ASSUME NEW other \in OperationIds,
             Ops!Begin(other) \/ Ops!Succeed(other) \/ Ops!Fail(other)
      PROVE  operations'[id].operationType = operations[id].operationType
  BY <1>1, <1>3 DEF Ops!Begin, Ops!Succeed, Ops!Fail, Ops!OperationRecord
<1>4. ASSUME NEW poll \in Polls, Ops!Observe(poll) \/ Ops!Recover(poll) \/ Ops!Decline(poll)
      PROVE  operations'[id].operationType = operations[id].operationType
  BY <1>1, <1>4 DEF Ops!Observe, Ops!Recover, Ops!Decline, Ops!OperationRecord
<1>5. CASE Ops!Crash \/ UNCHANGED opsVars
  BY <1>5 DEF Ops!Crash, opsVars
<1>6. CASE Ops!Bootstrap
  <2>1. operations'[id] = Ops!MarkInterrupted(operations[id])
    BY <1>6 DEF Ops!Bootstrap, OperationIds
  <2> QED
    BY <1>1, <2>1 DEF Ops!MarkInterrupted, Ops!OperationRecord
<1> QED
  BY <1>2, <1>3, <1>4, <1>5, <1>6 DEF Ops!Next, OperationIds

\* Every step of the service is a step of its coordinator, or none.
LEMMA StepOfCoordinator ==
  ASSUME CallersMatch, [Next]_vars
  PROVE  [Ops!Next]_opsVars
<1>1. ASSUME NEW c \in Callers, Submit(c)
      PROVE  Ops!Next
  BY <1>1 DEF Submit, CallersMatch, Ops!Next
<1>2. ASSUME NEW c \in Callers, Request(c) \/ Cleaned(c) \/ Decline(c) \/ ServiceAnswered(c)
      PROVE  UNCHANGED opsVars
  BY <1>2 DEF Request, Install, Apply, Uninstall, StartOrStop, Cleaned, Decline, ServiceAnswered
<1>3. ASSUME NEW id \in Ops!OperationIds, Handler(id)
      PROVE  Ops!Next \/ UNCHANGED opsVars
  BY <1>3 DEF Handler, Begin, FinishInstall, CleanUp, FinishApply, UsersRestored,
              FinishUninstall, HandlerFails, WriteFails, Succeeds, Ops!Next
<1>4. ASSUME NEW poll \in Polls, StatusStep(poll)
      PROVE  Ops!Next
  BY <1>4 DEF StatusStep, Status, StatusRecovers, StatusAnswers, Ops!Next
<1>5. CASE AgentCrash \/ Restart \/ \E id \in Ops!OperationIds : TornWrite(id)
  BY <1>5 DEF AgentCrash, Restart, TornWrite, Dies, Ops!Next
<1>6. CASE (\E pid \in DOMAIN helpers : HostStep(pid)) \/ UNCHANGED vars
  BY <1>6 DEF HostStep, vars
<1> QED
  BY <1>1, <1>2, <1>3, <1>4, <1>5, <1>6 DEF Next, Resume

-----------------------------------------------------------------------------
(***************************************************************************)
(* The runs of the helper.                                                 *)
(***************************************************************************)

LEMMA FreshPidIsFresh ==
  ASSUME HelpersTyped
  PROVE  FreshPid \in Nat \ {0} /\ FreshPid \notin DOMAIN helpers
<1> DEFINE n == Cardinality(DOMAIN helpers)
<1>1. n \in Nat
  BY FS_CardinalityType DEF HelpersTyped
<1>2. IsFiniteSet(1 .. n + 1) /\ Cardinality(1 .. n + 1) = n + 1
  BY <1>1, FS_Interval
<1>3. \E pid \in 1 .. n + 1 : pid \notin DOMAIN helpers
  <2> SUFFICES ASSUME 1 .. n + 1 \subseteq DOMAIN helpers PROVE FALSE
    OBVIOUS
  <2>1. Cardinality(1 .. n + 1) <= n
    BY FS_Subset DEF HelpersTyped
  <2> QED
    BY <1>1, <1>2, <2>1
<1>4. FreshPid \in 1 .. n + 1 /\ FreshPid \notin DOMAIN helpers
  BY <1>3 DEF FreshPid
<1> QED
  BY <1>1, <1>4

LEMMA Spawned ==
  ASSUME HelpersTyped, NEW command \in Command, NEW plan \in Plans,
         command \in {"install", "apply"} => plan \in Inputs,
         Spawn(command, plan)
  PROVE  /\ HelpersTyped'
         /\ FreshPid \in Nat \ {0} /\ FreshPid \notin DOMAIN helpers
         /\ DOMAIN helpers' = DOMAIN helpers \cup {FreshPid}
         /\ helpers'[FreshPid] = NewRun(command, plan)
         /\ \A pid \in DOMAIN helpers : helpers'[pid] = helpers[pid]
<1> DEFINE fresh == FreshPid
<1>1. fresh \in Nat \ {0} /\ fresh \notin DOMAIN helpers
  BY FreshPidIsFresh
<1>2. helpers' = [pid \in DOMAIN helpers \cup {fresh} |->
                    IF pid = fresh THEN NewRun(command, plan) ELSE helpers[pid]]
  BY DEF Spawn
<1> HIDE DEF fresh
<1>3. NewRun(command, plan) \in RunType
  BY DEF NewRun, RunType, Progress
<1>4. /\ DOMAIN helpers' = DOMAIN helpers \cup {fresh}
      /\ helpers'[fresh] = NewRun(command, plan)
      /\ \A pid \in DOMAIN helpers : helpers'[pid] = helpers[pid]
  BY <1>1, <1>2
<1>5. IsFiniteSet(DOMAIN helpers')
  BY <1>4, FS_AddElement DEF HelpersTyped
<1>6. helpers' \in [DOMAIN helpers' -> RunType]
  BY <1>1, <1>2, <1>3, <1>4 DEF HelpersTyped
<1>7. HelpersTyped'
  BY <1>1, <1>4, <1>5, <1>6 DEF HelpersTyped
<1> QED
  BY <1>1, <1>4, <1>7 DEF fresh

LEMMA Collected ==
  ASSUME HelpersTyped, NEW pid, Collect(pid)
  PROVE  /\ HelpersTyped'
         /\ DOMAIN helpers' = DOMAIN helpers \ {pid}
         /\ \A other \in DOMAIN helpers' : helpers'[other] = helpers[other]
<1>1. helpers' = [other \in DOMAIN helpers \ {pid} |-> helpers[other]]
  BY DEF Collect, Restrict
<1>2. IsFiniteSet(DOMAIN helpers \ {pid})
  BY FS_RemoveElement DEF HelpersTyped
<1> QED
  BY <1>1, <1>2 DEF HelpersTyped

LEMMA Abandoned ==
  ASSUME HelpersTyped, Abandon
  PROVE  HelpersTyped'
<1> DEFINE rest == {pid \in DOMAIN helpers : Alive(pid)}
<1>1. helpers' = [other \in rest |-> helpers[other]] /\ rest \in SUBSET DOMAIN helpers
  BY DEF Abandon, Restrict
<1>2. IsFiniteSet(rest)
  BY <1>1, FS_Subset DEF HelpersTyped
<1> HIDE DEF rest
<1> QED
  BY <1>1, <1>2 DEF HelpersTyped

\* A run of the helper takes a step: it keeps its command, and one that has
\* ended is over.
HelperMoved(pid) ==
  /\ Alive(pid)
  /\ \E at \in Progress, backup \in Inputs \cup {NoConfig} :
       helpers' = [helpers EXCEPT ![pid].at = at, ![pid].backup = backup]
  /\ {marker', files', active', disturbed'} \subseteq BOOLEAN
  /\ hostConfig' \in Inputs \cup {NoConfig}
  /\ faults' \in 0 .. MaxFaults

LEMMA MovedKeepsTypes ==
  ASSUME HelpersTyped, NEW pid \in DOMAIN helpers, HelperMoved(pid)
  PROVE  /\ HelpersTyped'
         /\ DOMAIN helpers' = DOMAIN helpers
         /\ \A other \in DOMAIN helpers : helpers'[other].command = helpers[other].command
         /\ \A other \in DOMAIN helpers : other # pid => helpers'[other] = helpers[other]
<1>1. PICK at \in Progress, backup \in Inputs \cup {NoConfig} :
        helpers' = [helpers EXCEPT ![pid].at = at, ![pid].backup = backup]
  BY DEF HelperMoved
<1>2. helpers[pid] \in RunType
  BY DEF HelpersTyped
<1> DEFINE run == [helpers[pid] EXCEPT !.at = at, !.backup = backup]
<1>3. run \in RunType /\ run.command = helpers[pid].command
  BY <1>2 DEF RunType
<1>4. helpers' = [helpers EXCEPT ![pid] = run]
  BY <1>1, <1>2 DEF RunType, HelpersTyped
<1> HIDE DEF run
<1> QED
  BY <1>3, <1>4 DEF HelpersTyped

LEMMA HelperStepMoves ==
  ASSUME HelpersTyped, HostTyped, NEW pid \in DOMAIN helpers, HelperStep(pid)
  PROVE  HelperMoved(pid)
<1>1. helpers[pid] \in RunType
  BY DEF HelpersTyped
<1>0. RunStep(pid) /\ disturbed' \in BOOLEAN
  <2>1. RunStep(pid) /\ disturbed' = (disturbed \/ Disturbs(pid))
    BY Zenon DEF HelperStep
  <2> QED
    BY <2>1, Zenon
<1>2. ASSUME NEW at \in Progress, Moves(pid, at)
      PROVE  \E where \in Progress, backup \in Inputs \cup {NoConfig} :
               helpers' = [helpers EXCEPT ![pid].at = where, ![pid].backup = backup]
  <2>1. helpers' = [helpers EXCEPT ![pid].at = at, ![pid].backup = helpers[pid].backup]
    BY <1>1, <1>2 DEF Moves, RunType, HelpersTyped
  <2> QED
    BY <1>1, <1>2, <2>1 DEF RunType
<1>3. UNCHANGED <<marker, files, active>> => {marker', files', active'} \subseteq BOOLEAN
  BY DEF HostTyped
<1>4. ASSUME NEW kind, CountFault(kind)
      PROVE  faults' \in 0 .. MaxFaults
  BY <1>4, BoundsAssumption DEF CountFault, FaultAllowed, HostTyped
<1>5. UNCHANGED faults => faults' \in 0 .. MaxFaults
  BY DEF HostTyped
<1>6. UNCHANGED hostConfig => hostConfig' \in Inputs \cup {NoConfig}
  BY DEF HostTyped
<1>7. {marker, files, active} \subseteq BOOLEAN
  BY DEF HostTyped
<1>8. {"started", "half", "configured", "placed", "running", "switched", "stalled",
       "stopped", "ok", "failed"} \subseteq Progress
  BY DEF Progress, Ended
<1> USE <1>0 DEF HelperMoved, Runs, Alive, Ended
<1>9. CASE InstallMarks(pid)
  BY <1>2, <1>5, <1>6, <1>7, <1>8, <1>9 DEF InstallMarks
<1>10. CASE InstallConfigures(pid)
  BY <1>1, <1>2, <1>5, <1>7, <1>8, <1>10 DEF InstallConfigures, RunType
<1>11. CASE InstallPlaces(pid)
  BY <1>2, <1>5, <1>6, <1>7, <1>8, <1>11 DEF InstallPlaces
<1>12. CASE InstallRestarts(pid)
  BY <1>2, <1>4, <1>5, <1>6, <1>7, <1>8, <1>12 DEF InstallRestarts
<1>13. CASE InstallFinishes(pid) \/ ApplyStarts(pid) \/ ApplyFinishes(pid)
  BY <1>2, <1>3, <1>5, <1>6, <1>8, <1>13
  DEF InstallFinishes, ApplyStarts, ApplyFinishes, host, runtime
<1>14. CASE ApplySwitches(pid)
  <2>1. CASE helpers' = [helpers EXCEPT ![pid].at = "switched", ![pid].backup = hostConfig]
             /\ hostConfig' = helpers[pid].plan
    BY <1>1, <1>3, <1>5, <1>8, <1>14, <2>1 DEF ApplySwitches, RunType, HostTyped
  <2>2. CASE Moves(pid, "failed") /\ UNCHANGED hostConfig
    BY <1>2, <1>3, <1>5, <1>6, <1>8, <1>14, <2>2 DEF ApplySwitches
  <2> QED
    BY <1>14, <2>1, <2>2 DEF ApplySwitches
<1>15. CASE ApplyRestartFails(pid)
  BY <1>2, <1>4, <1>5, <1>6, <1>7, <1>8, <1>15 DEF ApplyRestartFails
<1>16. CASE ApplyRollsBack(pid)
  BY <1>1, <1>2, <1>5, <1>7, <1>8, <1>16 DEF ApplyRollsBack, RunType
<1>17. CASE UninstallStops(pid)
  BY <1>2, <1>4, <1>5, <1>6, <1>7, <1>8, <1>17 DEF UninstallStops
<1>21. CASE UninstallRemovesFiles(pid)
  BY <1>2, <1>5, <1>6, <1>7, <1>8, <1>21 DEF UninstallRemovesFiles
<1>18. CASE UninstallFinishes(pid)
  BY <1>2, <1>5, <1>7, <1>8, <1>18 DEF UninstallFinishes
<1>19. CASE ServiceCommand(pid)
  <2>1. active' \in BOOLEAN
    BY <1>7, <1>19 DEF ServiceCommand
  <2> QED
    BY <1>2, <1>5, <1>6, <1>7, <1>8, <1>19, <2>1 DEF ServiceCommand
<1>20. CASE HelperFails(pid)
  BY <1>2, <1>3, <1>4, <1>6, <1>8, <1>20 DEF HelperFails, host, runtime
<1> QED
  BY <1>9, <1>10, <1>11, <1>12, <1>13, <1>14, <1>15, <1>16, <1>17, <1>18, <1>19, <1>20, <1>21
  DEF RunStep

-----------------------------------------------------------------------------
(***************************************************************************)
(* Who waits for which run.                                                *)
(***************************************************************************)

\* Nobody waits for a run that it did not wait for before.
LEMMA Released ==
  ASSUME ChildrenExist, ChildrenDiffer,
         \A id \in OperationIds : jobs'[id].child \in {0, jobs[id].child},
         \A c \in Callers : callers'[c].child \in {0, callers[c].child},
         \A id \in OperationIds : jobs'[id].child # 0 => jobs'[id].child \in DOMAIN helpers',
         \A c \in Callers : callers'[c].child # 0 => callers'[c].child \in DOMAIN helpers'
  PROVE  ChildrenExist' /\ ChildrenDiffer'
<1>1. ChildrenExist'
  BY DEF ChildrenExist
<1>2. ChildrenDiffer'
  BY DEF ChildrenDiffer
<1> QED
  BY <1>1, <1>2

\* One handler or one request waits for a new run.
LEMMA Engaged ==
  ASSUME ChildrenExist, ChildrenDiffer, NEW fresh, fresh \notin DOMAIN helpers, fresh # 0,
         DOMAIN helpers' = DOMAIN helpers \cup {fresh},
         \/ /\ \E id \in OperationIds :
                 \A other \in OperationIds :
                   jobs'[other].child = IF other = id THEN fresh ELSE jobs[other].child
            /\ callers' = callers
         \/ /\ \E c \in Callers :
                 \A other \in Callers :
                   callers'[other].child = IF other = c THEN fresh ELSE callers[other].child
            /\ jobs' = jobs
  PROVE  ChildrenExist' /\ ChildrenDiffer'
<1>1. ChildrenExist'
  BY DEF ChildrenExist
<1>2. ChildrenDiffer'
  BY DEF ChildrenExist, ChildrenDiffer
<1> QED
  BY <1>1, <1>2

LEMMA NoJobIsJob == NoJob \in JobType /\ NoJob.at = "none" /\ NoJob.child = 0
BY DEF NoJob, JobType, Plans

LEMMA IdleIsCall == Idle \in CallType /\ Idle.at = "idle" /\ Idle.child = 0
BY DEF Idle, CallType, Plans

\* The handler of one operation goes on; the others are left alone.
LEMMA JobMoves ==
  ASSUME Coordinated, JobsMatch, [Ops!Next]_opsVars, NEW id \in OperationIds,
         NEW job \in JobType, jobs' = [jobs EXCEPT ![id] = job], up,
         starting' \ {id} = starting \ {id}, awaiting' \ {id} = awaiting \ {id},
         job.at # "none" <=> id \in starting' \cup awaiting',
         job.at = "queued" <=> id \in starting',
         job.child # 0 <=> job.at \in {"helper", "cleanup"},
         job.at # "none" =>
           /\ operations'[id].operationType \in Ops!OperationType
           /\ operations'[id].operationType # "uninstall" => job.input \in Inputs
  PROVE  JobsMatch'
<1>1. /\ jobs' \in [OperationIds -> JobType] /\ jobs'[id] = job
      /\ \A other \in OperationIds : other # id => jobs'[other] = jobs[other]
  BY DEF JobsMatch
<1>2. \A other \in OperationIds : other # id =>
        /\ other \in starting' <=> other \in starting
        /\ other \in awaiting' <=> other \in awaiting
  OBVIOUS
<1>3. \A other \in OperationIds : jobs[other].at # "none" =>
        operations'[other].operationType = operations[other].operationType
  BY TypesKept DEF JobsMatch, Coordinated
<1> QED
  BY <1>1, <1>2, <1>3 DEF JobsMatch, Type

\* The handlers are left alone.
LEMMA JobsStay ==
  ASSUME Coordinated, JobsMatch, [Ops!Next]_opsVars,
         UNCHANGED <<jobs, starting, awaiting>>
  PROVE  JobsMatch'
<1>1. \A id \in OperationIds : jobs[id].at # "none" =>
        operations'[id].operationType = operations[id].operationType
  BY TypesKept DEF JobsMatch, Coordinated
<1> QED
  BY <1>1 DEF JobsMatch, Type

LEMMA CallerMoves ==
  ASSUME CallersMatch, NEW c \in Callers, NEW call \in CallType,
         callers' = [callers EXCEPT ![c] = call],
         call.child # 0 <=> call.at \in {"cleaning", "service"},
         call.at = "cleaning" => call.request = "install" /\ call.input \in Inputs,
         call.at = "checked" =>
           /\ call.request \in Ops!OperationType
           /\ call.input \in Fingerprints
           /\ call.request # "uninstall" => call.input \in Inputs
  PROVE  CallersMatch'
BY DEF CallersMatch

-----------------------------------------------------------------------------
(***************************************************************************)
(* The steps.                                                              *)
(***************************************************************************)

LEMMA InitEstablishes == Init => IInv
<1> SUFFICES ASSUME Init PROVE IInv
  OBVIOUS
<1> USE BoundsAssumption DEF Init, OperationIds
<1>1. \A id \in OperationIds : jobs[id] = NoJob
  OBVIOUS
<1>2. \A c \in Callers : callers[c] = Idle
  OBVIOUS
<1>3. /\ up = TRUE /\ running = FALSE /\ created = 0 /\ starting = {} /\ awaiting = {}
      /\ operations = [id \in OperationIds |-> Ops!Absent]
      /\ observing = [poll \in Polls |-> 0]
  BY DEF Ops!Init
<1>4. Ops!TypeOK
  <2>1. up \in BOOLEAN /\ running \in BOOLEAN
    BY <1>3
  <2>2. created \in 0 .. MaxOperations /\ observing \in [Polls -> 0 .. MaxOperations]
    BY <1>3
  <2> QED
    BY <1>3, <2>1, <2>2 DEF Ops!TypeOK
<1>5. Coordinated
  BY <1>3, <1>4 DEF Coordinated, Ops!Active, Ops!Absent
<1>6. HelpersTyped
  <2>1. helpers = [pid \in {} |-> 0]
    BY DEF HostInit
  <2> QED
    BY <2>1, FS_EmptySet DEF HelpersTyped
<1>7. HostTyped
  <2>1. {marker, files, active, disturbed} \subseteq BOOLEAN
    BY DEF HostInit
  <2>2. seen \in [Polls -> BOOLEAN]
    OBVIOUS
  <2> QED
    BY <2>1, <2>2 DEF HostTyped, HostInit
<1>8. JobsMatch
  BY <1>1, <1>3, NoJobIsJob DEF JobsMatch
<1>9. CallersMatch
  BY <1>2, IdleIsCall DEF CallersMatch
<1>10. ChildrenExist /\ ChildrenDiffer
  BY <1>1, <1>2, NoJobIsJob, IdleIsCall DEF ChildrenExist, ChildrenDiffer
<1> QED
  BY <1>5, <1>6, <1>7, <1>8, <1>9, <1>10 DEF IInv

\* What a step of a request leaves alone.
LEMMA QuietHost ==
  ASSUME HostTyped, UNCHANGED <<host, faults, records, seen>>
  PROVE  HostTyped'
BY DEF HostTyped, host, runtime, records

\* A request that starts a run and waits for it.
LEMMA RequestSpawns ==
  ASSUME IInv, NEW c \in Callers, callers[c] = Idle, NEW command \in Command,
         command \notin {"install", "apply"}, Spawn(command, NoConfig),
         NEW at \in {"cleaning", "service"}, NEW request \in {"install", "start", "stop"},
         NEW input \in Plans, at = "cleaning" => request = "install" /\ input \in Inputs,
         Waits(c, at, request, input, FreshPid),
         UNCHANGED <<opsVars, host, faults, records, jobs, seen>>
  PROVE  IInv'
<1> DEFINE fresh == FreshPid
           call == Call(at, request, input, fresh)
<1>1. /\ HelpersTyped'
      /\ fresh \in Nat \ {0} /\ fresh \notin DOMAIN helpers
      /\ DOMAIN helpers' = DOMAIN helpers \cup {fresh}
  BY Spawned DEF IInv, Plans
<1>2. callers' = [callers EXCEPT ![c] = call]
  BY DEF Waits
<1> HIDE DEF fresh
<1>3. /\ call \in CallType /\ call.at = at /\ call.request = request /\ call.input = input
      /\ call.child = fresh
  BY <1>1 DEF Call, CallType, Ops!OperationType
<1> HIDE DEF call
<1>4. CallersMatch'
  BY <1>1, <1>2, <1>3, CallerMoves DEF IInv
<1>5. JobsMatch'
  BY JobsStay DEF IInv, opsVars
<1>6. Coordinated'
  BY CoordinatorKeeps DEF IInv
<1>7. HostTyped'
  BY QuietHost DEF IInv
<1>8. \A other \in Callers :
        callers'[other].child = IF other = c THEN fresh ELSE callers[other].child
  BY <1>2, <1>3 DEF IInv, CallersMatch
<1>9. ChildrenExist' /\ ChildrenDiffer'
  BY <1>1, <1>8, Engaged DEF IInv
<1> QED
  BY <1>1, <1>4, <1>5, <1>6, <1>7, <1>9 DEF IInv

\* A request that waits for no run, or no longer.
LEMMA RequestGoesOn ==
  ASSUME IInv, NEW c \in Callers, NEW call \in CallType, call.child = 0,
         call.at \in {"idle", "checked"},
         call.at = "checked" =>
           /\ call.request \in Ops!OperationType
           /\ call.input \in Fingerprints
           /\ call.request # "uninstall" => call.input \in Inputs,
         callers' = [callers EXCEPT ![c] = call],
         UNCHANGED helpers \/ Collect(callers[c].child),
         UNCHANGED <<opsVars, host, faults, records, jobs, seen>>
  PROVE  IInv'
<1>1. HelpersTyped' /\ DOMAIN helpers \ {callers[c].child} \subseteq DOMAIN helpers'
  BY Collected DEF IInv, HelpersTyped
<1>2. CallersMatch'
  BY CallerMoves DEF IInv
<1>3. JobsMatch'
  BY JobsStay DEF IInv, opsVars
<1>4. Coordinated'
  BY CoordinatorKeeps DEF IInv
<1>5. HostTyped'
  BY QuietHost DEF IInv
<1>6. /\ \A id \in OperationIds :
           jobs'[id].child # 0 => jobs'[id].child \in DOMAIN helpers'
      /\ \A other \in Callers : callers'[other].child \in {0, callers[other].child}
      /\ \A other \in Callers :
           callers'[other].child # 0 => callers'[other].child \in DOMAIN helpers'
  BY <1>1 DEF IInv, CallersMatch, ChildrenExist, ChildrenDiffer
<1>7. ChildrenExist' /\ ChildrenDiffer'
  BY <1>6, Released DEF IInv
<1> QED
  BY <1>1, <1>2, <1>3, <1>4, <1>5, <1>7 DEF IInv

LEMMA InputsArePlans ==
  /\ Inputs \subseteq Plans /\ NoConfig \in Plans /\ Fingerprints \subseteq Plans
  /\ Inputs \subseteq Fingerprints
  /\ \A p \in Protocols : UninstallInput(p) \in Fingerprints
BY DEF Plans, Fingerprints

LEMMA RequestPreserves ==
  ASSUME IInv, NEW c \in Callers, Request(c) \/ Cleaned(c) \/ Decline(c) \/ ServiceAnswered(c)
  PROVE  IInv'
<1> USE InputsArePlans
<1>1. ASSUME NEW request \in Ops!OperationType, NEW input \in Fingerprints,
             request # "uninstall" => input \in Inputs,
             Waits(c, "checked", request, input, 0),
             UNCHANGED helpers \/ Collect(callers[c].child),
             UNCHANGED <<opsVars, host, faults, records, jobs, seen>>
      PROVE  IInv'
  <2> DEFINE call == Call("checked", request, input, 0)
  <2>1. /\ call \in CallType /\ call.at = "checked" /\ call.request = request
        /\ call.input = input /\ call.child = 0
    BY DEF Call, CallType
  <2>2. callers' = [callers EXCEPT ![c] = call]
    BY <1>1 DEF Waits
  <2> HIDE DEF call
  <2> QED
    BY <1>1, <2>1, <2>2, RequestGoesOn
<1>2. ASSUME Answers(c), UNCHANGED helpers \/ Collect(callers[c].child),
             UNCHANGED <<opsVars, host, faults, records, jobs, seen>>
      PROVE  IInv'
  BY <1>2, IdleIsCall, RequestGoesOn DEF Answers
<1>3. ASSUME NEW input \in Inputs, Install(c, input)
      PROVE  IInv'
  <2>1. CASE PartialInstall
    BY <1>3, <2>1, RequestSpawns DEF Install, Arrives, Command
  <2>2. CASE ~PartialInstall
    BY <1>1, <1>3, <2>2 DEF Install, Ops!OperationType
  <2> QED
    BY <2>1, <2>2
<1>4. CASE Cleaned(c)
  <2>1. callers[c].at = "cleaning"
    BY <1>4 DEF Cleaned
  <2>2. callers[c].input \in Inputs
    BY <2>1 DEF IInv, CallersMatch
  <2>3. /\ Collect(callers[c].child)
        /\ Waits(c, "checked", "install", callers[c].input, 0) \/ Answers(c)
        /\ UNCHANGED <<opsVars, host, faults, records, jobs, seen>>
    BY <1>4 DEF Cleaned
  <2> QED
    BY <1>1, <1>2, <2>2, <2>3 DEF Ops!OperationType
<1>5. ASSUME NEW input \in Inputs, Apply(c, input)
      PROVE  IInv'
  <2>1. CASE Waits(c, "checked", "reconfigure", input, 0) /\ UNCHANGED config
    BY <1>1, <1>5, <2>1 DEF Apply, hostVars, host, runtime, records, Ops!OperationType
  <2>2. CASE config' = input /\ UNCHANGED callers
    <3>1. UNCHANGED <<opsVars, hostVars, protocol, jobs, callers, seen>>
      BY <1>5, <2>2 DEF Apply
    <3>2. Coordinated'
      BY <3>1, CoordinatorKeeps DEF IInv
    <3>3. JobsMatch'
      BY <3>1, JobsStay DEF IInv, opsVars
    <3>4. HostTyped' /\ HelpersTyped' /\ CallersMatch' /\ ChildrenExist' /\ ChildrenDiffer'
      BY <2>2, <3>1
      DEF IInv, HostTyped, HelpersTyped, CallersMatch, ChildrenExist, ChildrenDiffer,
          hostVars, host, runtime
    <3> QED
      BY <3>2, <3>3, <3>4 DEF IInv
  <2> QED
    BY <1>5, <2>1, <2>2 DEF Apply
<1>6. ASSUME NEW p \in Protocols, Uninstall(c, p)
      PROVE  IInv'
  BY <1>1, <1>6 DEF Uninstall, hostVars, host, runtime, Ops!OperationType
<1>7. ASSUME NEW p \in Protocols, NEW command \in {"start", "stop"},
             StartOrStop(c, command, p)
      PROVE  IInv'
  BY <1>7, RequestSpawns DEF StartOrStop, Arrives, Command
<1>8. CASE Decline(c)
  BY <1>2, <1>8 DEF Decline, hostVars, host, runtime
<1>9. CASE ServiceAnswered(c)
  BY <1>2, <1>9 DEF ServiceAnswered
<1> QED
  BY <1>3, <1>4, <1>5, <1>6, <1>7, <1>8, <1>9 DEF Request

LEMMA SubmitPreserves ==
  ASSUME IInv, NEW c \in Callers, Submit(c)
  PROVE  IInv'
<1> DEFINE id == created + 1
           job == Job("queued", callers[c].input, 0)
<1>1. /\ callers[c].request \in Ops!OperationType /\ callers[c].input \in Fingerprints
      /\ callers[c].request # "uninstall" => callers[c].input \in Inputs
      /\ Ops!Accept(callers[c].request, callers[c].input)
      /\ jobs' = [jobs EXCEPT ![id] = job] /\ Answers(c)
      /\ UNCHANGED <<hostVars, records, seen>>
  BY DEF Submit, IInv, CallersMatch
<1>2. /\ id \in OperationIds /\ up /\ starting = {} /\ starting' = {id} /\ awaiting' = awaiting
      /\ operations'[id].operationType = callers[c].request
      /\ \A other \in OperationIds : ~Ops!Active(other)
  BY <1>1, BoundsAssumption
  DEF Ops!Accept, Ops!Admissible, IInv, Coordinated, Ops!TypeOK, OperationIds, Ops!OperationIds
<1>3. /\ job \in JobType /\ job.at = "queued" /\ job.input = callers[c].input /\ job.child = 0
  BY <1>1, InputsArePlans DEF Job, JobType
<1> HIDE DEF job, id
<1>4. [Ops!Next]_opsVars
  BY <1>1 DEF Ops!Next
<1>5. Coordinated'
  BY <1>4, CoordinatorKeeps DEF IInv
<1>6. id \notin awaiting
  BY <1>2 DEF IInv, Coordinated
<1>7. JobsMatch'
  BY <1>1, <1>2, <1>3, <1>4, JobMoves DEF IInv
<1>8. CallersMatch'
  BY <1>1, IdleIsCall, CallerMoves DEF Answers, IInv
<1>9. HelpersTyped' /\ HostTyped'
  BY <1>1 DEF IInv, HelpersTyped, HostTyped, hostVars, host, runtime, records
<1>10. /\ \A other \in OperationIds : jobs'[other].child \in {0, jobs[other].child}
       /\ \A other \in Callers : callers'[other].child \in {0, callers[other].child}
       /\ helpers' = helpers
  BY <1>1, <1>3, IdleIsCall DEF Answers, IInv, JobsMatch, CallersMatch, hostVars, host, runtime
<1>11. /\ \A other \in OperationIds :
            jobs'[other].child # 0 => jobs'[other].child \in DOMAIN helpers'
       /\ \A other \in Callers :
            callers'[other].child # 0 => callers'[other].child \in DOMAIN helpers'
  BY <1>10 DEF IInv, ChildrenExist
<1>12. ChildrenExist' /\ ChildrenDiffer'
  BY <1>10, <1>11, Released DEF IInv
<1> QED
  BY <1>5, <1>7, <1>8, <1>9, <1>12 DEF IInv

\* A handler begins and starts the run of its operation.
LEMMA BeginPreserves ==
  ASSUME IInv, NEW id \in OperationIds, Begin(id)
  PROVE  IInv'
<1> DEFINE fresh == FreshPid
           job == Job("helper", jobs[id].input, fresh)
<1>1. /\ Ops!Begin(id) /\ id \in starting /\ up
      /\ Spawn(HelperCommand(Type(id)), jobs[id].input)
      /\ UNCHANGED <<host, faults, records, callers, seen>>
  BY DEF Begin, Ops!Begin, IInv, Coordinated
<1>2. /\ jobs[id].at # "none" /\ Type(id) \in Ops!OperationType /\ jobs[id].input \in Plans
      /\ Type(id) # "uninstall" => jobs[id].input \in Inputs
  BY <1>1 DEF IInv, JobsMatch, JobType
<1>3. /\ HelperCommand(Type(id)) \in Command
      /\ HelperCommand(Type(id)) \in {"install", "apply"} => jobs[id].input \in Inputs
  BY <1>2 DEF HelperCommand, Ops!OperationType, Command
<1>4. /\ HelpersTyped' /\ fresh \in Nat \ {0} /\ fresh \notin DOMAIN helpers
      /\ DOMAIN helpers' = DOMAIN helpers \cup {fresh}
  BY <1>1, <1>2, <1>3, Spawned DEF IInv
<1>5. jobs' = [jobs EXCEPT ![id] = job]
  BY DEF Begin, IInv, JobsMatch
<1> HIDE DEF fresh
<1>6. /\ job \in JobType /\ job.at = "helper" /\ job.input = jobs[id].input
      /\ job.child = fresh
  BY <1>2, <1>4 DEF Job, JobType
<1> HIDE DEF job
<1>7. [Ops!Next]_opsVars
  BY <1>1 DEF Ops!Next, OperationIds
<1>8. Coordinated'
  BY <1>7, CoordinatorKeeps DEF IInv
<1>9. /\ starting' = starting \ {id} /\ awaiting' = awaiting \cup {id}
      /\ operations'[id].operationType = Type(id)
  BY <1>1, <1>7, TypesKept DEF Ops!Begin, Type, IInv, Coordinated
<1>10. JobsMatch'
  BY <1>1, <1>2, <1>4, <1>5, <1>6, <1>7, <1>9, JobMoves DEF IInv
<1>11. CallersMatch' /\ HostTyped'
  BY <1>1 DEF IInv, CallersMatch, HostTyped, host, runtime, records
<1>12. \A other \in OperationIds :
         jobs'[other].child = IF other = id THEN fresh ELSE jobs[other].child
  BY <1>5, <1>6 DEF IInv, JobsMatch
<1>13. ChildrenExist' /\ ChildrenDiffer'
  BY <1>1, <1>4, <1>12, Engaged DEF IInv
<1> QED
  BY <1>4, <1>8, <1>10, <1>11, <1>13 DEF IInv

\* A handler collects its run, or waits for none; what it records is typed.
LEMMA HandlerGoesOn ==
  ASSUME IInv, NEW id \in OperationIds, NEW job \in JobType, job.child = 0,
         jobs' = [jobs EXCEPT ![id] = job], [Ops!Next]_opsVars,
         \/ job.at = "none" /\ (Ops!Succeed(id) \/ Ops!Fail(id))
         \/ job.at = "restoring" /\ job.input = jobs[id].input
            /\ jobs[id].at \in {"helper", "cleanup"} /\ UNCHANGED opsVars,
         UNCHANGED helpers \/ Collect(jobs[id].child),
         config' \in Inputs \cup {NoConfig}, protocol' \in Protocols \cup {"none"},
         faults' \in 0 .. MaxFaults, UNCHANGED <<host, callers, seen>>
  PROVE  IInv'
<1>1. HelpersTyped' /\ DOMAIN helpers \ {jobs[id].child} \subseteq DOMAIN helpers'
  BY Collected DEF IInv, HelpersTyped
<1>2. Coordinated'
  BY CoordinatorKeeps DEF IInv
<1>3. HostTyped' /\ CallersMatch'
  BY DEF IInv, HostTyped, CallersMatch, host, runtime
<1>4. JobsMatch'
  <2>1. CASE job.at = "none" /\ (Ops!Succeed(id) \/ Ops!Fail(id))
    <3>1. /\ id \in starting \cup awaiting /\ up
          /\ starting' = starting \ {id} /\ awaiting' = awaiting \ {id}
      BY <2>1 DEF Ops!Succeed, Ops!Fail, IInv, Coordinated
    <3> QED
      BY <2>1, <3>1, JobMoves DEF IInv
  <2>2. CASE job.at = "restoring" /\ job.input = jobs[id].input
             /\ jobs[id].at \in {"helper", "cleanup"} /\ UNCHANGED opsVars
    <3>1. /\ id \in starting \cup awaiting /\ id \notin starting /\ up
          /\ Type(id) \in Ops!OperationType
          /\ Type(id) # "uninstall" => jobs[id].input \in Inputs
      BY <2>2 DEF IInv, JobsMatch, Coordinated
    <3>2. UNCHANGED <<starting, awaiting, operations>>
      BY <2>2 DEF opsVars
    <3> QED
      BY <2>2, <3>1, <3>2, JobMoves DEF IInv, Type
  <2> QED
    BY <2>1, <2>2
<1>5. /\ \A other \in OperationIds : jobs'[other].child \in {0, jobs[other].child}
      /\ \A other \in OperationIds :
           jobs'[other].child # 0 => jobs'[other].child \in DOMAIN helpers'
      /\ \A c \in Callers : callers'[c].child # 0 => callers'[c].child \in DOMAIN helpers'
  BY <1>1 DEF IInv, JobsMatch, ChildrenExist, ChildrenDiffer
<1>6. ChildrenExist' /\ ChildrenDiffer'
  BY <1>5, Released DEF IInv
<1> QED
  BY <1>1, <1>2, <1>3, <1>4, <1>6 DEF IInv

LEMMA HandlerPreserves ==
  ASSUME IInv, NEW id \in OperationIds, Handler(id), [Ops!Next]_opsVars
  PROVE  IInv'
<1>1. /\ jobs[id].at # "none" /\ Type(id) # "uninstall" => jobs[id].input \in Inputs
      /\ config \in Inputs \cup {NoConfig} /\ protocol \in Protocols \cup {"none"}
  BY DEF IInv, JobsMatch, HostTyped
<1>2. \A input \in Inputs : input.protocol \in Protocols
  BY DEF Protocols
<1>3. CASE Begin(id)
  BY <1>3, BeginPreserves
<1>4. ASSUME Succeeds(id) \/ (Ops!Fail(id) /\ Finished(id)),
             UNCHANGED helpers \/ Collect(jobs[id].child),
             config' \in Inputs \cup {NoConfig}, protocol' \in Protocols \cup {"none"},
             faults' \in 0 .. MaxFaults, UNCHANGED <<host, callers, seen>>
      PROVE  IInv'
  BY <1>4, NoJobIsJob, HandlerGoesOn DEF Succeeds, Finished
<1>0. UNCHANGED faults => faults' \in 0 .. MaxFaults
  BY DEF IInv, HostTyped
<1>5. CASE FinishInstall(id)
  BY <1>0, <1>1, <1>2, <1>4, <1>5 DEF FinishInstall, HelperEnded
<1>6. CASE CleanUp(id)
  <2> DEFINE job == [jobs[id] EXCEPT !.at = "cleanup"]
             run == NewRun("uninstall", NoConfig)
  <2>1. /\ jobs[id].at = "helper" /\ jobs[id] \in JobType /\ jobs[id].child # 0
        /\ jobs[id].child \in DOMAIN helpers /\ up
        /\ UNCHANGED <<opsVars, host, faults, records, callers, seen>>
        /\ helpers' = [helpers EXCEPT ![jobs[id].child] = run]
    BY <1>6 DEF CleanUp, HelperEnded, Serving, IInv, JobsMatch, ChildrenExist
  <2>2. run \in RunType
    BY DEF NewRun, RunType, Command, Plans, Progress
  <2> HIDE DEF run
  <2>3. HelpersTyped' /\ DOMAIN helpers' = DOMAIN helpers
    BY <2>1, <2>2 DEF IInv, HelpersTyped
  <2>4. /\ job \in JobType /\ job.at = "cleanup" /\ job.child = jobs[id].child
        /\ job.input = jobs[id].input
        /\ jobs' = [jobs EXCEPT ![id] = job]
    BY <1>6, <2>1 DEF CleanUp, JobType, IInv, JobsMatch
  <2> HIDE DEF job
  <2>5. Coordinated'
    BY CoordinatorKeeps DEF IInv
  <2>6. JobsMatch'
    <3>1. /\ id \in starting \cup awaiting /\ id \notin starting
          /\ Type(id) \in Ops!OperationType
          /\ Type(id) # "uninstall" => jobs[id].input \in Inputs
      BY <2>1 DEF IInv, JobsMatch
    <3> QED
      BY <2>1, <2>4, <3>1, JobMoves DEF IInv, opsVars, Type
  <2>7. HostTyped' /\ CallersMatch'
    BY <2>1 DEF IInv, HostTyped, CallersMatch, host, runtime, records
  <2>8. /\ \A other \in OperationIds : jobs'[other].child = jobs[other].child
        /\ callers' = callers
    BY <2>1, <2>4 DEF IInv, JobsMatch
  <2>9. ChildrenExist' /\ ChildrenDiffer'
    BY <2>3, <2>8 DEF IInv, ChildrenExist, ChildrenDiffer
  <2> QED
    BY <2>3, <2>5, <2>6, <2>7, <2>9 DEF IInv
<1>7. CASE FinishApply(id)
  <2>1. /\ jobs[id].at = "helper" /\ config' \in Inputs /\ protocol' = protocol
        /\ Collect(jobs[id].child) /\ UNCHANGED <<host, faults, callers, seen>>
    BY <1>1, <1>7 DEF FinishApply, HelperEnded
  <2>2. CASE Succeeds(id)
    BY <1>0, <1>1, <1>4, <2>1, <2>2
  <2>3. CASE jobs' = [jobs EXCEPT ![id] = Job("restoring", @.input, 0)] /\ UNCHANGED opsVars
    <3> DEFINE job == Job("restoring", jobs[id].input, 0)
    <3>1. /\ job \in JobType /\ job.at = "restoring" /\ job.child = 0
          /\ job.input = jobs[id].input /\ jobs' = [jobs EXCEPT ![id] = job]
      BY <2>3 DEF Job, JobType, IInv, JobsMatch
    <3> HIDE DEF job
    <3> QED
      BY <1>0, <1>1, <2>1, <2>3, <3>1, HandlerGoesOn
  <2> QED
    BY <1>7, <2>2, <2>3 DEF FinishApply
<1>8. CASE UsersRestored(id)
  BY <1>0, <1>1, <1>4, <1>8 DEF UsersRestored, hostVars, host, runtime, records
<1>9. CASE FinishUninstall(id)
  BY <1>0, <1>1, <1>4, <1>9 DEF FinishUninstall
<1>10. CASE HandlerFails(id)
  BY <1>0, <1>1, <1>4, <1>10 DEF HandlerFails, records
<1>11. CASE WriteFails(id)
  <2>1. config' \in Inputs \cup {NoConfig} /\ protocol' \in Protocols \cup {"none"}
    <3>1. CASE UNCHANGED records
      BY <1>1, <3>1 DEF records
    <3>2. CASE HelperEnded(id, "helper", "ok") /\ PartlyRecorded(id)
      <4>1. Type(id) # "uninstall" => jobs[id].input \in Inputs
        BY <1>1, <3>2 DEF HelperEnded
      <4> QED
        BY <1>1, <1>2, <3>2, <4>1 DEF PartlyRecorded, records
    <3> QED
      BY <1>11, <3>1, <3>2 DEF WriteFails, records
  <2>2. faults' \in 0 .. MaxFaults
    BY <1>11, BoundsAssumption DEF WriteFails, CountFault, FaultAllowed, IInv, HostTyped
  <2>3. UNCHANGED helpers \/ Collect(jobs[id].child)
    BY <1>11 DEF WriteFails
  <2> QED
    BY <1>4, <1>11, <2>1, <2>2, <2>3 DEF WriteFails
<1> QED
  BY <1>3, <1>5, <1>6, <1>7, <1>8, <1>9, <1>10, <1>11 DEF Handler

LEMMA DeathPreserves ==
  ASSUME IInv, AgentCrash \/ \E id \in OperationIds : TornWrite(id)
  PROVE  IInv'
<1>1. Dies
  BY DEF AgentCrash, TornWrite
<1>2. /\ jobs' = [id \in OperationIds |-> NoJob] /\ callers' = [c \in Callers |-> Idle]
      /\ seen' \in [Polls -> BOOLEAN] /\ starting' = {} /\ awaiting' = {}
  BY <1>1 DEF Dies, Ops!Crash, Ops!ForgetMemory, OperationIds
<1>3. HelpersTyped'
  BY <1>1, Abandoned DEF Dies, IInv
<1>4. Coordinated'
  BY <1>1, CoordinatorKeeps DEF Dies, Ops!Next, IInv
<1>5. JobsMatch'
  BY <1>2, NoJobIsJob DEF JobsMatch
<1>6. CallersMatch'
  BY <1>2, IdleIsCall DEF CallersMatch
<1>7. ChildrenExist' /\ ChildrenDiffer'
  BY <1>2, NoJobIsJob, IdleIsCall DEF ChildrenExist, ChildrenDiffer
<1>8. faults' \in 0 .. MaxFaults /\ UNCHANGED host
  BY BoundsAssumption DEF AgentCrash, TornWrite, CountFault, FaultAllowed, IInv, HostTyped
<1>9. config' \in Inputs \cup {NoConfig} /\ protocol' \in Protocols \cup {"none"}
  <2>1. CASE AgentCrash
    BY <2>1 DEF AgentCrash, records, IInv, HostTyped
  <2>2. ASSUME NEW id \in OperationIds, TornWrite(id)
        PROVE  config' \in Inputs \cup {NoConfig} /\ protocol' \in Protocols \cup {"none"}
    <3>1. Type(id) # "uninstall" =>
            jobs[id].input \in Inputs /\ jobs[id].input.protocol \in Protocols
      BY <2>2 DEF TornWrite, HelperEnded, IInv, JobsMatch, Protocols
    <3> QED
      BY <2>2, <3>1 DEF TornWrite, PartlyRecorded, records, IInv, HostTyped
  <2> QED
    BY <2>1, <2>2
<1>10. HostTyped'
  BY <1>2, <1>8, <1>9 DEF IInv, HostTyped, host, runtime
<1> QED
  BY <1>3, <1>4, <1>5, <1>6, <1>7, <1>10 DEF IInv

LEMMA StatusPreserves ==
  ASSUME IInv, Restart \/ \E poll \in Polls : StatusStep(poll)
  PROVE  IInv'
<1>1. /\ Ops!Next
      /\ UNCHANGED <<hostVars, records, jobs, callers, starting, awaiting>>
  BY DEF Restart, StatusStep, Status, StatusRecovers, StatusAnswers, waiting, Ops!Next,
         Ops!Bootstrap, Ops!memory, Ops!Observe, Ops!Recover, Ops!Decline
<1>2. Coordinated'
  BY <1>1, CoordinatorKeeps DEF IInv
<1>3. JobsMatch'
  BY <1>1, JobsStay DEF IInv
<1>4. CallersMatch' /\ ChildrenExist' /\ ChildrenDiffer' /\ HelpersTyped'
  BY <1>1 DEF IInv, CallersMatch, ChildrenExist, ChildrenDiffer, HelpersTyped, hostVars, host,
              runtime
<1>5. seen' \in [Polls -> BOOLEAN]
  <2>1. CASE UNCHANGED seen
    BY <2>1 DEF IInv, HostTyped
  <2>2. ASSUME NEW poll \in Polls, NEW p \in Protocols, Status(poll, p)
        PROVE  seen' \in [Polls -> BOOLEAN]
    <3>1. InstalledFor(p) \in BOOLEAN
      BY DEF InstalledFor
    <3> QED
      BY <2>2, <3>1 DEF Status, IInv, HostTyped
  <2> QED
    BY <2>1, <2>2 DEF Restart, StatusStep, StatusRecovers, StatusAnswers, waiting
<1>6. HostTyped'
  BY <1>1, <1>5 DEF IInv, HostTyped, hostVars, host, runtime, records
<1> QED
  BY <1>2, <1>3, <1>4, <1>6 DEF IInv

LEMMA HostStepPreserves ==
  ASSUME IInv, NEW pid \in DOMAIN helpers, HostStep(pid)
  PROVE  IInv'
<1>1. HelperMoved(pid) /\ UNCHANGED <<opsVars, records, waiting>>
  BY HelperStepMoves DEF HostStep, IInv
<1>2. HelpersTyped' /\ DOMAIN helpers' = DOMAIN helpers
  BY <1>1, MovedKeepsTypes DEF IInv
<1>3. Coordinated'
  BY <1>1, CoordinatorKeeps DEF IInv
<1>4. JobsMatch'
  BY <1>1, JobsStay DEF IInv, opsVars, waiting
<1>5. CallersMatch' /\ ChildrenExist' /\ ChildrenDiffer'
  BY <1>1, <1>2 DEF IInv, CallersMatch, ChildrenExist, ChildrenDiffer, waiting
<1>6. HostTyped'
  BY <1>1 DEF IInv, HostTyped, HelperMoved, records, waiting
<1> QED
  BY <1>2, <1>3, <1>4, <1>5, <1>6 DEF IInv

LEMMA StutterPreserves == IInv /\ UNCHANGED vars => IInv'
<1> SUFFICES ASSUME IInv, UNCHANGED vars PROVE IInv'
  OBVIOUS
<1>1. UNCHANGED <<opsVars, hostVars, records, jobs, callers, seen>>
  BY DEF vars, waiting
<1>2. Coordinated'
  BY <1>1, CoordinatorKeeps DEF IInv
<1>3. JobsMatch'
  BY <1>1, JobsStay DEF IInv, opsVars
<1> QED
  BY <1>1, <1>2, <1>3
  DEF IInv, HelpersTyped, HostTyped, CallersMatch, ChildrenExist, ChildrenDiffer,
      hostVars, host, runtime, records

LEMMA StepPreserves == IInv /\ [Next]_vars => IInv'
<1> SUFFICES ASSUME IInv, [Next]_vars PROVE IInv'
  OBVIOUS
<1>1. [Ops!Next]_opsVars
  BY StepOfCoordinator DEF IInv
<1> QED
  BY <1>1, RequestPreserves, SubmitPreserves, HandlerPreserves, DeathPreserves,
     StatusPreserves, HostStepPreserves, StutterPreserves
  DEF Next, Resume, OperationIds

\* The invariant holds in every behaviour, whatever fails or dies.
THEOREM Invariance == Spec => []IInv
BY InitEstablishes, StepPreserves, PTL DEF Spec

\* Every variable keeps to its type.
THEOREM TypeCorrect == Spec => []TypeOK
<1>1. IInv => TypeOK
  <2> SUFFICES ASSUME IInv PROVE TypeOK
    OBVIOUS
  <2>1. \A pid \in DOMAIN helpers :
          helpers[pid] \in [command : Command, plan : Plans, at : Progress, backup : Plans]
    <3>1. Inputs \cup {NoConfig} \subseteq Plans
      BY DEF Plans
    <3> QED
      BY <3>1 DEF IInv, HelpersTyped, RunType
  <2>2. \A id \in OperationIds :
          /\ jobs[id].at \in {"none", "queued", "helper", "cleanup", "restoring"}
          /\ jobs[id].input \in Plans
          /\ jobs[id].child \in DOMAIN helpers \cup {0}
    BY DEF IInv, JobsMatch, JobType, ChildrenExist
  <2>3. \A c \in Callers :
          /\ callers[c].at \in {"idle", "cleaning", "checked", "service"}
          /\ callers[c].input \in Plans
          /\ callers[c].child \in DOMAIN helpers \cup {0}
    BY DEF IInv, CallersMatch, CallType, ChildrenExist
  <2> QED
    BY <2>1, <2>2, <2>3 DEF TypeOK, IInv, Coordinated, HostTyped, OperationIds
<1> QED
  BY Invariance, <1>1, PTL

\* Through any crash, a row is active in a running agent exactly when a
\* handler is pending for it, and no two handlers or requests wait for the
\* same run (xray.service.ts, operation-coordinator.service.ts).
THEOREM WaitersAlwaysServed == Spec => []WaitsAreServed
<1>1. IInv => WaitsAreServed
  <2> SUFFICES ASSUME IInv PROVE WaitsAreServed
    OBVIOUS
  <2>1. up => \A id \in OperationIds : Ops!Active(id) <=> jobs[id].at # "none"
    BY DEF IInv, Coordinated, JobsMatch
  <2>2. ASSUME NEW pid \in DOMAIN helpers
        PROVE  Cardinality({id \in OperationIds : WaitsFor(jobs[id], pid)})
                 + Cardinality({c \in Callers : WaitsFor(callers[c], pid)}) <= 1
    <3> DEFINE J == {id \in OperationIds : jobs[id].child = pid}
               C == {c \in Callers : callers[c].child = pid}
    <3>1. pid # 0
      BY DEF IInv, HelpersTyped
    <3>2. CASE \E id \in OperationIds : jobs[id].child = pid
      <4>1. PICK id \in OperationIds : jobs[id].child = pid
        BY <3>2
      <4>2. J = {id} /\ C = {}
        BY <3>1, <4>1 DEF IInv, ChildrenDiffer
      <4>3. Cardinality(J) = 1 /\ Cardinality(C) = 0
        BY <4>2, FS_EmptySet, FS_Singleton
      <4> QED
        BY <4>3 DEF WaitsFor
    <3>3. CASE \E c \in Callers : callers[c].child = pid
      <4>1. PICK c \in Callers : callers[c].child = pid
        BY <3>3
      <4>2. C = {c}
        BY <3>1, <4>1 DEF IInv, ChildrenDiffer
      <4>3. J = {}
        BY <3>1, <4>1 DEF IInv, ChildrenDiffer
      <4>4. Cardinality(J) = 0 /\ Cardinality(C) = 1
        BY <4>2, <4>3, FS_EmptySet, FS_Singleton
      <4> QED
        BY <4>4 DEF WaitsFor
    <3>4. CASE /\ ~\E id \in OperationIds : jobs[id].child = pid
               /\ ~\E c \in Callers : callers[c].child = pid
      <4>1. J = {} /\ C = {}
        BY <3>4
      <4>2. Cardinality(J) = 0 /\ Cardinality(C) = 0
        BY <4>1, FS_EmptySet
      <4> QED
        BY <4>2 DEF WaitsFor
    <3> QED
      BY <3>2, <3>3, <3>4
  <2> QED
    BY <2>1, <2>2 DEF WaitsAreServed, OperationIds
<1> QED
  BY Invariance, <1>1, PTL

\* The service uses the coordinator as Operations specifies it, so whatever is
\* proved of Operations holds of its rows and locks here.
THEOREM UsesTheCoordinator == Spec => Ops!Spec
<1>1. Init => Ops!Init
  BY DEF Init
<1>2. IInv /\ [Next]_vars => [Ops!Next]_opsVars
  BY StepOfCoordinator DEF IInv
<1>3. IInv /\ [Next]_vars => [Ops!Next]_(Ops!vars)
  BY <1>2 DEF opsVars, Ops!vars
<1> QED
  BY Invariance, <1>1, <1>3, PTL DEF Spec, Ops!Spec

-----------------------------------------------------------------------------
(***************************************************************************)
(* One run at a time, in an agent that does not die.                       *)
(***************************************************************************)

\* The runs that change the host and are not the cleanup of a request.
Changing == {pid \in DOMAIN helpers : ChangesHost(pid) /\ ~CleanupOfRequest(pid)}

Owner(pid) == \E id \in OperationIds : jobs[id].child = pid

RunsOwnedBy == \A pid \in Changing : Owner(pid)

\* Requests leave the handlers and the runs of others alone.
LEMMA RequestKeepsOwners ==
  ASSUME IInv, RunsOwnedBy, NEW c \in Callers, Request(c) \/ Resume(c)
  PROVE  RunsOwnedBy'
<1>1. ASSUME NEW command \in Command, Spawn(command, NoConfig), UNCHANGED jobs,
             callers[c] = Idle, NEW at \in {"cleaning", "service"}, NEW request, NEW input,
             Waits(c, at, request, input, FreshPid),
             at = "cleaning" \/ command \in {"start", "stop"},
             command \notin {"install", "apply"}
      PROVE  RunsOwnedBy'
  <2> DEFINE fresh == FreshPid
  <2>1. /\ fresh \notin DOMAIN helpers
        /\ DOMAIN helpers' = DOMAIN helpers \cup {fresh}
        /\ helpers'[fresh].command = command
        /\ \A pid \in DOMAIN helpers : helpers'[pid] = helpers[pid]
    <3>1. NoConfig \in Plans
      BY DEF Plans
    <3>2. /\ fresh \notin DOMAIN helpers
          /\ DOMAIN helpers' = DOMAIN helpers \cup {fresh}
          /\ helpers' = [pid \in DOMAIN helpers \cup {fresh} |->
               IF pid = fresh THEN NewRun(command, NoConfig) ELSE helpers[pid]]
          /\ \A pid \in DOMAIN helpers : helpers'[pid] = helpers[pid]
      BY <1>1, <3>1, Spawned DEF IInv, Spawn
    <3>3. helpers'[fresh] = NewRun(command, NoConfig)
      BY <3>2
    <3> QED
      BY <3>2, <3>3 DEF NewRun
  <2>2. /\ callers'[c].at = at /\ callers'[c].child = fresh
        /\ \A other \in Callers : other # c => callers'[other] = callers[other]
        /\ callers[c].at = "idle"
    BY <1>1, IdleIsCall DEF Waits, Call, IInv, CallersMatch
  <2> HIDE DEF fresh
  <2>3. ASSUME NEW pid \in Changing'
        PROVE  Owner(pid)'
    <3>1. CASE pid = fresh
      <4>1. command \in {"start", "stop"}
        BY <1>1, <2>2, <2>3, <3>1 DEF Changing, CleanupOfRequest
      <4> QED
        BY <2>1, <2>3, <3>1, <4>1 DEF Changing, ChangesHost
    <3>2. CASE pid # fresh
      <4>1. pid \in Changing
        BY <2>1, <2>2, <2>3, <3>2 DEF Changing, ChangesHost, CleanupOfRequest, Alive
      <4> QED
        BY <1>1, <4>1 DEF RunsOwnedBy, Owner
    <3> QED
      BY <3>1, <3>2
  <2> QED
    BY <2>3 DEF RunsOwnedBy
<1>2. ASSUME NEW call, callers' = [callers EXCEPT ![c] = call],
             \/ UNCHANGED helpers /\ callers[c].at # "cleaning"
             \/ Collect(callers[c].child),
             \A id \in OperationIds : jobs'[id].child = jobs[id].child
      PROVE  RunsOwnedBy'
  <2>1. /\ DOMAIN helpers' \subseteq DOMAIN helpers
        /\ \A pid \in DOMAIN helpers' : helpers'[pid] = helpers[pid]
        /\ callers[c].at = "cleaning" => callers[c].child \notin DOMAIN helpers'
    BY <1>2, Collected DEF IInv
  <2>2. \A other \in Callers : other # c => callers'[other] = callers[other]
    BY <1>2 DEF IInv, CallersMatch
  <2>3. Changing' \subseteq Changing
    BY <2>1, <2>2 DEF Changing, ChangesHost, CleanupOfRequest, Alive
  <2> QED
    BY <1>2, <2>3 DEF RunsOwnedBy, Owner
<1>3. ASSUME NEW input \in Inputs, Install(c, input)
      PROVE  RunsOwnedBy'
  <2>1. CASE PartialInstall
    BY <1>1, <1>3, <2>1 DEF Install, Arrives, Command
  <2>2. CASE ~PartialInstall
    BY <1>2, <1>3, <2>2, IdleIsCall DEF Install, Waits, Arrives
  <2> QED
    BY <2>1, <2>2
<1>4. CASE Cleaned(c)
  BY <1>2, <1>4 DEF Cleaned, Waits, Answers
<1>5. ASSUME NEW input \in Inputs, Apply(c, input)
      PROVE  RunsOwnedBy'
  <2>1. CASE UNCHANGED callers
    BY <1>5, <2>1
    DEF Apply, hostVars, host, runtime, RunsOwnedBy, Changing, ChangesHost, CleanupOfRequest,
        Alive, Owner
  <2> QED
    BY <1>2, <1>5, <2>1, IdleIsCall DEF Apply, Waits, Arrives, hostVars, host, runtime
<1>6. ASSUME NEW p \in Protocols, Uninstall(c, p)
      PROVE  RunsOwnedBy'
  BY <1>2, <1>6, IdleIsCall DEF Uninstall, Waits, Arrives, hostVars, host, runtime
<1>7. ASSUME NEW p \in Protocols, NEW command \in {"start", "stop"},
             StartOrStop(c, command, p)
      PROVE  RunsOwnedBy'
  BY <1>1, <1>7 DEF StartOrStop, Arrives, Command
<1>8. CASE Decline(c)
  BY <1>2, <1>8 DEF Decline, Answers, hostVars, host, runtime
<1>9. CASE ServiceAnswered(c)
  BY <1>2, <1>9 DEF ServiceAnswered, Answers
<1>10. CASE Submit(c)
  <2>1. /\ created + 1 \in OperationIds /\ created + 1 \notin starting \cup awaiting
        /\ Answers(c) /\ helpers' = helpers /\ callers[c].at = "checked"
        /\ jobs' = [jobs EXCEPT ![created + 1] = Job("queued", callers[c].input, 0)]
    BY <1>10, BoundsAssumption
    DEF Submit, hostVars, host, runtime, Ops!Accept, Ops!Admissible, IInv, Coordinated, Ops!TypeOK,
        OperationIds, Ops!OperationIds
  <2>2. jobs[created + 1].child = 0
    BY <2>1 DEF IInv, JobsMatch
  <2>3. \A id \in OperationIds : jobs'[id].child = jobs[id].child
    BY <2>1, <2>2 DEF Job, IInv, JobsMatch
  <2> QED
    BY <1>2, <2>1, <2>3 DEF Answers
<1> QED
  BY <1>3, <1>4, <1>5, <1>6, <1>7, <1>8, <1>9, <1>10 DEF Request, Resume

LEMMA HandlerKeepsOwners ==
  ASSUME IInv, RunsOwnedBy, NEW id \in OperationIds, Handler(id)
  PROVE  RunsOwnedBy'
<1>1. CASE Begin(id)
  <2> DEFINE fresh == FreshPid
  <2>1. /\ jobs[id].at = "queued" /\ jobs[id].child = 0
        /\ Type(id) \in Ops!OperationType /\ jobs[id].input \in Plans
        /\ Type(id) # "uninstall" => jobs[id].input \in Inputs
    BY <1>1 DEF Begin, Ops!Begin, IInv, JobsMatch, JobType
  <2>2. /\ HelperCommand(Type(id)) \in Command
        /\ HelperCommand(Type(id)) \in {"install", "apply"} => jobs[id].input \in Inputs
    BY <2>1 DEF HelperCommand, Ops!OperationType, Command
  <2>3. /\ fresh \notin DOMAIN helpers /\ fresh # 0
        /\ DOMAIN helpers' = DOMAIN helpers \cup {fresh}
        /\ \A pid \in DOMAIN helpers : helpers'[pid] = helpers[pid]
    BY <1>1, <2>1, <2>2, Spawned DEF Begin, IInv
  <2>4. /\ callers' = callers /\ jobs'[id].child = fresh
        /\ \A other \in OperationIds : other # id => jobs'[other] = jobs[other]
    BY <1>1 DEF Begin, Job, IInv, JobsMatch
  <2> HIDE DEF fresh
  <2>5. ASSUME NEW pid \in Changing'
        PROVE  Owner(pid)'
    <3>1. CASE pid = fresh
      BY <2>4, <3>1 DEF Owner
    <3>2. CASE pid # fresh
      <4>1. pid \in Changing
        BY <2>3, <2>4, <2>5, <3>2 DEF Changing, ChangesHost, CleanupOfRequest, Alive
      <4>2. PICK other \in OperationIds : jobs[other].child = pid
        BY <4>1 DEF RunsOwnedBy, Owner
      <4>3. other # id
        BY <2>1, <4>1, <4>2 DEF Changing, IInv, HelpersTyped
      <4> QED
        BY <2>4, <4>2, <4>3 DEF Owner
    <3> QED
      BY <3>1, <3>2
  <2> QED
    BY <2>5 DEF RunsOwnedBy
<1>2. ASSUME NEW job, jobs' = [jobs EXCEPT ![id] = job], UNCHANGED callers,
             \/ Collect(jobs[id].child)
             \/ UNCHANGED helpers /\ jobs[id].child = 0
      PROVE  RunsOwnedBy'
  <2>1. /\ DOMAIN helpers' \subseteq DOMAIN helpers
        /\ \A pid \in DOMAIN helpers' : helpers'[pid] = helpers[pid]
        /\ jobs[id].child \notin DOMAIN helpers'
    BY <1>2, Collected DEF IInv, HelpersTyped
  <2>2. Changing' \subseteq Changing
    BY <1>2, <2>1 DEF Changing, ChangesHost, CleanupOfRequest, Alive
  <2>3. ASSUME NEW pid \in Changing'
        PROVE  Owner(pid)'
    <3>1. pid # jobs[id].child
      BY <2>1 DEF Changing
    <3>2. PICK other \in OperationIds : jobs[other].child = pid
      BY <2>2 DEF RunsOwnedBy, Owner
    <3> QED
      BY <1>2, <3>1, <3>2 DEF Owner, IInv, JobsMatch
  <2> QED
    BY <2>3 DEF RunsOwnedBy
<1>3. CASE FinishInstall(id) \/ FinishUninstall(id) \/ HandlerFails(id)
  BY <1>2, <1>3 DEF FinishInstall, FinishUninstall, HandlerFails, Succeeds, Finished
<1>4. CASE FinishApply(id)
  BY <1>2, <1>4 DEF FinishApply, Succeeds, Finished, IInv, JobsMatch
<1>5. CASE UsersRestored(id)
  <2>1. jobs[id].child = 0
    BY <1>5 DEF UsersRestored, IInv, JobsMatch
  <2> QED
    BY <1>2, <1>5, <2>1 DEF UsersRestored, Succeeds, Finished, hostVars, host, runtime
<1>6. CASE CleanUp(id)
  <2>1. /\ jobs[id].child \in DOMAIN helpers /\ callers' = callers
        /\ helpers' = [helpers EXCEPT ![jobs[id].child] = NewRun("uninstall", NoConfig)]
        /\ \A other \in OperationIds : jobs'[other].child = jobs[other].child
    BY <1>6 DEF CleanUp, HelperEnded, IInv, JobsMatch, JobType, ChildrenExist
  <2>2. ASSUME NEW pid \in Changing'
        PROVE  Owner(pid)'
    <3>1. CASE pid = jobs[id].child
      BY <2>1, <3>1 DEF Owner
    <3>2. CASE pid # jobs[id].child
      <4>1. pid \in Changing
        BY <2>1, <2>2, <3>2
        DEF Changing, ChangesHost, CleanupOfRequest, Alive, IInv, HelpersTyped
      <4> QED
        BY <2>1, <4>1 DEF RunsOwnedBy, Owner
    <3> QED
      BY <3>1, <3>2
  <2> QED
    BY <2>2 DEF RunsOwnedBy
<1>7. CASE WriteFails(id)
  <2>1. jobs[id].at \in {"queued", "restoring"} => jobs[id].child = 0
    BY DEF IInv, JobsMatch
  <2>2. Collect(jobs[id].child) \/ (UNCHANGED helpers /\ jobs[id].child = 0)
    BY <1>7, <2>1 DEF WriteFails
  <2> QED
    BY <1>2, <1>7, <2>2 DEF WriteFails, Finished
<1> QED
  BY <1>1, <1>3, <1>4, <1>5, <1>6, <1>7 DEF Handler

LEMMA HostKeepsOwners ==
  ASSUME IInv, RunsOwnedBy, NEW pid \in DOMAIN helpers, HostStep(pid)
  PROVE  RunsOwnedBy'
<1>1. HelperMoved(pid) /\ UNCHANGED waiting
  BY HelperStepMoves DEF HostStep, IInv
<1>2. /\ DOMAIN helpers' = DOMAIN helpers
      /\ \A other \in DOMAIN helpers : helpers'[other].command = helpers[other].command
      /\ \A other \in DOMAIN helpers : other # pid => helpers'[other] = helpers[other]
  BY <1>1, MovedKeepsTypes DEF IInv
<1>3. \A other \in DOMAIN helpers : ChangesHost(other)' => ChangesHost(other)
  BY <1>1, <1>2 DEF ChangesHost, Alive, HelperMoved
<1>4. Changing' \subseteq Changing
  BY <1>1, <1>2, <1>3 DEF Changing, CleanupOfRequest, waiting
<1> QED
  BY <1>1, <1>4 DEF RunsOwnedBy, Owner, waiting

\* What the agent dies of.
Deaths == {"agent_crash", "torn_write"}

\* No step is the death of the agent.
Undying == ~AgentCrash /\ \A id \in OperationIds : ~TornWrite(id)

LEMMA WithoutDeaths ==
  ASSUME Faults \cap Deaths = {}
  PROVE  Undying
BY DEF Undying, AgentCrash, TornWrite, CountFault, FaultAllowed, Deaths

\* Without its death the agent stays up.
LEMMA StaysUp ==
  ASSUME Undying, up, [Next]_vars
  PROVE  up'
<1>1. ASSUME NEW c \in Callers, Request(c) \/ Resume(c)
      PROVE  up'
  BY <1>1
  DEF Request, Resume, Install, Apply, Uninstall, StartOrStop, Cleaned, Submit, Decline,
      ServiceAnswered, opsVars, Ops!Accept
<1>2. ASSUME NEW id \in OperationIds, Handler(id)
      PROVE  up'
  BY <1>2
  DEF Handler, Begin, FinishInstall, CleanUp, FinishApply, UsersRestored, FinishUninstall,
      HandlerFails, WriteFails, Succeeds, opsVars, Ops!Begin, Ops!Succeed, Ops!Fail
<1>3. ASSUME NEW poll \in Polls, StatusStep(poll)
      PROVE  up'
  BY <1>3
  DEF StatusStep, Status, StatusRecovers, StatusAnswers, Ops!Observe, Ops!Recover,
      Ops!Decline
<1>4. CASE Restart
  BY <1>4 DEF Restart, Ops!Bootstrap
<1>5. ASSUME NEW pid \in DOMAIN helpers, HostStep(pid)
      PROVE  up'
  BY <1>5 DEF HostStep, opsVars
<1>6. CASE UNCHANGED vars
  BY <1>6 DEF vars, opsVars
<1> QED
  BY <1>1, <1>2, <1>3, <1>4, <1>5, <1>6 DEF Next, OperationIds, Undying

\* Neither a status request nor a restart touches runs, handlers or requests.
LEMMA OthersKeepOwners ==
  ASSUME RunsOwnedBy,
         Restart \/ (\E poll \in Polls : StatusStep(poll)) \/ UNCHANGED vars
  PROVE  RunsOwnedBy'
<1>1. UNCHANGED <<helpers, jobs, callers>>
  BY DEF Restart, StatusStep, Status, StatusRecovers, StatusAnswers, waiting, hostVars, host,
         runtime, vars
<1> QED
  BY <1>1 DEF RunsOwnedBy, Changing, ChangesHost, CleanupOfRequest, Alive, Owner

LEMMA OwnersKept ==
  ASSUME IInv, RunsOwnedBy, Undying, [Next]_vars
  PROVE  RunsOwnedBy'
BY RequestKeepsOwners, HandlerKeepsOwners, HostKeepsOwners, OthersKeepOwners
   DEF Next, OperationIds, Undying

\* While the agent does not die, at most one run of the helper installs,
\* reconfigures or uninstalls at a time, for any number of overlapping
\* requests and any failures of the helper (operation-coordinator.service.ts,
\* xray-provisioning.service.ts); a run orphaned by a death is the exception
\* the model checker shows.
THEOREM OneRunAtATime ==
  ASSUME Faults \cap Deaths = {}
  PROVE  Spec => []HelpersExclusive
<1> DEFINE Inv == IInv /\ up /\ RunsOwnedBy
<1>1. Init => up /\ RunsOwnedBy
  BY DEF Init, Ops!Init, HostInit, RunsOwnedBy, Changing
<1>2. ASSUME Inv, [Next]_vars
      PROVE  up' /\ RunsOwnedBy'
  BY <1>2, WithoutDeaths, StaysUp, OwnersKept
<1>3. Inv => HelpersExclusive
  <2> SUFFICES ASSUME Inv, NEW pid \in Changing, NEW other \in Changing
               PROVE  pid = other
    BY DEF HelpersExclusive, Changing
  <2>1. ASSUME NEW run \in Changing
        PROVE  \E id \in OperationIds : jobs[id].child = run /\ Ops!Active(id)
    <3>1. PICK id \in OperationIds : jobs[id].child = run
      BY DEF RunsOwnedBy, Owner
    <3>2. run # 0
      BY DEF Changing, IInv, HelpersTyped
    <3>3. jobs[id].at # "none"
      BY <3>1, <3>2 DEF IInv, JobsMatch
    <3> QED
      BY <3>1, <3>3 DEF IInv, JobsMatch, Coordinated
  <2> QED
    BY <2>1 DEF IInv, Coordinated
<1> QED
  BY Invariance, <1>1, <1>2, <1>3, PTL DEF Spec

-----------------------------------------------------------------------------
(***************************************************************************)
(* Which run a handler or a request waits for.                             *)
(***************************************************************************)

\* The run a handler waits for.
Run(id) == helpers[jobs[id].child]

\* A handler that works waits for the command of its operation with the input
\* of its request; one that cleans up, for an uninstall; one that restores users
\* is the handler of a reconfiguration.
JobServed(id) ==
  /\ jobs[id].at = "helper" =>
       Run(id).command = HelperCommand(Type(id)) /\ Run(id).plan = jobs[id].input
  /\ jobs[id].at = "cleanup" => Type(id) = "install" /\ Run(id).command = "uninstall"
  /\ jobs[id].at = "restoring" => Type(id) = "reconfigure"

CallServed(c) ==
  /\ callers[c].at = "cleaning" => helpers[callers[c].child].command = "uninstall"
  /\ callers[c].at = "service" => helpers[callers[c].child].command \in {"start", "stop"}

RunsServe ==
  /\ \A id \in OperationIds : JobServed(id)
  /\ \A c \in Callers : CallServed(c)

\* The coordinator has one handler at most.
LEMMA OneHandler ==
  ASSUME IInv, NEW id \in OperationIds, NEW other \in OperationIds,
         jobs[id].at # "none", jobs[other].at # "none"
  PROVE  id = other
<1>1. up /\ Ops!Active(id) /\ Ops!Active(other)
  BY DEF IInv, JobsMatch, Coordinated
<1> QED
  BY <1>1 DEF IInv, Coordinated

\* The run that a handler waits for exists.
LEMMA RunExists ==
  ASSUME IInv, NEW id \in OperationIds, jobs[id].at \in {"helper", "cleanup"}
  PROVE  /\ jobs[id].child \in DOMAIN helpers /\ jobs[id].child # 0
         /\ Run(id) \in RunType
  BY DEF IInv, JobsMatch, ChildrenExist, HelpersTyped, Run

\* The runs that handlers and the requests other than c wait for.
RunsKept(c) ==
  /\ \A id \in OperationIds :
       jobs[id].child # 0 =>
         jobs[id].child \in DOMAIN helpers' /\ helpers'[jobs[id].child] = Run(id)
  /\ \A other \in Callers :
       other # c =>
         /\ callers'[other] = callers[other]
         /\ callers[other].child # 0 =>
              /\ callers[other].child \in DOMAIN helpers'
              /\ helpers'[callers[other].child] = helpers[callers[other].child]

LEMMA SpawnKeepsRuns ==
  ASSUME IInv, NEW c \in Callers, NEW command \in Command, NEW call,
         command \notin {"install", "apply"}, Spawn(command, NoConfig),
         callers' = [callers EXCEPT ![c] = call]
  PROVE  /\ RunsKept(c)
         /\ FreshPid \in DOMAIN helpers' /\ helpers'[FreshPid].command = command
<1> DEFINE fresh == FreshPid
<1>1. /\ fresh \notin DOMAIN helpers
      /\ DOMAIN helpers' = DOMAIN helpers \cup {fresh}
      /\ helpers'[fresh] = NewRun(command, NoConfig)
      /\ \A pid \in DOMAIN helpers : helpers'[pid] = helpers[pid]
  BY Spawned DEF IInv, Plans
<1>2. \A other \in Callers : other # c => callers'[other] = callers[other]
  BY DEF IInv, CallersMatch
<1> HIDE DEF fresh
<1>3. RunsKept(c)
  BY <1>1, <1>2 DEF RunsKept, Run, IInv, ChildrenExist
<1>4. fresh \in DOMAIN helpers' /\ helpers'[fresh].command = command
  BY <1>1 DEF NewRun
<1> QED
  BY <1>3, <1>4 DEF fresh

LEMMA CollectKeepsRuns ==
  ASSUME IInv, NEW c \in Callers, NEW call,
         UNCHANGED helpers \/ Collect(callers[c].child),
         callers' = [callers EXCEPT ![c] = call]
  PROVE  RunsKept(c)
<1>1. \A pid \in DOMAIN helpers :
        pid # callers[c].child => pid \in DOMAIN helpers' /\ helpers'[pid] = helpers[pid]
  <2>1. CASE UNCHANGED helpers
    BY <2>1
  <2>2. CASE Collect(callers[c].child)
    <3>1. /\ DOMAIN helpers' = DOMAIN helpers \ {callers[c].child}
          /\ \A pid \in DOMAIN helpers' : helpers'[pid] = helpers[pid]
      BY <2>2, Collected DEF IInv
    <3> QED
      BY <3>1
  <2> QED
    BY <2>1, <2>2
<1>2. \A other \in Callers : other # c => callers'[other] = callers[other]
  BY DEF IInv, CallersMatch
<1>3. ASSUME NEW id \in OperationIds, jobs[id].child # 0
      PROVE  jobs[id].child \in DOMAIN helpers' /\ helpers'[jobs[id].child] = Run(id)
  BY <1>1, <1>3 DEF Run, IInv, ChildrenExist, ChildrenDiffer
<1>4. ASSUME NEW other \in Callers, other # c, callers[other].child # 0
      PROVE  /\ callers[other].child \in DOMAIN helpers'
             /\ helpers'[callers[other].child] = helpers[callers[other].child]
  BY <1>1, <1>4 DEF IInv, ChildrenExist, ChildrenDiffer
<1> QED
  BY <1>2, <1>3, <1>4 DEF RunsKept

\* What a step of a request does: it may note its configuration, or have its
\* operation queued, or leave handlers, host and records alone.
RequestEffect(c) ==
  /\ UNCHANGED <<host, faults, protocol>>
  /\ RunsKept(c)
  /\ CallServed(c)'
  /\ callers'[c].at = "cleaning" => callers[c].at = "cleaning" \/ PartialInstall
  /\ \/ UNCHANGED <<jobs, opsVars, config>>
     \/ /\ UNCHANGED <<jobs, opsVars, helpers>>
        /\ config' \in Inputs /\ Installed
        /\ ConfigHash(config') = ConfigHash(config)
     \/ /\ UNCHANGED <<config, helpers>>
        /\ \E id \in OperationIds, input \in Plans :
             /\ jobs[id] = NoJob \/ jobs[id].at = "none"
             /\ jobs' = [jobs EXCEPT ![id] = Job("queued", input, 0)]

LEMMA RequestDoes ==
  ASSUME IInv, RunsServe, NEW c \in Callers, Request(c) \/ Resume(c)
  PROVE  RequestEffect(c)
<1> USE DEF IInv
<1>c. callers \in [Callers -> CallType]
  BY DEF CallersMatch
<1>1. ASSUME NEW call, callers' = [callers EXCEPT ![c] = call],
             call.at \in {"idle", "checked"},
             UNCHANGED helpers \/ Collect(callers[c].child)
      PROVE  /\ RunsKept(c) /\ CallServed(c)'
             /\ callers'[c].at # "cleaning"
  BY <1>1, <1>c, CollectKeepsRuns DEF CallServed
<1>2. ASSUME NEW input \in Inputs, Install(c, input)
      PROVE  RequestEffect(c)
  <2>1. CASE PartialInstall
    <3> DEFINE call == Call("cleaning", "install", input, FreshPid)
    <3>1. callers' = [callers EXCEPT ![c] = call] /\ Spawn("uninstall", NoConfig)
      BY <1>2, <2>1 DEF Install, Waits
    <3>2. /\ RunsKept(c) /\ helpers'[FreshPid].command = "uninstall"
      BY <3>1, SpawnKeepsRuns DEF Command
    <3>3. callers'[c].at = "cleaning" /\ callers'[c].child = FreshPid
      BY <3>1, <1>c DEF Call
    <3>4. CallServed(c)'
      BY <3>2, <3>3 DEF CallServed
    <3> QED
      BY <1>2, <2>1, <3>2, <3>4 DEF Install, RequestEffect, records
  <2>2. CASE ~PartialInstall
    <3>1. callers' = [callers EXCEPT ![c] = Call("checked", "install", input, 0)]
          /\ UNCHANGED helpers
      BY <1>2, <2>2 DEF Install, Waits
    <3>2. Call("checked", "install", input, 0).at = "checked"
      BY DEF Call
    <3> QED
      BY <1>1, <1>2, <3>1, <3>2 DEF Install, RequestEffect, records
  <2> QED
    BY <2>1, <2>2
<1>3. CASE Cleaned(c)
  <2>1. Collect(callers[c].child)
    BY <1>3 DEF Cleaned
  <2> DEFINE call == Call("checked", "install", callers[c].input, 0)
  <2>2. call.at = "checked"
    BY DEF Call
  <2>3. \/ callers' = [callers EXCEPT ![c] = Idle]
        \/ callers' = [callers EXCEPT ![c] = call]
    BY <1>3 DEF Cleaned, Answers, Waits
  <2> HIDE DEF call
  <2>4. RunsKept(c) /\ CallServed(c)' /\ callers'[c].at # "cleaning"
    BY <1>1, <2>1, <2>2, <2>3, IdleIsCall
  <2> QED
    BY <1>3, <2>4 DEF Cleaned, RequestEffect, records
<1>4. ASSUME NEW input \in Inputs, Apply(c, input)
      PROVE  RequestEffect(c)
  <2>1. CASE ConfigHash(config) = ConfigHash(input)
    <3>1. /\ config' = input /\ UNCHANGED callers /\ Installed
          /\ UNCHANGED <<opsVars, hostVars, protocol, jobs>>
      BY <1>4, <2>1 DEF Apply, InstalledFor
    <3>2. UNCHANGED <<helpers, host, faults>>
      BY <3>1 DEF hostVars, host, runtime
    <3>3. RunsKept(c)
      BY <3>1, <3>2 DEF RunsKept, Run, ChildrenExist
    <3>4. CallServed(c)'
      BY <3>1, <3>2 DEF CallServed, RunsServe
    <3>5. ConfigHash(config') = ConfigHash(config) /\ config' \in Inputs
      BY <2>1, <3>1
    <3> QED
      BY <3>1, <3>2, <3>3, <3>4, <3>5 DEF RequestEffect
  <2>2. CASE ConfigHash(config) # ConfigHash(input)
    <3>1. /\ callers' = [callers EXCEPT ![c] = Call("checked", "reconfigure", input, 0)]
          /\ UNCHANGED <<config, opsVars, hostVars, protocol, jobs>>
      BY <1>4, <2>2 DEF Apply, Waits
    <3>2. Call("checked", "reconfigure", input, 0).at = "checked"
      BY DEF Call
    <3>3. UNCHANGED <<helpers, host, faults>>
      BY <3>1 DEF hostVars, host, runtime
    <3> QED
      BY <1>1, <3>1, <3>2, <3>3 DEF RequestEffect
  <2> QED
    BY <2>1, <2>2
<1>5. ASSUME NEW p \in Protocols, Uninstall(c, p)
      PROVE  RequestEffect(c)
  <2>1. /\ callers' = [callers EXCEPT ![c] = Call("checked", "uninstall", UninstallInput(p), 0)]
        /\ UNCHANGED <<opsVars, hostVars, records, jobs>>
    BY <1>5 DEF Uninstall, Waits
  <2>2. Call("checked", "uninstall", UninstallInput(p), 0).at = "checked"
    BY DEF Call
  <2>3. UNCHANGED <<helpers, host, faults>>
    BY <2>1 DEF hostVars, host, runtime
  <2> QED
    BY <1>1, <2>1, <2>2, <2>3 DEF RequestEffect, records
<1>6. ASSUME NEW p \in Protocols, NEW command \in {"start", "stop"},
             StartOrStop(c, command, p)
      PROVE  RequestEffect(c)
  <2> DEFINE call == Call("service", command, NoConfig, FreshPid)
  <2>1. callers' = [callers EXCEPT ![c] = call] /\ Spawn(command, NoConfig)
    BY <1>6 DEF StartOrStop, Waits
  <2>2. RunsKept(c) /\ helpers'[FreshPid].command = command
    BY <2>1, SpawnKeepsRuns DEF Command
  <2>3. callers'[c].at = "service" /\ callers'[c].child = FreshPid
    BY <2>1, <1>c DEF Call
  <2>4. CallServed(c)'
    BY <2>2, <2>3 DEF CallServed
  <2> QED
    BY <1>6, <2>2, <2>3, <2>4 DEF StartOrStop, RequestEffect, records
<1>7. CASE Decline(c)
  <2>1. callers' = [callers EXCEPT ![c] = Idle] /\ UNCHANGED <<helpers, host, faults>>
    BY <1>7 DEF Decline, Answers, hostVars, host, runtime
  <2> QED
    BY <1>1, <1>7, <2>1, IdleIsCall DEF Decline, RequestEffect, records
<1>8. CASE ServiceAnswered(c)
  <2>1. callers' = [callers EXCEPT ![c] = Idle] /\ Collect(callers[c].child)
    BY <1>8 DEF ServiceAnswered, Answers
  <2> QED
    BY <1>1, <1>8, <2>1, IdleIsCall DEF ServiceAnswered, RequestEffect, records
<1>9. CASE Submit(c)
  <2>1. callers' = [callers EXCEPT ![c] = Idle] /\ UNCHANGED <<helpers, host, faults, records>>
    BY <1>9 DEF Submit, Answers, hostVars, host, runtime
  <2>2. /\ created + 1 \in OperationIds /\ created + 1 \notin starting \cup awaiting
        /\ callers[c].input \in Plans
        /\ jobs' = [jobs EXCEPT ![created + 1] = Job("queued", callers[c].input, 0)]
    BY <1>9, <1>c, BoundsAssumption
    DEF Submit, Ops!Accept, Ops!Admissible, Coordinated, Ops!TypeOK,
        OperationIds, Ops!OperationIds, CallType
  <2>3. jobs[created + 1].at = "none"
    BY <2>2 DEF JobsMatch
  <2> QED
    BY <1>1, <2>1, <2>2, <2>3, IdleIsCall DEF RequestEffect, records
<1> QED
  BY <1>2, <1>3, <1>4, <1>5, <1>6, <1>7, <1>8, <1>9 DEF Request, Resume

\* What a step of a handler does beside its records.
HandlerEffect(id) ==
  /\ UNCHANGED <<host, callers>>
  /\ UNCHANGED faults \/ WriteFails(id)
  /\ \A c \in Callers :
       callers[c].child # 0 =>
         /\ callers[c].child \in DOMAIN helpers'
         /\ helpers'[callers[c].child] = helpers[callers[c].child]
  /\ jobs[id].at # "none"
  /\ \A other \in OperationIds :
       other # id => jobs[other].at = "none" /\ jobs'[other] = jobs[other]
  /\ \/ /\ jobs[id].at = "queued" /\ jobs'[id].at = "helper"
        /\ jobs'[id].input = jobs[id].input
        /\ Run(id)' = NewRun(HelperCommand(Type(id)), jobs[id].input)
     \/ /\ jobs[id].at = "helper" /\ Run(id).at = "failed" /\ jobs'[id].at = "cleanup"
        /\ Type(id) = "install"
        /\ Run(id)' = NewRun("uninstall", NoConfig)
     \/ jobs'[id].at = "none"
     \/ jobs'[id].at = "restoring" /\ Type(id) = "reconfigure"

LEMMA HandlerDoes ==
  ASSUME IInv, NEW id \in OperationIds, Handler(id)
  PROVE  HandlerEffect(id)
<1>1. jobs[id].at # "none" /\ jobs[id] \in JobType
  BY DEF Handler, Begin, FinishInstall, CleanUp, FinishApply, UsersRestored, FinishUninstall,
         HandlerFails, WriteFails, HelperEnded, Ops!Begin, IInv, JobsMatch
<1>2. \A other \in OperationIds : other # id => jobs[other].at = "none"
  BY <1>1, OneHandler
<1>3. ASSUME NEW job, jobs' = [jobs EXCEPT ![id] = job]
      PROVE  /\ jobs'[id] = job
             /\ \A other \in OperationIds : other # id => jobs'[other] = jobs[other]
  BY <1>3 DEF IInv, JobsMatch
<1>4. CASE Begin(id)
  <2> DEFINE fresh == FreshPid
             job == Job("helper", jobs[id].input, fresh)
  <2>1. /\ Spawn(HelperCommand(Type(id)), jobs[id].input)
        /\ jobs' = [jobs EXCEPT ![id] = job] /\ jobs[id].at = "queued"
        /\ UNCHANGED <<host, faults, callers>>
    BY <1>4 DEF Begin, Ops!Begin, IInv, JobsMatch
  <2>2. /\ HelperCommand(Type(id)) \in Command
        /\ HelperCommand(Type(id)) \in {"install", "apply"} => jobs[id].input \in Inputs
    BY <1>1 DEF HelperCommand, Ops!OperationType, Command, IInv, JobsMatch
  <2>3. /\ fresh \notin DOMAIN helpers
        /\ DOMAIN helpers' = DOMAIN helpers \cup {fresh}
        /\ helpers'[fresh] = NewRun(HelperCommand(Type(id)), jobs[id].input)
        /\ \A pid \in DOMAIN helpers : helpers'[pid] = helpers[pid]
    BY <1>1, <2>1, <2>2, Spawned DEF IInv, JobType
  <2> HIDE DEF fresh
  <2>4. job.at = "helper" /\ job.input = jobs[id].input /\ job.child = fresh
    BY DEF Job
  <2> HIDE DEF job
  <2>5. jobs'[id] = job /\ \A other \in OperationIds : other # id => jobs'[other] = jobs[other]
    BY <1>3, <2>1
  <2> QED
    BY <1>1, <1>2, <2>1, <2>3, <2>4, <2>5 DEF HandlerEffect, Run, IInv, ChildrenExist
<1>5. CASE CleanUp(id)
  <2>1. /\ jobs[id].at = "helper" /\ Run(id).at = "failed" /\ Type(id) = "install"
        /\ jobs[id].child \in DOMAIN helpers
        /\ helpers' = [helpers EXCEPT ![jobs[id].child] = NewRun("uninstall", NoConfig)]
        /\ UNCHANGED <<host, faults, callers>>
    BY <1>5, RunExists DEF CleanUp, HelperEnded, Exited, Run
  <2>2. /\ jobs'[id].at = "cleanup" /\ jobs'[id].child = jobs[id].child
        /\ \A other \in OperationIds : other # id => jobs'[other] = jobs[other]
    BY <1>1, <1>5 DEF CleanUp, IInv, JobsMatch, JobType
  <2>3. \A c \in Callers : callers[c].child # jobs[id].child
    BY <2>1, RunExists DEF IInv, ChildrenDiffer
  <2> QED
    BY <1>1, <1>2, <2>1, <2>2, <2>3 DEF HandlerEffect, Run, IInv, ChildrenExist
<1>6. ASSUME NEW job, jobs' = [jobs EXCEPT ![id] = job], job.at \in {"none", "restoring"},
             job.at = "restoring" => Type(id) = "reconfigure",
             UNCHANGED helpers \/ Collect(jobs[id].child),
             UNCHANGED <<host, callers>>, UNCHANGED faults \/ WriteFails(id)
      PROVE  HandlerEffect(id)
  <2>1. \A pid \in DOMAIN helpers :
          pid # jobs[id].child => pid \in DOMAIN helpers' /\ helpers'[pid] = helpers[pid]
    <3>1. CASE UNCHANGED helpers
      BY <3>1
    <3>2. CASE Collect(jobs[id].child)
      <4>1. /\ DOMAIN helpers' = DOMAIN helpers \ {jobs[id].child}
            /\ \A pid \in DOMAIN helpers' : helpers'[pid] = helpers[pid]
        BY <3>2, Collected DEF IInv
      <4> QED
        BY <4>1
    <3> QED
      BY <1>6, <3>1, <3>2
  <2>2. \A c \in Callers : callers[c].child # 0 =>
          callers[c].child \in DOMAIN helpers /\ callers[c].child # jobs[id].child
    BY DEF IInv, ChildrenExist, ChildrenDiffer
  <2> QED
    BY <1>1, <1>2, <1>3, <1>6, <2>1, <2>2 DEF HandlerEffect
<1>7. CASE FinishInstall(id) \/ FinishUninstall(id) \/ HandlerFails(id)
  <2>1. /\ jobs' = [jobs EXCEPT ![id] = NoJob]
        /\ Collect(jobs[id].child) /\ UNCHANGED <<host, faults, callers>>
    BY <1>7 DEF FinishInstall, FinishUninstall, HandlerFails, Succeeds, Finished
  <2> QED
    BY <1>6, <2>1, NoJobIsJob
<1>8. CASE UsersRestored(id)
  <2>1. UNCHANGED <<helpers, host, faults, callers>> /\ jobs' = [jobs EXCEPT ![id] = NoJob]
    BY <1>8 DEF UsersRestored, hostVars, host, runtime, Succeeds, Finished
  <2> QED
    BY <1>6, <2>1, NoJobIsJob
<1>9. CASE FinishApply(id)
  <2> DEFINE job == Job("restoring", jobs[id].input, 0)
  <2>1. job.at = "restoring"
    BY DEF Job
  <2>2. jobs' = [jobs EXCEPT ![id] = NoJob] \/ jobs' = [jobs EXCEPT ![id] = job]
    BY <1>9 DEF FinishApply, Succeeds, Finished, IInv, JobsMatch
  <2>3. /\ Collect(jobs[id].child) /\ UNCHANGED <<host, faults, callers>>
        /\ Type(id) = "reconfigure"
    BY <1>9 DEF FinishApply
  <2> HIDE DEF job
  <2> QED
    BY <1>6, <2>1, <2>2, <2>3, NoJobIsJob
<1>10. CASE WriteFails(id)
  <2>1. /\ jobs' = [jobs EXCEPT ![id] = NoJob] /\ UNCHANGED <<host, callers>>
        /\ UNCHANGED helpers \/ Collect(jobs[id].child)
    BY <1>10 DEF WriteFails, Finished
  <2> QED
    BY <1>6, <1>10, <2>1, NoJobIsJob
<1> QED
  BY <1>4, <1>5, <1>7, <1>8, <1>9, <1>10 DEF Handler

\* A run that takes a step keeps its command and its plan, and the others stay.
LEMMA HostStepDoes ==
  ASSUME IInv, NEW pid \in DOMAIN helpers, HostStep(pid)
  PROVE  /\ HelperStep(pid) /\ Alive(pid)
         /\ UNCHANGED <<opsVars, records, jobs, callers>>
         /\ DOMAIN helpers' = DOMAIN helpers
         /\ \A other \in DOMAIN helpers : other # pid => helpers'[other] = helpers[other]
         /\ helpers'[pid].command = helpers[pid].command
         /\ helpers'[pid].plan = helpers[pid].plan
<1>1. HelperMoved(pid)
  BY HelperStepMoves DEF HostStep, IInv
<1>2. /\ DOMAIN helpers' = DOMAIN helpers
      /\ \A other \in DOMAIN helpers : other # pid => helpers'[other] = helpers[other]
      /\ helpers'[pid].command = helpers[pid].command
  BY <1>1, MovedKeepsTypes DEF IInv
<1>3. PICK at \in Progress, backup \in Inputs \cup {NoConfig} :
        helpers' = [helpers EXCEPT ![pid].at = at, ![pid].backup = backup]
  BY <1>1 DEF HelperMoved
<1>4. helpers[pid] \in RunType
  BY DEF IInv, HelpersTyped
<1>5. helpers'[pid].plan = helpers[pid].plan
  BY <1>3, <1>4 DEF RunType
<1> QED
  BY <1>1, <1>2, <1>5 DEF HostStep, HelperMoved, waiting

\* Operations keep their type while their handler is pending.
LEMMA HandledKeepType ==
  ASSUME IInv, [Next]_vars, NEW id \in OperationIds, jobs[id].at # "none"
  PROVE  Type(id)' = Type(id)
<1>1. Ops!Active(id) /\ [Ops!Next]_opsVars
  BY StepOfCoordinator DEF IInv, JobsMatch, Coordinated
<1> QED
  BY <1>1, TypesKept DEF IInv, Type

\* A step beside the runs: a status request, a restart, or none at all.
LEMMA OthersDo ==
  ASSUME Restart \/ (\E poll \in Polls : StatusStep(poll)) \/ UNCHANGED vars
  PROVE  UNCHANGED <<hostVars, records, jobs, callers>>
BY DEF Restart, StatusStep, Status, StatusRecovers, StatusAnswers, waiting, vars

LEMMA RunsServeKept ==
  ASSUME IInv, RunsServe, [Next]_vars
  PROVE  RunsServe'
<1>t. \A id \in OperationIds : jobs[id].at # "none" => Type(id)' = Type(id)
  BY HandledKeepType
<1>1. ASSUME NEW id \in OperationIds, jobs'[id] = jobs[id],
             jobs[id].at \in {"helper", "cleanup"} =>
               /\ Run(id)'.command = Run(id).command
               /\ Run(id)'.plan = Run(id).plan
      PROVE  JobServed(id)'
  BY <1>t, <1>1 DEF RunsServe, JobServed
<1>2. ASSUME NEW c \in Callers, callers'[c] = callers[c],
             callers[c].child # 0 =>
               helpers'[callers[c].child].command = helpers[callers[c].child].command
      PROVE  CallServed(c)'
  BY <1>2 DEF RunsServe, CallServed, IInv, CallersMatch
<1>3. ASSUME NEW c \in Callers, Request(c) \/ Resume(c)
      PROVE  RunsServe'
  <2>1. RequestEffect(c)
    BY <1>3, RequestDoes
  <2>2. ASSUME NEW other \in Callers
        PROVE  CallServed(other)'
    BY <1>2, <2>1 DEF RequestEffect, RunsKept
  <2>3. ASSUME NEW id \in OperationIds
        PROVE  JobServed(id)'
    <3>1. CASE jobs'[id] = jobs[id]
      BY <1>1, <2>1, <3>1, RunExists DEF RequestEffect, RunsKept, Run
    <3>2. CASE jobs'[id] # jobs[id]
      <4>1. PICK queued \in OperationIds, input \in Plans :
              jobs' = [jobs EXCEPT ![queued] = Job("queued", input, 0)]
        BY <2>1, <3>2 DEF RequestEffect
      <4>2. jobs'[id].at = "queued"
        BY <3>2, <4>1 DEF Job, IInv, JobsMatch
      <4> QED
        BY <4>2 DEF JobServed
    <3> QED
      BY <3>1, <3>2
  <2> QED
    BY <2>2, <2>3 DEF RunsServe
<1>4. ASSUME NEW id \in OperationIds, Handler(id)
      PROVE  RunsServe'
  <2>1. HandlerEffect(id) /\ Type(id)' = Type(id)
    BY <1>t, <1>4, HandlerDoes DEF HandlerEffect
  <2>2. \A c \in Callers : CallServed(c)'
    BY <1>2, <2>1 DEF HandlerEffect
  <2>3. \A other \in OperationIds : other # id => JobServed(other)'
    BY <2>1 DEF HandlerEffect, JobServed
  <2>4. JobServed(id)'
    <3>1. CASE jobs'[id].at = "helper"
      BY <2>1, <3>1 DEF HandlerEffect, JobServed, NewRun
    <3>2. CASE jobs'[id].at = "cleanup"
      BY <2>1, <3>2 DEF HandlerEffect, JobServed, NewRun
    <3>3. CASE jobs'[id].at = "restoring"
      BY <2>1, <3>3 DEF HandlerEffect, JobServed
    <3> QED
      BY <3>1, <3>2, <3>3 DEF JobServed
  <2> QED
    BY <2>2, <2>3, <2>4 DEF RunsServe
<1>5. CASE AgentCrash \/ \E id \in OperationIds : TornWrite(id)
  <2>1. /\ jobs' = [id \in OperationIds |-> NoJob]
        /\ callers' = [c \in Callers |-> Idle]
    BY <1>5 DEF AgentCrash, TornWrite, Dies, OperationIds
  <2> QED
    BY <2>1, NoJobIsJob, IdleIsCall DEF RunsServe, JobServed, CallServed
<1>6. ASSUME NEW pid \in DOMAIN helpers, HostStep(pid)
      PROVE  RunsServe'
  <2>1. /\ UNCHANGED <<jobs, callers>>
        /\ \A other \in DOMAIN helpers :
             /\ helpers'[other].command = helpers[other].command
             /\ helpers'[other].plan = helpers[other].plan
    BY <1>6, HostStepDoes
  <2>2. ASSUME NEW id \in OperationIds
        PROVE  JobServed(id)'
    BY <1>1, <2>1, RunExists DEF Run
  <2>3. ASSUME NEW c \in Callers
        PROVE  CallServed(c)'
    BY <1>2, <2>1 DEF IInv, ChildrenExist
  <2> QED
    BY <2>2, <2>3 DEF RunsServe
<1>7. CASE Restart \/ (\E poll \in Polls : StatusStep(poll)) \/ UNCHANGED vars
  <2>1. UNCHANGED <<helpers, jobs, callers>>
    BY <1>7, OthersDo DEF hostVars, host, runtime
  <2>2. \A id \in OperationIds : JobServed(id)'
    BY <1>1, <2>1 DEF Run
  <2>3. \A c \in Callers : CallServed(c)'
    BY <1>2, <2>1
  <2> QED
    BY <2>2, <2>3 DEF RunsServe
<1> QED
  BY <1>3, <1>4, <1>5, <1>6, <1>7 DEF Next, OperationIds

-----------------------------------------------------------------------------
(***************************************************************************)
(* The records describe the host.                                          *)
(***************************************************************************)

\* A handler waits for a run of `command` that has got this far.
AtHelper(id, command, progress) ==
  jobs[id].at = "helper" /\ Run(id).command = command /\ Run(id).at \in progress

\* The configuration on the host is ahead of the records.
Placing(id) == AtHelper(id, "install", {"configured", "placed", "running", "ok"})
Switching(id) == AtHelper(id, "apply", {"switched", "stalled", "ok"})

\* An installed runtime is recorded as one made from `c`.
Describes(c) ==
  marker /\ files => ConfigHash(config) = ConfigHash(c) /\ protocol # "none"

\* What the host is ahead by is the plan of the run, and what a failed switch
\* goes back to is what the records say.
RecordsMatch ==
  /\ (\A id \in OperationIds : ~Placing(id) /\ ~Switching(id)) => Describes(hostConfig)
  /\ \A id \in OperationIds :
       /\ Placing(id) \/ Switching(id) => (marker => hostConfig = Run(id).plan)
       /\ Switching(id) => Describes(Run(id).backup)

\* An uninstall that has ended well has left nothing managed.
UninstallsWipe == \A id \in OperationIds : AtHelper(id, "uninstall", {"ok"}) => ~marker

\* Who changes the host is the handler of the operation in progress.
LEMMA ChangerIsHandler ==
  ASSUME IInv, RunsOwnedBy, NEW pid \in Changing
  PROVE  \E id \in OperationIds :
           /\ jobs[id].child = pid /\ jobs[id].at \in {"helper", "cleanup"}
           /\ \A other \in OperationIds : other # id => jobs[other].at = "none"
<1>1. PICK id \in OperationIds : jobs[id].child = pid
  BY DEF RunsOwnedBy, Owner
<1>2. pid # 0
  BY DEF Changing, IInv, HelpersTyped
<1>3. jobs[id].at \in {"helper", "cleanup"}
  BY <1>1, <1>2 DEF IInv, JobsMatch
<1>4. \A other \in OperationIds : other # id => jobs[other].at = "none"
  BY <1>3, OneHandler
<1> QED
  BY <1>1, <1>3, <1>4

\* Who installs or reconfigures is the handler of an operation.
LEMMA ChangerIsOurs ==
  ASSUME IInv, RunsOwnedBy, RunsServe, NEW pid \in DOMAIN helpers, Alive(pid),
         helpers[pid].command \in {"install", "apply"}
  PROVE  \E id \in OperationIds :
           /\ jobs[id].child = pid /\ jobs[id].at = "helper"
           /\ \A other \in OperationIds : other # id => jobs[other].at = "none"
<1>1. ~CleanupOfRequest(pid)
  BY DEF CleanupOfRequest, RunsServe, CallServed
<1>2. pid \in Changing
  BY <1>1 DEF Changing, ChangesHost
<1>3. PICK id \in OperationIds :
        /\ jobs[id].child = pid /\ jobs[id].at \in {"helper", "cleanup"}
        /\ \A other \in OperationIds : other # id => jobs[other].at = "none"
  BY <1>2, ChangerIsHandler
<1>4. jobs[id].at = "helper"
  BY <1>3 DEF RunsServe, JobServed, Run
<1> QED
  BY <1>3, <1>4

\* Runs of other commands only take away from the host.
LEMMA OthersOnlyRemove ==
  ASSUME NEW pid \in DOMAIN helpers, HelperStep(pid),
         helpers[pid].command \notin {"install", "apply"}
  PROVE  /\ marker' => marker /\ hostConfig' = hostConfig
         /\ files' => files
BY DEF HelperStep, RunStep, Runs, InstallMarks, InstallConfigures, InstallPlaces, InstallRestarts,
       InstallFinishes, ApplyStarts, ApplySwitches, ApplyFinishes, ApplyRestartFails,
       ApplyRollsBack, UninstallStops, UninstallRemovesFiles, UninstallFinishes,
       ServiceCommand, HelperFails, host, runtime

\* An uninstall that ended well found no marker, or removed it.
LEMMA WipedAtTheEnd ==
  ASSUME IInv, NEW pid \in DOMAIN helpers, HelperStep(pid), Alive(pid),
         helpers[pid].command = "uninstall", helpers'[pid].at = "ok"
  PROVE  ~marker'
<1>1. helpers[pid] \in RunType
  BY DEF IInv, HelpersTyped
<1>2. \A at : Moves(pid, at) => helpers'[pid].at = at
  BY <1>1 DEF Moves, RunType
<1> QED
  BY <1>1, <1>2
  DEF HelperStep, RunStep, Runs, InstallMarks, InstallConfigures, InstallPlaces, InstallRestarts,
      InstallFinishes, ApplyStarts, ApplySwitches, ApplyFinishes, ApplyRestartFails,
      ApplyRollsBack, UninstallStops, UninstallRemovesFiles, UninstallFinishes,
      ServiceCommand, HelperFails, host, runtime

\* A failure that counts as late is not among those assumed.
LEMMA NoLateFailure ==
  ASSUME "late_failure" \notin Faults, NEW pid \in DOMAIN helpers, HelperFails(pid),
         helpers[pid].command # "uninstall"
  PROVE  helpers[pid].at \notin {"configured", "placed", "running", "switched", "stalled"}
BY DEF HelperFails, CountFault, FaultAllowed, FaultOf

LEMMA InstallKeepsMatch ==
  ASSUME IInv, RecordsMatch, "late_failure" \notin Faults,
         NEW id \in OperationIds, jobs[id].at = "helper", Run(id).command = "install",
         \A other \in OperationIds : other # id => jobs[other].at = "none",
         HostStep(jobs[id].child)
  PROVE  RecordsMatch'
<1> DEFINE pid == jobs[id].child
<1>1. /\ HelperStep(pid) /\ Alive(pid) /\ pid \in DOMAIN helpers
      /\ UNCHANGED <<config, protocol, jobs>>
      /\ helpers'[pid].command = "install" /\ helpers'[pid].plan = helpers[pid].plan
      /\ helpers[pid] \in RunType
  BY HostStepDoes, RunExists DEF records, Run
<1>2. \A at : Moves(pid, at) => helpers'[pid].at = at
  BY <1>1 DEF Moves, RunType
<1>3. Run(id) = helpers[pid] /\ Run(id)' = helpers'[pid]
  BY <1>1 DEF Run
<1>4. \A other \in OperationIds : ~Switching(other) /\ ~Switching(other)'
  BY <1>1, <1>3 DEF Switching, AtHelper
<1>5. \A other \in OperationIds :
        other # id => ~Placing(other)'
  BY <1>1, <1>3 DEF Placing, AtHelper
<1>6. ~Placing(id) => Describes(hostConfig)
  BY <1>4 DEF RecordsMatch, Placing, AtHelper
<1>7. Placing(id) <=> helpers[pid].at \in {"configured", "placed", "running"}
  BY <1>1, <1>3 DEF Placing, AtHelper, Alive, Ended
<1>8. Placing(id)' <=> helpers'[pid].at \in {"configured", "placed", "running", "ok"}
  BY <1>1, <1>3 DEF Placing, AtHelper
<1> HIDE DEF pid
<1>9. ASSUME \/ Placing(id)' /\ (marker' => hostConfig' = helpers[pid].plan)
             \/ ~Placing(id)' /\ Describes(hostConfig)'
      PROVE  RecordsMatch'
  BY <1>1, <1>3, <1>4, <1>5, <1>9 DEF RecordsMatch
<1>10. CASE InstallMarks(pid)
  BY <1>1, <1>2, <1>6, <1>7, <1>8, <1>9, <1>10 DEF InstallMarks, Runs, Describes
<1>11. CASE InstallConfigures(pid)
  BY <1>2, <1>8, <1>9, <1>11 DEF InstallConfigures
<1>12. CASE InstallPlaces(pid) \/ InstallFinishes(pid)
  BY <1>2, <1>3, <1>7, <1>8, <1>9, <1>12
  DEF InstallPlaces, InstallFinishes, Runs, RecordsMatch, host, runtime
<1>13. CASE InstallRestarts(pid)
  <2>1. ~CountFault("late_failure")
    BY DEF CountFault, FaultAllowed
  <2> QED
    BY <1>2, <1>3, <1>7, <1>8, <1>9, <1>13, <2>1 DEF InstallRestarts, Runs, RecordsMatch
<1>14. CASE HelperFails(pid)
  <2>1. ~Placing(id) /\ ~Placing(id)' /\ UNCHANGED runtime
    BY <1>1, <1>2, <1>3, <1>7, <1>8, <1>14, NoLateFailure DEF HelperFails
  <2> QED
    BY <1>1, <1>6, <1>9, <2>1 DEF Describes, runtime
<1> QED
  BY <1>1, <1>3, <1>10, <1>11, <1>12, <1>13, <1>14
  DEF HelperStep, RunStep, Runs, ApplyStarts, ApplySwitches, ApplyFinishes, ApplyRestartFails,
      ApplyRollsBack, UninstallStops, UninstallRemovesFiles, UninstallFinishes,
      ServiceCommand

LEMMA ApplyKeepsMatch ==
  ASSUME IInv, RecordsMatch, "late_failure" \notin Faults,
         NEW id \in OperationIds, jobs[id].at = "helper", Run(id).command = "apply",
         \A other \in OperationIds : other # id => jobs[other].at = "none",
         HostStep(jobs[id].child)
  PROVE  RecordsMatch'
<1> DEFINE pid == jobs[id].child
<1>1. /\ HelperStep(pid) /\ Alive(pid) /\ pid \in DOMAIN helpers
      /\ UNCHANGED <<config, protocol, jobs>>
      /\ helpers'[pid].command = "apply" /\ helpers'[pid].plan = helpers[pid].plan
      /\ helpers[pid] \in RunType /\ helpers \in [DOMAIN helpers -> RunType]
  BY HostStepDoes, RunExists DEF records, Run, IInv, HelpersTyped
<1>2. \A at : Moves(pid, at) =>
        helpers'[pid].at = at /\ helpers'[pid].backup = helpers[pid].backup
  BY <1>1 DEF Moves, RunType
<1>3. Run(id) = helpers[pid] /\ Run(id)' = helpers'[pid]
  BY <1>1 DEF Run
<1>4. \A other \in OperationIds : ~Placing(other) /\ ~Placing(other)'
  BY <1>1, <1>3 DEF Placing, AtHelper
<1>5. \A other \in OperationIds :
        other # id => ~Switching(other)'
  BY <1>1, <1>3 DEF Switching, AtHelper
<1>6. ~Switching(id) => Describes(hostConfig)
  BY <1>4 DEF RecordsMatch, Switching, AtHelper
<1>7. Switching(id) <=> helpers[pid].at \in {"switched", "stalled"}
  BY <1>1, <1>3 DEF Switching, AtHelper, Alive, Ended
<1>8. Switching(id)' <=> helpers'[pid].at \in {"switched", "stalled", "ok"}
  BY <1>1, <1>3 DEF Switching, AtHelper
<1>9. Switching(id) =>
        (marker => hostConfig = helpers[pid].plan) /\ Describes(helpers[pid].backup)
  BY <1>3 DEF RecordsMatch
<1> HIDE DEF pid
<1>10. ASSUME \/ /\ Switching(id)'
                 /\ marker' => hostConfig' = helpers[pid].plan
                 /\ Describes(Run(id).backup)'
              \/ ~Switching(id)' /\ Describes(hostConfig)'
       PROVE  RecordsMatch'
  BY <1>1, <1>3, <1>4, <1>5, <1>10 DEF RecordsMatch
<1>11. ASSUME UNCHANGED <<marker, files, hostConfig>>,
              helpers'[pid].backup = helpers[pid].backup,
              helpers[pid].at = "switched", helpers'[pid].at \in {"stalled", "ok"}
       PROVE  RecordsMatch'
  BY <1>1, <1>3, <1>7, <1>8, <1>9, <1>10, <1>11 DEF Describes
<1>12. ASSUME UNCHANGED <<marker, files, hostConfig>>,
              helpers[pid].at \notin {"switched", "stalled"},
              helpers'[pid].at \notin {"switched", "stalled", "ok"}
       PROVE  RecordsMatch'
  BY <1>1, <1>6, <1>7, <1>8, <1>10, <1>12 DEF Describes
<1>13. CASE ApplyStarts(pid)
  BY <1>2, <1>12, <1>13 DEF ApplyStarts, Runs, host, runtime
<1>14. CASE ApplySwitches(pid)
  <2>1. CASE /\ hostConfig' = helpers[pid].plan
             /\ helpers' = [helpers EXCEPT ![pid].at = "switched", ![pid].backup = hostConfig]
    <3>1. helpers'[pid].at = "switched" /\ helpers'[pid].backup = hostConfig
      BY <1>1, <2>1 DEF RunType
    <3>2. UNCHANGED <<marker, files>> /\ Describes(hostConfig)
      BY <1>6, <1>7, <1>14 DEF ApplySwitches, Runs
    <3>3. /\ ConfigHash(config)' = ConfigHash(config)
          /\ ConfigHash(Run(id).backup)' = ConfigHash(hostConfig)
      BY <1>1, <1>3, <3>1 DEF ConfigHash
    <3>4. Describes(Run(id).backup)'
      BY <1>1, <3>2, <3>3 DEF Describes
    <3> QED
      BY <1>8, <1>10, <2>1, <3>1, <3>4
  <2>2. CASE Moves(pid, "failed") /\ UNCHANGED hostConfig
    BY <1>2, <1>12, <1>14, <2>2 DEF ApplySwitches, Runs
  <2> QED
    BY <1>14, <2>1, <2>2 DEF ApplySwitches
<1>15. CASE ApplyFinishes(pid)
  BY <1>2, <1>11, <1>15 DEF ApplyFinishes, Runs, host, runtime
<1>16. CASE ApplyRestartFails(pid)
  BY <1>2, <1>11, <1>16 DEF ApplyRestartFails, Runs
<1>17. CASE ApplyRollsBack(pid)
  <2>1. /\ UNCHANGED <<marker, files>> /\ hostConfig' = helpers[pid].backup
        /\ helpers'[pid].at = "failed" /\ Switching(id)
    BY <1>2, <1>7, <1>17 DEF ApplyRollsBack, Runs
  <2>2. Describes(hostConfig)'
    BY <1>1, <1>9, <2>1 DEF Describes
  <2> QED
    BY <1>8, <1>10, <2>1, <2>2
<1>18. CASE HelperFails(pid)
  <2>1. helpers[pid].at \notin {"switched", "stalled"}
    BY <1>1, <1>3, <1>18, NoLateFailure
  <2> QED
    BY <1>2, <1>12, <1>18, <2>1 DEF HelperFails, host, runtime
<1> QED
  BY <1>1, <1>3, <1>13, <1>14, <1>15, <1>16, <1>17, <1>18
  DEF HelperStep, RunStep, Runs, InstallMarks, InstallConfigures, InstallPlaces, InstallRestarts,
      InstallFinishes, UninstallStops, UninstallRemovesFiles, UninstallFinishes,
      ServiceCommand

\* A step that leaves alone what RecordsMatch is about.
LEMMA MatchKept ==
  ASSUME RecordsMatch, UNCHANGED <<marker, files, hostConfig, protocol>>,
         ConfigHash(config)' = ConfigHash(config),
         \A id \in OperationIds :
           /\ Placing(id)' <=> Placing(id)
           /\ Switching(id)' <=> Switching(id)
           /\ Placing(id) \/ Switching(id) => Run(id)' = Run(id)
  PROVE  RecordsMatch'
<1>1. \A c : Describes(c) => (marker' /\ files' =>
                                ConfigHash(config)' = ConfigHash(c) /\ protocol' # "none")
  BY DEF Describes
<1>2. (\A id \in OperationIds : ~Placing(id)' /\ ~Switching(id)') => Describes(hostConfig)'
  <2> SUFFICES ASSUME \A id \in OperationIds : ~Placing(id)' /\ ~Switching(id)'
               PROVE  Describes(hostConfig)'
    OBVIOUS
  <2>1. Describes(hostConfig)
    BY DEF RecordsMatch
  <2>2. ConfigHash(hostConfig)' = ConfigHash(hostConfig)
    BY DEF ConfigHash
  <2> QED
    BY <1>1, <2>1, <2>2 DEF Describes
<1>3. ASSUME NEW id \in OperationIds, Switching(id)'
      PROVE  Describes(Run(id).backup)'
  <2>1. Describes(Run(id).backup) /\ Run(id)' = Run(id)
    BY <1>3 DEF RecordsMatch
  <2>2. ConfigHash(Run(id).backup)' = ConfigHash(Run(id).backup)
    BY <2>1 DEF ConfigHash
  <2> QED
    BY <1>1, <2>1, <2>2 DEF Describes
<1>4. ASSUME NEW id \in OperationIds
      PROVE  Placing(id)' \/ Switching(id)' => (marker' => hostConfig' = Run(id)'.plan)
  BY DEF RecordsMatch
<1> QED
  BY <1>2, <1>3, <1>4 DEF RecordsMatch

\* A request leaves the handlers at work and their runs alone.
LEMMA RequestKeepsHandlers ==
  ASSUME IInv, NEW c \in Callers, RequestEffect(c), NEW id \in OperationIds
  PROVE  \/ jobs[id].at = "none" /\ jobs'[id].at = "queued"
         \/ jobs'[id] = jobs[id] /\ (jobs[id].at \in {"helper", "cleanup"} => Run(id)' = Run(id))
<1>1. CASE jobs'[id] = jobs[id]
  BY <1>1, RunExists DEF RequestEffect, RunsKept, Run
<1>2. CASE jobs'[id] # jobs[id]
  <2>1. PICK queued \in OperationIds, input \in Plans :
          /\ jobs[queued] = NoJob \/ jobs[queued].at = "none"
          /\ jobs' = [jobs EXCEPT ![queued] = Job("queued", input, 0)]
    BY <1>2 DEF RequestEffect
  <2> QED
    BY <1>2, <2>1, NoJobIsJob DEF Job, IInv, JobsMatch
<1> QED
  BY <1>1, <1>2

LEMMA RequestKeepsMatch ==
  ASSUME IInv, RecordsMatch, NEW c \in Callers, RequestEffect(c)
  PROVE  RecordsMatch'
<1>1. UNCHANGED <<marker, files, hostConfig, protocol>>
  BY DEF RequestEffect, host, runtime
<1>2. ConfigHash(config)' = ConfigHash(config)
  BY DEF RequestEffect, ConfigHash
<1>3. \A id \in OperationIds :
           /\ Placing(id)' <=> Placing(id)
           /\ Switching(id)' <=> Switching(id)
           /\ Placing(id) \/ Switching(id) => Run(id)' = Run(id)
  BY RequestKeepsHandlers DEF Placing, Switching, AtHelper
<1> QED
  BY <1>1, <1>2, <1>3, MatchKept

\* A handler records what its run has done on the host.
LEMMA HandlerKeepsMatch ==
  ASSUME IInv, RunsServe, RecordsMatch, UninstallsWipe, "write_failure" \notin Faults,
         NEW id \in OperationIds, Handler(id)
  PROVE  RecordsMatch'
<1>0. ~WriteFails(id)
  BY DEF WriteFails, CountFault, FaultAllowed
<1>1. HandlerEffect(id)
  BY HandlerDoes
<1>2. UNCHANGED <<marker, files, hostConfig>> /\ jobs[id].at # "none"
      /\ \A other \in OperationIds :
           other # id => jobs[other].at = "none" /\ jobs'[other].at = "none"
  BY <1>1 DEF HandlerEffect, host, runtime
<1>3. ASSUME ~Placing(id), ~Switching(id), UNCHANGED records, ~Placing(id)', ~Switching(id)'
      PROVE  RecordsMatch'
  <2>1. \A other \in OperationIds :
          /\ Placing(other)' <=> Placing(other)
          /\ Switching(other)' <=> Switching(other)
          /\ Placing(other) \/ Switching(other) => Run(other)' = Run(other)
    BY <1>2, <1>3 DEF Placing, Switching, AtHelper
  <2>2. ConfigHash(config)' = ConfigHash(config)
    BY <1>3 DEF ConfigHash, records
  <2> QED
    BY <1>2, <1>3, <2>1, <2>2, MatchKept DEF records
<1>4. ASSUME jobs'[id].at # "helper", Describes(hostConfig)'
      PROVE  RecordsMatch'
  BY <1>2, <1>4 DEF RecordsMatch, Placing, Switching, AtHelper
<1>5. CASE Begin(id)
  <2>1. /\ jobs[id].at = "queued" /\ UNCHANGED records
        /\ jobs'[id].at = "helper"
    BY <1>5 DEF Begin, Ops!Begin, IInv, JobsMatch, Job
  <2>2. Run(id)'.at = "started"
    BY <1>1, <2>1 DEF HandlerEffect, NewRun
  <2> QED
    BY <1>3, <2>1, <2>2 DEF Placing, Switching, AtHelper
<1>6. CASE CleanUp(id)
  <2>1. jobs[id].at = "helper" /\ Run(id).at = "failed" /\ UNCHANGED records
        /\ jobs'[id].at = "cleanup"
    BY <1>6 DEF CleanUp, HelperEnded, Exited, Run, IInv, JobsMatch, JobType
  <2> QED
    BY <1>3, <2>1 DEF Placing, Switching, AtHelper
<1>7. CASE HandlerFails(id) \/ UsersRestored(id)
  <2>1. jobs' = [jobs EXCEPT ![id] = NoJob] /\ UNCHANGED records
    BY <1>7 DEF HandlerFails, UsersRestored, Succeeds, Finished
  <2>2. jobs'[id].at = "none"
    BY <2>1, NoJobIsJob DEF IInv, JobsMatch
  <2>3. jobs[id].at # "helper" \/ Run(id).at = "failed"
    BY <1>7 DEF HandlerFails, UsersRestored, HelperEnded, Exited, Run
  <2> QED
    BY <1>3, <2>1, <2>2, <2>3 DEF Placing, Switching, AtHelper
<1>8. ASSUME FinishInstall(id) \/ FinishApply(id)
      PROVE  /\ jobs'[id].at # "helper" /\ config' = jobs[id].input
             /\ jobs[id].at = "helper" /\ Run(id).at = "ok"
             /\ Run(id).plan = jobs[id].input /\ jobs[id].input \in Inputs
             /\ Run(id).command = HelperCommand(Type(id))
             /\ Type(id) = "install" \/ Type(id) = "reconfigure"
  <2>1. /\ jobs[id].at = "helper" /\ Run(id).at = "ok" /\ config' = jobs[id].input
        /\ Type(id) = "install" \/ Type(id) = "reconfigure"
        /\ \/ jobs' = [jobs EXCEPT ![id] = NoJob]
           \/ jobs' = [jobs EXCEPT ![id] = Job("restoring", @.input, 0)]
    BY <1>8 DEF FinishInstall, FinishApply, HelperEnded, Exited, Run, Succeeds, Finished
  <2>2. jobs'[id].at # "helper"
    BY <2>1, NoJobIsJob DEF Job, IInv, JobsMatch
  <2> QED
    BY <2>1, <2>2 DEF RunsServe, JobServed, IInv, JobsMatch
<1>9. CASE FinishInstall(id)
  <2>1. Placing(id) /\ protocol' = jobs[id].input.protocol
    BY <1>8, <1>9 DEF FinishInstall, Placing, AtHelper, HelperCommand
  <2>2. protocol' # "none"
    BY <1>8, <1>9, <2>1, InputsAssumption DEF Protocols
  <2>3. marker' => hostConfig' = config'
    BY <1>2, <1>8, <1>9, <2>1 DEF RecordsMatch
  <2>4. Describes(hostConfig)'
    BY <2>2, <2>3 DEF Describes, ConfigHash
  <2> QED
    BY <1>4, <1>8, <1>9, <2>4
<1>10. CASE FinishApply(id)
  <2>1. Switching(id) /\ protocol' = protocol
    BY <1>8, <1>10 DEF FinishApply, Switching, AtHelper, HelperCommand
  <2>2. marker' => hostConfig' = config'
    BY <1>2, <1>8, <1>10, <2>1 DEF RecordsMatch
  <2>3. marker /\ files => protocol # "none"
    BY <2>1 DEF RecordsMatch, Describes
  <2>4. Describes(hostConfig)'
    BY <1>2, <2>1, <2>2, <2>3 DEF Describes, ConfigHash
  <2> QED
    BY <1>4, <1>8, <1>10, <2>4
<1>11. CASE FinishUninstall(id)
  <2>1. /\ jobs[id].at = "helper" /\ Run(id).at = "ok" /\ Type(id) = "uninstall"
        /\ jobs' = [jobs EXCEPT ![id] = NoJob]
    BY <1>11 DEF FinishUninstall, HelperEnded, Exited, Run, Succeeds, Finished
  <2>2. jobs'[id].at # "helper"
    BY <2>1, NoJobIsJob DEF IInv, JobsMatch
  <2>3. AtHelper(id, "uninstall", {"ok"})
    BY <2>1 DEF AtHelper, RunsServe, JobServed, HelperCommand
  <2>4. Describes(hostConfig)'
    BY <1>2, <2>3 DEF UninstallsWipe, Describes
  <2> QED
    BY <1>4, <2>2, <2>4
<1> QED
  BY <1>0, <1>5, <1>6, <1>7, <1>9, <1>10, <1>11 DEF Handler

LEMMA HostKeepsMatch ==
  ASSUME IInv, RunsOwnedBy, RunsServe, RecordsMatch, "late_failure" \notin Faults,
         NEW pid \in DOMAIN helpers, HostStep(pid)
  PROVE  RecordsMatch'
<1>1. /\ HelperStep(pid) /\ Alive(pid)
      /\ UNCHANGED <<config, protocol, jobs>>
      /\ DOMAIN helpers' = DOMAIN helpers
      /\ \A other \in DOMAIN helpers : other # pid => helpers'[other] = helpers[other]
      /\ helpers'[pid].command = helpers[pid].command
  BY HostStepDoes DEF records
<1>2. CASE helpers[pid].command \in {"install", "apply"}
  <2>1. PICK id \in OperationIds :
          /\ jobs[id].child = pid /\ jobs[id].at = "helper"
          /\ \A other \in OperationIds : other # id => jobs[other].at = "none"
    BY <1>1, <1>2, ChangerIsOurs
  <2>2. Run(id).command \in {"install", "apply"}
    BY <1>2, <2>1 DEF Run
  <2> QED
    BY <2>1, <2>2, InstallKeepsMatch, ApplyKeepsMatch
<1>3. CASE helpers[pid].command \notin {"install", "apply"}
  <2>1. marker' => marker /\ hostConfig' = hostConfig
    BY <1>1, <1>3, OthersOnlyRemove
  <2>2. files' => files
    BY <1>1, <1>3, OthersOnlyRemove
  <2>3. ASSUME NEW id \in OperationIds
        PROVE  /\ Placing(id)' <=> Placing(id)
               /\ Switching(id)' <=> Switching(id)
               /\ Placing(id) \/ Switching(id) => Run(id)' = Run(id)
    <3>1. CASE jobs[id].at = "helper"
      BY <1>1, <1>3, <3>1, RunExists DEF Placing, Switching, AtHelper, Run
    <3>2. CASE jobs[id].at # "helper"
      BY <1>1, <3>2 DEF Placing, Switching, AtHelper
    <3> QED
      BY <3>1, <3>2
  <2>4. ConfigHash(config)' = ConfigHash(config)
    BY <1>1 DEF ConfigHash
  <2>5. (\A id \in OperationIds : ~Placing(id)' /\ ~Switching(id)') => Describes(hostConfig)'
    <3> SUFFICES ASSUME \A id \in OperationIds : ~Placing(id)' /\ ~Switching(id)',
                        marker', files'
                 PROVE  ConfigHash(config)' = ConfigHash(hostConfig)' /\ protocol' # "none"
      BY DEF Describes
    <3>1. Describes(hostConfig)
      BY <2>3 DEF RecordsMatch
    <3>2. ConfigHash(hostConfig)' = ConfigHash(hostConfig)
      BY <2>1 DEF ConfigHash
    <3> QED
      BY <1>1, <2>1, <2>2, <2>4, <3>1, <3>2 DEF Describes
  <2>6. ASSUME NEW id \in OperationIds, Switching(id)'
        PROVE  Describes(Run(id).backup)'
    <3>1. Run(id)' = Run(id) /\ Describes(Run(id).backup)
      BY <2>3, <2>6 DEF RecordsMatch
    <3>2. ConfigHash(Run(id).backup)' = ConfigHash(Run(id).backup)
      BY <3>1 DEF ConfigHash
    <3> QED
      BY <1>1, <2>1, <2>2, <2>4, <3>1, <3>2 DEF Describes
  <2>7. ASSUME NEW id \in OperationIds, Placing(id)' \/ Switching(id)', marker'
        PROVE  hostConfig' = Run(id)'.plan
    BY <2>1, <2>3, <2>7 DEF RecordsMatch
  <2> QED
    BY <2>5, <2>6, <2>7 DEF RecordsMatch
<1> QED
  BY <1>2, <1>3

LEMMA UninstallsKeepWiping ==
  ASSUME IInv, RunsOwnedBy, RunsServe, UninstallsWipe, [Next]_vars
  PROVE  UninstallsWipe'
<1>1. ASSUME NEW id \in OperationIds, AtHelper(id, "uninstall", {"ok"}), UNCHANGED marker
      PROVE  ~marker'
  BY <1>1 DEF UninstallsWipe
<1>2. ASSUME NEW c \in Callers, Request(c) \/ Resume(c)
      PROVE  UninstallsWipe'
  <2>1. RequestEffect(c)
    BY <1>2, RequestDoes
  <2>2. ASSUME NEW id \in OperationIds, AtHelper(id, "uninstall", {"ok"})'
        PROVE  AtHelper(id, "uninstall", {"ok"})
    BY <2>1, <2>2, RequestKeepsHandlers DEF AtHelper
  <2>3. UNCHANGED marker
    BY <2>1 DEF RequestEffect, host, runtime
  <2> QED
    BY <1>1, <2>2, <2>3 DEF UninstallsWipe
<1>3. ASSUME NEW id \in OperationIds, Handler(id)
      PROVE  UninstallsWipe'
  <2>1. HandlerEffect(id)
    BY <1>3, HandlerDoes
  <2>2. ASSUME NEW other \in OperationIds, AtHelper(other, "uninstall", {"ok"})'
        PROVE  FALSE
    <3>1. other = id /\ jobs'[id].at = "helper"
      BY <2>1, <2>2 DEF HandlerEffect, AtHelper
    <3>2. Run(id)'.at = "started"
      BY <2>1, <3>1 DEF HandlerEffect, NewRun
    <3> QED
      BY <2>2, <3>1, <3>2 DEF AtHelper
  <2> QED
    BY <2>2 DEF UninstallsWipe
<1>4. CASE AgentCrash \/ \E id \in OperationIds : TornWrite(id)
  <2>1. jobs' = [id \in OperationIds |-> NoJob]
    BY <1>4 DEF AgentCrash, TornWrite, Dies, OperationIds
  <2> QED
    BY <2>1, NoJobIsJob DEF UninstallsWipe, AtHelper
<1>5. ASSUME NEW pid \in DOMAIN helpers, HostStep(pid)
      PROVE  UninstallsWipe'
  <2>1. /\ HelperStep(pid) /\ Alive(pid) /\ UNCHANGED jobs
        /\ \A other \in DOMAIN helpers : other # pid => helpers'[other] = helpers[other]
        /\ helpers'[pid].command = helpers[pid].command
    BY <1>5, HostStepDoes
  <2> SUFFICES ASSUME NEW id \in OperationIds, AtHelper(id, "uninstall", {"ok"})'
               PROVE  ~marker'
    BY DEF UninstallsWipe
  <2>2. CASE jobs[id].child = pid
    <3>1. helpers[pid].command = "uninstall" /\ helpers'[pid].at = "ok"
      BY <2>1, <2>2 DEF AtHelper, Run
    <3> QED
      BY <2>1, <3>1, WipedAtTheEnd
  <2>3. CASE jobs[id].child # pid
    <3>1. AtHelper(id, "uninstall", {"ok"}) /\ jobs[id].at # "none"
      BY <2>1, <2>3, RunExists DEF AtHelper, Run
    <3>2. helpers[pid].command \notin {"install", "apply"}
      BY <2>1, <2>3, <3>1, ChangerIsOurs
    <3> QED
      BY <2>1, <3>1, <3>2, OthersOnlyRemove DEF UninstallsWipe
  <2> QED
    BY <2>2, <2>3
<1>6. CASE Restart \/ (\E poll \in Polls : StatusStep(poll)) \/ UNCHANGED vars
  <2>1. UNCHANGED <<hostVars, jobs>>
    BY <1>6, OthersDo
  <2> QED
    BY <2>1 DEF UninstallsWipe, AtHelper, Run, hostVars, host, runtime
<1> QED
  BY <1>2, <1>3, <1>4, <1>5, <1>6 DEF Next, OperationIds

LEMMA InitServes == Init => up /\ RunsOwnedBy /\ RunsServe /\ UninstallsWipe
<1> SUFFICES ASSUME Init PROVE up /\ RunsOwnedBy /\ RunsServe /\ UninstallsWipe
  OBVIOUS
<1>1. up /\ RunsOwnedBy
  BY DEF Init, Ops!Init, HostInit, RunsOwnedBy, Changing
<1>2. /\ \A id \in OperationIds : jobs[id].at = "none"
      /\ \A c \in Callers : callers[c].at = "idle"
  BY NoJobIsJob, IdleIsCall DEF Init, OperationIds
<1> QED
  BY <1>1, <1>2 DEF RunsServe, JobServed, CallServed, UninstallsWipe, AtHelper

\* When nothing is in progress and a runtime is installed, config.json was
\* generated from the recorded configuration and the protocol is recorded, for
\* any overlapping requests, as long as the agent does not die, no run of the
\* helper fails after it has written the new file and every write of a record
\* succeeds (xray.service.ts, xray-provisioning.service.ts, helper.ts).
THEOREM RecordsDescribeTheHost ==
  ASSUME Faults \cap Deaths = {}, Faults \cap {"late_failure", "write_failure"} = {}
  PROVE  Spec => []InstalledAsRecorded
<1> DEFINE Inv == IInv /\ up /\ RunsOwnedBy /\ RunsServe /\ UninstallsWipe /\ RecordsMatch
<1>1. Init => up /\ RunsOwnedBy /\ RunsServe /\ UninstallsWipe /\ RecordsMatch
  <2>1. Init => \A id \in OperationIds : jobs[id].at = "none"
    BY NoJobIsJob DEF Init, OperationIds
  <2>2. Init => RecordsMatch
    BY <2>1 DEF Init, HostInit, RecordsMatch, Placing, Switching, AtHelper, Describes
  <2> QED
    BY <2>2, InitServes
<1>2. ASSUME Inv, [Next]_vars
      PROVE  up' /\ RunsOwnedBy' /\ RunsServe' /\ UninstallsWipe' /\ RecordsMatch'
  <2>1. up' /\ RunsOwnedBy' /\ RunsServe' /\ UninstallsWipe' /\ Undying
    BY <1>2, WithoutDeaths, StaysUp, OwnersKept, RunsServeKept, UninstallsKeepWiping
  <2>2. ASSUME Restart \/ (\E poll \in Polls : StatusStep(poll)) \/ UNCHANGED vars
        PROVE  RecordsMatch'
    <3>1. UNCHANGED <<hostVars, records, jobs>>
      BY <2>2, OthersDo
    <3>2. ConfigHash(config)' = ConfigHash(config)
      BY <3>1 DEF ConfigHash, records
    <3>3. \A id \in OperationIds :
            /\ Placing(id)' <=> Placing(id)
            /\ Switching(id)' <=> Switching(id)
            /\ Placing(id) \/ Switching(id) => Run(id)' = Run(id)
      BY <3>1 DEF Placing, Switching, AtHelper, Run, hostVars, host, runtime
    <3> QED
      BY <1>2, <3>1, <3>2, <3>3, MatchKept DEF hostVars, host, runtime, records
  <2>3. RecordsMatch'
    BY <1>2, <2>1, <2>2, RequestDoes, RequestKeepsMatch, HandlerKeepsMatch, HostKeepsMatch
    DEF Next, OperationIds, Undying
  <2> QED
    BY <2>1, <2>3
<1>3. Inv => InstalledAsRecorded
  <2> SUFFICES ASSUME Inv, Quiet, Installed
               PROVE  ConfigHash(config) = ConfigHash(hostConfig) /\ protocol # "none"
    BY DEF InstalledAsRecorded
  <2>1. \A id \in OperationIds : jobs[id].at = "none"
    BY DEF Quiet, SomeActive, IInv, JobsMatch, Coordinated, OperationIds
  <2>2. Describes(hostConfig)
    BY <2>1 DEF RecordsMatch, Placing, Switching, AtHelper
  <2> QED
    BY <2>2 DEF Describes, Installed
<1> QED
  BY Invariance, <1>1, <1>2, <1>3, PTL DEF Spec

-----------------------------------------------------------------------------
(***************************************************************************)
(* An uninstall that succeeded left nothing.                               *)
(***************************************************************************)

\* In an agent that does not die no row is ever interrupted, so no status
\* request has one to recover, and the row in progress is the latest.
NoneInterrupted ==
  /\ \A id \in OperationIds : operations[id].errorCode # "interrupted"
  /\ \A poll \in Polls : observing[poll] = 0
  /\ \A id \in OperationIds : Ops!Active(id) => id = created

LatestWiped ==
  created > 0 /\ Type(created) = "uninstall" /\ operations[created].state = "succeeded"

NothingRecorded == ~marker /\ protocol = "none" /\ config = NoConfig

LastClean == LatestWiped => NothingRecorded

\* Without a death the coordinator does one of four things.
LEMMA CoordinatorDoes ==
  ASSUME Coordinated, NoneInterrupted, up, up', [Ops!Next]_opsVars
  PROVE  \/ \E type \in Ops!OperationType, fingerprint \in Fingerprints :
              Ops!Accept(type, fingerprint)
         \/ \E id \in OperationIds : Ops!Begin(id) \/ Ops!Succeed(id) \/ Ops!Fail(id)
         \/ UNCHANGED opsVars
<1>1. \A poll \in Polls : ~Ops!Recover(poll) /\ ~Ops!Decline(poll)
  BY DEF NoneInterrupted, Ops!Recover, Ops!Decline
<1>2. \A poll \in Polls : ~Ops!Observe(poll)
  BY BoundsAssumption
  DEF NoneInterrupted, Ops!Observe, Ops!Recoverable, Ops!Interrupted, Coordinated,
      Ops!TypeOK, OperationIds, Ops!OperationIds
<1>3. ~Ops!Crash /\ ~Ops!Bootstrap
  BY DEF Ops!Crash, Ops!Bootstrap
<1> QED
  BY <1>1, <1>2, <1>3 DEF Ops!Next, OperationIds

LEMMA NoneInterruptedKept ==
  ASSUME Coordinated, NoneInterrupted, up, up', [Ops!Next]_opsVars
  PROVE  NoneInterrupted'
<1>a. /\ created \in Nat
      /\ operations \in [OperationIds -> Ops!OperationRecord \cup {Ops!Absent}]
  BY DEF Coordinated, Ops!TypeOK, OperationIds
<1>1. ASSUME NEW type \in Ops!OperationType, NEW fingerprint \in Fingerprints,
             Ops!Accept(type, fingerprint)
      PROVE  NoneInterrupted'
  <2>1. /\ created' = created + 1 /\ observing' = observing
        /\ operations' = [operations EXCEPT ![created + 1] =
             [operationType |-> type, requestFingerprint |-> fingerprint,
              state |-> "pending", errorCode |-> "none"]]
        /\ \A id \in OperationIds : ~Ops!Active(id)
    BY <1>1 DEF Ops!Accept, Ops!Admissible, OperationIds
  <2>2. \A id \in OperationIds : operations'[id].errorCode # "interrupted"
    BY <1>a, <2>1 DEF NoneInterrupted
  <2>3. \A id \in OperationIds : id # created + 1 => operations'[id] = operations[id]
    BY <1>a, <2>1
  <2>4. \A id \in OperationIds : id # created + 1 => ~Ops!Active(id)'
    BY <2>1, <2>3 DEF Ops!Active
  <2> QED
    BY <2>1, <2>2, <2>4 DEF NoneInterrupted
<1>2. ASSUME NEW id \in OperationIds, Ops!Begin(id) \/ Ops!Succeed(id) \/ Ops!Fail(id)
      PROVE  NoneInterrupted'
  <2>1. created' = created /\ observing' = observing /\ Ops!Active(id)
    BY <1>2 DEF Ops!Begin, Ops!Succeed, Ops!Fail, Coordinated
  <2>2. \A other \in OperationIds : other # id => operations'[other] = operations[other]
    BY <1>2, <1>a DEF Ops!Begin, Ops!Succeed, Ops!Fail
  <2>3. operations[id] \in Ops!OperationRecord
    BY <2>1, ActiveRow DEF Coordinated
  <2>4. operations'[id].errorCode # "interrupted"
    BY <1>2, <1>a, <2>3
    DEF NoneInterrupted, Ops!Begin, Ops!Succeed, Ops!Fail, Ops!OperationRecord
  <2>5. \A other \in OperationIds : Ops!Active(other)' => Ops!Active(other)
    BY <2>1, <2>2 DEF Ops!Active
  <2> QED
    BY <2>1, <2>2, <2>4, <2>5 DEF NoneInterrupted
<1>3. CASE UNCHANGED opsVars
  BY <1>3 DEF NoneInterrupted, opsVars, Ops!Active
<1> QED
  BY <1>1, <1>2, <1>3, CoordinatorDoes

\* A row that has succeeded stays, and nothing is in progress beside it.
LEMMA LatestIsSettled ==
  ASSUME IInv, NoneInterrupted, LatestWiped, NEW id \in OperationIds
  PROVE  jobs[id].at = "none"
<1>1. Ops!Active(id) => id = created /\ operations[created].state = "succeeded"
  BY DEF NoneInterrupted, LatestWiped
<1>2. ~Ops!Active(id)
  BY <1>1 DEF Ops!Active
<1>3. jobs[id].at # "none" => up /\ Ops!Active(id)
  BY DEF IInv, JobsMatch, Coordinated
<1> QED
  BY <1>2, <1>3

LEMMA HandlerKeepsClean ==
  ASSUME IInv, RunsServe, UninstallsWipe, NoneInterrupted, LastClean,
         NEW id \in OperationIds, Handler(id)
  PROVE  LastClean'
<1>1. /\ jobs[id].at # "none" /\ Ops!Active(id) /\ id = created /\ ~LatestWiped
      /\ HandlerEffect(id) /\ created \in OperationIds
  <2>1. jobs[id].at # "none" /\ HandlerEffect(id)
    BY HandlerDoes DEF HandlerEffect
  <2>2. Ops!Active(id) /\ id = created
    BY <2>1 DEF IInv, JobsMatch, Coordinated, NoneInterrupted
  <2> QED
    BY <2>1, <2>2, LatestIsSettled
<1>2. operations[id] \in Ops!OperationRecord
      /\ operations \in [OperationIds -> Ops!OperationRecord \cup {Ops!Absent}]
  BY <1>1, ActiveRow DEF IInv, Coordinated, Ops!TypeOK, OperationIds
<1>3. CASE CleanUp(id)
  BY <1>1, <1>3 DEF CleanUp, opsVars, LastClean, LatestWiped, Type
<1>4. CASE Begin(id) \/ HandlerFails(id) \/ WriteFails(id)
  <2>1. created' = created /\ operations'[id].state \in {"running", "failed"}
    BY <1>2, <1>4 DEF Begin, HandlerFails, WriteFails, Ops!Begin, Ops!Fail, Ops!OperationRecord
  <2> QED
    BY <1>1, <2>1 DEF LastClean, LatestWiped
<1>5. CASE FinishInstall(id) \/ FinishApply(id) \/ UsersRestored(id)
  <2>1. Type(id) # "uninstall"
    BY <1>5
    DEF FinishInstall, FinishApply, UsersRestored, RunsServe, JobServed
  <2>2. created' = created /\ operations'[id].operationType = Type(id)
    BY <1>2, <1>5
    DEF FinishInstall, FinishApply, UsersRestored, Succeeds, Ops!Succeed, opsVars,
        Ops!OperationRecord, Type
  <2> QED
    BY <1>1, <2>1, <2>2 DEF LastClean, LatestWiped, Type
<1>6. CASE FinishUninstall(id)
  <2>1. /\ jobs[id].at = "helper" /\ Run(id).at = "ok" /\ Type(id) = "uninstall"
        /\ protocol' = "none" /\ config' = NoConfig
    BY <1>6 DEF FinishUninstall, HelperEnded, Exited, Run
  <2>2. AtHelper(id, "uninstall", {"ok"})
    BY <2>1 DEF AtHelper, RunsServe, JobServed, HelperCommand
  <2>3. ~marker'
    BY <1>1, <2>2 DEF HandlerEffect, host, runtime, UninstallsWipe
  <2> QED
    BY <2>1, <2>3 DEF LastClean, NothingRecorded
<1> QED
  BY <1>3, <1>4, <1>5, <1>6 DEF Handler

LEMMA LastCleanKept ==
  ASSUME IInv, RunsOwnedBy, RunsServe, UninstallsWipe, NoneInterrupted, LastClean,
         up, up', Undying, [Next]_vars
  PROVE  LastClean'
<1>1. ASSUME UNCHANGED <<created, operations>>, LatestWiped => NothingRecorded'
      PROVE  LastClean'
  BY <1>1 DEF LastClean, LatestWiped, Type
<1>2. ASSUME NEW c \in Callers, Request(c) \/ Resume(c)
      PROVE  LastClean'
  <2>1. CASE Submit(c)
    <3>1. /\ created' = created + 1 /\ created + 1 \in OperationIds
          /\ operations' = [operations EXCEPT ![created + 1] =
               [operationType |-> callers[c].request,
                requestFingerprint |-> callers[c].input,
                state |-> "pending", errorCode |-> "none"]]
      BY <2>1, BoundsAssumption
      DEF Submit, Ops!Accept, IInv, Coordinated, Ops!TypeOK, OperationIds, Ops!OperationIds
    <3>2. operations'[created'].state = "pending"
      BY <3>1 DEF IInv, Coordinated, Ops!TypeOK, OperationIds
    <3> QED
      BY <3>2 DEF LastClean, LatestWiped
  <2>2. CASE ~Submit(c)
    <3>1. UNCHANGED opsVars
      BY <1>2, <2>2
      DEF Request, Resume, Install, Apply, Uninstall, StartOrStop, Cleaned, Decline,
          ServiceAnswered
    <3>2. RequestEffect(c)
      BY <1>2, RequestDoes
    <3>3. UNCHANGED config \/ Installed
      BY <3>2 DEF RequestEffect
    <3>4. UNCHANGED <<marker, protocol>>
      BY <3>2 DEF RequestEffect, host, runtime
    <3> QED
      BY <1>1, <3>1, <3>3, <3>4 DEF opsVars, Installed, LastClean, NothingRecorded
  <2> QED
    BY <2>1, <2>2
<1>3. ASSUME NEW pid \in DOMAIN helpers, HostStep(pid)
      PROVE  LastClean'
  <2>1. HelperStep(pid) /\ Alive(pid) /\ UNCHANGED <<opsVars, records>>
    BY <1>3, HostStepDoes
  <2>2. ASSUME LatestWiped
        PROVE  NothingRecorded'
    <3>1. helpers[pid].command \notin {"install", "apply"}
      BY <2>1, <2>2, ChangerIsOurs, LatestIsSettled
    <3>2. ~marker'
      BY <2>1, <2>2, <3>1, OthersOnlyRemove DEF LastClean, NothingRecorded
    <3> QED
      BY <2>1, <2>2, <3>2 DEF LastClean, NothingRecorded, records
  <2> QED
    BY <1>1, <2>1, <2>2 DEF opsVars
<1>4. CASE Restart \/ (\E poll \in Polls : StatusStep(poll)) \/ UNCHANGED vars
  <2>1. UNCHANGED <<hostVars, records, jobs, callers>>
    BY <1>4, OthersDo
  <2>2. UNCHANGED opsVars
    <3>1. \A poll \in Polls : ~Ops!Recover(poll) /\ ~Ops!Decline(poll)
      BY DEF NoneInterrupted, Ops!Recover, Ops!Decline
    <3>2. \A poll \in Polls : ~Ops!Observe(poll)
      BY BoundsAssumption
      DEF NoneInterrupted, Ops!Observe, Ops!Recoverable, Ops!Interrupted, IInv, Coordinated,
          Ops!TypeOK, OperationIds, Ops!OperationIds
    <3> QED
      BY <1>4, <3>1, <3>2
      DEF Restart, StatusStep, Status, StatusRecovers, StatusAnswers, Ops!Bootstrap, vars
  <2> QED
    BY <1>1, <2>1, <2>2 DEF hostVars, host, runtime, records, opsVars, LastClean, NothingRecorded
<1> QED
  BY <1>2, <1>3, <1>4, HandlerKeepsClean DEF Next, OperationIds, Undying

\* Unless an uninstall ran beside another run, what has no marker is not there:
\* a run that adds to the host has written the marker, and an uninstall takes
\* the marker away when the rest is gone.
AliveAt(command, progress) ==
  \E pid \in DOMAIN helpers :
    helpers[pid].command = command /\ helpers[pid].at \in progress

NothingLeft == ~files /\ hostConfig = NoConfig /\ ~active

HostClean ==
  ~disturbed =>
    /\ ~marker => NothingLeft
    /\ AliveAt("install", {"half", "configured", "placed", "running"}) => marker
    /\ AliveAt("apply", {"half", "switched", "stalled"}) => marker
    /\ AliveAt("uninstall", {"stopped", "half"}) => ~active
    /\ AliveAt("uninstall", {"half"}) => ~files

\* The agent changes the host through its runs only, and starts them at their
\* beginning.
RunsBegin ==
  \A pid \in DOMAIN helpers' :
    \/ pid \in DOMAIN helpers /\ helpers'[pid] = helpers[pid]
    \/ helpers'[pid].at = "started"

LEMMA AgentOnlySpawns ==
  ASSUME [Next]_vars, \A pid \in DOMAIN helpers : ~HostStep(pid)
  PROVE  UNCHANGED host /\ RunsBegin
<1>1. \A command, plan : Spawn(command, plan) => RunsBegin
  BY DEF Spawn, NewRun, RunsBegin
<1>2. \A pid : Collect(pid) => RunsBegin
  BY DEF Collect, Restrict, RunsBegin
<1>3. Abandon => RunsBegin
  BY DEF Abandon, Restrict, RunsBegin
<1>4. UNCHANGED helpers => RunsBegin
  BY DEF RunsBegin
<1>5. ASSUME NEW c \in Callers, Request(c) \/ Resume(c)
      PROVE  UNCHANGED host /\ RunsBegin
  BY <1>1, <1>2, <1>4, <1>5
  DEF Request, Resume, Install, Apply, Uninstall, StartOrStop, Cleaned, Submit, Decline,
      ServiceAnswered, hostVars, host, runtime
<1>6. ASSUME NEW id \in OperationIds, Handler(id) \/ TornWrite(id)
      PROVE  UNCHANGED host /\ RunsBegin
  <2>1. CASE CleanUp(id)
    BY <2>1 DEF CleanUp, NewRun, RunsBegin
  <2> QED
    BY <1>1, <1>2, <1>3, <1>4, <1>6, <2>1
    DEF Handler, Begin, FinishInstall, FinishApply, UsersRestored, FinishUninstall,
        HandlerFails, WriteFails, TornWrite, Dies, hostVars
<1>7. CASE AgentCrash
  BY <1>3, <1>7 DEF AgentCrash, Dies
<1>8. CASE Restart \/ (\E poll \in Polls : StatusStep(poll)) \/ UNCHANGED vars
  BY <1>4, <1>8, OthersDo DEF hostVars
<1> QED
  BY <1>5, <1>6, <1>7, <1>8 DEF Next, OperationIds

LEMMA HostKeepsClean ==
  ASSUME IInv, HostClean, "stop_failure" \notin Faults, NEW pid \in DOMAIN helpers,
         HostStep(pid), ~disturbed'
  PROVE  HostClean'
<1>1. /\ RunStep(pid) /\ ~Disturbs(pid) /\ ~disturbed /\ Alive(pid)
      /\ DOMAIN helpers' = DOMAIN helpers
      /\ \A other \in DOMAIN helpers : other # pid => helpers'[other] = helpers[other]
      /\ helpers'[pid].command = helpers[pid].command
      /\ helpers[pid] \in RunType
  BY HostStepDoes DEF HelperStep, IInv, HelpersTyped, HostTyped
<1>2. \A at : Moves(pid, at) => helpers'[pid].at = at
  BY <1>1 DEF Moves, RunType
<1>3. ASSUME NEW command, NEW progress, AliveAt(command, progress)',
             progress \subseteq Progress \ Ended,
             helpers[pid].command # command \/ helpers'[pid].at \notin progress
      PROVE  AliveAt(command, progress) /\ "uninstall" \notin {command, helpers[pid].command}
  BY <1>1, <1>3 DEF AliveAt, Disturbs, Alive
<1>4. /\ {"half", "configured", "placed", "running"} \subseteq Progress \ Ended
      /\ {"half", "switched", "stalled"} \subseteq Progress \ Ended
      /\ {"stopped", "half"} \subseteq Progress \ Ended /\ {"half"} \subseteq Progress \ Ended
  BY DEF Progress, Ended
<1>5. CASE helpers[pid].command = "uninstall"
  <2>1. /\ ~AliveAt("install", {"half", "configured", "placed", "running"})'
        /\ ~AliveAt("apply", {"half", "switched", "stalled"})'
    BY <1>3, <1>4, <1>5
  <2>2. ASSUME NEW progress, progress \subseteq Progress \ Ended,
               helpers'[pid].at \notin progress
        PROVE  ~AliveAt("uninstall", progress)'
    BY <1>3, <2>2
  <2>3. ASSUME helpers'[pid].at \in Ended, ~marker' => NothingLeft'
        PROVE  HostClean'
    <3>1. helpers'[pid].at \notin {"stopped", "half"}
      BY <2>3 DEF Ended
    <3> QED
      BY <1>4, <2>1, <2>2, <2>3, <3>1 DEF HostClean
  <2>4. CASE UninstallStops(pid)
    <3>1. ~CountFault("stop_failure")
      BY DEF CountFault, FaultAllowed
    <3>2. CASE marker
      <4>1. /\ marker' /\ ~active' /\ helpers'[pid].at = "stopped"
        BY <1>2, <2>4, <3>1, <3>2 DEF UninstallStops
      <4> QED
        BY <1>4, <2>1, <2>2, <4>1 DEF HostClean
    <3>3. CASE ~marker
      BY <1>1, <1>2, <2>3, <2>4, <3>1, <3>3 DEF UninstallStops, HostClean, NothingLeft, Ended
    <3> QED
      BY <3>2, <3>3
  <2>5. CASE UninstallRemovesFiles(pid)
    <3>1. /\ AliveAt("uninstall", {"stopped", "half"}) /\ ~files' /\ helpers'[pid].at = "half"
          /\ UNCHANGED <<marker, active, hostConfig>>
      BY <1>2, <2>5 DEF UninstallRemovesFiles, Runs, AliveAt
    <3>2. ~active'
      BY <1>1, <3>1 DEF HostClean
    <3> QED
      BY <1>1, <2>1, <3>1, <3>2 DEF HostClean, NothingLeft
  <2>6. CASE UninstallFinishes(pid)
    <3>1. /\ AliveAt("uninstall", {"half"}) /\ AliveAt("uninstall", {"stopped", "half"})
          /\ hostConfig' = NoConfig /\ helpers'[pid].at = "ok" /\ UNCHANGED <<files, active>>
      BY <1>2, <2>6 DEF UninstallFinishes, Runs, AliveAt
    <3> QED
      BY <1>1, <2>3, <3>1 DEF HostClean, NothingLeft, Ended
  <2>7. CASE HelperFails(pid)
    BY <1>1, <1>2, <2>3, <2>7 DEF HelperFails, runtime, HostClean, NothingLeft, Ended
  <2> QED
    BY <1>1, <1>5, <2>4, <2>5, <2>6, <2>7
    DEF RunStep, Runs, InstallMarks, InstallConfigures, InstallPlaces, InstallRestarts,
        InstallFinishes, ApplyStarts, ApplySwitches, ApplyFinishes, ApplyRestartFails,
        ApplyRollsBack, ServiceCommand
<1>6. CASE helpers[pid].command # "uninstall"
  <2>1. ~AliveAt("uninstall", {"stopped", "half"})' /\ ~AliveAt("uninstall", {"half"})'
    BY <1>1, <1>4, <1>6 DEF AliveAt, Disturbs, Alive
  <2>2. CASE marker
    <3>1. marker'
      BY <1>1, <1>6, <2>2
      DEF RunStep, Runs, InstallMarks, InstallConfigures, InstallPlaces, InstallRestarts,
          InstallFinishes, ApplyStarts, ApplySwitches, ApplyFinishes, ApplyRestartFails,
          ApplyRollsBack, UninstallStops, UninstallRemovesFiles, UninstallFinishes,
          ServiceCommand, HelperFails, runtime
    <3> QED
      BY <2>1, <3>1 DEF HostClean
  <2>3. CASE ~marker
    <3>1. NothingLeft
      BY <1>1, <2>3 DEF HostClean
    <3>2. /\ ~AliveAt("install", {"half", "configured", "placed", "running"})
          /\ ~AliveAt("apply", {"half", "switched", "stalled"})
      BY <1>1, <2>3 DEF HostClean
    <3>3. /\ ~Runs(pid, "install", "half") /\ ~Runs(pid, "install", "configured")
          /\ ~Runs(pid, "install", "placed") /\ ~Runs(pid, "install", "running")
          /\ ~Runs(pid, "apply", "half") /\ ~Runs(pid, "apply", "switched")
          /\ ~Runs(pid, "apply", "stalled")
      BY <3>2 DEF Runs, AliveAt
    <3>4. marker' \/ (NothingLeft' /\ ~marker' /\ helpers'[pid].at \in Ended)
      <4>1. CASE InstallMarks(pid)
        BY <2>3, <3>1, <4>1 DEF InstallMarks, NothingLeft
      <4>2. CASE ApplyStarts(pid)
        BY <1>2, <2>3, <3>1, <4>2 DEF ApplyStarts, NothingLeft, runtime, Ended
      <4>3. CASE ServiceCommand(pid)
        <5>1. helpers'[pid].at = "failed"
          BY <1>2, <3>1, <4>3 DEF ServiceCommand, NothingLeft
        <5> QED
          BY <2>3, <3>1, <4>3, <5>1 DEF ServiceCommand, NothingLeft, Ended
      <4>4. CASE HelperFails(pid)
        BY <1>2, <2>3, <3>1, <4>4 DEF HelperFails, NothingLeft, runtime, Ended
      <4> QED
        BY <1>1, <1>6, <3>3, <4>1, <4>2, <4>3, <4>4
        DEF RunStep, Runs, InstallConfigures, InstallPlaces, InstallRestarts, InstallFinishes,
            ApplySwitches, ApplyFinishes, ApplyRestartFails, ApplyRollsBack, UninstallStops,
            UninstallRemovesFiles, UninstallFinishes
    <3>5. ASSUME helpers'[pid].at \in Ended
          PROVE  /\ ~AliveAt("install", {"half", "configured", "placed", "running"})'
                 /\ ~AliveAt("apply", {"half", "switched", "stalled"})'
      BY <1>3, <1>4, <3>2, <3>5
    <3> QED
      BY <2>1, <3>4, <3>5 DEF HostClean
  <2> QED
    BY <2>2, <2>3
<1> QED
  BY <1>5, <1>6

LEMMA HostCleanKept ==
  ASSUME IInv, HostClean, "stop_failure" \notin Faults, [Next]_vars
  PROVE  HostClean'
<1>1. CASE \E pid \in DOMAIN helpers : HostStep(pid)
  BY <1>1, HostKeepsClean DEF HostClean
<1>2. CASE \A pid \in DOMAIN helpers : ~HostStep(pid)
  <2>1. UNCHANGED host /\ RunsBegin
    BY <1>2, AgentOnlySpawns
  <2>2. ASSUME NEW command, NEW progress, AliveAt(command, progress)', "started" \notin progress
        PROVE  AliveAt(command, progress)
    BY <2>1, <2>2 DEF AliveAt, RunsBegin
  <2> QED
    BY <2>1, <2>2 DEF HostClean, NothingLeft, host, runtime
<1> QED
  BY <1>1, <1>2

\* After an uninstall that the operations table reports as succeeded, the
\* marker, the binary, the unit, config.json and the records are gone and the
\* service does not run, for any overlapping requests and any failing runs and
\* writes, as long as the agent does not die and systemctl stops the service
\* (xray.service.ts, helper.ts).  What an uninstall beside a `start` or beside
\* the cleanup of an install request leaves is excepted, but for the marker and
\* the records.
THEOREM UninstallLeavesNothing ==
  ASSUME Faults \cap Deaths = {}, "stop_failure" \notin Faults
  PROVE  Spec => []UninstallIsClean
<1> DEFINE Inv == /\ IInv /\ up /\ RunsOwnedBy /\ RunsServe /\ UninstallsWipe
                  /\ NoneInterrupted /\ LastClean /\ HostClean
<1>1. Init => up /\ RunsOwnedBy /\ RunsServe /\ UninstallsWipe
  BY InitServes
<1>2. Init => NoneInterrupted /\ LastClean /\ HostClean
  BY DEF Init, HostInit, Ops!Init, Ops!Absent, Ops!Active, NoneInterrupted, LastClean,
         LatestWiped, OperationIds, HostClean, AliveAt, NothingLeft
<1>3. ASSUME Inv, [Next]_vars
      PROVE  /\ up' /\ RunsOwnedBy' /\ RunsServe' /\ UninstallsWipe'
             /\ NoneInterrupted' /\ LastClean' /\ HostClean'
  <2>1. up' /\ RunsOwnedBy' /\ RunsServe' /\ UninstallsWipe' /\ Undying
    BY <1>3, WithoutDeaths, StaysUp, OwnersKept, RunsServeKept, UninstallsKeepWiping
  <2>2. [Ops!Next]_opsVars
    BY <1>3, StepOfCoordinator DEF IInv
  <2>3. NoneInterrupted'
    BY <1>3, <2>1, <2>2, NoneInterruptedKept DEF IInv
  <2> QED
    BY <1>3, <2>1, <2>3, LastCleanKept, HostCleanKept
<1>4. Inv => UninstallIsClean
  BY DEF UninstallIsClean, LastClean, LatestWiped, NothingRecorded, HostClean, NothingLeft
<1> QED
  BY Invariance, <1>1, <1>2, <1>3, <1>4, PTL DEF Spec

-----------------------------------------------------------------------------
(***************************************************************************)
(* Until something fails, what is recorded is what is installed.           *)
(***************************************************************************)

\* What a run of `command` that got this far has done to the host.
InstallAhead(id) ==
  AtHelper(id, "install", {"half", "configured", "placed", "running", "ok"})
UninstallAhead(id) == AtHelper(id, "uninstall", {"stopped", "half", "ok"})

RunsDoTheirPart(id) ==
  /\ ~AtHelper(id, "install", {"failed"}) /\ ~AtHelper(id, "uninstall", {"failed"})
  /\ InstallAhead(id) => marker
  /\ AtHelper(id, "install", {"placed", "running", "ok"}) => files
  /\ AtHelper(id, "apply", {"half", "switched", "stalled", "ok"}) => marker
  /\ AtHelper(id, "uninstall", {"half", "ok"}) => ~files

NothingToCleanUp ==
  /\ files => marker
  /\ \A c \in Callers : callers[c].at # "cleaning"
  /\ \A id \in OperationIds : jobs[id].at # "cleanup"

Consistent == (marker <=> config # NoConfig) /\ (files <=> marker)

\* The invariant of a system in which nothing has failed.
Unfailed ==
  /\ NothingToCleanUp
  /\ \A id \in OperationIds : RunsDoTheirPart(id)
  /\ (\A id \in OperationIds : ~InstallAhead(id) /\ ~UninstallAhead(id)) => Consistent

\* A step that leaves alone what Unfailed is about.
LEMMA UnfailedKept ==
  ASSUME Unfailed, NothingToCleanUp', UNCHANGED <<marker, files>>,
         config' = config \/ (config' # NoConfig /\ config # NoConfig),
         \A id \in OperationIds :
           \/ jobs[id].at # "helper" /\ jobs'[id].at # "helper"
           \/ jobs'[id] = jobs[id] /\ Run(id)' = Run(id)
  PROVE  Unfailed'
<1>1. ASSUME NEW id \in OperationIds
      PROVE  /\ RunsDoTheirPart(id)'
             /\ InstallAhead(id)' <=> InstallAhead(id)
             /\ UninstallAhead(id)' <=> UninstallAhead(id)
  BY DEF Unfailed, RunsDoTheirPart, InstallAhead, UninstallAhead, AtHelper
<1>2. Consistent => Consistent'
  BY DEF Consistent
<1> QED
  BY <1>1, <1>2 DEF Unfailed

LEMMA ConfigsDiffer ==
  ASSUME NEW input \in Inputs
  PROVE  /\ input # NoConfig
         /\ ConfigHash(input) # ConfigHash(NoConfig)
BY InputsAssumption DEF ConfigHash

LEMMA RequestKeepsUnfailed ==
  ASSUME IInv, RunsServe, Unfailed, up, NEW c \in Callers, Request(c) \/ Resume(c)
  PROVE  Unfailed'
<1>1. RequestEffect(c)
  BY RequestDoes
<1>2. UNCHANGED <<marker, files>>
  BY <1>1 DEF RequestEffect, host, runtime
<1>3. ~PartialInstall
  <2> SUFFICES ASSUME PartialInstall PROVE FALSE
    OBVIOUS
  <2>1. \A id \in OperationIds : jobs[id].at = "none"
    BY DEF PartialInstall, SomeActive, IInv, JobsMatch, Coordinated, OperationIds
  <2>2. Consistent
    BY <2>1 DEF Unfailed, InstallAhead, UninstallAhead, AtHelper
  <2> QED
    BY <2>2 DEF PartialInstall, Consistent
<1>4. ASSUME NEW id \in OperationIds
      PROVE  /\ \/ jobs[id].at # "helper" /\ jobs'[id].at # "helper"
                \/ jobs'[id] = jobs[id] /\ Run(id)' = Run(id)
             /\ jobs'[id].at # "cleanup"
  BY <1>1, RequestKeepsHandlers DEF Unfailed, NothingToCleanUp
<1>5. \A other \in Callers : callers'[other].at # "cleaning"
  BY <1>1, <1>3 DEF RequestEffect, RunsKept, Unfailed, NothingToCleanUp
<1>6. config' = config \/ (config' # NoConfig /\ config # NoConfig)
  <2>1. CASE UNCHANGED config
    BY <2>1
  <2>2. CASE config' \in Inputs /\ ConfigHash(config') = ConfigHash(config)
    BY <2>2, ConfigsDiffer DEF IInv, HostTyped
  <2> QED
    BY <1>1, <2>1, <2>2 DEF RequestEffect
<1>7. NothingToCleanUp'
  BY <1>2, <1>4, <1>5 DEF Unfailed, NothingToCleanUp
<1> QED
  BY <1>2, <1>4, <1>6, <1>7, UnfailedKept

LEMMA HandlerKeepsUnfailed ==
  ASSUME IInv, RunsServe, UninstallsWipe, Unfailed, faults' = faults,
         NEW id \in OperationIds, Handler(id)
  PROVE  Unfailed'
<1>0. ~WriteFails(id)
  BY DEF WriteFails, CountFault, IInv, HostTyped
<1>1. HandlerEffect(id)
  BY HandlerDoes
<1>2. /\ UNCHANGED <<marker, files, callers>> /\ jobs[id].at # "none"
      /\ \A other \in OperationIds :
           other # id => jobs[other].at = "none" /\ jobs'[other] = jobs[other]
  BY <1>1 DEF HandlerEffect, host, runtime
<1>3. jobs'[id].at # "cleanup"
  <2>1. ~CleanUp(id)
    BY DEF CleanUp, HelperEnded, Exited, Unfailed, RunsDoTheirPart, RunsServe, JobServed,
           AtHelper, Run, HelperCommand
  <2>2. jobs'[id].at = "cleanup" => Type(id) = "install" /\ Run(id).at = "failed"
                                     /\ jobs[id].at = "helper"
    BY <1>1 DEF HandlerEffect
  <2> QED
    BY <2>2 DEF Unfailed, RunsDoTheirPart, RunsServe, JobServed, AtHelper, HelperCommand
<1>4. NothingToCleanUp'
  BY <1>2, <1>3 DEF Unfailed, NothingToCleanUp
<1>5. ASSUME jobs'[id].at # "helper", Consistent'
      PROVE  Unfailed'
  BY <1>2, <1>4, <1>5 DEF Unfailed, RunsDoTheirPart, InstallAhead, UninstallAhead, AtHelper
<1>6. \A other \in OperationIds :
        other # id => ~InstallAhead(other) /\ ~UninstallAhead(other)
  BY <1>2 DEF InstallAhead, UninstallAhead, AtHelper
<1>7. ASSUME ~InstallAhead(id), ~UninstallAhead(id)
      PROVE  Consistent
  BY <1>6, <1>7 DEF Unfailed
<1>8. CASE Begin(id)
  <2>1. jobs[id].at = "queued" /\ UNCHANGED config /\ jobs'[id].at = "helper"
    BY <1>8 DEF Begin, Ops!Begin, IInv, JobsMatch, Job, records
  <2>2. Run(id)'.at = "started"
    BY <1>1, <2>1 DEF HandlerEffect, NewRun
  <2>3. Consistent'
    BY <1>2, <1>7, <2>1 DEF InstallAhead, UninstallAhead, AtHelper, Consistent
  <2> QED
    BY <1>2, <1>4, <2>2, <2>3
    DEF Unfailed, RunsDoTheirPart, InstallAhead, UninstallAhead, AtHelper
<1>9. CASE CleanUp(id)
  <2>1. jobs'[id].at = "cleanup"
    BY <1>9 DEF CleanUp, IInv, JobsMatch, JobType
  <2> QED
    BY <1>3, <2>1
<1>10. CASE HandlerFails(id) \/ UsersRestored(id)
  <2>1. jobs' = [jobs EXCEPT ![id] = NoJob] /\ UNCHANGED config
    BY <1>10 DEF HandlerFails, UsersRestored, Succeeds, Finished, records
  <2>2. jobs'[id].at = "none"
    BY <2>1, NoJobIsJob DEF IInv, JobsMatch
  <2>3. jobs[id].at # "helper" \/ Run(id).at = "failed"
    BY <1>10 DEF HandlerFails, UsersRestored, HelperEnded, Exited, Run
  <2>4. Consistent'
    BY <1>2, <1>7, <2>1, <2>3 DEF InstallAhead, UninstallAhead, AtHelper, Consistent
  <2> QED
    BY <1>5, <2>2, <2>4
<1>11. ASSUME FinishInstall(id) \/ FinishApply(id)
       PROVE  /\ jobs'[id].at # "helper" /\ config' = jobs[id].input
              /\ jobs[id].at = "helper" /\ Run(id).at = "ok"
              /\ Run(id).command = HelperCommand(Type(id))
              /\ config' \in Inputs
              /\ FinishInstall(id) => Type(id) = "install"
              /\ FinishApply(id) => Type(id) = "reconfigure"
  <2>1. /\ jobs[id].at = "helper" /\ Run(id).at = "ok" /\ config' = jobs[id].input
        /\ FinishInstall(id) => Type(id) = "install"
        /\ FinishApply(id) => Type(id) = "reconfigure"
        /\ \/ jobs' = [jobs EXCEPT ![id] = NoJob]
           \/ jobs' = [jobs EXCEPT ![id] = Job("restoring", @.input, 0)]
    BY <1>11 DEF FinishInstall, FinishApply, HelperEnded, Exited, Run, Succeeds, Finished
  <2>2. jobs'[id].at # "helper"
    BY <2>1, NoJobIsJob DEF Job, IInv, JobsMatch
  <2> QED
    BY <1>11, <2>1, <2>2 DEF RunsServe, JobServed, IInv, JobsMatch
<1>12. CASE FinishInstall(id)
  <2>1. InstallAhead(id) /\ AtHelper(id, "install", {"placed", "running", "ok"})
    BY <1>11, <1>12 DEF InstallAhead, AtHelper, HelperCommand
  <2>2. Consistent'
    BY <1>2, <1>11, <1>12, <2>1, ConfigsDiffer DEF Unfailed, RunsDoTheirPart, Consistent
  <2> QED
    BY <1>5, <1>11, <1>12, <2>2
<1>13. CASE FinishApply(id)
  <2>1. ~InstallAhead(id) /\ ~UninstallAhead(id)
        /\ AtHelper(id, "apply", {"half", "switched", "stalled", "ok"})
    BY <1>11, <1>13 DEF InstallAhead, UninstallAhead, AtHelper, HelperCommand
  <2>2. Consistent /\ marker
    BY <1>7, <2>1 DEF Unfailed, RunsDoTheirPart
  <2>3. Consistent'
    BY <1>2, <1>11, <1>13, <2>2, ConfigsDiffer DEF Consistent
  <2> QED
    BY <1>5, <1>11, <1>13, <2>3
<1>14. CASE FinishUninstall(id)
  <2>1. /\ jobs[id].at = "helper" /\ Run(id).at = "ok" /\ Type(id) = "uninstall"
        /\ jobs' = [jobs EXCEPT ![id] = NoJob] /\ config' = NoConfig
    BY <1>14 DEF FinishUninstall, HelperEnded, Exited, Run, Succeeds, Finished
  <2>2. jobs'[id].at # "helper"
    BY <2>1, NoJobIsJob DEF IInv, JobsMatch
  <2>3. AtHelper(id, "uninstall", {"ok"}) /\ AtHelper(id, "uninstall", {"half", "ok"})
    BY <2>1 DEF AtHelper, RunsServe, JobServed, HelperCommand
  <2>4. Consistent'
    BY <1>2, <2>1, <2>3 DEF Unfailed, RunsDoTheirPart, UninstallsWipe, Consistent
  <2> QED
    BY <1>5, <2>2, <2>4
<1> QED
  BY <1>0, <1>8, <1>9, <1>10, <1>12, <1>13, <1>14 DEF Handler

\* The step of a run that changes the host, when no failure is counted.
LEMMA HostKeepsUnfailed ==
  ASSUME IInv, RunsOwnedBy, RunsServe, Unfailed, faults' = faults,
         NEW pid \in DOMAIN helpers, HostStep(pid)
  PROVE  Unfailed'
<1>1. /\ HelperStep(pid) /\ Alive(pid)
      /\ UNCHANGED <<config, jobs, callers>>
      /\ DOMAIN helpers' = DOMAIN helpers
      /\ \A other \in DOMAIN helpers : other # pid => helpers'[other] = helpers[other]
      /\ helpers'[pid].command = helpers[pid].command
      /\ helpers[pid] \in RunType
  BY HostStepDoes DEF records, IInv, HelpersTyped
<1>2. ~CountFault("late_failure") /\ ~CountFault("helper_failure") /\ ~HelperFails(pid)
  BY DEF CountFault, HelperFails, IInv, HostTyped
<1>0. ~CountFault("stop_failure")
  BY DEF CountFault, IInv, HostTyped
<1>3. \A at : Moves(pid, at) => helpers'[pid].at = at
  BY <1>1 DEF Moves, RunType
<1>4. CASE helpers[pid].command \in {"start", "stop"}
  <2>1. UNCHANGED <<marker, files>>
    BY <1>1, <1>2, <1>4
    DEF HelperStep, RunStep, Runs, InstallMarks, InstallConfigures, InstallPlaces, InstallRestarts,
        InstallFinishes, ApplyStarts, ApplySwitches, ApplyFinishes, ApplyRestartFails,
        ApplyRollsBack, UninstallStops, UninstallRemovesFiles, UninstallFinishes,
        ServiceCommand
  <2>2. ASSUME NEW id \in OperationIds
        PROVE  \/ jobs[id].at # "helper" /\ jobs'[id].at # "helper"
               \/ jobs'[id] = jobs[id] /\ Run(id)' = Run(id)
    <3>1. CASE jobs[id].at = "helper"
      <4>1. Run(id).command \in {"install", "apply", "uninstall"}
        BY <3>1 DEF RunsServe, JobServed, IInv, JobsMatch, HelperCommand, Ops!OperationType
      <4>2. jobs[id].child # pid
        BY <1>4, <4>1 DEF Run
      <4> QED
        BY <1>1, <3>1, <4>2, RunExists DEF Run
    <3> QED
      BY <1>1, <3>1
  <2>3. NothingToCleanUp'
    BY <1>1, <2>1 DEF Unfailed, NothingToCleanUp
  <2> QED
    BY <1>1, <2>1, <2>2, <2>3, UnfailedKept
<1>5. CASE helpers[pid].command \notin {"start", "stop"}
  <2>1. PICK id \in OperationIds :
          /\ jobs[id].child = pid /\ jobs[id].at = "helper"
          /\ \A other \in OperationIds : other # id => jobs[other].at = "none"
    <3>1. helpers[pid].command \in {"install", "apply", "uninstall"}
      BY <1>1, <1>5 DEF RunType, Command
    <3>2. pid \in Changing
      BY <1>1, <3>1 DEF Changing, ChangesHost, CleanupOfRequest, Unfailed, NothingToCleanUp
    <3> QED
      BY <3>2, ChangerIsHandler DEF Unfailed, NothingToCleanUp
  <2>2. /\ Run(id) = helpers[pid] /\ Run(id)' = helpers'[pid]
        /\ jobs[id].at = "helper" /\ jobs'[id].at = "helper"
    BY <1>1, <2>1 DEF Run
  <2>3. ASSUME NEW other \in OperationIds, other # id
        PROVE  RunsDoTheirPart(other)' /\ ~InstallAhead(other) /\ ~UninstallAhead(other)
    BY <1>1, <2>1, <2>3 DEF RunsDoTheirPart, InstallAhead, UninstallAhead, AtHelper
  <2>4. ASSUME files' => marker', RunsDoTheirPart(id)',
               InstallAhead(id)' \/ UninstallAhead(id)' \/ Consistent'
        PROVE  Unfailed'
    BY <1>1, <2>1, <2>3, <2>4 DEF Unfailed, NothingToCleanUp
  <2>5. InstallAhead(id) \/ UninstallAhead(id) \/ Consistent
    BY <2>3 DEF Unfailed
  <2>6. RunsDoTheirPart(id) /\ (files => marker)
    BY DEF Unfailed, NothingToCleanUp
  <2> USE <1>1, <1>3, <2>2, <2>4, <2>5, <2>6 DEF
        RunsDoTheirPart, InstallAhead, UninstallAhead, AtHelper, Runs, Consistent
  <2>7. CASE InstallMarks(pid)
    BY <2>7 DEF InstallMarks
  <2>8. CASE InstallConfigures(pid) \/ InstallPlaces(pid)
    BY <2>8 DEF InstallConfigures, InstallPlaces
  <2>9. CASE InstallRestarts(pid) \/ InstallFinishes(pid)
    BY <1>2, <2>9 DEF InstallRestarts, InstallFinishes, host, runtime
  <2>10. CASE ApplyStarts(pid) \/ ApplyFinishes(pid)
    BY <2>10 DEF ApplyStarts, ApplyFinishes, host, runtime
  <2>11. CASE ApplySwitches(pid)
    BY <2>11 DEF ApplySwitches, Moves, RunType
  <2>12. CASE ApplyRestartFails(pid) \/ ApplyRollsBack(pid)
    BY <1>2, <2>12 DEF ApplyRestartFails, ApplyRollsBack
  <2>13. CASE UninstallStops(pid)
    BY <2>13 DEF UninstallStops
  <2>14. CASE UninstallRemovesFiles(pid) \/ UninstallFinishes(pid)
    BY <2>14 DEF UninstallRemovesFiles, UninstallFinishes
  <2> QED
    BY <1>2, <1>5, <2>7, <2>8, <2>9, <2>10, <2>11, <2>12, <2>13, <2>14
    DEF HelperStep, RunStep, ServiceCommand
<1> QED
  BY <1>4, <1>5

\* Failures are only ever counted.
LEMMA FaultsCounted ==
  ASSUME IInv, RunsServe, [Next]_vars
  PROVE  /\ faults <= faults'
         /\ faults' = faults => Undying
<1>0. faults \in Nat
  BY DEF IInv, HostTyped
<1>1. CASE AgentCrash \/ \E id \in OperationIds : TornWrite(id)
  BY <1>0, <1>1 DEF AgentCrash, TornWrite, CountFault
<1>2. ASSUME NEW pid \in DOMAIN helpers, HostStep(pid)
      PROVE  faults' = faults \/ faults' = faults + 1
  BY <1>2
  DEF HostStep, HelperStep, RunStep,
      InstallMarks, InstallConfigures, InstallPlaces, InstallRestarts,
      InstallFinishes, ApplyStarts, ApplySwitches, ApplyFinishes, ApplyRestartFails,
      ApplyRollsBack, UninstallStops, UninstallRemovesFiles, UninstallFinishes,
      ServiceCommand, HelperFails, CountFault
<1>3. CASE ~(AgentCrash \/ \E id \in OperationIds : TornWrite(id))
  <2>1. Undying
    BY <1>3 DEF Undying
  <2>2. ASSUME NEW c \in Callers, Request(c) \/ Resume(c)
        PROVE  faults' = faults
    BY <2>2, RequestDoes DEF RequestEffect
  <2>3. ASSUME NEW id \in OperationIds, Handler(id)
        PROVE  faults' = faults \/ faults' = faults + 1
    BY <2>3, HandlerDoes DEF HandlerEffect, WriteFails, CountFault
  <2>4. CASE Restart \/ (\E poll \in Polls : StatusStep(poll)) \/ UNCHANGED vars
    BY <1>0, <2>1, <2>4, OthersDo DEF hostVars, host, runtime
  <2> QED
    BY <1>0, <1>2, <1>3, <2>1, <2>2, <2>3, <2>4 DEF Next, OperationIds
<1> QED
  BY <1>1, <1>3

\* As long as nothing has failed, a configuration is recorded only for a
\* runtime that is installed, for any overlapping requests: what a failed run
\* leaves to the cleanup of the next is the exception (xray.service.ts,
\* xray-provisioning.service.ts).
THEOREM RecordedWhileUnfailed == Spec => []RecordedIsInstalled
<1> DEFINE Good == up /\ RunsOwnedBy /\ UninstallsWipe /\ Unfailed
           Inv == IInv /\ RunsServe /\ (faults = 0 => Good)
<1>1. Init => Inv
  <2>1. Init => \A id \in OperationIds : jobs[id].at = "none"
    BY NoJobIsJob DEF Init, OperationIds
  <2>2. Init => \A c \in Callers : callers[c].at = "idle"
    BY IdleIsCall DEF Init
  <2>3. Init => Unfailed
    BY <2>1, <2>2
    DEF Init, HostInit, Unfailed, NothingToCleanUp, RunsDoTheirPart, InstallAhead,
        UninstallAhead, AtHelper, Consistent
  <2> QED
    BY <2>3, InitServes, InitEstablishes
<1>2. ASSUME Inv, [Next]_vars
      PROVE  Inv'
  <2>1. IInv' /\ RunsServe'
    BY <1>2, RunsServeKept, StepPreserves
  <2>2. ASSUME faults' = 0
        PROVE  Good'
    <3>1. faults = 0 /\ faults' = faults /\ Undying
      BY <1>2, <2>2, FaultsCounted DEF IInv, HostTyped
    <3>2. Good
      BY <1>2, <3>1
    <3>3. up' /\ RunsOwnedBy' /\ UninstallsWipe'
      BY <1>2, <3>1, <3>2, StaysUp, OwnersKept, UninstallsKeepWiping
    <3>4. ASSUME Restart \/ (\E poll \in Polls : StatusStep(poll)) \/ UNCHANGED vars
          PROVE  Unfailed'
      <4>1. UNCHANGED <<marker, files, helpers, config, jobs, callers>>
        BY <3>4, OthersDo DEF hostVars, host, runtime, records
      <4>2. NothingToCleanUp' /\ \A id \in OperationIds : Run(id)' = Run(id)
        BY <3>2, <4>1 DEF Unfailed, NothingToCleanUp, Run
      <4> QED
        BY <3>2, <4>1, <4>2, UnfailedKept
    <3>5. Unfailed'
      BY <1>2, <3>1, <3>2, <3>4, RequestKeepsUnfailed, HandlerKeepsUnfailed,
         HostKeepsUnfailed
      DEF Next, OperationIds, Undying
    <3> QED
      BY <3>3, <3>5
  <2> QED
    BY <2>1, <2>2
<1>3. Inv => RecordedIsInstalled
  <2> SUFFICES ASSUME Inv, faults = 0, Quiet, config # NoConfig
               PROVE  Installed
    BY DEF RecordedIsInstalled
  <2>1. \A id \in OperationIds : jobs[id].at = "none"
    BY DEF Quiet, SomeActive, IInv, JobsMatch, Coordinated, OperationIds
  <2>2. Consistent
    BY <2>1 DEF Unfailed, InstallAhead, UninstallAhead, AtHelper
  <2> QED
    BY <2>2 DEF Consistent, Installed
<1> HIDE DEF Inv
<1> QED
  BY <1>1, <1>2, <1>3, PTL DEF Spec

-----------------------------------------------------------------------------
(***************************************************************************)
(* Every operation is settled and every request answered.  A run of the    *)
(* helper has a bounded number of steps left, so that nobody waits for one *)
(* for ever; a handler goes through its phases in one order, and a request *)
(* through its own, where the synchronous turn of start() puts it off for  *)
(* the one step that ends the turn.                                        *)
(***************************************************************************)

\* The steps a run has left at most, from where it has got to.
StepsLeft(at) ==
  IF at = "started" THEN 6
  ELSE IF at = "stopped" THEN 5
  ELSE IF at = "half" THEN 4
  ELSE IF at \in {"configured", "switched"} THEN 3
  ELSE IF at \in {"placed", "stalled"} THEN 2
  ELSE IF at = "running" THEN 1
  ELSE 0

\* A handler, and a request, that waits for a run that has not ended.
JobWaits(id) == jobs[id].child # 0 /\ Alive(jobs[id].child)
CallWaits(c) == callers[c].child # 0 /\ Alive(callers[c].child)

JobWaitsFor(id, n) == JobWaits(id) /\ StepsLeft(helpers[jobs[id].child].at) <= n
CallWaitsFor(c, n) == CallWaits(c) /\ StepsLeft(helpers[callers[c].child].at) <= n

InPhase(id, phase) == jobs[id].at = phase

\* Rows that a restart settles.
Orphaned(id) == Ops!Active(id) /\ ~up

\* A request that awaits its cleanup, and one that awaits its last answer.
InCleanup(c) == callers[c].at = "cleaning"
Asked(c) == callers[c] # Idle /\ callers[c].at # "cleaning"
Answered(c) == callers[c] = Idle

InTurn == starting # {}

LiveInv == IInv /\ RunsServe

LEMMA LiveInvariance == Spec => []LiveInv
BY InitEstablishes, InitServes, StepPreserves, RunsServeKept, PTL DEF Spec, LiveInv

\* Every step of a run is counted.
LEMMA StepCounts ==
  ASSUME IInv, NEW pid \in DOMAIN helpers, HelperStep(pid)
  PROVE  StepsLeft(helpers'[pid].at) < StepsLeft(helpers[pid].at)
<1>1. helpers[pid] \in RunType
  BY DEF IInv, HelpersTyped
<1>2. \A at : Moves(pid, at) => helpers'[pid].at = at
  BY <1>1 DEF Moves, RunType
<1>3. CASE HelperFails(pid)
  <2>1. helpers'[pid].at = "failed" /\ helpers[pid].at \in Progress \ Ended
    BY <1>1, <1>2, <1>3 DEF HelperFails, Alive, RunType
  <2> QED
    BY <2>1 DEF StepsLeft, Progress, Ended
<1>4. CASE ApplySwitches(pid)
  <2>1. helpers[pid].at = "half"
    BY <1>4 DEF ApplySwitches, Runs
  <2>2. helpers'[pid].at \in {"switched", "failed"}
    BY <1>1, <1>2, <1>4 DEF ApplySwitches, RunType
  <2> QED
    BY <2>1, <2>2 DEF StepsLeft
<1>5. CASE \/ InstallMarks(pid) \/ ApplyStarts(pid) \/ UninstallStops(pid)
           \/ ServiceCommand(pid)
  <2>1. helpers[pid].at = "started"
    BY <1>5 DEF InstallMarks, ApplyStarts, UninstallStops, ServiceCommand, Runs
  <2>2. helpers'[pid].at \in {"half", "failed", "stopped", "ok"}
    BY <1>2, <1>5 DEF InstallMarks, ApplyStarts, UninstallStops, ServiceCommand
  <2> QED
    BY <2>1, <2>2 DEF StepsLeft
<1>6. CASE \/ InstallConfigures(pid) \/ UninstallRemovesFiles(pid) \/ UninstallFinishes(pid)
  <2>1. \/ helpers[pid].at = "half" /\ helpers'[pid].at \in {"configured", "ok"}
        \/ helpers[pid].at = "stopped" /\ helpers'[pid].at = "half"
    BY <1>2, <1>6 DEF InstallConfigures, UninstallRemovesFiles, UninstallFinishes, Runs
  <2> QED
    BY <2>1 DEF StepsLeft
<1>7. CASE \/ InstallPlaces(pid) \/ InstallRestarts(pid) \/ InstallFinishes(pid)
  <2>1. \/ helpers[pid].at = "configured" /\ helpers'[pid].at = "placed"
        \/ helpers[pid].at = "placed" /\ helpers'[pid].at \in {"running", "failed"}
        \/ helpers[pid].at = "running" /\ helpers'[pid].at = "ok"
    BY <1>2, <1>7 DEF InstallPlaces, InstallRestarts, InstallFinishes, Runs
  <2> QED
    BY <2>1 DEF StepsLeft
<1>8. CASE \/ ApplyFinishes(pid) \/ ApplyRestartFails(pid) \/ ApplyRollsBack(pid)
  <2>1. \/ helpers[pid].at = "switched" /\ helpers'[pid].at \in {"ok", "stalled"}
        \/ helpers[pid].at = "stalled" /\ helpers'[pid].at = "failed"
    BY <1>2, <1>8 DEF ApplyFinishes, ApplyRestartFails, ApplyRollsBack, Runs
  <2> QED
    BY <2>1 DEF StepsLeft
<1> QED
  BY <1>3, <1>4, <1>5, <1>6, <1>7, <1>8 DEF HelperStep, RunStep

LEMMA StepsTyped ==
  ASSUME IInv, NEW pid \in DOMAIN helpers
  PROVE  /\ StepsLeft(helpers[pid].at) \in 0 .. 6
         /\ Alive(pid) => StepsLeft(helpers[pid].at) # 0
<1>1. helpers[pid].at \in Progress
  BY DEF IInv, HelpersTyped, RunType
<1> QED
  BY <1>1 DEF StepsLeft, Alive, Progress, Ended

\* A handler that goes on waits for no run, and enters its next phase.
LEMMA HandlerMoves ==
  ASSUME IInv, NEW id \in OperationIds, Handler(id)
  PROVE  /\ ~JobWaits(id)
         /\ \/ jobs'[id].at = "none"
            \/ jobs[id].at = "queued" /\ jobs'[id].at = "helper"
            \/ jobs[id].at = "helper" /\ jobs'[id].at \in {"cleanup", "restoring"}
<1>1. jobs \in [OperationIds -> JobType]
  BY DEF IInv, JobsMatch
<1>2. CASE Begin(id)
  BY <1>1, <1>2 DEF Begin, Ops!Begin, JobWaits, Job, IInv, JobsMatch
<1>3. CASE FinishInstall(id) \/ FinishUninstall(id) \/ HandlerFails(id) \/ UsersRestored(id)
  <2>1. Finished(id) /\ ~JobWaits(id)
    BY <1>1, <1>3 DEF FinishInstall, FinishUninstall, HandlerFails, UsersRestored, Succeeds,
                      HelperEnded, Exited, JobWaits, Alive, Ended, IInv, JobsMatch
  <2> QED
    BY <1>1, <2>1, NoJobIsJob DEF Finished
<1>4. CASE CleanUp(id)
  BY <1>1, <1>4 DEF CleanUp, HelperEnded, Exited, JobWaits, Alive, Ended, JobType
<1>5. CASE FinishApply(id)
  <2>1. jobs[id].at = "helper" /\ ~JobWaits(id)
    BY <1>5 DEF FinishApply, HelperEnded, Exited, JobWaits, Alive, Ended
  <2>2. jobs' = [jobs EXCEPT ![id] = NoJob]
        \/ jobs' = [jobs EXCEPT ![id] = Job("restoring", @.input, 0)]
    BY <1>5 DEF FinishApply, Succeeds, Finished
  <2> QED
    BY <1>1, <2>1, <2>2, NoJobIsJob DEF Job
<1>6. CASE WriteFails(id)
  <2>1. Finished(id) /\ ~JobWaits(id)
    BY <1>1, <1>6 DEF WriteFails, HelperEnded, Exited, JobWaits, Alive, Ended, IInv, JobsMatch
  <2> QED
    BY <1>1, <2>1, NoJobIsJob DEF Finished
<1> QED
  BY <1>2, <1>3, <1>4, <1>5, <1>6 DEF Handler

\* What a step does to a handler in progress: it ends it, it is its own, or it
\* leaves it, but for a step of the run it waits for.
LEMMA JobGoesOn ==
  ASSUME LiveInv, NEW id \in OperationIds, jobs[id].at # "none", [Next]_vars
  PROVE  \/ jobs'[id].at = "none"
         \/ Handler(id)
         \/ /\ jobs'[id] = jobs[id]
            /\ jobs[id].child # 0 =>
                 \/ helpers'[jobs[id].child] = helpers[jobs[id].child]
                 \/ HelperStep(jobs[id].child)
<1> USE DEF LiveInv
<1>1. ASSUME NEW c \in Callers, Request(c) \/ Resume(c)
      PROVE  jobs'[id] = jobs[id] /\ (jobs[id].child # 0 =>
               helpers'[jobs[id].child] = helpers[jobs[id].child])
  <2>1. RequestEffect(c)
    BY <1>1, RequestDoes
  <2>2. jobs'[id] = jobs[id]
    BY <2>1, NoJobIsJob DEF RequestEffect, IInv, JobsMatch
  <2> QED
    BY <2>1, <2>2 DEF RequestEffect, RunsKept, Run
<1>2. ASSUME NEW other \in OperationIds, Handler(other)
      PROVE  Handler(id)
  <2>1. jobs[other].at # "none"
    BY <1>2, HandlerDoes DEF HandlerEffect
  <2>2. id = other
    BY <2>1, OneHandler
  <2> QED
    BY <1>2, <2>2
<1>3. CASE AgentCrash \/ \E other \in OperationIds : TornWrite(other)
  <2>1. jobs' = [other \in OperationIds |-> NoJob]
    BY <1>3 DEF AgentCrash, TornWrite, Dies, OperationIds
  <2> QED
    BY <2>1, NoJobIsJob
<1>4. ASSUME NEW pid \in DOMAIN helpers, HostStep(pid)
      PROVE  /\ jobs'[id] = jobs[id]
             /\ jobs[id].child # 0 =>
                  \/ helpers'[jobs[id].child] = helpers[jobs[id].child]
                  \/ HelperStep(jobs[id].child)
  BY <1>4, HostStepDoes DEF IInv, ChildrenExist
<1>5. CASE Restart \/ (\E poll \in Polls : StatusStep(poll)) \/ UNCHANGED vars
  BY <1>5, OthersDo DEF hostVars, host, runtime
<1> QED
  BY <1>1, <1>2, <1>3, <1>4, <1>5 DEF Next, OperationIds

\* The same for a request that is in progress.
LEMMA CallGoesOn ==
  ASSUME LiveInv, NEW c \in Callers, callers[c] # Idle, [Next]_vars
  PROVE  \/ callers'[c] = Idle
         \/ Resume(c)
         \/ /\ callers'[c] = callers[c]
            /\ callers[c].child # 0 =>
                 \/ helpers'[callers[c].child] = helpers[callers[c].child]
                 \/ HelperStep(callers[c].child)
<1> USE DEF LiveInv
<1>1. ASSUME NEW other \in Callers, other # c, Request(other) \/ Resume(other)
      PROVE  callers'[c] = callers[c] /\ (callers[c].child # 0 =>
               helpers'[callers[c].child] = helpers[callers[c].child])
  BY <1>1, RequestDoes DEF RequestEffect, RunsKept
<1>2. ~Request(c)
  BY DEF Request, Install, Apply, Uninstall, StartOrStop, Arrives
<1>3. ASSUME NEW id \in OperationIds, Handler(id)
      PROVE  callers'[c] = callers[c] /\ (callers[c].child # 0 =>
               helpers'[callers[c].child] = helpers[callers[c].child])
  BY <1>3, HandlerDoes DEF HandlerEffect
<1>4. CASE AgentCrash \/ \E other \in OperationIds : TornWrite(other)
  BY <1>4 DEF AgentCrash, TornWrite, Dies, OperationIds
<1>5. ASSUME NEW pid \in DOMAIN helpers, HostStep(pid)
      PROVE  /\ callers'[c] = callers[c]
             /\ callers[c].child # 0 =>
                  \/ helpers'[callers[c].child] = helpers[callers[c].child]
                  \/ HelperStep(callers[c].child)
  BY <1>5, HostStepDoes DEF IInv, ChildrenExist
<1>6. CASE Restart \/ (\E poll \in Polls : StatusStep(poll)) \/ UNCHANGED vars
  BY <1>6, OthersDo DEF hostVars, host, runtime
<1> QED
  BY <1>1, <1>2, <1>3, <1>4, <1>5, <1>6 DEF Next, OperationIds

\* A request that goes on waits for no run; it is answered, or has had its
\* cleanup and asks.
LEMMA CallMoves ==
  ASSUME IInv, NEW c \in Callers, Resume(c)
  PROVE  /\ ~CallWaits(c)
         /\ \/ callers'[c] = Idle
            \/ callers[c].at = "cleaning" /\ callers'[c].at = "checked"
<1>1. callers \in [Callers -> CallType]
  BY DEF IInv, CallersMatch
<1>2. CASE Cleaned(c)
  <2>1. \/ callers' = [callers EXCEPT ![c] = Idle]
        \/ callers' = [callers EXCEPT ![c] = Call("checked", "install", callers[c].input, 0)]
    BY <1>2 DEF Cleaned, Answers, Waits
  <2> QED
    BY <1>1, <1>2, <2>1 DEF Cleaned, CallWaits, Call
<1>3. CASE Submit(c) \/ Decline(c)
  <2>1. callers' = [callers EXCEPT ![c] = Idle] /\ callers[c].at = "checked"
    BY <1>3 DEF Submit, Decline, Answers
  <2> QED
    BY <1>1, <2>1 DEF CallWaits, IInv, CallersMatch
<1>4. CASE ServiceAnswered(c)
  BY <1>1, <1>4 DEF ServiceAnswered, Answers, CallWaits
<1> QED
  BY <1>2, <1>3, <1>4 DEF Resume

\* Where the fairness applies, the service can act.
LEMMA AgentCanAct ==
  ASSUME NEW id \in OperationIds
  PROVE  StepsEnabled =>
           /\ Orphaned(id) => ENABLED <<Restart>>_vars
           /\ JobWaits(id) /\ jobs[id].at # "none" => ENABLED <<SomeRunOfHandler>>_vars
           /\ ~JobWaits(id) /\ jobs[id].at # "none" => ENABLED <<SomeHandler>>_vars
BY DEF StepsEnabled, Orphaned, JobWaits, OperationIds

LEMMA RequestCanGoOn ==
  ASSUME NEW c \in Callers
  PROVE  StepsEnabled =>
           /\ CallWaits(c) /\ callers[c] # Idle => ENABLED <<RunOfCaller(c)>>_vars
           /\ ~CallWaits(c) /\ callers[c] # Idle /\ ~InTurn => ENABLED <<Resume(c)>>_vars
BY DEF StepsEnabled, CallWaits, InTurn

\* A run somebody waits for gets nearer to its end.
LEMMA JobWaitsLess ==
  ASSUME NEW id \in OperationIds, NEW n \in Nat
  PROVE  /\ LiveInv /\ JobWaitsFor(id, n + 1) /\ [Next]_vars =>
              JobWaitsFor(id, n + 1)' \/ ~JobWaits(id)'
         /\ LiveInv /\ JobWaitsFor(id, n + 1) /\ <<SomeRunOfHandler>>_vars =>
              JobWaitsFor(id, n)' \/ ~JobWaits(id)'
<1> DEFINE pid == jobs[id].child
<1>1. ASSUME LiveInv, JobWaitsFor(id, n + 1)
      PROVE  /\ jobs[id].at # "none" /\ pid # 0 /\ pid \in DOMAIN helpers
             /\ StepsLeft(helpers[pid].at) \in 0 .. 6
  BY <1>1, StepsTyped DEF LiveInv, IInv, JobsMatch, ChildrenExist, JobWaitsFor, JobWaits
<1>2. ASSUME LiveInv, JobWaitsFor(id, n + 1), jobs'[id] = jobs[id], JobWaits(id)',
             HelperStep(pid)
      PROVE  JobWaitsFor(id, n)'
  <2>1. StepsLeft(helpers'[pid].at) < StepsLeft(helpers[pid].at)
    BY <1>1, <1>2, StepCounts DEF LiveInv
  <2>2. StepsLeft(helpers'[pid].at) \in Int
    BY DEF StepsLeft
  <2> QED
    BY <1>1, <1>2, <2>1, <2>2 DEF JobWaitsFor
<1>3. ASSUME LiveInv, JobWaitsFor(id, n + 1), [Next]_vars, JobWaits(id)'
      PROVE  JobWaitsFor(id, n + 1)'
  <2>1. \/ jobs'[id].at = "none"
        \/ Handler(id)
        \/ /\ jobs'[id] = jobs[id]
           /\ \/ helpers'[pid] = helpers[pid]
              \/ HelperStep(pid)
    BY <1>1, <1>3, JobGoesOn
  <2>2. jobs'[id].at # "none"
    BY <1>3, StepPreserves DEF LiveInv, IInv, JobsMatch, JobWaits
  <2>3. ~Handler(id)
    BY <1>3, HandlerMoves DEF LiveInv, JobWaitsFor
  <2>4. CASE jobs'[id] = jobs[id] /\ helpers'[pid] = helpers[pid]
    BY <1>3, <2>4 DEF JobWaitsFor
  <2>5. CASE jobs'[id] = jobs[id] /\ HelperStep(pid)
    <3>1. JobWaitsFor(id, n)'
      BY <1>2, <1>3, <2>5
    <3>2. \A k \in Int : k <= n => k <= n + 1
      OBVIOUS
    <3>3. StepsLeft(helpers[jobs[id].child].at)' \in Int
      BY DEF StepsLeft
    <3> QED
      BY <3>1, <3>2, <3>3 DEF JobWaitsFor
  <2> QED
    BY <2>1, <2>2, <2>3, <2>4, <2>5
<1>4. ASSUME LiveInv, JobWaitsFor(id, n + 1), SomeRunOfHandler, JobWaits(id)'
      PROVE  JobWaitsFor(id, n)'
  <2>1. PICK other \in OperationIds : RunOfHandler(other)
    BY <1>4 DEF SomeRunOfHandler, OperationIds
  <2>2. jobs[other].at # "none"
    BY <1>4, <2>1 DEF RunOfHandler, LiveInv, IInv, JobsMatch
  <2>3. other = id
    BY <1>1, <1>4, <2>2, OneHandler DEF LiveInv
  <2>4. HostStep(pid) /\ pid \in DOMAIN helpers
    BY <1>1, <1>4, <2>1, <2>3 DEF RunOfHandler
  <2>5. jobs'[id] = jobs[id] /\ HelperStep(pid)
    BY <1>4, <2>4, HostStepDoes DEF LiveInv
  <2> QED
    BY <1>2, <1>4, <2>5
<1> QED
  BY <1>3, <1>4

LEMMA CallWaitsLess ==
  ASSUME NEW c \in Callers, NEW n \in Nat
  PROVE  /\ LiveInv /\ CallWaitsFor(c, n + 1) /\ [Next]_vars =>
              CallWaitsFor(c, n + 1)' \/ ~CallWaits(c)'
         /\ LiveInv /\ CallWaitsFor(c, n + 1) /\ <<RunOfCaller(c)>>_vars =>
              CallWaitsFor(c, n)' \/ ~CallWaits(c)'
<1> DEFINE pid == callers[c].child
<1>1. ASSUME LiveInv, CallWaitsFor(c, n + 1)
      PROVE  /\ callers[c] # Idle /\ pid # 0 /\ pid \in DOMAIN helpers
             /\ StepsLeft(helpers[pid].at) \in 0 .. 6
  <2>1. pid # 0 /\ pid \in DOMAIN helpers
    BY <1>1 DEF LiveInv, IInv, ChildrenExist, CallWaitsFor, CallWaits
  <2> QED
    BY <1>1, <2>1, StepsTyped, IdleIsCall DEF LiveInv
<1>2. ASSUME LiveInv, CallWaitsFor(c, n + 1), callers'[c] = callers[c], CallWaits(c)',
             HelperStep(pid)
      PROVE  CallWaitsFor(c, n)'
  <2>1. StepsLeft(helpers'[pid].at) < StepsLeft(helpers[pid].at)
    BY <1>1, <1>2, StepCounts DEF LiveInv
  <2>2. StepsLeft(helpers'[pid].at) \in Int
    BY DEF StepsLeft
  <2> QED
    BY <1>1, <1>2, <2>1, <2>2 DEF CallWaitsFor
<1>3. ASSUME LiveInv, CallWaitsFor(c, n + 1), [Next]_vars, CallWaits(c)'
      PROVE  CallWaitsFor(c, n + 1)'
  <2>1. \/ callers'[c] = Idle
        \/ Resume(c)
        \/ /\ callers'[c] = callers[c]
           /\ \/ helpers'[pid] = helpers[pid]
              \/ HelperStep(pid)
    BY <1>1, <1>3, CallGoesOn
  <2>2. callers'[c] # Idle
    BY <1>3, IdleIsCall DEF CallWaits
  <2>3. ~Resume(c)
    BY <1>3, CallMoves DEF LiveInv, CallWaitsFor
  <2>4. CASE callers'[c] = callers[c] /\ helpers'[pid] = helpers[pid]
    BY <1>3, <2>4 DEF CallWaitsFor
  <2>5. CASE callers'[c] = callers[c] /\ HelperStep(pid)
    <3>1. CallWaitsFor(c, n)'
      BY <1>2, <1>3, <2>5
    <3>2. \A k \in Int : k <= n => k <= n + 1
      OBVIOUS
    <3>3. StepsLeft(helpers[callers[c].child].at)' \in Int
      BY DEF StepsLeft
    <3> QED
      BY <3>1, <3>2, <3>3 DEF CallWaitsFor
  <2> QED
    BY <2>1, <2>2, <2>3, <2>4, <2>5
<1>4. ASSUME LiveInv, CallWaitsFor(c, n + 1), RunOfCaller(c), CallWaits(c)'
      PROVE  CallWaitsFor(c, n)'
  <2>1. callers'[c] = callers[c] /\ HelperStep(pid)
    BY <1>1, <1>4, HostStepDoes DEF LiveInv, RunOfCaller
  <2> QED
    BY <1>2, <1>4, <2>1
<1> QED
  BY <1>3, <1>4

\* A service that runs on, fairly, from a state that can be reached; to the
\* requests of one caller it is fair as well.
Live ==
  /\ []LiveInv /\ [][Next]_vars /\ []StepsEnabled
  /\ WF_vars(Restart) /\ WF_vars(SomeHandler) /\ WF_vars(SomeRunOfHandler)

LiveFor(c) == Live /\ CallerFairness(c)

\* What a handler waits for ends.
LEMMA JobsWaitEnds ==
  ASSUME NEW id \in OperationIds
  PROVE  Live => (JobWaits(id) ~> ~JobWaits(id))
<1>0. /\ LiveInv /\ JobWaits(id) => JobWaitsFor(id, 6)
      /\ LiveInv => ~JobWaitsFor(id, 0)
  <2>1. LiveInv /\ jobs[id].child # 0 =>
          jobs[id].child \in DOMAIN helpers /\ StepsLeft(helpers[jobs[id].child].at) \in 0 .. 6
          /\ (Alive(jobs[id].child) => StepsLeft(helpers[jobs[id].child].at) # 0)
    BY StepsTyped DEF LiveInv, IInv, ChildrenExist
  <2> QED
    BY <2>1 DEF JobWaits, JobWaitsFor
<1>e. LiveInv /\ StepsEnabled /\ JobWaits(id) => ENABLED <<SomeRunOfHandler>>_vars
  <2>1. LiveInv /\ JobWaits(id) => jobs[id].at # "none"
    BY DEF LiveInv, IInv, JobsMatch, JobWaits
  <2> QED
    BY <2>1, AgentCanAct
<1>1. Live => (JobWaitsFor(id, 1) ~> (JobWaitsFor(id, 0) \/ ~JobWaits(id)))
  <2>1. /\ LiveInv /\ JobWaitsFor(id, 1) /\ [Next]_vars =>
             JobWaitsFor(id, 1)' \/ ~JobWaits(id)'
        /\ LiveInv /\ JobWaitsFor(id, 1) /\ <<SomeRunOfHandler>>_vars =>
             JobWaitsFor(id, 0)' \/ ~JobWaits(id)'
    BY JobWaitsLess, 1 = 0 + 1
  <2>2. JobWaitsFor(id, 1) => JobWaits(id)
    BY DEF JobWaitsFor
  <2> QED
    BY <1>e, <2>1, <2>2, PTL DEF Live
<1>2. Live => (JobWaitsFor(id, 2) ~> (JobWaitsFor(id, 1) \/ ~JobWaits(id)))
  <2>1. /\ LiveInv /\ JobWaitsFor(id, 2) /\ [Next]_vars =>
             JobWaitsFor(id, 2)' \/ ~JobWaits(id)'
        /\ LiveInv /\ JobWaitsFor(id, 2) /\ <<SomeRunOfHandler>>_vars =>
             JobWaitsFor(id, 1)' \/ ~JobWaits(id)'
    BY JobWaitsLess, 2 = 1 + 1
  <2>2. JobWaitsFor(id, 2) => JobWaits(id)
    BY DEF JobWaitsFor
  <2> QED
    BY <1>e, <2>1, <2>2, PTL DEF Live
<1>3. Live => (JobWaitsFor(id, 3) ~> (JobWaitsFor(id, 2) \/ ~JobWaits(id)))
  <2>1. /\ LiveInv /\ JobWaitsFor(id, 3) /\ [Next]_vars =>
             JobWaitsFor(id, 3)' \/ ~JobWaits(id)'
        /\ LiveInv /\ JobWaitsFor(id, 3) /\ <<SomeRunOfHandler>>_vars =>
             JobWaitsFor(id, 2)' \/ ~JobWaits(id)'
    BY JobWaitsLess, 3 = 2 + 1
  <2>2. JobWaitsFor(id, 3) => JobWaits(id)
    BY DEF JobWaitsFor
  <2> QED
    BY <1>e, <2>1, <2>2, PTL DEF Live
<1>4. Live => (JobWaitsFor(id, 4) ~> (JobWaitsFor(id, 3) \/ ~JobWaits(id)))
  <2>1. /\ LiveInv /\ JobWaitsFor(id, 4) /\ [Next]_vars =>
             JobWaitsFor(id, 4)' \/ ~JobWaits(id)'
        /\ LiveInv /\ JobWaitsFor(id, 4) /\ <<SomeRunOfHandler>>_vars =>
             JobWaitsFor(id, 3)' \/ ~JobWaits(id)'
    BY JobWaitsLess, 4 = 3 + 1
  <2>2. JobWaitsFor(id, 4) => JobWaits(id)
    BY DEF JobWaitsFor
  <2> QED
    BY <1>e, <2>1, <2>2, PTL DEF Live
<1>5. Live => (JobWaitsFor(id, 5) ~> (JobWaitsFor(id, 4) \/ ~JobWaits(id)))
  <2>1. /\ LiveInv /\ JobWaitsFor(id, 5) /\ [Next]_vars =>
             JobWaitsFor(id, 5)' \/ ~JobWaits(id)'
        /\ LiveInv /\ JobWaitsFor(id, 5) /\ <<SomeRunOfHandler>>_vars =>
             JobWaitsFor(id, 4)' \/ ~JobWaits(id)'
    BY JobWaitsLess, 5 = 4 + 1
  <2>2. JobWaitsFor(id, 5) => JobWaits(id)
    BY DEF JobWaitsFor
  <2> QED
    BY <1>e, <2>1, <2>2, PTL DEF Live
<1>6. Live => (JobWaitsFor(id, 6) ~> (JobWaitsFor(id, 5) \/ ~JobWaits(id)))
  <2>1. /\ LiveInv /\ JobWaitsFor(id, 6) /\ [Next]_vars =>
             JobWaitsFor(id, 6)' \/ ~JobWaits(id)'
        /\ LiveInv /\ JobWaitsFor(id, 6) /\ <<SomeRunOfHandler>>_vars =>
             JobWaitsFor(id, 5)' \/ ~JobWaits(id)'
    BY JobWaitsLess, 6 = 5 + 1
  <2>2. JobWaitsFor(id, 6) => JobWaits(id)
    BY DEF JobWaitsFor
  <2> QED
    BY <1>e, <2>1, <2>2, PTL DEF Live
<1> QED
  BY <1>0, <1>1, <1>2, <1>3, <1>4, <1>5, <1>6, PTL DEF Live

\* What a request waits for ends.
LEMMA CallsWaitEnds ==
  ASSUME NEW c \in Callers
  PROVE  LiveFor(c) => (CallWaits(c) ~> ~CallWaits(c))
<1>0. /\ LiveInv /\ CallWaits(c) => CallWaitsFor(c, 6)
      /\ LiveInv => ~CallWaitsFor(c, 0)
  <2>1. LiveInv /\ callers[c].child # 0 =>
          callers[c].child \in DOMAIN helpers /\ StepsLeft(helpers[callers[c].child].at) \in 0 .. 6
          /\ (Alive(callers[c].child) => StepsLeft(helpers[callers[c].child].at) # 0)
    BY StepsTyped DEF LiveInv, IInv, ChildrenExist
  <2> QED
    BY <2>1 DEF CallWaits, CallWaitsFor
<1>e. LiveInv /\ StepsEnabled /\ CallWaits(c) => ENABLED <<RunOfCaller(c)>>_vars
  <2>1. CallWaits(c) => callers[c] # Idle
    BY IdleIsCall DEF CallWaits
  <2> QED
    BY <2>1, RequestCanGoOn
<1>1. LiveFor(c) => (CallWaitsFor(c, 1) ~> (CallWaitsFor(c, 0) \/ ~CallWaits(c)))
  <2>1. /\ LiveInv /\ CallWaitsFor(c, 1) /\ [Next]_vars =>
             CallWaitsFor(c, 1)' \/ ~CallWaits(c)'
        /\ LiveInv /\ CallWaitsFor(c, 1) /\ <<RunOfCaller(c)>>_vars =>
             CallWaitsFor(c, 0)' \/ ~CallWaits(c)'
    BY CallWaitsLess, 1 = 0 + 1
  <2>2. CallWaitsFor(c, 1) => CallWaits(c)
    BY DEF CallWaitsFor
  <2> QED
    BY <1>e, <2>1, <2>2, PTL DEF Live, LiveFor, CallerFairness
<1>2. LiveFor(c) => (CallWaitsFor(c, 2) ~> (CallWaitsFor(c, 1) \/ ~CallWaits(c)))
  <2>1. /\ LiveInv /\ CallWaitsFor(c, 2) /\ [Next]_vars =>
             CallWaitsFor(c, 2)' \/ ~CallWaits(c)'
        /\ LiveInv /\ CallWaitsFor(c, 2) /\ <<RunOfCaller(c)>>_vars =>
             CallWaitsFor(c, 1)' \/ ~CallWaits(c)'
    BY CallWaitsLess, 2 = 1 + 1
  <2>2. CallWaitsFor(c, 2) => CallWaits(c)
    BY DEF CallWaitsFor
  <2> QED
    BY <1>e, <2>1, <2>2, PTL DEF Live, LiveFor, CallerFairness
<1>3. LiveFor(c) => (CallWaitsFor(c, 3) ~> (CallWaitsFor(c, 2) \/ ~CallWaits(c)))
  <2>1. /\ LiveInv /\ CallWaitsFor(c, 3) /\ [Next]_vars =>
             CallWaitsFor(c, 3)' \/ ~CallWaits(c)'
        /\ LiveInv /\ CallWaitsFor(c, 3) /\ <<RunOfCaller(c)>>_vars =>
             CallWaitsFor(c, 2)' \/ ~CallWaits(c)'
    BY CallWaitsLess, 3 = 2 + 1
  <2>2. CallWaitsFor(c, 3) => CallWaits(c)
    BY DEF CallWaitsFor
  <2> QED
    BY <1>e, <2>1, <2>2, PTL DEF Live, LiveFor, CallerFairness
<1>4. LiveFor(c) => (CallWaitsFor(c, 4) ~> (CallWaitsFor(c, 3) \/ ~CallWaits(c)))
  <2>1. /\ LiveInv /\ CallWaitsFor(c, 4) /\ [Next]_vars =>
             CallWaitsFor(c, 4)' \/ ~CallWaits(c)'
        /\ LiveInv /\ CallWaitsFor(c, 4) /\ <<RunOfCaller(c)>>_vars =>
             CallWaitsFor(c, 3)' \/ ~CallWaits(c)'
    BY CallWaitsLess, 4 = 3 + 1
  <2>2. CallWaitsFor(c, 4) => CallWaits(c)
    BY DEF CallWaitsFor
  <2> QED
    BY <1>e, <2>1, <2>2, PTL DEF Live, LiveFor, CallerFairness
<1>5. LiveFor(c) => (CallWaitsFor(c, 5) ~> (CallWaitsFor(c, 4) \/ ~CallWaits(c)))
  <2>1. /\ LiveInv /\ CallWaitsFor(c, 5) /\ [Next]_vars =>
             CallWaitsFor(c, 5)' \/ ~CallWaits(c)'
        /\ LiveInv /\ CallWaitsFor(c, 5) /\ <<RunOfCaller(c)>>_vars =>
             CallWaitsFor(c, 4)' \/ ~CallWaits(c)'
    BY CallWaitsLess, 5 = 4 + 1
  <2>2. CallWaitsFor(c, 5) => CallWaits(c)
    BY DEF CallWaitsFor
  <2> QED
    BY <1>e, <2>1, <2>2, PTL DEF Live, LiveFor, CallerFairness
<1>6. LiveFor(c) => (CallWaitsFor(c, 6) ~> (CallWaitsFor(c, 5) \/ ~CallWaits(c)))
  <2>1. /\ LiveInv /\ CallWaitsFor(c, 6) /\ [Next]_vars =>
             CallWaitsFor(c, 6)' \/ ~CallWaits(c)'
        /\ LiveInv /\ CallWaitsFor(c, 6) /\ <<RunOfCaller(c)>>_vars =>
             CallWaitsFor(c, 5)' \/ ~CallWaits(c)'
    BY CallWaitsLess, 6 = 5 + 1
  <2>2. CallWaitsFor(c, 6) => CallWaits(c)
    BY DEF CallWaitsFor
  <2> QED
    BY <1>e, <2>1, <2>2, PTL DEF Live, LiveFor, CallerFairness
<1> QED
  BY <1>0, <1>1, <1>2, <1>3, <1>4, <1>5, <1>6, PTL DEF Live, LiveFor

\* The phases of a handler, and where each leads to.
Phases == {"queued", "helper", "cleanup", "restoring"}

Onward(id, phase) ==
  \/ InPhase(id, "none")
  \/ phase = "queued" /\ InPhase(id, "helper")
  \/ phase = "helper" /\ (InPhase(id, "cleanup") \/ InPhase(id, "restoring"))

AtRest(id, phase) == InPhase(id, phase) /\ ~JobWaits(id)

LEMMA PhaseStep ==
  ASSUME NEW id \in OperationIds, NEW phase \in Phases
  PROVE  /\ LiveInv /\ InPhase(id, phase) /\ [Next]_vars =>
              InPhase(id, phase)' \/ Onward(id, phase)'
         /\ LiveInv /\ AtRest(id, phase) /\ [Next]_vars =>
              AtRest(id, phase)' \/ Onward(id, phase)'
         /\ LiveInv /\ InPhase(id, phase) /\ <<SomeHandler>>_vars =>
              Onward(id, phase)'
<1>1. ASSUME LiveInv, InPhase(id, phase), Handler(id)
      PROVE  Onward(id, phase)'
  BY <1>1, HandlerMoves DEF LiveInv, Onward, InPhase
<1>2. ASSUME LiveInv, InPhase(id, phase), [Next]_vars
      PROVE  /\ InPhase(id, phase)' \/ Onward(id, phase)'
             /\ ~JobWaits(id) => AtRest(id, phase)' \/ Onward(id, phase)'
  <2>1. CASE Handler(id)
    BY <1>1, <1>2, <2>1
  <2>2. CASE jobs'[id].at = "none"
    BY <2>2 DEF Onward, InPhase
  <2>3. ASSUME jobs'[id] = jobs[id],
               jobs[id].child # 0 =>
                 \/ helpers'[jobs[id].child] = helpers[jobs[id].child]
                 \/ HelperStep(jobs[id].child)
        PROVE  InPhase(id, phase)' /\ (~JobWaits(id) => AtRest(id, phase)')
    <3>1. InPhase(id, phase)'
      BY <1>2, <2>3 DEF InPhase
    <3>2. ASSUME jobs[id].child # 0, ~Alive(jobs[id].child)
          PROVE  ~JobWaits(id)'
      <4>1. CASE helpers'[jobs[id].child] = helpers[jobs[id].child]
        BY <2>3, <3>2, <4>1 DEF JobWaits, Alive
      <4>2. CASE HelperStep(jobs[id].child)
        <5>1. jobs[id].child \in DOMAIN helpers
          BY <1>2, <3>2 DEF LiveInv, IInv, ChildrenExist
        <5>2. /\ StepsLeft(helpers[jobs[id].child].at) = 0
              /\ StepsLeft(helpers'[jobs[id].child].at) \in Nat
          BY <3>2 DEF StepsLeft, Alive, Ended
        <5> QED
          BY <1>2, <4>2, <5>1, <5>2, StepCounts DEF LiveInv
      <4> QED
        BY <2>3, <3>2, <4>1, <4>2
    <3> QED
      BY <2>3, <3>1, <3>2 DEF AtRest, JobWaits
  <2>4. jobs[id].at # "none"
    BY <1>2 DEF InPhase, Phases
  <2> QED
    BY <1>2, <2>1, <2>2, <2>3, <2>4, JobGoesOn
<1>3. ASSUME LiveInv, InPhase(id, phase), SomeHandler
      PROVE  Onward(id, phase)'
  <2>1. PICK other \in OperationIds : Handler(other)
    BY <1>3 DEF SomeHandler, OperationIds
  <2>2. jobs[other].at # "none"
    BY <1>3, <2>1, HandlerDoes DEF LiveInv, HandlerEffect
  <2>3. other = id
    BY <1>3, <2>2, OneHandler DEF LiveInv, InPhase, Phases
  <2> QED
    BY <1>1, <1>3, <2>1, <2>3
<1> QED
  BY <1>2, <1>3 DEF AtRest

\* Where the row of an operation in progress is.
LEMMA ActiveSomewhere ==
  ASSUME NEW id \in OperationIds
  PROVE  /\ LiveInv /\ Ops!Active(id) =>
              \/ Orphaned(id) \/ InPhase(id, "queued") \/ InPhase(id, "helper")
              \/ InPhase(id, "cleanup") \/ InPhase(id, "restoring")
         /\ LiveInv /\ InPhase(id, "none") => Orphaned(id) \/ ~Ops!Active(id)
<1>1. ASSUME LiveInv
      PROVE  /\ jobs[id].at \in {"none"} \cup Phases
             /\ up => (Ops!Active(id) <=> jobs[id].at # "none")
  BY <1>1 DEF LiveInv, IInv, Coordinated, JobsMatch, JobType, Phases
<1> QED
  BY <1>1 DEF Orphaned, InPhase, Phases

LEMMA OrphanedStep ==
  ASSUME NEW id \in OperationIds
  PROVE  /\ LiveInv /\ Orphaned(id) /\ [Next]_vars => Orphaned(id)' \/ ~Ops!Active(id)'
         /\ LiveInv /\ Orphaned(id) /\ <<Restart>>_vars => ~Ops!Active(id)'
<1>1. ASSUME LiveInv, Ops!Bootstrap
      PROVE  ~Ops!Active(id)'
  <2> DEFINE row == operations[id]
  <2>1. row \in Ops!OperationRecord \cup {Ops!Absent}
    BY <1>1 DEF LiveInv, IInv, Coordinated, Ops!TypeOK, OperationIds
  <2>2. operations'[id] = Ops!MarkInterrupted(row)
    BY <1>1 DEF Ops!Bootstrap, OperationIds
  <2> HIDE DEF row
  <2>3. Ops!MarkInterrupted(row).state \notin {"pending", "running"}
    <3>1. CASE row.state \in {"pending", "running"}
      <4>1. row \in Ops!OperationRecord
        BY <2>1, <3>1 DEF Ops!Absent
      <4>2. Ops!MarkInterrupted(row) =
              [row EXCEPT !.state = "failed", !.errorCode = "interrupted"]
        BY <3>1 DEF Ops!MarkInterrupted
      <4> QED
        BY <4>1, <4>2 DEF Ops!OperationRecord
    <3>2. CASE row.state \notin {"pending", "running"}
      BY <3>2 DEF Ops!MarkInterrupted
    <3> QED
      BY <3>1, <3>2
  <2> QED
    BY <2>2, <2>3 DEF Ops!Active
<1>2. ASSUME LiveInv, Orphaned(id), [Ops!Next]_opsVars, ~Ops!Bootstrap
      PROVE  ~up'
  BY <1>2
  DEF Ops!Next, opsVars, Ops!Accept, Ops!Begin, Ops!Succeed, Ops!Fail, Ops!Observe,
      Ops!Recover, Ops!Decline, Ops!Crash, LiveInv, IInv, Coordinated, Orphaned
<1>3. LiveInv /\ [Next]_vars => [Ops!Next]_opsVars
  BY StepOfCoordinator DEF LiveInv, IInv
<1> QED
  BY <1>1, <1>2, <1>3 DEF Orphaned, Restart

\* One operation settles.
LEMMA OperationSettles ==
  ASSUME NEW id \in OperationIds
  PROVE  Live => (Ops!Active(id) ~> ~Ops!Active(id))
<1>1. /\ LiveInv /\ Ops!Active(id) =>
           \/ Orphaned(id) \/ InPhase(id, "queued") \/ InPhase(id, "helper")
           \/ InPhase(id, "cleanup") \/ InPhase(id, "restoring")
      /\ LiveInv /\ InPhase(id, "none") => Orphaned(id) \/ ~Ops!Active(id)
  BY ActiveSomewhere
<1>2. Live => (Orphaned(id) ~> ~Ops!Active(id))
  <2>1. LiveInv /\ Orphaned(id) /\ [Next]_vars => Orphaned(id)' \/ ~Ops!Active(id)'
    BY OrphanedStep
  <2>2. LiveInv /\ Orphaned(id) /\ <<Restart>>_vars => ~Ops!Active(id)'
    BY OrphanedStep
  <2>3. StepsEnabled /\ Orphaned(id) => ENABLED <<Restart>>_vars
    BY AgentCanAct
  <2> QED
    BY <2>1, <2>2, <2>3, PTL DEF Live
<1>3. Live => (JobWaits(id) ~> ~JobWaits(id))
  BY JobsWaitEnds
<1>4. Live => (InPhase(id, "queued") ~> Onward(id, "queued"))
  <2>1. /\ LiveInv /\ InPhase(id, "queued") /\ [Next]_vars =>
             InPhase(id, "queued")' \/ Onward(id, "queued")'
        /\ LiveInv /\ AtRest(id, "queued") /\ [Next]_vars =>
             AtRest(id, "queued")' \/ Onward(id, "queued")'
        /\ LiveInv /\ InPhase(id, "queued") /\ <<SomeHandler>>_vars =>
             Onward(id, "queued")'
    BY PhaseStep DEF Phases
  <2>2. /\ AtRest(id, "queued") <=> InPhase(id, "queued") /\ ~JobWaits(id)
        /\ StepsEnabled /\ AtRest(id, "queued") => ENABLED <<SomeHandler>>_vars
    BY AgentCanAct DEF AtRest, InPhase
  <2> QED
    BY <1>3, <2>1, <2>2, PTL DEF Live
<1>5. Live => (InPhase(id, "helper") ~> Onward(id, "helper"))
  <2>1. /\ LiveInv /\ InPhase(id, "helper") /\ [Next]_vars =>
             InPhase(id, "helper")' \/ Onward(id, "helper")'
        /\ LiveInv /\ AtRest(id, "helper") /\ [Next]_vars =>
             AtRest(id, "helper")' \/ Onward(id, "helper")'
        /\ LiveInv /\ InPhase(id, "helper") /\ <<SomeHandler>>_vars =>
             Onward(id, "helper")'
    BY PhaseStep DEF Phases
  <2>2. /\ AtRest(id, "helper") <=> InPhase(id, "helper") /\ ~JobWaits(id)
        /\ StepsEnabled /\ AtRest(id, "helper") => ENABLED <<SomeHandler>>_vars
    BY AgentCanAct DEF AtRest, InPhase
  <2> QED
    BY <1>3, <2>1, <2>2, PTL DEF Live
<1>6. Live => (InPhase(id, "cleanup") ~> Onward(id, "cleanup"))
  <2>1. /\ LiveInv /\ InPhase(id, "cleanup") /\ [Next]_vars =>
             InPhase(id, "cleanup")' \/ Onward(id, "cleanup")'
        /\ LiveInv /\ AtRest(id, "cleanup") /\ [Next]_vars =>
             AtRest(id, "cleanup")' \/ Onward(id, "cleanup")'
        /\ LiveInv /\ InPhase(id, "cleanup") /\ <<SomeHandler>>_vars =>
             Onward(id, "cleanup")'
    BY PhaseStep DEF Phases
  <2>2. /\ AtRest(id, "cleanup") <=> InPhase(id, "cleanup") /\ ~JobWaits(id)
        /\ StepsEnabled /\ AtRest(id, "cleanup") => ENABLED <<SomeHandler>>_vars
    BY AgentCanAct DEF AtRest, InPhase
  <2> QED
    BY <1>3, <2>1, <2>2, PTL DEF Live
<1>7. Live => (InPhase(id, "restoring") ~> Onward(id, "restoring"))
  <2>1. /\ LiveInv /\ InPhase(id, "restoring") /\ [Next]_vars =>
             InPhase(id, "restoring")' \/ Onward(id, "restoring")'
        /\ LiveInv /\ AtRest(id, "restoring") /\ [Next]_vars =>
             AtRest(id, "restoring")' \/ Onward(id, "restoring")'
        /\ LiveInv /\ InPhase(id, "restoring") /\ <<SomeHandler>>_vars =>
             Onward(id, "restoring")'
    BY PhaseStep DEF Phases
  <2>2. /\ AtRest(id, "restoring") <=> InPhase(id, "restoring") /\ ~JobWaits(id)
        /\ StepsEnabled /\ AtRest(id, "restoring") => ENABLED <<SomeHandler>>_vars
    BY AgentCanAct DEF AtRest, InPhase
  <2> QED
    BY <1>3, <2>1, <2>2, PTL DEF Live
<1>8. /\ Onward(id, "queued") => InPhase(id, "helper") \/ InPhase(id, "none")
      /\ Onward(id, "helper") =>
           InPhase(id, "cleanup") \/ InPhase(id, "restoring") \/ InPhase(id, "none")
      /\ Onward(id, "cleanup") => InPhase(id, "none")
      /\ Onward(id, "restoring") => InPhase(id, "none")
  BY DEF Onward
<1> QED
  BY <1>1, <1>2, <1>4, <1>5, <1>6, <1>7, <1>8, PTL DEF Live

\* Every operation is settled: by its handler, or by the restart that follows
\* the death of the agent.
THEOREM OperationsAlwaysSettle ==
  FairSpec /\ []StepsEnabled => OperationsSettle
<1>1. Spec => []LiveInv
  BY LiveInvariance
<1>2. FairSpec /\ []StepsEnabled => Live
  BY <1>1, PTL DEF FairSpec, Fairness, Live, Spec
<1>3. ASSUME NEW id \in OperationIds
      PROVE  FairSpec /\ []StepsEnabled => (Ops!Active(id) ~> ~Ops!Active(id))
  <2>1. Live => (Ops!Active(id) ~> ~Ops!Active(id))
    BY OperationSettles
  <2> QED
    BY <1>2, <2>1, PTL
<1> QED
  BY <1>3 DEF OperationsSettle, OperationIds

\* The synchronous turn of start() ends.
LEMMA TurnEnds == Live => (InTurn ~> ~InTurn)
<1>1. LiveInv /\ StepsEnabled /\ InTurn => ENABLED <<SomeHandler>>_vars
  <2> SUFFICES ASSUME LiveInv, StepsEnabled, InTurn
               PROVE  ENABLED <<SomeHandler>>_vars
    OBVIOUS
  <2>1. PICK id \in OperationIds : id \in starting
    BY DEF InTurn, LiveInv, IInv, Coordinated, Ops!TypeOK, OperationIds
  <2>2. jobs[id].at = "queued" /\ ~JobWaits(id)
    BY <2>1 DEF LiveInv, IInv, JobsMatch, JobWaits
  <2> QED
    BY <2>2, AgentCanAct
<1>2. ASSUME LiveInv, InTurn, SomeHandler
      PROVE  ~InTurn'
  <2>1. PICK id \in OperationIds : Handler(id)
    BY <1>2 DEF SomeHandler, OperationIds
  <2>2. PICK other \in OperationIds : other \in starting
    BY <1>2 DEF InTurn, LiveInv, IInv, Coordinated, Ops!TypeOK, OperationIds
  <2>3. starting = {id}
    <3>1. jobs[id].at # "none"
      BY <1>2, <2>1, HandlerDoes DEF LiveInv, HandlerEffect
    <3>2. \A one \in starting : one \in OperationIds /\ jobs[one].at # "none"
      BY <1>2 DEF LiveInv, IInv, JobsMatch, Coordinated, Ops!TypeOK, OperationIds
    <3>3. \A one \in starting : one = id
      BY <1>2, <3>1, <3>2, OneHandler DEF LiveInv
    <3> QED
      BY <2>2, <3>3
  <2>4. starting' = starting \ {id}
    BY <2>1, <2>3
    DEF Handler, Begin, FinishInstall, CleanUp, FinishApply, UsersRestored,
        FinishUninstall, HandlerFails, WriteFails, Succeeds, Serving, Ops!Begin,
        Ops!Succeed, Ops!Fail
  <2> QED
    BY <2>3, <2>4 DEF InTurn
<1>3. LiveInv /\ InTurn /\ <<SomeHandler>>_vars => ~InTurn'
  BY <1>2
<1> QED
  BY <1>1, <1>3, PTL DEF Live

\* A request moves on, or stays where it is, and once its run has ended it
\* waits for its turn only.
Settled(c) == Asked(c) /\ ~CallWaits(c)
CleanedUp(c) == InCleanup(c) /\ ~CallWaits(c)

LEMMA CallStep ==
  ASSUME NEW c \in Callers
  PROVE  /\ LiveInv /\ InCleanup(c) /\ [Next]_vars =>
              InCleanup(c)' \/ Asked(c)' \/ Answered(c)'
         /\ LiveInv /\ CleanedUp(c) /\ [Next]_vars =>
              CleanedUp(c)' \/ Asked(c)' \/ Answered(c)'
         /\ LiveInv /\ InCleanup(c) /\ <<Resume(c)>>_vars => Asked(c)' \/ Answered(c)'
         /\ LiveInv /\ Asked(c) /\ [Next]_vars => Asked(c)' \/ Answered(c)'
         /\ LiveInv /\ Settled(c) /\ [Next]_vars => Settled(c)' \/ Answered(c)'
         /\ LiveInv /\ Asked(c) /\ <<Resume(c)>>_vars => Answered(c)'
<1>1. ASSUME LiveInv, InCleanup(c) \/ Asked(c), Resume(c)
      PROVE  /\ InCleanup(c) => Asked(c)' \/ Answered(c)'
             /\ Asked(c) => Answered(c)'
  BY <1>1, CallMoves, IdleIsCall DEF LiveInv, InCleanup, Asked, Answered
<1>2. ASSUME LiveInv, callers'[c] = callers[c],
             callers[c].child # 0 =>
               \/ helpers'[callers[c].child] = helpers[callers[c].child]
               \/ HelperStep(callers[c].child)
      PROVE  /\ InCleanup(c)' <=> InCleanup(c)
             /\ Asked(c)' <=> Asked(c)
             /\ ~CallWaits(c) => ~CallWaits(c)'
  <2>1. ASSUME callers[c].child # 0, ~Alive(callers[c].child)
        PROVE  ~CallWaits(c)'
    <3>1. CASE helpers'[callers[c].child] = helpers[callers[c].child]
      BY <1>2, <2>1, <3>1 DEF CallWaits, Alive
    <3>2. CASE HelperStep(callers[c].child)
      <4>1. callers[c].child \in DOMAIN helpers
        BY <1>2, <2>1 DEF LiveInv, IInv, ChildrenExist
      <4>2. /\ StepsLeft(helpers[callers[c].child].at) = 0
            /\ StepsLeft(helpers'[callers[c].child].at) \in Nat
        BY <2>1 DEF StepsLeft, Alive, Ended
      <4> QED
        BY <1>2, <3>2, <4>1, <4>2, StepCounts DEF LiveInv
    <3> QED
      BY <1>2, <2>1, <3>1, <3>2
  <2> QED
    BY <1>2, <2>1 DEF InCleanup, Asked, CallWaits
<1>3. ASSUME LiveInv, InCleanup(c) \/ Asked(c), [Next]_vars
      PROVE  \/ Answered(c)'
             \/ InCleanup(c) /\ Asked(c)'
             \/ /\ InCleanup(c)' <=> InCleanup(c)
                /\ Asked(c)' <=> Asked(c)
                /\ ~CallWaits(c) => ~CallWaits(c)'
  <2>1. callers[c] # Idle
    BY <1>3, IdleIsCall DEF InCleanup, Asked
  <2>2. CASE Resume(c)
    BY <1>1, <1>3, <2>2
  <2>3. CASE callers'[c] = Idle
    BY <2>3, IdleIsCall DEF Answered
  <2> QED
    BY <1>2, <1>3, <2>1, <2>2, <2>3, CallGoesOn
<1>4. LiveInv /\ InCleanup(c) /\ [Next]_vars =>
        /\ InCleanup(c)' \/ Asked(c)' \/ Answered(c)'
        /\ ~CallWaits(c) => CleanedUp(c)' \/ Asked(c)' \/ Answered(c)'
  BY <1>3 DEF CleanedUp, Asked, InCleanup
<1>5. LiveInv /\ Asked(c) /\ [Next]_vars =>
        /\ Asked(c)' \/ Answered(c)'
        /\ ~CallWaits(c) => Settled(c)' \/ Answered(c)'
  BY <1>3 DEF Settled, Asked, InCleanup
<1> QED
  BY <1>1, <1>4, <1>5 DEF Settled, CleanedUp

\* One request is answered.
LEMMA RequestAnswered ==
  ASSUME NEW c \in Callers
  PROVE  LiveFor(c) => (~Answered(c) ~> Answered(c))
<1>1. LiveFor(c) => (CallWaits(c) ~> ~CallWaits(c))
  BY CallsWaitEnds
<1>2. LiveFor(c) => (InTurn ~> ~InTurn)
  BY TurnEnds, PTL DEF LiveFor
<1>3. ~Answered(c) => InCleanup(c) \/ Asked(c)
  BY DEF Answered, InCleanup, Asked
<1>4. LiveFor(c) => (InCleanup(c) ~> (Asked(c) \/ Answered(c)))
  <2>1. /\ LiveInv /\ InCleanup(c) /\ [Next]_vars =>
             InCleanup(c)' \/ Asked(c)' \/ Answered(c)'
        /\ LiveInv /\ CleanedUp(c) /\ [Next]_vars =>
             CleanedUp(c)' \/ Asked(c)' \/ Answered(c)'
        /\ LiveInv /\ InCleanup(c) /\ <<Resume(c)>>_vars => Asked(c)' \/ Answered(c)'
    BY CallStep
  <2>2. /\ CleanedUp(c) <=> InCleanup(c) /\ ~CallWaits(c)
        /\ StepsEnabled /\ CleanedUp(c) /\ ~InTurn => ENABLED <<Resume(c)>>_vars
    BY RequestCanGoOn, IdleIsCall DEF CleanedUp, InCleanup
  <2> QED
    BY <1>1, <1>2, <2>1, <2>2, PTL DEF LiveFor, Live, CallerFairness
<1>5. LiveFor(c) => (Asked(c) ~> Answered(c))
  <2>1. /\ LiveInv /\ Asked(c) /\ [Next]_vars => Asked(c)' \/ Answered(c)'
        /\ LiveInv /\ Settled(c) /\ [Next]_vars => Settled(c)' \/ Answered(c)'
        /\ LiveInv /\ Asked(c) /\ <<Resume(c)>>_vars => Answered(c)'
    BY CallStep
  <2>2. /\ Settled(c) <=> Asked(c) /\ ~CallWaits(c)
        /\ StepsEnabled /\ Settled(c) /\ ~InTurn => ENABLED <<Resume(c)>>_vars
    BY RequestCanGoOn DEF Settled, Asked
  <2> QED
    BY <1>1, <1>2, <2>1, <2>2, PTL DEF LiveFor, Live, CallerFairness
<1> QED
  BY <1>3, <1>4, <1>5, PTL

LEMMA FairToCallers == Fairness => \A c \in Callers : CallerFairness(c)
BY PTL DEF Fairness

\* Every request is answered, or forgotten with the agent that served it.
THEOREM RequestsAlwaysAnswered ==
  FairSpec /\ []StepsEnabled => RequestsAnswered
<1>1. Spec => []LiveInv
  BY LiveInvariance
<1>2. FairSpec /\ []StepsEnabled => Live
  BY <1>1, PTL DEF FairSpec, Fairness, Live, Spec
<1>3. ASSUME NEW c \in Callers
      PROVE  FairSpec /\ []StepsEnabled => (callers[c] # Idle ~> callers[c] = Idle)
  <2>1. LiveFor(c) => (~Answered(c) ~> Answered(c))
    BY RequestAnswered
  <2>2. Fairness => CallerFairness(c)
    BY FairToCallers
  <2>3. (~Answered(c) <=> callers[c] # Idle) /\ (Answered(c) <=> callers[c] = Idle)
    BY DEF Answered
  <2> QED
    BY <1>2, <2>1, <2>2, <2>3, PTL DEF FairSpec, LiveFor
<1> QED
  BY <1>3 DEF RequestsAnswered

=============================================================================
