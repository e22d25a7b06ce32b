----------------------------- MODULE Operations -----------------------------
(***************************************************************************)
(* OperationCoordinatorService with the `operations` table of the state    *)
(* store: the durable rows, the in-memory mutex `running`, the handlers    *)
(* whose promises are pending, the restart of the agent, and the recovery  *)
(* of an interrupted row by the status handler of XrayService.             *)
(*                                                                         *)
(* The agent is one Node.js process: an action is what runs between two    *)
(* awaits.  `starting` is not empty inside the one synchronous turn whose  *)
(* separate SQLite writes a kill can split; no other code of the agent     *)
(* runs inside it.                                                         *)
(***************************************************************************)
EXTENDS Integers

CONSTANTS
  Fingerprints,     \* hashes of the inputs operations are requested with
  Polls,            \* status requests that may be in progress together
  MaxOperations     \* bound: operations accepted in a behaviour

ASSUME MaxOperationsAssumption == MaxOperations \in Nat

VARIABLES
  up,               \* the agent process runs and has bootstrapped
  running,          \* OperationCoordinatorService.running (memory)
  operations,       \* table operations (SQLite), by order of started_at
  created,          \* number of rows in the table
  starting,         \* operations inside the synchronous part of start()
  awaiting,         \* operations whose handler promise is pending (memory)
  observing         \* per status request, the row it may recover, or 0 (memory)

memory == <<running, starting, awaiting, observing>>
vars == <<up, running, operations, created, starting, awaiting, observing>>

OperationIds == 1 .. MaxOperations

OperationType == {"install", "reconfigure", "uninstall"}

OperationRecord ==
  [operationType : OperationType, requestFingerprint : Fingerprints,
   state : {"pending", "running", "succeeded", "failed"},
   errorCode : {"none", "handler", "interrupted"}]

Absent == [operationType |-> "none", requestFingerprint |-> "none",
           state |-> "absent", errorCode |-> "none"]

\* A row that findActiveOperation and findMatchingOperation select.
Active(id) == operations[id].state \in {"pending", "running"}

Interrupted(id) ==
  operations[id].state = "failed" /\ operations[id].errorCode = "interrupted"

(***************************************************************************)
(* The coordinator.                                                        *)
(***************************************************************************)

Init ==
  /\ up = TRUE
  /\ running = FALSE
  /\ operations = [id \in OperationIds |-> Absent]
  /\ created = 0
  /\ starting = {}
  /\ awaiting = {}
  /\ observing = [poll \in Polls |-> 0]

\* A request with the same type and input as an active row is answered with
\* that row, any other request while a row is active or the mutex is held is
\* refused; neither changes anything.
Matching(type, fingerprint) ==
  {id \in OperationIds : /\ Active(id)
                         /\ operations[id].operationType = type
                         /\ operations[id].requestFingerprint = fingerprint}

\* Mutant: neither lock is looked at.
AdmissibleUnchecked == TRUE

Admissible == ~running /\ \A id \in OperationIds : ~Active(id)

\* start(): the row is written, the mutex taken and execute() entered.
Accept(type, fingerprint) ==
  /\ up
  /\ starting = {}
  /\ Matching(type, fingerprint) = {}
  /\ Admissible
  /\ created < MaxOperations
  /\ created' = created + 1
  /\ operations' = [operations EXCEPT ![created + 1] =
                      [operationType |-> type,
                       requestFingerprint |-> fingerprint,
                       state |-> "pending", errorCode |-> "none"]]
  /\ running' = TRUE
  /\ starting' = {created + 1}
  /\ UNCHANGED <<up, awaiting, observing>>

\* context.stage('starting') and the handler up to its first await.  The
\* later stages write 'running' again and only rename current_stage.
Begin(id) ==
  /\ id \in starting
  /\ operations' = [operations EXCEPT ![id].state = "running"]
  /\ starting' = starting \ {id}
  /\ awaiting' = awaiting \cup {id}
  /\ UNCHANGED <<up, running, created, observing>>

\* The handler resolved: final update and the finally block.
Succeed(id) ==
  /\ starting = {}
  /\ id \in awaiting
  /\ operations' = [operations EXCEPT ![id].state = "succeeded"]
  /\ running' = FALSE
  /\ awaiting' = awaiting \ {id}
  /\ UNCHANGED <<up, created, starting, observing>>

\* The handler, a stage or the final update threw: the catch and the finally
\* block.
Fail(id) ==
  /\ id \in starting \/ (starting = {} /\ id \in awaiting)
  /\ operations' = [operations EXCEPT ![id].state = "failed",
                                      ![id].errorCode = "handler"]
  /\ running' = FALSE
  /\ starting' = starting \ {id}
  /\ awaiting' = awaiting \ {id}
  /\ UNCHANGED <<up, created, observing>>

ForgetMemory ==
  /\ running' = FALSE
  /\ starting' = {}
  /\ awaiting' = {}
  /\ observing' = [poll \in Polls |-> 0]

\* The process ends: killed, or by the unhandled rejection of execute() when
\* the update in its catch block throws as well.
Crash ==
  /\ up
  /\ up' = FALSE
  /\ ForgetMemory
  /\ UNCHANGED <<operations, created>>

\* Mutant: a row that is still pending is not marked.
MarkInterruptedRunning(record) ==
  IF record.state = "running"
  THEN [record EXCEPT !.state = "failed", !.errorCode = "interrupted"]
  ELSE record

\* PM2 starts the agent again; onApplicationBootstrap runs before it listens.
MarkInterrupted(record) ==
  IF record.state \in {"pending", "running"}
  THEN [record EXCEPT !.state = "failed", !.errorCode = "interrupted"]
  ELSE record

Bootstrap ==
  /\ ~up
  /\ up' = TRUE
  /\ operations' = [id \in OperationIds |-> MarkInterrupted(operations[id])]
  /\ UNCHANGED <<created, memory>>

(***************************************************************************)
(* The recovery inside XrayService.status(): the rows are read, the state  *)
(* of the runtime is awaited, then the row read before is updated.         *)
(***************************************************************************)

Recoverable(id) ==
  /\ Interrupted(id)
  /\ operations[id].operationType \in {"install", "uninstall"}

\* Mutant: every failed row is taken for an interrupted one.
ObserveFailed(poll) ==
  /\ up
  /\ starting = {}
  /\ observing[poll] = 0
  /\ \A id \in OperationIds : ~Active(id)
  /\ created > 0
  /\ operations[created].state = "failed"
  /\ observing' = [observing EXCEPT ![poll] = created]
  /\ UNCHANGED <<up, running, operations, created, starting, awaiting>>

Observe(poll) ==
  /\ up
  /\ starting = {}
  /\ observing[poll] = 0
  /\ \A id \in OperationIds : ~Active(id)
  /\ created > 0
  /\ Recoverable(created)
  /\ observing' = [observing EXCEPT ![poll] = created]
  /\ UNCHANGED <<up, running, operations, created, starting, awaiting>>

\* Mutant: the row that is the latest by now is updated.
RecoverLatest(poll) ==
  /\ starting = {}
  /\ observing[poll] # 0
  /\ operations' = [operations EXCEPT ![created].state = "succeeded",
                                      ![created].errorCode = "none"]
  /\ observing' = [observing EXCEPT ![poll] = 0]
  /\ UNCHANGED <<up, running, created, starting, awaiting>>

\* The runtime was found in the state the operation was to reach.
Recover(poll) ==
  /\ starting = {}
  /\ observing[poll] # 0
  /\ operations' = [operations EXCEPT ![observing[poll]].state = "succeeded",
                                      ![observing[poll]].errorCode = "none"]
  /\ observing' = [observing EXCEPT ![poll] = 0]
  /\ UNCHANGED <<up, running, created, starting, awaiting>>

\* It was not, or could not be queried.
Decline(poll) ==
  /\ starting = {}
  /\ observing[poll] # 0
  /\ observing' = [observing EXCEPT ![poll] = 0]
  /\ UNCHANGED <<up, running, operations, created, starting, awaiting>>

-----------------------------------------------------------------------------

Next ==
  \/ \E type \in OperationType, fingerprint \in Fingerprints :
       Accept(type, fingerprint)
  \/ \E id \in OperationIds : Begin(id) \/ Succeed(id) \/ Fail(id)
  \/ \E poll \in Polls : Observe(poll) \/ Recover(poll) \/ Decline(poll)
  \/ Crash
  \/ Bootstrap

Spec == Init /\ [][Next]_vars

\* PM2 restarts the agent, Node runs the continuation of every settled
\* promise, and every handler settles: what it awaits has a timeout or a
\* deadline.  Nothing makes a caller ask again.
SomeBegins == \E id \in OperationIds : Begin(id)
SomeSettles == \E id \in OperationIds : Succeed(id) \/ Fail(id)

Fairness == WF_vars(Bootstrap) /\ WF_vars(SomeBegins) /\ WF_vars(SomeSettles)

FairSpec == Spec /\ Fairness

-----------------------------------------------------------------------------
(***************************************************************************)
(* Properties.                                                             *)
(***************************************************************************)

\* Every variable keeps to its type.
TypeOK ==
  /\ up \in BOOLEAN
  /\ running \in BOOLEAN
  /\ operations \in [OperationIds -> OperationRecord \cup {Absent}]
  /\ created \in 0 .. MaxOperations
  /\ starting \in SUBSET OperationIds
  /\ awaiting \in SUBSET OperationIds
  /\ observing \in [Polls -> 0 .. MaxOperations]

\* Host changes exclude each other: never two active rows, through any
\* crash, restart or recovery, and never two handlers in one process.
SingleActive ==
  /\ \A id, other \in OperationIds : Active(id) /\ Active(other) => id = other
  /\ \A id, other \in starting \cup awaiting : id = other

\* The two locks of start() never disagree while requests are served: the
\* mutex is held exactly while some row is active, and every active row has
\* a handler that will settle it.  A row left active without one would make
\* the agent refuse every later operation until it is restarted.
LocksAgree ==
  up => /\ running <=> \E id \in OperationIds : Active(id)
        /\ \A id \in OperationIds : Active(id) <=> id \in starting \cup awaiting

\* A row a status request is about to turn into a success was interrupted
\* by a restart, or another status request has done so already; whatever
\* happened while it awaited, it never overwrites the result of a handler.
RecoversInterruptedOnly ==
  \A poll \in Polls : observing[poll] # 0 =>
    \/ Recoverable(observing[poll])
    \/ /\ operations[observing[poll]].state = "succeeded"
       /\ operations[observing[poll]].errorCode = "none"
       /\ operations[observing[poll]].operationType \in {"install", "uninstall"}

\* A settled row is final for the central service that polls it, except that
\* an interrupted install or uninstall may turn out to have succeeded.
SettledKept ==
  \A id \in OperationIds :
    operations[id].state \in {"succeeded", "failed"} =>
      \/ operations'[id] = operations[id]
      \/ Recoverable(id) /\ operations'[id].state = "succeeded"

SettledStays == [][SettledKept]_vars

\* The rows, read as outcomes, are a ledger as OperationLedger specifies it.
OutcomeOf(record) ==
  IF record.state \in {"pending", "running"} THEN "open"
  ELSE IF record.state = "failed" /\ record.errorCode = "interrupted"
       THEN "interrupted"
  ELSE record.state

Ledger == INSTANCE OperationLedger
  WITH ledger <- [id \in OperationIds |-> OutcomeOf(operations[id])]

\* The coordinator and its table implement the ledger.
ImplementsLedger == Ledger!LedgerSpec

\* What a process that is down, an operation inside the synchronous turn of
\* start() and a handler that is awaited wait for can be taken.  This follows
\* from the guards of those steps; it is the hypothesis about ENABLED of the
\* proof of AcceptedSettles.
StepsEnabled ==
  /\ ~up => ENABLED <<Bootstrap>>_vars
  /\ starting # {} => ENABLED <<SomeBegins>>_vars
  /\ starting = {} /\ awaiting # {} => ENABLED <<SomeSettles>>_vars

\* Every accepted operation is settled, however often the agent crashes.
AcceptedSettles ==
  \A id \in OperationIds : Active(id) ~> ~Active(id)

-----------------------------------------------------------------------------
\* The inductive invariant behind the theorems of OperationsProofs: rows are
\* allocated in order, the memory of a dead process is empty, and a process
\* that is up holds its mutex exactly for the handlers it runs.

RowsInOrder ==
  \A id \in OperationIds : operations[id].state = "absent" <=> id > created

DeadForgets ==
  ~up => /\ ~running
         /\ starting = {}
         /\ awaiting = {}
         /\ \A poll \in Polls : observing[poll] = 0

IInv ==
  /\ TypeOK
  /\ RowsInOrder
  /\ DeadForgets
  /\ SingleActive
  /\ LocksAgree
  /\ RecoversInterruptedOnly

=============================================================================
