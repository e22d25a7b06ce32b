----------------------------- MODULE Assignments -----------------------------
(***************************************************************************)
(* XrayAssignmentsService for the installed protocol: the serial queue of  *)
(* user requests, what Xray serves, the managed_users rows, and the meta   *)
(* flag requiresUserSync, across gRPC failures, restarts of the agent,     *)
(* restarts of Xray and reboots of the host.                               *)
(*                                                                         *)
(* A gRPC call that changes Xray takes three steps: it is sent, it is      *)
(* served or expires, and its answer is handled.  Xray's configuration     *)
(* file lists no users, so Xray forgets all of them whenever it starts.    *)
(***************************************************************************)
EXTENDS Integers, Sequences, FiniteSets, Functions

CONSTANTS
  Users,            \* assignment ids
  Credentials,
  NoCredential,     \* model value: no row, no runtime user, no credential
  Faults,           \* kinds of fault the environment commits, see FaultKinds
  MaxFaults,        \* bound: faults in a behaviour
  MaxRequests,      \* bound: requests accepted in a behaviour
  QueueBound        \* bound: requests waiting behind the running one

FaultKinds == {"rpc_error",       \* a call is refused, Xray unchanged
               "lost_reply",      \* a call is served, its answer is lost or
                                  \* what it did cannot be written
               "store_error",     \* a write of SQLite throws after a sync
               "agent_crash", "runtime_restart", "host_reboot"}

ASSUME NoCredentialAssumption == NoCredential \notin Credentials
ASSUME FaultsAssumption == Faults \subseteq FaultKinds
ASSUME BoundsAssumption == {MaxFaults, MaxRequests, QueueBound} \subseteq Nat
ASSUME UsersAssumption == IsFiniteSet(Users)

VARIABLES
  up,               \* the agent process runs
  active,           \* systemd reports Xray active
  hostBooting,      \* the host came back and has yet to start Xray
  runtime,          \* credential Xray accepts, per user
  stored,           \* managed_users (SQLite)
  requiresSync,     \* meta <protocol>.requiresUserSync is not 'false' (SQLite)
  queue,            \* handlers chained on `serial` (memory)
  job,              \* the handler at the head of the chain (memory)
  call,             \* the gRPC call the handler awaits
  faults, requests, \* budgets spent
  revoked,          \* history: users a request removed and none wanted since
  told,             \* history: a request failed since the last clean sync
  blind,            \* history: Xray restarted by itself and no listing saw it
  doubtful          \* history: users added by a call whose answer was lost

agent == <<up, queue, job, requiresSync, stored>>
budgets == <<faults, requests>>
doubts == <<blind, doubtful>>
history == <<revoked, told, doubts>>
vars == <<up, active, hostBooting, runtime, stored, requiresSync, queue, job, call,
          faults, requests, revoked, told, blind, doubtful>>

Wanted == [Users -> Credentials \cup {NoCredential}]

Nobody == [user \in Users |-> NoCredential]

Known(table) == {user \in Users : table[user] # NoCredential}

\* Lists of distinct users in any order, as a request or a table gives them.
Orders(users) ==
  {order \in UNION {[1 .. n -> users] : n \in 0 .. Cardinality(users)} :
     IsInjective(order)}

ListsOf(users) == {order \in Orders(users) : Range(order) = users}

(***************************************************************************)
(* Requests and the handlers they chain.                                   *)
(***************************************************************************)

Kinds == {"sync", "add", "remove", "restore", "boot"}

\* users in the order they are processed, with the credentials asked for.
SyncTask(order, wanted) == [kind |-> "sync", order |-> order, wanted |-> wanted]
AddTask(order, wanted) == [kind |-> "add", order |-> order, wanted |-> wanted]
RemoveTask(order) == [kind |-> "remove", order |-> order, wanted |-> Nobody]
RestoreTask(kind) == [kind |-> kind, order |-> <<>>, wanted |-> Nobody]

Idle == [kind |-> "none", order |-> <<>>, wanted |-> Nobody, phase |-> "idle",
         todo |-> <<>>, view |-> {}, failed |-> {}]

NoCall == [op |-> "none", user |-> "none", credential |-> NoCredential,
           at |-> "none"]

Quiet == queue = <<>> /\ job = Idle

Init ==
  /\ up = TRUE
  /\ active = TRUE
  /\ hostBooting = FALSE
  /\ runtime = Nobody
  /\ stored = Nobody
  /\ requiresSync = TRUE
  /\ queue = <<>>
  /\ job = Idle
  /\ call = NoCall
  /\ faults = 0
  /\ requests = 0
  /\ revoked = {}
  /\ told = FALSE
  /\ blind = FALSE
  /\ doubtful = {}

\* exclusive(): a request waits for every earlier one, failed or not.
Request(task) ==
  /\ up
  /\ requests < MaxRequests
  /\ Len(queue) < QueueBound
  /\ queue' = Append(queue, task)
  /\ requests' = requests + 1
  /\ revoked' = revoked \ Known(task.wanted)
  /\ UNCHANGED <<up, active, hostBooting, runtime, stored, requiresSync, job, call, faults,
                 told, doubts>>

\* XrayService.start(): the helper starts Xray, if it does not run already,
\* then the stored users are restored through the same queue.
StartRuntime ==
  /\ up
  /\ requests < MaxRequests
  /\ Len(queue) < QueueBound
  /\ active' = TRUE
  /\ hostBooting' = FALSE
  /\ runtime' = IF active THEN runtime ELSE Nobody
  /\ queue' = Append(queue, RestoreTask("restore"))
  /\ requests' = requests + 1
  /\ UNCHANGED <<up, stored, requiresSync, job, call, faults, history>>

\* XrayService.stop(): it waits for no user request.
StopRuntime ==
  /\ up
  /\ active
  /\ requests < MaxRequests
  /\ active' = FALSE
  /\ runtime' = Nobody
  /\ requests' = requests + 1
  /\ UNCHANGED <<up, hostBooting, stored, requiresSync, queue, job, call, faults, history>>

(***************************************************************************)
(* How a handler ends.                                                     *)
(***************************************************************************)

WantedByWaiting == UNION {Known(queue[i].wanted) : i \in DOMAIN queue}

\* The handler resolves; `removed` are users its answer says are gone.
Resolve(removed, failed) ==
  /\ job' = Idle
  /\ call' = NoCall
  /\ revoked' = revoked \cup (removed \ WantedByWaiting)
  /\ told' = IF failed THEN TRUE
             ELSE IF job.kind = "sync" THEN FALSE ELSE told

\* Mutant: a rejected handler breaks the chain.
RejectStuck ==
  /\ job' = [job EXCEPT !.phase = "stuck"]
  /\ call' = NoCall
  /\ told' = (told \/ job.kind # "boot")
  /\ UNCHANGED revoked

\* The handler throws; `serial` swallows it, the caller, if any, gets an error.
Reject ==
  /\ job' = Idle
  /\ call' = NoCall
  /\ told' = (told \/ job.kind # "boot")
  /\ UNCHANGED revoked

(***************************************************************************)
(* Taking the next handler off the chain and listing the runtime users.    *)
(***************************************************************************)

\* assertRuntimeMutable() for sync, add and remove, which also refuses while
\* an operation of the lifecycle is active or nothing is installed; the
\* isActive() check of the bootstrap, which gives up silently; restore() marks
\* the flag first.
Take ==
  /\ up
  /\ job = Idle
  /\ queue # <<>>
  /\ queue' = Tail(queue)
  /\ LET task == Head(queue) IN
     /\ \/ /\ task.kind = "restore" \/ active
           /\ job' = [kind |-> task.kind, order |-> task.order,
                      wanted |-> task.wanted, phase |-> "list",
                      todo |-> task.order, view |-> {}, failed |-> {}]
           /\ UNCHANGED history
        \/ /\ task.kind \in {"sync", "add", "remove"}
           /\ UNCHANGED <<job, revoked, doubts>>
           /\ told' = TRUE
        \/ /\ task.kind = "boot" /\ ~active
           /\ UNCHANGED <<job, history>>
     /\ requiresSync' = IF task.kind = "restore" \/ (task.kind = "boot" /\ active)
                        THEN TRUE ELSE requiresSync
  /\ UNCHANGED <<up, active, hostBooting, runtime, stored, call, budgets>>

Listing == up /\ job.phase = "list"

\* listUserIds() answered.  A restore now loads the rows; it returns with the
\* flag set when there are none.
ListUsers ==
  /\ Listing
  /\ active
  /\ blind' = (blind /\ job.kind \in {"add", "remove"})
  /\ \/ /\ job.kind \in {"sync", "add", "remove"}
        /\ job' = [job EXCEPT !.phase = "apply", !.view = Known(runtime)]
        /\ UNCHANGED <<call, revoked, told>>
     \/ /\ job.kind \in {"restore", "boot"}
        /\ stored # Nobody
        /\ \E order \in ListsOf(Known(stored)) :
             job' = [job EXCEPT !.phase = "apply", !.view = Known(runtime),
                                !.order = order, !.todo = order,
                                !.wanted = stored]
        /\ UNCHANGED <<call, revoked, told>>
     \/ /\ job.kind \in {"restore", "boot"}
        /\ stored = Nobody
        /\ Resolve({}, FALSE)
  /\ UNCHANGED <<up, active, hostBooting, runtime, stored, requiresSync, queue, budgets,
                 doubtful>>

ListFails ==
  /\ Listing
  /\ \/ ~active /\ UNCHANGED faults
     \/ /\ active /\ "rpc_error" \in Faults /\ faults < MaxFaults
        /\ faults' = faults + 1
  /\ Reject
  /\ UNCHANGED <<up, active, hostBooting, runtime, stored, requiresSync, queue, requests, doubts>>

(***************************************************************************)
(* The users of the request, one after another: ensureUser() and the loop  *)
(* body of remove().                                                       *)
(***************************************************************************)

Send(op, user, credential) ==
  call' = [op |-> op, user |-> user, credential |-> credential, at |-> "sent"]

Applying == up /\ job.phase = "apply" /\ call = NoCall /\ job.todo # <<>>

Current == Head(job.todo)

\* Mutant: any stored credential will do.
CredentialStored(user) == stored[user] # NoCredential

\* Mutant: every user is replaced.
CredentialNeverUnchanged(user) == FALSE

CredentialUnchanged(user) == stored[user] = job.wanted[user]

\* The steps of a request that call Xray.
CallForUser ==
  /\ Applying
  /\ \/ /\ job.kind = "remove"
        /\ Current \in job.view
        /\ Send("remove", Current, NoCredential)
     \/ /\ job.kind # "remove"
        /\ Current \in job.view /\ ~CredentialUnchanged(Current)
        /\ Send("remove", Current, NoCredential)
     \/ /\ job.kind # "remove"
        /\ Current \notin job.view
        /\ Send("add", Current, job.wanted[Current])
  /\ UNCHANGED <<agent, active, hostBooting, runtime, budgets, history>>

Advance(j) == [j EXCEPT !.todo = Tail(@)]

\* The steps that need no call: the user is there with this credential, or
\* the user to remove is not there; the row is written or deleted.
RecordUser ==
  /\ Applying
  /\ \/ /\ job.kind = "remove"
        /\ Current \notin job.view
        /\ stored' = [stored EXCEPT ![Current] = NoCredential]
     \/ /\ job.kind # "remove"
        /\ Current \in job.view /\ CredentialUnchanged(Current)
        /\ stored' = [stored EXCEPT ![Current] = job.wanted[Current]]
  /\ job' = Advance(job)
  /\ UNCHANGED <<up, active, hostBooting, runtime, requiresSync, queue, call, budgets,
                 history>>

\* An answer to AlterInbound for the current user.
Answered(at) == up /\ job.phase = "apply" /\ call.at = at

HandleDone ==
  /\ Answered("done")
  /\ \/ /\ job.kind = "remove"
        /\ stored' = [stored EXCEPT ![Current] = NoCredential]
        /\ job' = Advance(job)
     \/ /\ job.kind # "remove" /\ call.op = "remove"
        /\ job' = [job EXCEPT !.view = @ \ {Current}]
        /\ UNCHANGED stored
     \/ /\ job.kind # "remove" /\ call.op = "add"
        /\ stored' = [stored EXCEPT ![Current] = job.wanted[Current]]
        /\ job' = [Advance(job) EXCEPT !.view = @ \cup {Current}]
  /\ call' = NoCall
  /\ doubtful' = doubtful \ {Current}
  /\ UNCHANGED <<up, active, hostBooting, runtime, requiresSync, queue, budgets, revoked,
                 told, blind>>

\* Mutant: a failed call is not reported.
HandleErrorSwallowed ==
  /\ Answered("error")
  /\ job' = Advance(job)
  /\ call' = NoCall
  /\ UNCHANGED <<up, active, hostBooting, runtime, stored, requiresSync, queue, budgets,
                 history>>

\* Mutant: the row is deleted although Xray refused.
HandleErrorDeletes ==
  /\ Answered("error")
  /\ job' = [Advance(job) EXCEPT !.failed = @ \cup {Current}]
  /\ stored' = [stored EXCEPT ![Current] = NoCredential]
  /\ call' = NoCall
  /\ UNCHANGED <<up, active, hostBooting, runtime, requiresSync, queue, budgets, history>>

\* The user is reported with an error code; the loop goes on.
HandleError ==
  /\ Answered("error")
  /\ job' = [Advance(job) EXCEPT !.failed = @ \cup {Current}]
  /\ call' = NoCall
  /\ UNCHANGED <<up, active, hostBooting, runtime, stored, requiresSync, queue, budgets,
                 history>>

(***************************************************************************)
(* After the loop.                                                         *)
(***************************************************************************)

Applied == up /\ job.phase = "apply" /\ call = NoCall /\ job.todo = <<>>

Reconciling == job.kind \in {"sync", "restore", "boot"}

\* add() and remove() return their results and leave the flag alone.
FinishUpdate ==
  /\ Applied
  /\ ~Reconciling
  /\ Resolve(IF job.kind = "remove" THEN Range(job.order) \ job.failed ELSE {},
             job.failed # {})
  /\ UNCHANGED <<up, active, hostBooting, runtime, stored, requiresSync, queue, budgets, doubts>>

\* Mutant: the flag is cleared although a user failed.
FinishPartlyUnflagged ==
  /\ Applied
  /\ Reconciling
  /\ job.failed # {}
  /\ requiresSync' = FALSE
  /\ Resolve({}, job.kind = "sync")
  /\ UNCHANGED <<up, active, hostBooting, runtime, stored, queue, budgets, doubts>>

\* reconcileRuntime() returns before the removals when a user failed, which
\* a sync reports and a restore only flags.
FinishPartly ==
  /\ Applied
  /\ Reconciling
  /\ job.failed # {}
  /\ requiresSync' = TRUE
  /\ Resolve({}, job.kind = "sync")
  /\ UNCHANGED <<up, active, hostBooting, runtime, stored, queue, budgets, doubts>>

Surplus == job.view \ Range(job.order)

PruneUser ==
  /\ Applied
  /\ Reconciling
  /\ job.failed = {}
  /\ \E user \in Surplus : Send("remove", user, NoCredential)
  /\ job' = [job EXCEPT !.phase = "prune"]
  /\ UNCHANGED <<up, active, hostBooting, runtime, stored, requiresSync, queue, budgets,
                 history>>

PruneDone ==
  /\ up /\ job.phase = "prune" /\ call.at = "done"
  /\ job' = [job EXCEPT !.phase = "apply", !.view = @ \ {call.user}]
  /\ call' = NoCall
  /\ UNCHANGED <<up, active, hostBooting, runtime, stored, requiresSync, queue, budgets,
                 history>>

\* The exception of a removal leaves reconcileRuntime(): sync() throws before
\* it writes the flag, restore() has set it already.
PruneFails ==
  /\ up /\ job.phase = "prune" /\ call.at = "error"
  /\ Reject
  /\ UNCHANGED <<up, active, hostBooting, runtime, stored, requiresSync, queue, budgets, doubts>>

Reconciled == Applied /\ Reconciling /\ job.failed = {} /\ Surplus = {}

\* Rows of users that are not desired are deleted one after the other, then
\* the flag is written.
RowsToDelete == IF Reconciled THEN Known(stored) \ Range(job.order) ELSE {}

DeleteRows(users) ==
  stored' = [user \in Users |-> IF user \in users THEN NoCredential ELSE stored[user]]

\* Mutant: rows that are not desired stay.
FinishReconcileKeepingRows ==
  /\ Reconciled
  /\ requiresSync' = FALSE
  /\ Resolve(IF job.kind = "sync" THEN Users \ Range(job.order) ELSE {}, FALSE)
  /\ UNCHANGED <<up, active, hostBooting, runtime, stored, queue, budgets, doubts>>

FinishReconcile ==
  /\ Reconciled
  /\ DeleteRows(RowsToDelete)
  /\ requiresSync' = FALSE
  /\ Resolve(IF job.kind = "sync" THEN Users \ Range(job.order) ELSE {}, FALSE)
  /\ UNCHANGED <<up, active, hostBooting, runtime, queue, budgets, doubts>>

\* One of these writes throws after others were made.
FinishFails ==
  /\ Reconciled
  /\ "store_error" \in Faults
  /\ faults < MaxFaults
  /\ faults' = faults + 1
  /\ \E deleted \in SUBSET RowsToDelete : DeleteRows(deleted)
  /\ Reject
  /\ UNCHANGED <<up, active, hostBooting, runtime, requiresSync, queue, requests, doubts>>

(***************************************************************************)
(* Xray and its gRPC interface (external).                                 *)
(***************************************************************************)

\* AlterInbound adds a user that is absent and removes one that is present;
\* anything else, and any call while Xray is down, is an error.
Serve ==
  /\ call.at = "sent"
  /\ \/ /\ active
        /\ call.op = "add" /\ runtime[call.user] = NoCredential
        /\ runtime' = [runtime EXCEPT ![call.user] = call.credential]
        /\ call' = [call EXCEPT !.at = "done"]
     \/ /\ active
        /\ call.op = "remove" /\ runtime[call.user] # NoCredential
        /\ runtime' = [runtime EXCEPT ![call.user] = NoCredential]
        /\ call' = [call EXCEPT !.at = "done"]
     \/ /\ \/ ~active
           \/ call.op = "add" /\ runtime[call.user] # NoCredential
           \/ call.op = "remove" /\ runtime[call.user] = NoCredential
        /\ call' = [call EXCEPT !.at = "error"]
        /\ UNCHANGED runtime
  /\ UNCHANGED <<agent, active, hostBooting, budgets, history>>

\* The user of an addition that is served and whose answer will not be seen.
Unanswered == IF call.at = "done" /\ call.op = "add" THEN {call.user} ELSE {}

\* The deadline passes before the call is served, or before its answer
\* arrives.
Expire ==
  /\ \/ call.at = "sent" /\ "rpc_error" \in Faults
     \/ call.at = "done" /\ "lost_reply" \in Faults
  /\ faults < MaxFaults
  /\ faults' = faults + 1
  /\ call' = [call EXCEPT !.at = "error"]
  /\ doubtful' = doubtful \cup Unanswered
  /\ UNCHANGED <<agent, active, hostBooting, runtime, requests, revoked, told,
                 blind>>

(***************************************************************************)
(* Crashes and restarts.                                                   *)
(***************************************************************************)

Fault(kind) ==
  /\ kind \in Faults
  /\ faults < MaxFaults
  /\ faults' = faults + 1

\* Mutant: requests outlive the process.
AgentStopsKeepingQueue ==
  /\ up' = FALSE
  /\ UNCHANGED queue
  /\ job' = Idle
  /\ call' = NoCall

AgentStops ==
  /\ up' = FALSE
  /\ queue' = <<>>
  /\ job' = Idle
  /\ call' = NoCall

\* A call that was sent may have been served; its answer goes nowhere.  Rows
\* may be left that were to be deleted.
AgentCrash ==
  /\ up
  /\ Fault("agent_crash")
  /\ AgentStops
  /\ doubtful' = doubtful \cup Unanswered
  /\ \E deleted \in SUBSET RowsToDelete : DeleteRows(deleted)
  /\ UNCHANGED <<active, hostBooting, runtime, requiresSync, requests, revoked, told, blind>>

\* onApplicationBootstrap of a restarted agent chains the restore first.
Bootstrap ==
  /\ ~up
  /\ up' = TRUE
  /\ queue' = <<RestoreTask("boot")>>
  /\ UNCHANGED <<active, hostBooting, runtime, stored, requiresSync, job, call, budgets,
                 history>>

\* Restart=on-failure of the unit, or the certificate renewal hook.
RuntimeRestart ==
  /\ active
  /\ Fault("runtime_restart")
  /\ runtime' = Nobody
  /\ blind' = TRUE
  /\ UNCHANGED <<agent, active, hostBooting, call, requests, revoked, told,
                 doubtful>>

\* The enabled units start in no fixed order once the host is back.
HostReboot ==
  /\ Fault("host_reboot")
  /\ AgentStops
  /\ active' = FALSE
  /\ hostBooting' = TRUE
  /\ runtime' = Nobody
  /\ blind' = TRUE
  /\ \E deleted \in SUBSET RowsToDelete : DeleteRows(deleted)
  /\ UNCHANGED <<requiresSync, requests, revoked, told, doubtful>>

HostStartsRuntime ==
  /\ hostBooting
  /\ active' = TRUE
  /\ hostBooting' = FALSE
  /\ UNCHANGED <<agent, runtime, call, budgets, history>>

-----------------------------------------------------------------------------

JobStep ==
  \/ Take \/ ListUsers \/ ListFails \/ CallForUser \/ RecordUser
  \/ HandleDone \/ HandleError
  \/ FinishUpdate \/ FinishPartly \/ FinishReconcile \/ FinishFails
  \/ PruneUser \/ PruneDone \/ PruneFails

UserRequest ==
  \/ \E order \in Orders(Users) :
       \/ Request(RemoveTask(order))
       \/ \E credentials \in [Range(order) -> Credentials] :
            LET wanted == [user \in Users |->
                             IF user \in Range(order) THEN credentials[user]
                             ELSE NoCredential]
            IN Request(SyncTask(order, wanted)) \/ Request(AddTask(order, wanted))

Next ==
  \/ UserRequest \/ StartRuntime \/ StopRuntime
  \/ JobStep
  \/ Serve \/ Expire
  \/ AgentCrash \/ Bootstrap \/ RuntimeRestart \/ HostReboot \/ HostStartsRuntime

Spec == Init /\ [][Next]_vars

-----------------------------------------------------------------------------
(***************************************************************************)
(* Properties.                                                             *)
(***************************************************************************)

TaskType ==
  [kind : Kinds, order : Orders(Users), wanted : Wanted]

JobType ==
  [kind : Kinds \cup {"none"}, order : Orders(Users), wanted : Wanted,
   phase : {"idle", "list", "apply", "prune"}, todo : Orders(Users),
   view : SUBSET Users, failed : SUBSET Users]

CallType ==
  [op : {"add", "remove"}, user : Users,
   credential : Credentials \cup {NoCredential}, at : {"sent", "done", "error"}]

\* Every variable keeps to its type; a dead agent has no queue and no call.
TypeOK ==
  /\ up \in BOOLEAN /\ active \in BOOLEAN /\ hostBooting \in BOOLEAN
  /\ runtime \in Wanted /\ stored \in Wanted
  /\ requiresSync \in BOOLEAN
  /\ \A i \in DOMAIN queue : queue[i] \in TaskType
  /\ job \in JobType
  /\ call \in CallType \cup {NoCall}
  /\ faults \in 0 .. MaxFaults /\ requests \in 0 .. MaxRequests
  /\ revoked \in SUBSET Users /\ told \in BOOLEAN
  /\ doubtful \in SUBSET Users /\ blind \in BOOLEAN
  /\ ~up => queue = <<>> /\ job = Idle /\ call = NoCall

\* A user whose removal was confirmed, by delete or by a clean full sync,
\* has neither access nor a row, and no failed call, crash, restart or
\* restore brings either back until the user is requested again.
RevokedNotServed ==
  \A user \in revoked :
    runtime[user] = NoCredential /\ stored[user] = NoCredential

\* What the central service relies on: with the flag off, no failed request
\* unanswered by a clean sync and nothing in progress, Xray serves exactly
\* the users of the table, unless it restarted by itself since the agent
\* last listed its users to reconcile them.
Settled == up /\ Quiet /\ active /\ ~requiresSync /\ ~told

UnflaggedMeansServed == Settled /\ ~blind => Known(runtime) = Known(stored)

\* ... and it serves each of them with the credential of the table, unless
\* the answer to the call that added the user was lost.
UnflaggedMeansCurrent ==
  Settled => \A user \in (Known(runtime) \cap Known(stored)) \ doubtful :
               runtime[user] = stored[user]

\* Users come back after every restart of the host or of Xray, or the flag
\* tells the central service to sync them.
UsersComeBack == Settled => Known(runtime) = Known(stored)

\* A changed credential replaces the one Xray accepts: with the flag off no
\* other than that of the table is served.
CredentialsReplaced ==
  Settled => \A user \in Known(runtime) \cap Known(stored) :
               runtime[user] = stored[user]

\* A clean full sync leaves the rows that were asked for, all of them and no
\* other, and nobody else has access.
SyncExact ==
  job.kind = "sync" /\ job' = Idle /\ up' /\ ~requiresSync' /\ ~told' =>
    stored' = job.wanted /\ Known(runtime') \subseteq Range(job.order)

SyncInstallsDesired == [][SyncExact]_vars

\* A row is deleted only once Xray no longer knows the user: the table never
\* loses track of somebody who has access.
RowKept ==
  \A user \in Users :
    stored[user] # NoCredential /\ stored'[user] = NoCredential =>
      runtime[user] = NoCredential

RowOutlivesAccess == [][RowKept]_vars

\* A sync takes a user away from Xray only if the request leaves the user out
\* or names another credential than the table: a repeated sync is promised to
\* keep the traffic counters of everybody else.
CountersKept ==
  \A user \in Users :
    /\ job.kind = "sync" /\ call.at = "sent" /\ call'.at = "done"
    /\ runtime[user] # NoCredential /\ runtime'[user] = NoCredential
    => stored[user] # job.wanted[user] \/ user \notin Range(job.order)

UnchangedKeepsCounters == [][CountersKept]_vars

\* Where a handler has a step to take: the guards of JobStep.
MayTake == job = Idle /\ queue # <<>> /\ Head(queue).kind \in Kinds

MayList ==
  /\ Listing
  /\ \/ ~active
     \/ job.kind \in {"sync", "add", "remove"}
     \/ job.kind \in {"restore", "boot"} /\ (stored = Nobody \/ ListsOf(Known(stored)) # {})

MayApply == Applying \/ Applied

MayHandle ==
  \/ Answered("error")
  \/ Answered("done") /\ (job.kind = "remove" \/ call.op \in {"add", "remove"})
  \/ job.phase = "prune" /\ call.at \in {"done", "error"}

HasStep == up /\ (MayTake \/ MayList \/ MayApply \/ MayHandle)

\* The chain never stalls: while a request is waiting or a handler runs, some
\* continuation is ready or Xray still has to answer, whatever was rejected,
\* lost or restarted before.
AlwaysAStep == up /\ ~Quiet => HasStep \/ call.at = "sent"

NeverStalls == AlwaysAStep /\ (HasStep => ENABLED JobStep)

=============================================================================
