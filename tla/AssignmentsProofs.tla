------------------------- MODULE AssignmentsProofs -------------------------
(***************************************************************************)
(* Proofs about Assignments, for every finite set of users, any            *)
(* credentials, and any number of requests and faults.                     *)
(***************************************************************************)
EXTENDS Assignments, FiniteSetTheorems, TLAPS

Typed == TypeOK /\ queue \in Seq(TaskType)

Waiting == Range(queue)

Restoring(task) == task.kind \in {"restore", "boot"}

\* A task that adds users names them with their credentials; the others name
\* none.
TaskSound(task) ==
  Known(task.wanted) = IF task.kind \in {"sync", "add"} THEN Range(task.order) ELSE {}

Busy == job.phase \in {"apply", "prune"}

\* The users the loop of the handler is done with.
Processed == Range(job.order) \ Range(job.todo)

JobSound ==
  /\ job.phase = "idle" <=> job = Idle
  /\ job.phase # "idle" <=> job.kind # "none"
  /\ Busy =>
       /\ Range(job.todo) \subseteq Range(job.order)
       /\ Known(job.wanted) = IF job.kind = "remove" THEN {} ELSE Range(job.order)
  /\ job.phase = "list" =>
       /\ TaskSound(job)
       /\ job.todo = job.order /\ job.failed = {}
  /\ job.phase = "prune" =>
       job.kind \in {"sync", "restore", "boot"} /\ job.todo = <<>> /\ call # NoCall
  /\ Restoring(job) => requiresSync

\* A call is for the user the loop is at, or for a surplus user.
CallSound ==
  call # NoCall =>
    /\ Busy
    /\ job.phase = "apply" => job.todo # <<>> /\ call.user = Current
    /\ job.phase = "prune" => call.op = "remove" /\ call.user \notin Range(job.order)
    /\ job.kind = "remove" => call.op = "remove"
    /\ call.op = "add" => call.credential = job.wanted[call.user]

\* What has been served, and what is asked for, while the call is under way.
CallServed ==
  /\ call.at = "done" /\ call.op = "remove" => runtime[call.user] = NoCredential
  /\ call.at = "done" /\ call.op = "add" =>
       runtime[call.user] \in {NoCredential, call.credential}
  /\ call.at = "sent" /\ call.op = "remove" /\ job.kind # "remove" /\ job.phase = "apply" =>
       stored[call.user] # job.wanted[call.user]

\* No task that waits or runs brings back a revoked user.
NotRevived ==
  /\ RevokedNotServed
  /\ \A task \in Waiting : Known(task.wanted) \cap revoked = {}
  /\ Known(job.wanted) \cap revoked = {}

\* Xray knows no user but those it listed and those the handler adds.
ViewSound ==
  Busy => Known(runtime) \subseteq
            job.view \cup (IF job.kind = "remove" THEN {} ELSE Range(job.order))

ProcessedSound ==
  Busy => \A user \in Processed \ job.failed :
            IF job.kind = "remove"
            THEN runtime[user] = NoCredential /\ stored[user] = NoCredential
            ELSE stored[user] = job.wanted[user]

\* The credential Xray accepts is that of the table, but for an addition
\* whose answer is not handled yet or was lost.
CredentialsMatch ==
  \A user \in (Known(runtime) \cap Known(stored)) \ doubtful :
    runtime[user] = stored[user] \/ (call.op = "add" /\ call.at = "done" /\ call.user = user)

\* Xray has not forgotten its users behind the back of the handler, nor is a
\* restore of them ahead.
Undisturbed ==
  up /\ active /\ ~blind /\ \A task \in Waiting : ~Restoring(task)

\* What a handler that adds users has seen is still so.
SeenHolds ==
  /\ hostBooting => ~active /\ blind
  /\ Undisturbed /\ call.op = "add" /\ call.at = "done" =>
       runtime[call.user] = call.credential
  /\ Undisturbed /\ Busy /\ job.kind # "remove" /\ job.failed = {} =>
       /\ \A user \in job.view : user \in Known(runtime) \/ (call # NoCall /\ call.user = user)
       /\ Processed \subseteq Known(runtime)

\* With the flag off and no failure unanswered, the table and Xray agree on
\* everybody but the user an update is at.
Clean == Undisturbed /\ ~requiresSync /\ ~told

Agrees(user) == user \in Known(runtime) <=> user \in Known(stored)

UsersAgree ==
  /\ Clean /\ job.phase \in {"idle", "list"} => \A user \in Users : Agrees(user)
  /\ Clean /\ job.phase = "apply" /\ job.kind \in {"add", "remove"} /\ job.failed = {} =>
       \A user \in Users : Agrees(user) \/ (job.todo # <<>> /\ user = Current)

IInv ==
  /\ Typed
  /\ \A task \in Waiting : TaskSound(task)
  /\ JobSound
  /\ CallSound
  /\ CallServed
  /\ NotRevived
  /\ ViewSound
  /\ ProcessedSound
  /\ CredentialsMatch
  /\ SeenHolds
  /\ UsersAgree

-----------------------------------------------------------------------------
(***************************************************************************)
(* Sequences of users and of tasks.                                        *)
(***************************************************************************)

LEMMA ConsRange ==
  ASSUME NEW S, NEW s \in Seq(S), s # <<>>
  PROVE  /\ Head(s) \in S /\ Tail(s) \in Seq(S)
         /\ Range(s) = {Head(s)} \cup Range(Tail(s))
<1>1. Len(s) \in Nat /\ Len(s) # 0 /\ DOMAIN s = 1 .. Len(s) /\ s \in [1 .. Len(s) -> S]
  OBVIOUS
<1>2. /\ Head(s) = s[1] /\ DOMAIN Tail(s) = 1 .. Len(s) - 1
      /\ \A i \in 1 .. Len(s) - 1 : Tail(s)[i] = s[i + 1]
  BY <1>1
<1>3. ASSUME NEW x \in Range(s)
      PROVE  x \in {Head(s)} \cup Range(Tail(s))
  <2>1. PICK i \in 1 .. Len(s) : x = s[i]
    BY <1>1, <1>3 DEF Range
  <2>2. CASE i = 1
    BY <1>2, <2>1, <2>2
  <2>3. CASE i # 1
    <3>1. i - 1 \in 1 .. Len(s) - 1 /\ Tail(s)[i - 1] = x
      BY <1>1, <1>2, <2>1, <2>3
    <3> QED
      BY <1>2, <3>1 DEF Range
  <2> QED
    BY <2>2, <2>3
<1>4. {Head(s)} \cup Range(Tail(s)) \subseteq Range(s)
  BY <1>1, <1>2 DEF Range
<1> QED
  BY <1>1, <1>3, <1>4

LEMMA AppendRange ==
  ASSUME NEW S, NEW s \in Seq(S), NEW x \in S
  PROVE  Append(s, x) \in Seq(S) /\ Range(Append(s, x)) = Range(s) \cup {x}
<1>1. /\ Len(s) \in Nat /\ DOMAIN s = 1 .. Len(s)
      /\ DOMAIN Append(s, x) = 1 .. Len(s) + 1
      /\ \A i \in 1 .. Len(s) : Append(s, x)[i] = s[i]
      /\ Append(s, x)[Len(s) + 1] = x
  OBVIOUS
<1>2. \A y \in Range(Append(s, x)) : y \in Range(s) \cup {x}
  BY <1>1 DEF Range
<1>3. Range(s) \subseteq Range(Append(s, x))
  BY <1>1 DEF Range
<1>4. x \in Range(Append(s, x))
  BY <1>1 DEF Range
<1> QED
  BY <1>2, <1>3, <1>4

LEMMA EmptyRange == Range(<<>>) = {}
BY DEF Range

LEMMA SeqOfLength ==
  ASSUME NEW S, NEW n \in Nat, NEW s \in Seq(S), Len(s) = n
  PROVE  s \in [1 .. n -> S] /\ DOMAIN s = 1 .. n
OBVIOUS

LEMMA OrderTypes ==
  ASSUME NEW order \in Orders(Users)
  PROVE  /\ order \in Seq(Users)
         /\ order # <<>> => Tail(order) \in Orders(Users)
<1>1. PICK n \in 0 .. Cardinality(Users) : order \in [1 .. n -> Users]
  BY DEF Orders
<1>2. Cardinality(Users) \in Nat
  BY UsersAssumption, FS_CardinalityType
<1>3. order \in Seq(Users) /\ Len(order) = n
  BY <1>1, <1>2
<1>4. ASSUME order # <<>>
      PROVE  Tail(order) \in Orders(Users)
  <2>0. n \in Nat /\ n # 0 /\ n - 1 \in Nat /\ n - 1 \in 0 .. Cardinality(Users)
    BY <1>2, <1>3, <1>4
  <2>a. /\ Tail(order) \in Seq(Users) /\ Len(Tail(order)) = n - 1
        /\ \A i \in 1 .. n - 1 : Tail(order)[i] = order[i + 1]
    BY <1>3, <1>4, <2>0
  <2>1. Tail(order) \in [1 .. n - 1 -> Users] /\ DOMAIN Tail(order) = 1 .. n - 1
    BY <2>0, <2>a, SeqOfLength
  <2>2. \A i, j \in 1 .. n : order[i] = order[j] => i = j
    BY <1>1 DEF Orders, IsInjective
  <2>3. IsInjective(Tail(order))
    BY <2>0, <2>a, <2>1, <2>2 DEF IsInjective
  <2> QED
    BY <2>0, <2>1, <2>3 DEF Orders
<1> QED
  BY <1>3, <1>4

LEMMA OrderOfSome ==
  ASSUME NEW some \in SUBSET Users
  PROVE  Orders(some) \subseteq Orders(Users)
<1>1. /\ Cardinality(some) <= Cardinality(Users)
      /\ Cardinality(some) \in Nat /\ Cardinality(Users) \in Nat
  BY UsersAssumption, FS_Subset, FS_CardinalityType
<1> SUFFICES ASSUME NEW order \in Orders(some) PROVE order \in Orders(Users)
  OBVIOUS
<1>2. PICK n \in 0 .. Cardinality(some) : order \in [1 .. n -> some]
  BY DEF Orders
<1>3. n \in 0 .. Cardinality(Users) /\ order \in [1 .. n -> Users]
  BY <1>1, <1>2
<1>4. IsInjective(order)
  BY DEF Orders
<1> QED
  BY <1>3, <1>4 DEF Orders

LEMMA NoOrder == <<>> \in Orders(Users)
<1>1. Cardinality(Users) \in Nat
  BY UsersAssumption, FS_CardinalityType
<1>2. 0 \in 0 .. Cardinality(Users) /\ <<>> \in [1 .. 0 -> Users]
  BY <1>1
<1>3. IsInjective(<<>>)
  BY DEF IsInjective
<1> QED
  BY <1>2, <1>3 DEF Orders

LEMMA NobodyKnown == Known(Nobody) = {} /\ Nobody \in Wanted
BY DEF Known, Nobody, Wanted

-----------------------------------------------------------------------------
(***************************************************************************)
(* What the actions do to the queue, the handler and its call.             *)
(***************************************************************************)

\* What the types say of the head and the tail of the two sequences.
LEMMA Sequences ==
  ASSUME Typed
  PROVE  /\ job \in JobType /\ job.todo \in Seq(Users) /\ job.order \in Seq(Users)
         /\ Range(job.order) \subseteq Users
         /\ job.todo # <<>> =>
              /\ Current \in Users
              /\ Tail(job.todo) \in Orders(Users)
              /\ Range(job.todo) = {Current} \cup Range(Tail(job.todo))
         /\ job.todo = <<>> => Range(job.todo) = {}
<1>1. job \in JobType
  BY DEF Typed, TypeOK
<1>2. job.todo \in Orders(Users) /\ job.todo \in Seq(Users) /\ job.order \in Seq(Users)
  BY <1>1, OrderTypes DEF JobType
<1>3. Range(job.order) \subseteq Users
  BY <1>2 DEF Range
<1> QED
  BY <1>1, <1>2, <1>3, ConsRange, OrderTypes, EmptyRange DEF Current

LEMMA CallTyped ==
  ASSUME Typed, call # NoCall
  PROVE  /\ call \in CallType /\ call.user \in Users /\ call.op \in {"add", "remove"}
         /\ call.credential \in Credentials \cup {NoCredential}
         /\ \A at \in {"sent", "done", "error"} : [call EXCEPT !.at = at] \in CallType
BY DEF Typed, TypeOK, CallType

LEMMA Queued ==
  ASSUME Typed, NEW task \in TaskType, queue' = Append(queue, task)
  PROVE  Waiting' = Waiting \cup {task} /\ queue' \in Seq(TaskType)
BY AppendRange DEF Typed, Waiting

LEMMA Taken ==
  ASSUME Typed, queue # <<>>, queue' = Tail(queue)
  PROVE  /\ Head(queue) \in TaskType
         /\ Waiting = {Head(queue)} \cup Waiting' /\ queue' \in Seq(TaskType)
BY ConsRange DEF Typed, Waiting

LEMMA RestoreTaskType ==
  ASSUME NEW kind \in {"restore", "boot"}
  PROVE  /\ RestoreTask(kind) \in TaskType /\ TaskSound(RestoreTask(kind))
         /\ Restoring(RestoreTask(kind)) /\ RestoreTask(kind).wanted = Nobody
BY NoOrder, NobodyKnown DEF RestoreTask, TaskType, TaskSound, Restoring, Kinds

LEMMA RestoreQueued ==
  ASSUME Typed, StartRuntime
  PROVE  /\ up /\ active' = TRUE /\ hostBooting' = FALSE /\ runtime' \in {Nobody, runtime}
         /\ requests < MaxRequests /\ requests' = requests + 1
         /\ UNCHANGED <<up, stored, requiresSync, job, call, faults, revoked, told, blind,
                        doubtful>>
         /\ \E task \in TaskType : /\ Restoring(task) /\ TaskSound(task) /\ task.wanted = Nobody
                                   /\ Waiting' = Waiting \cup {task} /\ queue' \in Seq(TaskType)
BY RestoreTaskType, Queued DEF StartRuntime, history, doubts

\* Rows go only for users that Xray does not know.
RowsGone ==
  /\ stored' \in Wanted
  /\ \A user \in Users :
       \/ stored'[user] = stored[user]
       \/ stored'[user] = NoCredential /\ runtime[user] = NoCredential

LEMMA RowsDeleted ==
  ASSUME IInv, NEW deleted \in SUBSET RowsToDelete, DeleteRows(deleted)
  PROVE  RowsGone
<1>1. stored \in Wanted /\ runtime \in Wanted
  BY DEF IInv, Typed, TypeOK
<1>2. \A user \in RowsToDelete : runtime[user] = NoCredential
  <2> SUFFICES ASSUME NEW user \in RowsToDelete PROVE runtime[user] = NoCredential
    OBVIOUS
  <2>1. Reconciled /\ user \in Known(stored) /\ user \notin Range(job.order)
    BY DEF RowsToDelete
  <2>2. Busy /\ job.view \subseteq Range(job.order) /\ job.kind # "remove"
    BY <2>1 DEF Reconciled, Applied, Reconciling, Surplus, Busy
  <2> QED
    BY <2>1, <2>2 DEF IInv, ViewSound, Known
<1>3. \A user \in Users :
        stored'[user] = IF user \in deleted THEN NoCredential ELSE stored[user]
  BY DEF DeleteRows
<1>4. stored' \in Wanted
  BY <1>1 DEF DeleteRows, Wanted
<1>5. ASSUME NEW user \in Users
      PROVE  \/ stored'[user] = stored[user]
             \/ stored'[user] = NoCredential /\ runtime[user] = NoCredential
  <2>1. CASE user \in deleted
    BY <1>2, <1>3, <2>1
  <2>2. CASE user \notin deleted
    BY <1>3, <2>2
  <2> QED
    BY <2>1, <2>2
<1> QED
  BY <1>4, <1>5 DEF RowsGone

\* What a reconciliation without errors, a throwing write at its end, a crash
\* and a reboot leave.
ReconcileEffect ==
  /\ Applied /\ Reconciling /\ job.failed = {} /\ Surplus = {}
  /\ stored' = [user \in Users |-> IF user \in Range(job.order)
                                   THEN stored[user] ELSE NoCredential]
  /\ requiresSync' = FALSE
  /\ Resolve(IF job.kind = "sync" THEN Users \ Range(job.order) ELSE {}, FALSE)
  /\ UNCHANGED <<up, active, hostBooting, runtime, queue, faults, requests, blind, doubtful>>

FailEffect ==
  /\ Applied /\ Reconciling /\ job' = Idle /\ call' = NoCall
  /\ faults < MaxFaults /\ faults' = faults + 1
  /\ told' = (told \/ job.kind # "boot") /\ RowsGone
  /\ UNCHANGED <<up, active, hostBooting, runtime, requiresSync, queue, requests, revoked,
                 blind, doubtful>>

StopEffect ==
  /\ up' = FALSE /\ queue' = <<>> /\ job' = Idle /\ call' = NoCall
  /\ faults < MaxFaults /\ faults' = faults + 1 /\ RowsGone
  /\ UNCHANGED <<requiresSync, requests, revoked, told>>

CrashEffect ==
  /\ StopEffect
  /\ doubtful' = doubtful \cup Unanswered
  /\ UNCHANGED <<active, hostBooting, runtime, blind>>

RebootEffect ==
  /\ StopEffect
  /\ active' = FALSE /\ hostBooting' = TRUE /\ runtime' = Nobody /\ blind' = TRUE
  /\ UNCHANGED doubtful

LEMMA Reconciles ==
  ASSUME IInv, FinishReconcile
  PROVE  ReconcileEffect
<1>1. /\ Reconciled /\ stored \in Wanted
      /\ DeleteRows(Known(stored) \ Range(job.order))
  BY DEF FinishReconcile, RowsToDelete, IInv, Typed, TypeOK
<1>2. \A user \in Users : user \notin Known(stored) => stored[user] = NoCredential
  BY DEF Known
<1>3. stored' = [user \in Users |-> IF user \in Range(job.order)
                                   THEN stored[user] ELSE NoCredential]
  BY <1>1, <1>2 DEF DeleteRows
<1> QED
  BY <1>1, <1>3 DEF FinishReconcile, Reconciled, ReconcileEffect, budgets, doubts

LEMMA Effects ==
  ASSUME IInv
  PROVE  /\ FinishReconcile => ReconcileEffect
         /\ FinishFails => FailEffect
         /\ AgentCrash => CrashEffect
         /\ HostReboot => RebootEffect
<1>1. ASSUME FinishFails PROVE FailEffect
  BY <1>1, RowsDeleted DEF FinishFails, Reconciled, Reject, FailEffect, doubts
<1>2. ASSUME AgentCrash PROVE CrashEffect
  BY <1>2, RowsDeleted DEF AgentCrash, AgentStops, Fault, StopEffect, CrashEffect
<1>3. ASSUME HostReboot PROVE RebootEffect
  BY <1>3, RowsDeleted DEF HostReboot, AgentStops, Fault, StopEffect, RebootEffect
<1> QED
  BY <1>1, <1>2, <1>3, Reconciles

LEMMA BootQueued ==
  ASSUME Bootstrap
  PROVE  \E task \in TaskType : /\ Restoring(task) /\ TaskSound(task) /\ task.wanted = Nobody
                                /\ Waiting' = {task} /\ queue' \in Seq(TaskType)
<1> DEFINE task == RestoreTask("boot")
<1>1. /\ task \in TaskType /\ TaskSound(task) /\ Restoring(task) /\ task.wanted = Nobody
  BY RestoreTaskType
<1>2. queue' = <<task>>
  BY DEF Bootstrap
<1> HIDE DEF task
<1>3. queue' \in Seq(TaskType) /\ Waiting' = {task}
  BY <1>1, <1>2 DEF Waiting, Range
<1> QED
  BY <1>1, <1>3

\* Nobody a waiting task adds is among the removed users.
LEMMA WaitingWants ==
  ASSUME Typed, NEW task \in Waiting
  PROVE  Known(task.wanted) \subseteq WantedByWaiting
<1>1. PICK i \in DOMAIN queue : task = queue[i]
  BY DEF Waiting, Range
<1> QED
  BY <1>1 DEF WantedByWaiting

LEMMA UserAsks ==
  ASSUME UserRequest
  PROVE  \E task \in TaskType : TaskSound(task) /\ ~Restoring(task) /\ Request(task)
<1>1. PICK order \in Orders(Users) :
        \/ Request(RemoveTask(order))
        \/ \E credentials \in [Range(order) -> Credentials] :
             LET wanted == [user \in Users |->
                              IF user \in Range(order) THEN credentials[user]
                              ELSE NoCredential]
             IN Request(SyncTask(order, wanted)) \/ Request(AddTask(order, wanted))
  BY DEF UserRequest
<1>2. CASE Request(RemoveTask(order))
  <2>1. /\ RemoveTask(order) \in TaskType /\ TaskSound(RemoveTask(order))
        /\ ~Restoring(RemoveTask(order))
    BY NobodyKnown DEF RemoveTask, TaskType, TaskSound, Restoring, Kinds
  <2> QED
    BY <1>2, <2>1
<1>3. ASSUME NEW credentials \in [Range(order) -> Credentials],
             NEW wanted, wanted = [user \in Users |->
                              IF user \in Range(order) THEN credentials[user]
                              ELSE NoCredential],
             NEW kind \in {"sync", "add"},
             NEW task, task = [kind |-> kind, order |-> order, wanted |-> wanted],
             Request(task)
      PROVE  \E t \in TaskType : TaskSound(t) /\ ~Restoring(t) /\ Request(t)
  <2>0. order \in Seq(Users)
    BY OrderTypes
  <2>1. Range(order) \subseteq Users
    BY <2>0 DEF Range
  <2>2. wanted \in Wanted /\ Known(wanted) = Range(order)
    BY <1>3, <2>1, NoCredentialAssumption DEF Wanted, Known
  <2>3. task \in TaskType /\ TaskSound(task) /\ ~Restoring(task)
    BY <1>3, <2>2 DEF TaskType, TaskSound, Restoring, Kinds
  <2> QED
    BY <1>3, <2>3
<1> QED
  BY <1>1, <1>2, <1>3 DEF SyncTask, AddTask

LEMMA Requested ==
  ASSUME Typed, UserRequest
  PROVE  /\ up /\ requests < MaxRequests /\ requests' = requests + 1
         /\ UNCHANGED <<up, active, hostBooting, runtime, stored, requiresSync, job, call, faults,
                        told, blind, doubtful>>
         /\ \E task \in TaskType :
              /\ ~Restoring(task) /\ TaskSound(task) /\ revoked' = revoked \ Known(task.wanted)
              /\ Waiting' = Waiting \cup {task} /\ queue' \in Seq(TaskType)
<1>1. PICK task \in TaskType : TaskSound(task) /\ ~Restoring(task) /\ Request(task)
  BY UserAsks
<1>2. Waiting' = Waiting \cup {task} /\ queue' \in Seq(TaskType)
  BY <1>1, Queued DEF Request
<1> QED
  BY <1>1, <1>2 DEF Request, doubts

\* The listing: a restore that has rows adopts them, one that has none ends.
LEMMA Listed ==
  ASSUME IInv, ListUsers
  PROVE  /\ UNCHANGED <<up, active, hostBooting, runtime, stored, requiresSync, queue, call,
                        faults, requests, revoked, told, doubtful>>
         /\ blind' = (blind /\ job.kind \in {"add", "remove"})
         /\ call = NoCall /\ job.phase = "list" /\ active /\ up
         /\ \/ job' = Idle /\ Restoring(job)
            \/ /\ job' \in JobType
               /\ job'.phase = "apply" /\ job'.kind = job.kind
               /\ job'.view = Known(runtime) /\ job'.failed = {}
               /\ job'.todo = job'.order
               /\ Known(job'.wanted) = IF job.kind = "remove" THEN {} ELSE Range(job'.order)
               /\ job'.wanted = IF Restoring(job) THEN stored ELSE job.wanted
<1>1. /\ job \in JobType /\ job.phase = "list" /\ up /\ active /\ job.failed = {}
      /\ job.todo = job.order /\ TaskSound(job) /\ call = NoCall /\ stored \in Wanted
      /\ Known(runtime) \in SUBSET Users
      /\ blind' = (blind /\ job.kind \in {"add", "remove"})
      /\ UNCHANGED <<up, active, hostBooting, runtime, stored, requiresSync, queue,
                     faults, requests, doubtful>>
  BY Sequences
  DEF IInv, JobSound, CallSound, ListUsers, Listing, Busy, Typed, TypeOK, Known, budgets
<1> DEFINE Adopts ==
      /\ job' \in JobType
      /\ job'.phase = "apply" /\ job'.kind = job.kind
      /\ job'.view = Known(runtime) /\ job'.failed = {}
      /\ job'.todo = job'.order
      /\ Known(job'.wanted) = IF job.kind = "remove" THEN {} ELSE Range(job'.order)
      /\ job'.wanted = IF Restoring(job) THEN stored ELSE job.wanted
<1>2. CASE job.kind \in {"sync", "add", "remove"}
  <2>1. /\ job' = [job EXCEPT !.phase = "apply", !.view = Known(runtime)]
        /\ UNCHANGED <<call, revoked, told>>
    BY <1>2 DEF ListUsers
  <2>2. Adopts
    BY <1>1, <1>2, <2>1 DEF JobType, TaskSound, Restoring
  <2> QED
    BY <1>1, <2>1, <2>2
<1>3. CASE job.kind \in {"restore", "boot"} /\ stored # Nobody
  <2>1. PICK order \in ListsOf(Known(stored)) :
          /\ job' = [job EXCEPT !.phase = "apply", !.view = Known(runtime),
                                !.order = order, !.todo = order, !.wanted = stored]
          /\ UNCHANGED <<call, revoked, told>>
    BY <1>3 DEF ListUsers
  <2>2. order \in Orders(Users) /\ Range(order) = Known(stored)
    BY OrderOfSome DEF ListsOf, Known
  <2>3. Adopts
    BY <1>1, <1>3, <2>1, <2>2 DEF JobType, Restoring
  <2> QED
    BY <1>1, <2>1, <2>3
<1>4. CASE job.kind \in {"restore", "boot"} /\ stored = Nobody
  <2>1. Resolve({}, FALSE)
    BY <1>4 DEF ListUsers
  <2>2. job' = Idle /\ Restoring(job) /\ UNCHANGED <<call, revoked, told>>
    BY <1>1, <1>4, <2>1 DEF Resolve, Restoring
  <2> QED
    BY <1>1, <2>2
<1> QED
  BY <1>2, <1>3, <1>4 DEF ListUsers

\* The rest of a job once the loop is done with a user.
LEMMA Advanced ==
  ASSUME Typed, job.todo # <<>>
  PROVE  /\ Advance(job) \in JobType
         /\ Advance(job).todo = Tail(job.todo)
         /\ Advance(job).kind = job.kind /\ Advance(job).order = job.order
         /\ Advance(job).wanted = job.wanted /\ Advance(job).phase = job.phase
         /\ Advance(job).view = job.view /\ Advance(job).failed = job.failed
BY Sequences DEF Advance, JobType

\* An answer that is handled: of a removal, of the first half of a
\* replacement, of an addition.
LEMMA DoneHandled ==
  ASSUME IInv, HandleDone
  PROVE  /\ call # NoCall /\ job.phase = "apply" /\ job.todo # <<>> /\ call.at = "done"
         /\ call.user = Current /\ Current \in Users /\ call' = NoCall
         /\ doubtful' = doubtful \ {Current}
         /\ UNCHANGED <<up, active, hostBooting, runtime, requiresSync, queue, faults, requests,
                        revoked, told, blind>>
         /\ job' \in JobType /\ job'.kind = job.kind /\ job'.order = job.order
         /\ job'.wanted = job.wanted /\ job'.phase = "apply" /\ job'.failed = job.failed
         /\ Range(job'.todo) \subseteq Range(job.todo)
         /\ Range(job.todo) \subseteq Range(job'.todo) \cup {Current}
         /\ \/ /\ job.kind = "remove" /\ call.op = "remove"
               /\ runtime[Current] = NoCredential
               /\ stored' = [stored EXCEPT ![Current] = NoCredential]
               /\ job'.view = job.view
               /\ job'.todo = Tail(job.todo)
            \/ /\ job.kind # "remove" /\ call.op = "remove"
               /\ runtime[Current] = NoCredential
               /\ stored' = stored
               /\ job'.view = job.view \ {Current}
               /\ job'.todo = job.todo
            \/ /\ job.kind # "remove" /\ call.op = "add"
               /\ runtime[Current] \in {NoCredential, job.wanted[Current]}
               /\ call.credential = job.wanted[Current]
               /\ job.wanted[Current] \in Credentials
               /\ stored' = [stored EXCEPT ![Current] = job.wanted[Current]]
               /\ job'.view = job.view \cup {Current}
               /\ job'.todo = Tail(job.todo)
<1>1. /\ call # NoCall /\ job.phase = "apply" /\ call.at = "done" /\ call' = NoCall
      /\ Typed /\ job \in JobType
  BY Sequences DEF HandleDone, Answered, NoCall, IInv
<1>2. job.todo # <<>> /\ call.user = Current /\ Current \in Users
  BY <1>1, Sequences DEF IInv, CallSound
<1>3. ASSUME job.kind # "remove"
      PROVE  job.wanted[Current] \in Credentials
  <2>1. Current \in Known(job.wanted) /\ job.wanted \in Wanted
    BY <1>1, <1>2, <1>3, Sequences DEF IInv, JobSound, Busy, JobType
  <2> QED
    BY <2>1 DEF Known, Wanted
<1>4. /\ doubtful' = doubtful \ {Current}
      /\ UNCHANGED <<up, active, hostBooting, runtime, requiresSync, queue, faults, requests,
                     revoked, told, blind>>
  BY DEF HandleDone, budgets
<1>8. Range(job.todo) = {Current} \cup Range(Tail(job.todo))
  BY <1>1, <1>2, Sequences
<1>5. CASE job.kind = "remove"
  <2>1. call.op = "remove"
    BY <1>1, <1>5 DEF IInv, CallSound
  <2>2. job' = Advance(job) /\ stored' = [stored EXCEPT ![Current] = NoCredential]
    BY <1>5 DEF HandleDone
  <2>3. runtime[Current] = NoCredential
    BY <1>1, <1>2, <2>1 DEF IInv, CallServed
  <2> QED
    BY <1>1, <1>2, <1>4, <1>5, <1>8, <2>1, <2>2, <2>3, Advanced
<1>6. CASE job.kind # "remove" /\ call.op = "remove"
  <2>1. job' = [job EXCEPT !.view = @ \ {Current}] /\ stored' = stored
    BY <1>6 DEF HandleDone
  <2>2. runtime[Current] = NoCredential
    BY <1>1, <1>2, <1>6 DEF IInv, CallServed
  <2> QED
    BY <1>1, <1>2, <1>4, <1>6, <2>1, <2>2 DEF JobType
<1>7. CASE job.kind # "remove" /\ call.op = "add"
  <2>1. /\ job' = [Advance(job) EXCEPT !.view = @ \cup {Current}]
        /\ stored' = [stored EXCEPT ![Current] = job.wanted[Current]]
    BY <1>7 DEF HandleDone
  <2>2. /\ call.credential = job.wanted[Current]
        /\ runtime[Current] \in {NoCredential, job.wanted[Current]}
    BY <1>1, <1>2, <1>7 DEF IInv, CallSound, CallServed
  <2>3. /\ job' \in JobType /\ job'.view = job.view \cup {Current}
        /\ job'.todo = Tail(job.todo)
        /\ job'.kind = job.kind /\ job'.order = job.order
        /\ job'.wanted = job.wanted /\ job'.phase = job.phase /\ job'.failed = job.failed
    BY <1>1, <1>2, <2>1, Advanced DEF JobType
  <2> QED
    BY <1>1, <1>2, <1>3, <1>4, <1>7, <1>8, <2>1, <2>2, <2>3
<1> QED
  BY <1>5, <1>6, <1>7 DEF HandleDone

\* A user that needs no call.
LEMMA UserRecorded ==
  ASSUME IInv, RecordUser
  PROVE  /\ up /\ call = NoCall /\ job.phase = "apply" /\ job.todo # <<>> /\ Current \in Users
         /\ UNCHANGED <<up, active, hostBooting, runtime, requiresSync, queue, call, faults,
                        requests, revoked, told, blind, doubtful>>
         /\ job' \in JobType /\ job'.kind = job.kind /\ job'.order = job.order
         /\ job'.wanted = job.wanted /\ job'.phase = "apply" /\ job'.view = job.view
         /\ job'.failed = job.failed /\ job'.todo = Tail(job.todo)
         /\ Range(job'.todo) \subseteq Range(job.todo)
         /\ Range(job.todo) \subseteq Range(job'.todo) \cup {Current}
         /\ stored' \in Wanted
         /\ \/ /\ job.kind = "remove" /\ Current \notin job.view
               /\ stored' = [stored EXCEPT ![Current] = NoCredential]
            \/ /\ job.kind # "remove" /\ Current \in job.view
               /\ stored[Current] = job.wanted[Current] /\ stored' = stored
<1>1. /\ up /\ call = NoCall /\ job.phase = "apply" /\ job.todo # <<>>
      /\ Typed /\ job \in JobType /\ stored \in Wanted /\ job' = Advance(job)
      /\ UNCHANGED <<up, active, hostBooting, runtime, requiresSync, queue, call, faults,
                     requests, revoked, told, blind, doubtful>>
  BY DEF RecordUser, Applying, IInv, Typed, TypeOK, budgets, history, doubts
<1>2. Current \in Users /\ Range(job.todo) = {Current} \cup Range(Tail(job.todo))
  BY <1>1, Sequences
<1>3. /\ job' \in JobType /\ job'.kind = job.kind /\ job'.order = job.order
      /\ job'.wanted = job.wanted /\ job'.phase = job.phase /\ job'.view = job.view
      /\ job'.failed = job.failed /\ job'.todo = Tail(job.todo)
  BY <1>1, <1>2, Advanced DEF JobType
<1>4. stored' \in Wanted
      /\ \/ /\ job.kind = "remove" /\ Current \notin job.view
            /\ stored' = [stored EXCEPT ![Current] = NoCredential]
         \/ /\ job.kind # "remove" /\ Current \in job.view
            /\ stored[Current] = job.wanted[Current] /\ stored' = stored
  BY <1>1, <1>2 DEF RecordUser, CredentialUnchanged, Wanted
<1> QED
  BY <1>1, <1>2, <1>3, <1>4

\* A user that failed.
LEMMA ErrorHandled ==
  ASSUME IInv, HandleError
  PROVE  /\ call # NoCall /\ job.phase = "apply" /\ job.todo # <<>>
         /\ call.user = Current /\ Current \in Users /\ call' = NoCall /\ call.at = "error"
         /\ UNCHANGED <<up, active, hostBooting, runtime, stored, requiresSync, queue, faults,
                        requests, revoked, told, blind, doubtful>>
         /\ job' \in JobType /\ job'.kind = job.kind /\ job'.order = job.order
         /\ job'.wanted = job.wanted /\ job'.phase = "apply" /\ job'.view = job.view
         /\ job'.failed = job.failed \cup {Current} /\ job'.todo = Tail(job.todo)
         /\ Range(job'.todo) \subseteq Range(job.todo)
         /\ Range(job.todo) \subseteq Range(job'.todo) \cup {Current}
<1>1. /\ call # NoCall /\ job.phase = "apply" /\ call.at = "error" /\ call' = NoCall
      /\ Typed /\ job \in JobType
      /\ job' = [Advance(job) EXCEPT !.failed = @ \cup {Current}]
  BY Sequences DEF HandleError, Answered, NoCall, IInv
<1>2. job.todo # <<>> /\ call.user = Current /\ Current \in Users
  BY <1>1, Sequences DEF IInv, CallSound
<1>3. /\ job' \in JobType /\ job'.kind = job.kind /\ job'.order = job.order
      /\ job'.wanted = job.wanted /\ job'.phase = job.phase /\ job'.view = job.view
      /\ job'.failed = job.failed \cup {Current} /\ job'.todo = Tail(job.todo)
  BY <1>1, <1>2, Advanced DEF JobType
<1>4. Range(job.todo) = {Current} \cup Range(Tail(job.todo))
  BY <1>1, <1>2, Sequences
<1> QED
  BY <1>1, <1>2, <1>3, <1>4 DEF HandleError, budgets, history, doubts

-----------------------------------------------------------------------------
(***************************************************************************)
(* Every step keeps every part of the invariant.                           *)
(***************************************************************************)

TablesType ==
  /\ runtime \in Wanted /\ stored \in Wanted
  /\ revoked \in SUBSET Users /\ doubtful \in SUBSET Users

FlagsType ==
  /\ up \in BOOLEAN /\ active \in BOOLEAN /\ hostBooting \in BOOLEAN
  /\ requiresSync \in BOOLEAN /\ told \in BOOLEAN /\ blind \in BOOLEAN

BudgetsType == faults \in 0 .. MaxFaults /\ requests \in 0 .. MaxRequests

LEMMA TablesTyped == IInv /\ [Next]_vars => TablesType'
<1> SUFFICES ASSUME IInv, [Next]_vars PROVE TablesType'
  OBVIOUS
<1>0. /\ FinishReconcile => ReconcileEffect
      /\ FinishFails => FailEffect
      /\ AgentCrash => CrashEffect
      /\ HostReboot => RebootEffect
  BY Effects
<1> USE Sequences, NobodyKnown, EmptyRange, BoundsAssumption, NoOrder DEF
     IInv, Typed, TypeOK, TablesType, CallType, TaskType, JobType, Wanted, Known, Kinds,
     Idle, NoCall, Nobody, Current, agent, budgets, history, doubts, JobSound,
     CallSound, Busy
<1>1. CASE UNCHANGED <<runtime, stored, revoked, doubtful>>
  BY <1>1
<1>2. CASE UserRequest
  <2>1. PICK task \in TaskType :
          /\ ~Restoring(task) /\ TaskSound(task) /\ revoked' = revoked \ Known(task.wanted)
          /\ Waiting' = Waiting \cup {task} /\ queue' \in Seq(TaskType)
    BY <1>2, Requested
  <2> QED
    BY <1>2, <2>1, Requested
<1>3. CASE StartRuntime
  <2>1. PICK task \in TaskType :
          /\ Restoring(task) /\ TaskSound(task) /\ task.wanted = Nobody
          /\ Waiting' = Waiting \cup {task} /\ queue' \in Seq(TaskType)
    BY <1>3, RestoreQueued
  <2> QED
    BY <1>3, <2>1, RestoreQueued
<1>4. CASE StopRuntime
  BY <1>4 DEF StopRuntime
<1>5. CASE RecordUser
  BY <1>5, UserRecorded
<1>6. CASE HandleDone
  <2>1. CASE job.kind = "remove" /\ call.op = "remove"
    BY <1>6, <2>1, DoneHandled
  <2>2. CASE job.kind # "remove" /\ call.op = "remove"
    BY <1>6, <2>2, DoneHandled
  <2>3. CASE call.op = "add"
    BY <1>6, <2>3, DoneHandled
  <2> QED
    BY <2>1, <2>2, <2>3, DoneHandled, <1>6
<1>7. CASE FinishUpdate
  BY <1>7 DEF FinishUpdate, Applied, Reconciling, Resolve
<1>8. CASE FinishReconcile
  BY <1>8, <1>0 DEF ReconcileEffect, Applied, Reconciling, Resolve, Surplus
<1>9. CASE Serve
  BY <1>9, CallTyped, SMTT(20) DEF Serve
<1>10. CASE Expire
  BY <1>10, CallTyped DEF Expire, Unanswered
<1>11. CASE AgentCrash
  BY <1>11, <1>0 DEF CrashEffect, StopEffect, Unanswered, RowsGone
<1>12. CASE RuntimeRestart
  BY <1>12 DEF RuntimeRestart, Fault
<1>13. CASE HostReboot
  BY <1>13, <1>0 DEF RebootEffect, StopEffect, RowsGone
<1>14. CASE FinishFails
  BY <1>14, <1>0 DEF FailEffect, Applied, Reconciling, RowsGone
<1> QED
  BY <1>1, <1>2, <1>3, <1>4, Listed, <1>5, <1>6, ErrorHandled, <1>7, <1>8,
       <1>9, <1>10, <1>11, <1>12, <1>13, <1>14
  DEF Next, JobStep, Take, ListFails, Reject, CallForUser, Send, FinishPartly,
       Resolve, PruneUser, PruneDone, PruneFails, Bootstrap, RestoreTask,
       HostStartsRuntime, vars

LEMMA JobTyped == IInv /\ [Next]_vars => (job \in JobType /\ call \in CallType \cup {NoCall})'
<1> SUFFICES ASSUME IInv, [Next]_vars PROVE (job \in JobType /\ call \in CallType \cup {NoCall})'
  OBVIOUS
<1>0. /\ FinishReconcile => ReconcileEffect
      /\ FinishFails => FailEffect
      /\ AgentCrash => CrashEffect
      /\ HostReboot => RebootEffect
  BY Effects
<1> USE Sequences, NobodyKnown, EmptyRange, BoundsAssumption, NoOrder DEF
     IInv, Typed, TypeOK, CallType, TaskType, JobType, Wanted, Known, Kinds,
     Idle, NoCall, Nobody, Current, agent, budgets, history, doubts, JobSound,
     CallSound, Busy
<1>1. CASE UNCHANGED <<job, call>>
  BY <1>1
<1>2. CASE Take
  BY <1>2, Taken, SMTT(20) DEF Take
<1>3. CASE ListUsers
  BY <1>3, Listed
<1>4. CASE ListFails
  BY <1>4 DEF ListFails, Listing, Reject
<1>5. CASE CallForUser
  BY <1>5 DEF CallForUser, Applying, Send, CredentialUnchanged
<1>6. CASE RecordUser
  BY <1>6, UserRecorded
<1>7. CASE HandleDone
  <2>1. CASE job.kind = "remove" /\ call.op = "remove"
    BY <1>7, <2>1, DoneHandled
  <2>2. CASE job.kind # "remove" /\ call.op = "remove"
    BY <1>7, <2>2, DoneHandled
  <2>3. CASE call.op = "add"
    BY <1>7, <2>3, DoneHandled
  <2> QED
    BY <2>1, <2>2, <2>3, DoneHandled, <1>7
<1>8. CASE HandleError
  BY <1>8, ErrorHandled
<1>9. CASE FinishUpdate
  BY <1>9 DEF FinishUpdate, Applied, Reconciling, Resolve
<1>10. CASE FinishPartly
  BY <1>10 DEF FinishPartly, Applied, Reconciling, Resolve
<1>11. CASE FinishReconcile
  BY <1>11, <1>0 DEF ReconcileEffect, Applied, Reconciling, Resolve, Surplus
<1>12. CASE PruneUser
  <2>1. PICK user \in Surplus : Send("remove", user, NoCredential)
    BY <1>12 DEF PruneUser
  <2>2. user \in Users
    BY <2>1 DEF Surplus
  <2> QED
    BY <1>12, <2>1, <2>2 DEF PruneUser, Send
<1>13. CASE PruneDone
  BY <1>13 DEF PruneDone
<1>14. CASE PruneFails
  BY <1>14 DEF PruneFails, Reject
<1>15. CASE Serve
  BY <1>15, CallTyped, SMTT(20) DEF Serve
<1>16. CASE Expire
  BY <1>16, CallTyped DEF Expire, Unanswered
<1>17. CASE AgentCrash
  BY <1>17, <1>0 DEF CrashEffect, StopEffect, Unanswered, RowsGone
<1>18. CASE HostReboot
  BY <1>18, <1>0 DEF RebootEffect, StopEffect, RowsGone
<1>19. CASE FinishFails
  BY <1>19, <1>0 DEF FailEffect, Applied, Reconciling, RowsGone
<1> QED
  BY <1>1, Requested, RestoreQueued, <1>2, <1>3, <1>4, <1>5, <1>6, <1>7, <1>8,
       <1>9, <1>10, <1>11, <1>12, <1>13, <1>14, <1>15, <1>16, <1>17, <1>18, <1>19
  DEF Next, JobStep, StopRuntime, Bootstrap, RestoreTask, RuntimeRestart,
       Fault, HostStartsRuntime, vars

LEMMA QueueTyped == IInv /\ [Next]_vars => (queue \in Seq(TaskType))'
<1> SUFFICES ASSUME IInv, [Next]_vars PROVE (queue \in Seq(TaskType))'
  OBVIOUS
<1>0. /\ FinishReconcile => ReconcileEffect
      /\ FinishFails => FailEffect
      /\ AgentCrash => CrashEffect
      /\ HostReboot => RebootEffect
  BY Effects
<1> USE Sequences, NobodyKnown, EmptyRange, BoundsAssumption, NoOrder DEF
     IInv, Typed, TypeOK, CallType, TaskType, JobType, Wanted, Known, Kinds,
     Idle, NoCall, Nobody, Current, agent, budgets, history, doubts
<1>1. CASE UNCHANGED <<queue>>
  BY <1>1
<1>2. CASE UserRequest
  <2>1. PICK task \in TaskType :
          /\ ~Restoring(task) /\ TaskSound(task) /\ revoked' = revoked \ Known(task.wanted)
          /\ Waiting' = Waiting \cup {task} /\ queue' \in Seq(TaskType)
    BY <1>2, Requested
  <2> QED
    BY <1>2, <2>1, Requested
<1>3. CASE StartRuntime
  <2>1. PICK task \in TaskType :
          /\ Restoring(task) /\ TaskSound(task) /\ task.wanted = Nobody
          /\ Waiting' = Waiting \cup {task} /\ queue' \in Seq(TaskType)
    BY <1>3, RestoreQueued
  <2> QED
    BY <1>3, <2>1, RestoreQueued
<1>4. CASE Take
  BY <1>4, Taken DEF Take
<1>5. CASE AgentCrash
  BY <1>5, <1>0 DEF CrashEffect, StopEffect, Unanswered, RowsGone
<1>6. CASE Bootstrap
  <2>1. PICK task \in TaskType :
          /\ Restoring(task) /\ TaskSound(task) /\ task.wanted = Nobody
          /\ Waiting' = {task} /\ queue' \in Seq(TaskType)
    BY <1>6, BootQueued
  <2> QED
    BY <1>6, <2>1, BootQueued DEF Bootstrap
<1>7. CASE HostReboot
  BY <1>7, <1>0 DEF RebootEffect, StopEffect, RowsGone
<1> QED
  BY <1>1, <1>2, <1>3, <1>4, Listed, DoneHandled, ErrorHandled, <1>5, <1>6,
       <1>7
  DEF Next, JobStep, StopRuntime, ListFails, Reject, CallForUser, Send,
       RecordUser, FinishUpdate, Resolve, FinishPartly, FinishReconcile, FinishFails,
       PruneUser, PruneDone, PruneFails, Serve, Expire, Unanswered,
       RuntimeRestart, Fault, HostStartsRuntime, vars

LEMMA FlagsTyped == IInv /\ [Next]_vars => FlagsType'
<1> SUFFICES ASSUME IInv, [Next]_vars PROVE FlagsType'
  OBVIOUS
<1>0. /\ FinishReconcile => ReconcileEffect
      /\ FinishFails => FailEffect
      /\ AgentCrash => CrashEffect
      /\ HostReboot => RebootEffect
  BY Effects
<1> USE Sequences, NobodyKnown, EmptyRange, BoundsAssumption, NoOrder DEF
     IInv, Typed, TypeOK, FlagsType, CallType, TaskType, JobType, Wanted, Known, Kinds,
     Idle, NoCall, Nobody, Current, agent, budgets, history, doubts
<1>1. CASE UNCHANGED <<up, active, hostBooting, requiresSync, told, blind>>
  BY <1>1
<1>2. CASE StartRuntime
  <2>1. PICK task \in TaskType :
          /\ Restoring(task) /\ TaskSound(task) /\ task.wanted = Nobody
          /\ Waiting' = Waiting \cup {task} /\ queue' \in Seq(TaskType)
    BY <1>2, RestoreQueued
  <2> QED
    BY <1>2, <2>1, RestoreQueued
<1>3. CASE StopRuntime
  BY <1>3 DEF StopRuntime
<1>4. CASE Take
  BY <1>4, Taken DEF Take
<1>5. CASE ListUsers
  BY <1>5, Listed
<1>6. CASE ListFails
  BY <1>6 DEF ListFails, Listing, Reject
<1>7. CASE FinishUpdate
  BY <1>7 DEF FinishUpdate, Applied, Reconciling, Resolve
<1>8. CASE FinishPartly
  BY <1>8 DEF FinishPartly, Applied, Reconciling, Resolve
<1>9. CASE FinishReconcile
  BY <1>9, <1>0 DEF ReconcileEffect, Applied, Reconciling, Resolve, Surplus
<1>10. CASE PruneFails
  BY <1>10 DEF PruneFails, Reject
<1>11. CASE AgentCrash
  BY <1>11, <1>0 DEF CrashEffect, StopEffect, Unanswered, RowsGone
<1>12. CASE Bootstrap
  <2>1. PICK task \in TaskType :
          /\ Restoring(task) /\ TaskSound(task) /\ task.wanted = Nobody
          /\ Waiting' = {task} /\ queue' \in Seq(TaskType)
    BY <1>12, BootQueued
  <2> QED
    BY <1>12, <2>1, BootQueued DEF Bootstrap
<1>13. CASE RuntimeRestart
  BY <1>13 DEF RuntimeRestart, Fault
<1>14. CASE HostReboot
  BY <1>14, <1>0 DEF RebootEffect, StopEffect, RowsGone
<1>15. CASE HostStartsRuntime
  BY <1>15 DEF HostStartsRuntime
<1>16. CASE FinishFails
  BY <1>16, <1>0 DEF FailEffect, Applied, Reconciling, RowsGone
<1> QED
  BY <1>1, Requested, <1>2, <1>3, <1>4, <1>5, <1>6, DoneHandled, ErrorHandled,
       <1>7, <1>8, <1>9, <1>10, <1>11, <1>12, <1>13, <1>14, <1>15, <1>16
  DEF Next, JobStep, CallForUser, Send, RecordUser, PruneUser, PruneDone,
       Serve, Expire, Unanswered, vars

LEMMA BudgetsTyped == IInv /\ [Next]_vars => BudgetsType'
<1> SUFFICES ASSUME IInv, [Next]_vars PROVE BudgetsType'
  OBVIOUS
<1>0. /\ FinishReconcile => ReconcileEffect
      /\ FinishFails => FailEffect
      /\ AgentCrash => CrashEffect
      /\ HostReboot => RebootEffect
  BY Effects
<1> USE Sequences, NobodyKnown, EmptyRange, BoundsAssumption, NoOrder DEF
     IInv, Typed, TypeOK, BudgetsType, CallType, TaskType, JobType, Wanted, Known, Kinds,
     Idle, NoCall, Nobody, Current, agent, budgets, history, doubts
<1>1. CASE UNCHANGED <<faults, requests>>
  BY <1>1
<1>2. CASE UserRequest
  <2>1. PICK task \in TaskType :
          /\ ~Restoring(task) /\ TaskSound(task) /\ revoked' = revoked \ Known(task.wanted)
          /\ Waiting' = Waiting \cup {task} /\ queue' \in Seq(TaskType)
    BY <1>2, Requested
  <2> QED
    BY <1>2, <2>1, Requested
<1>3. CASE StartRuntime
  <2>1. /\ runtime' \in {Nobody, runtime} /\ requests < MaxRequests /\ requests' = requests + 1
        /\ UNCHANGED <<stored, job, call, faults, doubtful>>
    BY <1>3, RestoreQueued
  <2> QED
    BY <2>1
<1>4. CASE StopRuntime
  BY <1>4 DEF StopRuntime
<1>5. CASE ListFails
  BY <1>5 DEF ListFails, Listing, Reject
<1>6. CASE Expire
  BY <1>6 DEF Expire, Unanswered
<1>7. CASE AgentCrash
  BY <1>7, <1>0 DEF CrashEffect, StopEffect, Unanswered, RowsGone
<1>8. CASE RuntimeRestart
  BY <1>8 DEF RuntimeRestart, Fault
<1>9. CASE HostReboot
  BY <1>9, <1>0 DEF RebootEffect, StopEffect, RowsGone
<1>10. CASE FinishFails
  BY <1>10, <1>0 DEF FailEffect, Applied, Reconciling, RowsGone
<1> QED
  BY <1>1, <1>2, <1>3, <1>4, Listed, <1>5, DoneHandled, ErrorHandled, <1>6,
       <1>7, <1>8, <1>9, <1>10
  DEF Next, JobStep, Take, CallForUser, Send, RecordUser, FinishUpdate,
       Resolve, FinishPartly, FinishReconcile, PruneUser, PruneDone,
       PruneFails, Reject, Serve, Bootstrap, RestoreTask, HostStartsRuntime,
       vars

LEMMA DeadTyped == IInv /\ [Next]_vars => (~up => queue = <<>> /\ job = Idle /\ call = NoCall)'
<1> SUFFICES ASSUME IInv, [Next]_vars PROVE (~up => queue = <<>> /\ job = Idle /\ call = NoCall)'
  OBVIOUS
<1>0. /\ FinishReconcile => ReconcileEffect
      /\ FinishFails => FailEffect
      /\ AgentCrash => CrashEffect
      /\ HostReboot => RebootEffect
  BY Effects
<1> USE Sequences, NobodyKnown, EmptyRange, BoundsAssumption, NoOrder DEF
     IInv, Typed, TypeOK, CallType, TaskType, JobType, Wanted, Known, Kinds,
     Idle, NoCall, Nobody, Current, agent, budgets, history, doubts
<1>1. CASE UNCHANGED <<up, queue, job, call>>
  BY <1>1
<1>2. CASE UserRequest
  <2>1. PICK task \in TaskType :
          /\ ~Restoring(task) /\ TaskSound(task) /\ revoked' = revoked \ Known(task.wanted)
          /\ Waiting' = Waiting \cup {task} /\ queue' \in Seq(TaskType)
    BY <1>2, Requested
  <2> QED
    BY <1>2, <2>1, Requested
<1>3. CASE StartRuntime
  <2>1. PICK task \in TaskType :
          /\ Restoring(task) /\ TaskSound(task) /\ task.wanted = Nobody
          /\ Waiting' = Waiting \cup {task} /\ queue' \in Seq(TaskType)
    BY <1>3, RestoreQueued
  <2> QED
    BY <1>3, <2>1, RestoreQueued
<1>4. CASE Take
  BY <1>4, Taken DEF Take
<1>5. CASE ListUsers
  BY <1>5, Listed
<1>6. CASE ListFails
  BY <1>6 DEF ListFails, Listing, Reject
<1>7. CASE CallForUser
  BY <1>7 DEF CallForUser, Applying, Send, CredentialUnchanged
<1>8. CASE RecordUser
  BY <1>8, UserRecorded
<1>9. CASE HandleDone
  <2>1. CASE job.kind = "remove" /\ call.op = "remove"
    BY <1>9, <2>1, DoneHandled
  <2>2. CASE job.kind # "remove" /\ call.op = "remove"
    BY <1>9, <2>2, DoneHandled
  <2>3. CASE call.op = "add"
    BY <1>9, <2>3, DoneHandled
  <2> QED
    BY <2>1, <2>2, <2>3, DoneHandled, <1>9
<1>10. CASE HandleError
  BY <1>10, ErrorHandled
<1>11. CASE FinishUpdate
  BY <1>11 DEF FinishUpdate, Applied, Reconciling, Resolve
<1>12. CASE FinishPartly
  BY <1>12 DEF FinishPartly, Applied, Reconciling, Resolve
<1>13. CASE FinishReconcile
  BY <1>13, <1>0 DEF ReconcileEffect, Applied, Reconciling, Resolve, Surplus
<1>14. CASE PruneUser
  BY <1>14 DEF PruneUser, Applied, Reconciling, Surplus, Send
<1>15. CASE PruneDone
  BY <1>15 DEF PruneDone
<1>16. CASE PruneFails
  BY <1>16 DEF PruneFails, Reject
<1>17. CASE Serve
  BY <1>17 DEF Serve
<1>18. CASE Expire
  BY <1>18 DEF Expire, Unanswered
<1>19. CASE AgentCrash
  BY <1>19, <1>0 DEF CrashEffect, StopEffect, Unanswered, RowsGone
<1>20. CASE Bootstrap
  <2>1. PICK task \in TaskType :
          /\ Restoring(task) /\ TaskSound(task) /\ task.wanted = Nobody
          /\ Waiting' = {task} /\ queue' \in Seq(TaskType)
    BY <1>20, BootQueued
  <2> QED
    BY <1>20, <2>1, BootQueued DEF Bootstrap
<1>21. CASE HostReboot
  BY <1>21, <1>0 DEF RebootEffect, StopEffect, RowsGone
<1>22. CASE FinishFails
  BY <1>22, <1>0 DEF FailEffect, Applied, Reconciling, RowsGone
<1> QED
  BY <1>1, <1>2, <1>3, <1>4, <1>5, <1>6, <1>7, <1>8, <1>9, <1>10, <1>11,
       <1>12, <1>13, <1>14, <1>15, <1>16, <1>17, <1>18, <1>19, <1>20, <1>21, <1>22
  DEF Next, JobStep, StopRuntime, RuntimeRestart, Fault, HostStartsRuntime,
       vars

LEMMA TasksKept == IInv /\ [Next]_vars => (\A task \in Waiting : TaskSound(task))'
<1> SUFFICES ASSUME IInv, [Next]_vars PROVE (\A task \in Waiting : TaskSound(task))'
  OBVIOUS
<1>0. /\ FinishReconcile => ReconcileEffect
      /\ FinishFails => FailEffect
      /\ AgentCrash => CrashEffect
      /\ HostReboot => RebootEffect
  BY Effects
<1> USE Sequences, NobodyKnown, EmptyRange DEF IInv, Typed, TypeOK, CallType,
     TaskType, JobType, Wanted, Known, Kinds, Idle, NoCall, Nobody, Current,
     agent, budgets, history, doubts, TaskSound, Waiting
<1>1. CASE UNCHANGED <<queue>>
  BY <1>1
<1>2. CASE UserRequest
  <2>1. PICK task \in TaskType :
          /\ ~Restoring(task) /\ TaskSound(task) /\ revoked' = revoked \ Known(task.wanted)
          /\ Waiting' = Waiting \cup {task} /\ queue' \in Seq(TaskType)
    BY <1>2, Requested
  <2> QED
    BY <1>2, <2>1, Requested
<1>3. CASE StartRuntime
  <2>1. PICK task \in TaskType :
          /\ Restoring(task) /\ TaskSound(task) /\ task.wanted = Nobody
          /\ Waiting' = Waiting \cup {task} /\ queue' \in Seq(TaskType)
    BY <1>3, RestoreQueued
  <2> QED
    BY <1>3, <2>1, RestoreQueued
<1>4. CASE Take
  BY <1>4, Taken DEF Take
<1>5. CASE AgentCrash
  BY <1>5, <1>0 DEF CrashEffect, StopEffect, Unanswered, RowsGone
<1>6. CASE Bootstrap
  <2>1. PICK task \in TaskType :
          /\ Restoring(task) /\ TaskSound(task) /\ task.wanted = Nobody
          /\ Waiting' = {task} /\ queue' \in Seq(TaskType)
    BY <1>6, BootQueued
  <2> QED
    BY <1>6, <2>1, BootQueued DEF Bootstrap
<1>7. CASE HostReboot
  BY <1>7, <1>0 DEF RebootEffect, StopEffect, RowsGone
<1> QED
  BY <1>1, <1>2, <1>3, <1>4, Listed, DoneHandled, ErrorHandled, <1>5, <1>6,
       <1>7
  DEF Next, JobStep, StopRuntime, ListFails, Reject, CallForUser, Send,
       RecordUser, FinishUpdate, Resolve, FinishPartly, FinishReconcile, FinishFails,
       PruneUser, PruneDone, PruneFails, Serve, Expire, Unanswered,
       RuntimeRestart, Fault, HostStartsRuntime, vars

LEMMA JobKept == IInv /\ [Next]_vars => JobSound'
<1> SUFFICES ASSUME IInv, [Next]_vars PROVE JobSound'
  OBVIOUS
<1>0. /\ FinishReconcile => ReconcileEffect
      /\ FinishFails => FailEffect
      /\ AgentCrash => CrashEffect
      /\ HostReboot => RebootEffect
  BY Effects
<1> USE Sequences, NobodyKnown, EmptyRange DEF IInv, Typed, TypeOK, CallType,
     TaskType, JobType, Wanted, Known, Kinds, Idle, NoCall, Nobody, Current,
     agent, budgets, history, doubts, JobSound, Busy, Restoring, TaskSound,
     Waiting
<1>1. CASE UNCHANGED <<job, call, requiresSync>>
  BY <1>1
<1>2. CASE Take
  BY <1>2, Taken, SMTT(20) DEF Take
<1>3. CASE ListUsers
  BY <1>3, Listed
<1>4. CASE ListFails
  BY <1>4 DEF ListFails, Listing, Reject
<1>5. CASE CallForUser
  BY <1>5 DEF CallForUser, Applying, Send, CredentialUnchanged
<1>6. CASE RecordUser
  BY <1>6, UserRecorded
<1>7. CASE HandleDone
  <2>1. CASE job.kind = "remove" /\ call.op = "remove"
    BY <1>7, <2>1, DoneHandled
  <2>2. CASE job.kind # "remove" /\ call.op = "remove"
    BY <1>7, <2>2, DoneHandled
  <2>3. CASE call.op = "add"
    BY <1>7, <2>3, DoneHandled
  <2> QED
    BY <2>1, <2>2, <2>3, DoneHandled, <1>7
<1>8. CASE HandleError
  BY <1>8, ErrorHandled
<1>9. CASE FinishUpdate
  BY <1>9 DEF FinishUpdate, Applied, Reconciling, Resolve
<1>10. CASE FinishPartly
  BY <1>10 DEF FinishPartly, Applied, Reconciling, Resolve
<1>11. CASE FinishReconcile
  BY <1>11, <1>0 DEF ReconcileEffect, Applied, Reconciling, Resolve, Surplus
<1>12. CASE PruneUser
  BY <1>12 DEF PruneUser, Applied, Reconciling, Surplus, Send
<1>13. CASE PruneDone
  BY <1>13 DEF PruneDone
<1>14. CASE PruneFails
  BY <1>14 DEF PruneFails, Reject
<1>15. CASE Serve
  BY <1>15 DEF Serve
<1>16. CASE Expire
  BY <1>16 DEF Expire, Unanswered
<1>17. CASE AgentCrash
  BY <1>17, <1>0 DEF CrashEffect, StopEffect, Unanswered, RowsGone
<1>18. CASE HostReboot
  BY <1>18, <1>0 DEF RebootEffect, StopEffect, RowsGone
<1>19. CASE FinishFails
  BY <1>19, <1>0 DEF FailEffect, Applied, Reconciling, RowsGone
<1> QED
  BY <1>1, Requested, RestoreQueued, <1>2, <1>3, <1>4, <1>5, <1>6, <1>7, <1>8,
       <1>9, <1>10, <1>11, <1>12, <1>13, <1>14, <1>15, <1>16, <1>17, <1>18, <1>19
  DEF Next, JobStep, StopRuntime, Bootstrap, RestoreTask, RuntimeRestart,
       Fault, HostStartsRuntime, vars

LEMMA CallKept == IInv /\ [Next]_vars => CallSound'
<1> SUFFICES ASSUME IInv, [Next]_vars PROVE CallSound'
  OBVIOUS
<1>0. /\ FinishReconcile => ReconcileEffect
      /\ FinishFails => FailEffect
      /\ AgentCrash => CrashEffect
      /\ HostReboot => RebootEffect
  BY Effects
<1> USE Sequences, NobodyKnown, EmptyRange DEF IInv, Typed, TypeOK, CallType,
     TaskType, JobType, Wanted, Known, Kinds, Idle, NoCall, Nobody, Current,
     agent, budgets, history, doubts, CallSound, JobSound, Busy
<1>1. CASE UNCHANGED <<call, job>>
  BY <1>1
<1>2. CASE Take
  BY <1>2, Taken, SMTT(20) DEF Take
<1>3. CASE ListUsers
  BY <1>3, Listed
<1>4. CASE ListFails
  BY <1>4 DEF ListFails, Listing, Reject
<1>5. CASE CallForUser
  BY <1>5 DEF CallForUser, Applying, Send, CredentialUnchanged
<1>6. CASE RecordUser
  BY <1>6, UserRecorded
<1>7. CASE HandleDone
  <2>1. CASE job.kind = "remove" /\ call.op = "remove"
    BY <1>7, <2>1, DoneHandled
  <2>2. CASE job.kind # "remove" /\ call.op = "remove"
    BY <1>7, <2>2, DoneHandled
  <2>3. CASE call.op = "add"
    BY <1>7, <2>3, DoneHandled
  <2> QED
    BY <2>1, <2>2, <2>3, DoneHandled, <1>7
<1>8. CASE HandleError
  BY <1>8, ErrorHandled
<1>9. CASE FinishUpdate
  BY <1>9 DEF FinishUpdate, Applied, Reconciling, Resolve
<1>10. CASE FinishPartly
  BY <1>10 DEF FinishPartly, Applied, Reconciling, Resolve
<1>11. CASE FinishReconcile
  BY <1>11, <1>0 DEF ReconcileEffect, Applied, Reconciling, Resolve, Surplus
<1>12. CASE PruneUser
  BY <1>12 DEF PruneUser, Applied, Reconciling, Surplus, Send
<1>13. CASE PruneDone
  BY <1>13 DEF PruneDone
<1>14. CASE PruneFails
  BY <1>14 DEF PruneFails, Reject
<1>15. CASE Serve
  BY <1>15 DEF Serve
<1>16. CASE Expire
  BY <1>16 DEF Expire, Unanswered
<1>17. CASE AgentCrash
  BY <1>17, <1>0 DEF CrashEffect, StopEffect, Unanswered, RowsGone
<1>18. CASE HostReboot
  BY <1>18, <1>0 DEF RebootEffect, StopEffect, RowsGone
<1>19. CASE FinishFails
  BY <1>19, <1>0 DEF FailEffect, Applied, Reconciling, RowsGone
<1> QED
  BY <1>1, Requested, RestoreQueued, <1>2, <1>3, <1>4, <1>5, <1>6, <1>7, <1>8,
       <1>9, <1>10, <1>11, <1>12, <1>13, <1>14, <1>15, <1>16, <1>17, <1>18, <1>19
  DEF Next, JobStep, StopRuntime, Bootstrap, RestoreTask, RuntimeRestart,
       Fault, HostStartsRuntime, vars

LEMMA ServedKept == IInv /\ [Next]_vars => CallServed'
<1> SUFFICES ASSUME IInv, [Next]_vars PROVE CallServed'
  OBVIOUS
<1>0. /\ FinishReconcile => ReconcileEffect
      /\ FinishFails => FailEffect
      /\ AgentCrash => CrashEffect
      /\ HostReboot => RebootEffect
  BY Effects
<1> USE Sequences, NobodyKnown, EmptyRange DEF IInv, Typed, TypeOK, CallType,
     TaskType, JobType, Wanted, Known, Kinds, Idle, NoCall, Nobody, Current,
     agent, budgets, history, doubts, CallServed, CallSound, JobSound, Busy
<1>1. CASE UNCHANGED <<call, runtime, stored, job>>
  BY <1>1
<1>2. CASE StartRuntime
  <2>1. /\ runtime' \in {Nobody, runtime} /\ requests < MaxRequests /\ requests' = requests + 1
        /\ UNCHANGED <<stored, job, call, faults, doubtful>>
    BY <1>2, RestoreQueued
  <2> QED
    BY <2>1
<1>3. CASE StopRuntime
  BY <1>3 DEF StopRuntime
<1>4. CASE Take
  BY <1>4, Taken DEF Take
<1>5. CASE ListUsers
  BY <1>5, Listed
<1>6. CASE ListFails
  BY <1>6 DEF ListFails, Listing, Reject
<1>7. CASE CallForUser
  BY <1>7 DEF CallForUser, Applying, Send, CredentialUnchanged
<1>8. CASE RecordUser
  BY <1>8, UserRecorded
<1>9. CASE HandleDone
  <2>1. CASE job.kind = "remove" /\ call.op = "remove"
    BY <1>9, <2>1, DoneHandled
  <2>2. CASE job.kind # "remove" /\ call.op = "remove"
    BY <1>9, <2>2, DoneHandled
  <2>3. CASE call.op = "add"
    BY <1>9, <2>3, DoneHandled
  <2> QED
    BY <2>1, <2>2, <2>3, DoneHandled, <1>9
<1>10. CASE HandleError
  BY <1>10, ErrorHandled
<1>11. CASE FinishUpdate
  BY <1>11 DEF FinishUpdate, Applied, Reconciling, Resolve
<1>12. CASE FinishPartly
  BY <1>12 DEF FinishPartly, Applied, Reconciling, Resolve
<1>13. CASE FinishReconcile
  BY <1>13, <1>0 DEF ReconcileEffect, Applied, Reconciling, Resolve, Surplus
<1>14. CASE PruneUser
  BY <1>14 DEF PruneUser, Applied, Reconciling, Surplus, Send
<1>15. CASE PruneDone
  BY <1>15 DEF PruneDone
<1>16. CASE PruneFails
  BY <1>16 DEF PruneFails, Reject
<1>17. CASE Serve
  BY <1>17 DEF Serve
<1>18. CASE Expire
  BY <1>18 DEF Expire, Unanswered
<1>19. CASE AgentCrash
  BY <1>19, <1>0 DEF CrashEffect, StopEffect, Unanswered, RowsGone
<1>20. CASE RuntimeRestart
  BY <1>20 DEF RuntimeRestart, Fault
<1>21. CASE HostReboot
  BY <1>21, <1>0 DEF RebootEffect, StopEffect, RowsGone
<1>22. CASE FinishFails
  BY <1>22, <1>0 DEF FailEffect, Applied, Reconciling, RowsGone
<1> QED
  BY <1>1, Requested, <1>2, <1>3, <1>4, <1>5, <1>6, <1>7, <1>8, <1>9, <1>10,
       <1>11, <1>12, <1>13, <1>14, <1>15, <1>16, <1>17, <1>18, <1>19, <1>20,
       <1>21, <1>22
  DEF Next, JobStep, Bootstrap, RestoreTask, HostStartsRuntime, vars

LEMMA RevokedKept == IInv /\ [Next]_vars => NotRevived'
<1> SUFFICES ASSUME IInv, [Next]_vars PROVE NotRevived'
  OBVIOUS
<1>0. /\ FinishReconcile => ReconcileEffect
      /\ FinishFails => FailEffect
      /\ AgentCrash => CrashEffect
      /\ HostReboot => RebootEffect
  BY Effects
<1> USE Sequences, NobodyKnown, EmptyRange DEF IInv, Typed, TypeOK, CallType,
     TaskType, JobType, Wanted, Known, Kinds, Idle, NoCall, Nobody, Current,
     agent, budgets, history, doubts, NotRevived, RevokedNotServed, JobSound,
     CallSound, CallServed, Waiting, Busy, ViewSound, ProcessedSound,
     Processed, TaskSound
<1>1. CASE UNCHANGED <<runtime, stored, revoked, queue, job>>
  BY <1>1
<1>2. CASE UserRequest
  <2>1. PICK task \in TaskType :
          /\ ~Restoring(task) /\ TaskSound(task) /\ revoked' = revoked \ Known(task.wanted)
          /\ Waiting' = Waiting \cup {task} /\ queue' \in Seq(TaskType)
    BY <1>2, Requested
  <2> QED
    BY <1>2, <2>1, Requested
<1>3. CASE StartRuntime
  <2>1. PICK task \in TaskType :
          /\ Restoring(task) /\ TaskSound(task) /\ task.wanted = Nobody
          /\ Waiting' = Waiting \cup {task} /\ queue' \in Seq(TaskType)
    BY <1>3, RestoreQueued
  <2>2. runtime' \in {Nobody, runtime} /\ UNCHANGED <<stored, revoked, job>>
    BY <1>3, RestoreQueued
  <2> QED
    BY <2>1, <2>2
<1>4. CASE StopRuntime
  BY <1>4 DEF StopRuntime
<1>5. CASE Take
  BY <1>5, Taken DEF Take
<1>6. CASE ListUsers
  BY <1>6, Listed
<1>7. CASE ListFails
  BY <1>7 DEF ListFails, Listing, Reject
<1>8. CASE RecordUser
  BY <1>8, UserRecorded
<1>9. CASE HandleDone
  <2>1. CASE job.kind = "remove" /\ call.op = "remove"
    BY <1>9, <2>1, DoneHandled
  <2>2. CASE job.kind # "remove" /\ call.op = "remove"
    BY <1>9, <2>2, DoneHandled
  <2>3. CASE call.op = "add"
    BY <1>9, <2>3, DoneHandled
  <2> QED
    BY <2>1, <2>2, <2>3, DoneHandled, <1>9
<1>10. CASE HandleError
  BY <1>10, ErrorHandled
<1>11. CASE FinishUpdate
  BY <1>11, WaitingWants DEF FinishUpdate, Applied, Reconciling, Resolve, budgets, doubts
<1>12. CASE FinishPartly
  BY <1>12 DEF FinishPartly, Applied, Reconciling, Resolve
<1>13. CASE FinishReconcile
  BY <1>13, <1>0, WaitingWants DEF ReconcileEffect, Applied, Reconciling, Resolve, Surplus
<1>14. CASE PruneUser
  BY <1>14 DEF PruneUser, Applied, Reconciling, Surplus, Send
<1>15. CASE PruneDone
  BY <1>15 DEF PruneDone
<1>16. CASE PruneFails
  BY <1>16 DEF PruneFails, Reject
<1>17. CASE Serve
  BY <1>17 DEF Serve
<1>18. CASE AgentCrash
  BY <1>18, <1>0 DEF CrashEffect, StopEffect, Unanswered, RowsGone
<1>19. CASE Bootstrap
  <2>1. PICK task \in TaskType :
          /\ Restoring(task) /\ TaskSound(task) /\ task.wanted = Nobody
          /\ Waiting' = {task} /\ queue' \in Seq(TaskType)
    BY <1>19, BootQueued
  <2> QED
    BY <1>19, <2>1, BootQueued DEF Bootstrap
<1>20. CASE RuntimeRestart
  BY <1>20 DEF RuntimeRestart, Fault
<1>21. CASE HostReboot
  BY <1>21, <1>0 DEF RebootEffect, StopEffect, RowsGone
<1>22. CASE FinishFails
  BY <1>22, <1>0 DEF FailEffect, Applied, Reconciling, RowsGone
<1> QED
  BY <1>1, <1>2, <1>3, <1>4, <1>5, <1>6, <1>7, <1>8, <1>9, <1>10, <1>11,
       <1>12, <1>13, <1>14, <1>15, <1>16, <1>17, <1>18, <1>19, <1>20, <1>21, <1>22
  DEF Next, JobStep, CallForUser, Send, Expire, Unanswered, HostStartsRuntime,
       vars

LEMMA ViewKept == IInv /\ [Next]_vars => ViewSound'
<1> SUFFICES ASSUME IInv, [Next]_vars PROVE ViewSound'
  OBVIOUS
<1>0. /\ FinishReconcile => ReconcileEffect
      /\ FinishFails => FailEffect
      /\ AgentCrash => CrashEffect
      /\ HostReboot => RebootEffect
  BY Effects
<1> USE Sequences, NobodyKnown, EmptyRange DEF IInv, Typed, TypeOK, CallType,
     TaskType, JobType, Wanted, Known, Kinds, Idle, NoCall, Nobody, Current,
     agent, budgets, history, doubts, ViewSound, Busy, JobSound, CallSound,
     CallServed
<1>1. CASE UNCHANGED <<runtime, job>>
  BY <1>1
<1>2. CASE StartRuntime
  <2>1. /\ runtime' \in {Nobody, runtime} /\ requests < MaxRequests /\ requests' = requests + 1
        /\ UNCHANGED <<stored, job, call, faults, doubtful>>
    BY <1>2, RestoreQueued
  <2> QED
    BY <2>1
<1>3. CASE StopRuntime
  BY <1>3 DEF StopRuntime
<1>4. CASE Take
  BY <1>4, Taken DEF Take
<1>5. CASE ListUsers
  BY <1>5, Listed
<1>6. CASE ListFails
  BY <1>6 DEF ListFails, Listing, Reject
<1>7. CASE RecordUser
  BY <1>7, UserRecorded
<1>8. CASE HandleDone
  <2>1. CASE job.kind = "remove" /\ call.op = "remove"
    BY <1>8, <2>1, DoneHandled
  <2>2. CASE job.kind # "remove" /\ call.op = "remove"
    BY <1>8, <2>2, DoneHandled
  <2>3. CASE call.op = "add"
    BY <1>8, <2>3, DoneHandled
  <2> QED
    BY <2>1, <2>2, <2>3, DoneHandled, <1>8
<1>9. CASE HandleError
  BY <1>9, ErrorHandled
<1>10. CASE FinishUpdate
  BY <1>10 DEF FinishUpdate, Applied, Reconciling, Resolve
<1>11. CASE FinishPartly
  BY <1>11 DEF FinishPartly, Applied, Reconciling, Resolve
<1>12. CASE FinishReconcile
  BY <1>12, <1>0 DEF ReconcileEffect, Applied, Reconciling, Resolve, Surplus
<1>13. CASE PruneUser
  BY <1>13 DEF PruneUser, Applied, Reconciling, Surplus, Send
<1>14. CASE PruneDone
  BY <1>14 DEF PruneDone
<1>15. CASE PruneFails
  BY <1>15 DEF PruneFails, Reject
<1>16. CASE Serve
  BY <1>16 DEF Serve
<1>17. CASE AgentCrash
  BY <1>17, <1>0 DEF CrashEffect, StopEffect, Unanswered, RowsGone
<1>18. CASE RuntimeRestart
  BY <1>18 DEF RuntimeRestart, Fault
<1>19. CASE HostReboot
  BY <1>19, <1>0 DEF RebootEffect, StopEffect, RowsGone
<1>20. CASE FinishFails
  BY <1>20, <1>0 DEF FailEffect, Applied, Reconciling, RowsGone
<1> QED
  BY <1>1, Requested, <1>2, <1>3, <1>4, <1>5, <1>6, <1>7, <1>8, <1>9, <1>10,
       <1>11, <1>12, <1>13, <1>14, <1>15, <1>16, <1>17, <1>18, <1>19, <1>20
  DEF Next, JobStep, CallForUser, Send, Expire, Unanswered, Bootstrap,
       RestoreTask, HostStartsRuntime, vars

LEMMA ProcessedKept == IInv /\ [Next]_vars => ProcessedSound'
<1> SUFFICES ASSUME IInv, [Next]_vars PROVE ProcessedSound'
  OBVIOUS
<1>0. /\ FinishReconcile => ReconcileEffect
      /\ FinishFails => FailEffect
      /\ AgentCrash => CrashEffect
      /\ HostReboot => RebootEffect
  BY Effects
<1> USE Sequences, NobodyKnown, EmptyRange DEF IInv, Typed, TypeOK, CallType,
     TaskType, JobType, Wanted, Known, Kinds, Idle, NoCall, Nobody, Current,
     agent, budgets, history, doubts, ProcessedSound, Processed, Busy,
     JobSound, CallSound, CallServed, ViewSound
<1>1. CASE UNCHANGED <<runtime, stored, job>>
  BY <1>1
<1>2. CASE StartRuntime
  <2>1. /\ runtime' \in {Nobody, runtime} /\ requests < MaxRequests /\ requests' = requests + 1
        /\ UNCHANGED <<stored, job, call, faults, doubtful>>
    BY <1>2, RestoreQueued
  <2> QED
    BY <2>1
<1>3. CASE StopRuntime
  BY <1>3 DEF StopRuntime
<1>4. CASE Take
  BY <1>4, Taken DEF Take
<1>5. CASE ListUsers
  BY <1>5, Listed
<1>6. CASE ListFails
  BY <1>6 DEF ListFails, Listing, Reject
<1>7. CASE RecordUser
  BY <1>7, UserRecorded
<1>8. CASE HandleDone
  <2>1. CASE job.kind = "remove" /\ call.op = "remove"
    BY <1>8, <2>1, DoneHandled
  <2>2. CASE job.kind # "remove" /\ call.op = "remove"
    BY <1>8, <2>2, DoneHandled
  <2>3. CASE call.op = "add"
    BY <1>8, <2>3, DoneHandled
  <2> QED
    BY <2>1, <2>2, <2>3, DoneHandled, <1>8
<1>9. CASE HandleError
  BY <1>9, ErrorHandled
<1>10. CASE FinishUpdate
  BY <1>10 DEF FinishUpdate, Applied, Reconciling, Resolve
<1>11. CASE FinishPartly
  BY <1>11 DEF FinishPartly, Applied, Reconciling, Resolve
<1>12. CASE FinishReconcile
  BY <1>12, <1>0 DEF ReconcileEffect, Applied, Reconciling, Resolve, Surplus
<1>13. CASE PruneUser
  BY <1>13 DEF PruneUser, Applied, Reconciling, Surplus, Send
<1>14. CASE PruneDone
  BY <1>14 DEF PruneDone
<1>15. CASE PruneFails
  BY <1>15 DEF PruneFails, Reject
<1>16. CASE Serve
  BY <1>16 DEF Serve
<1>17. CASE AgentCrash
  BY <1>17, <1>0 DEF CrashEffect, StopEffect, Unanswered, RowsGone
<1>18. CASE RuntimeRestart
  BY <1>18 DEF RuntimeRestart, Fault
<1>19. CASE HostReboot
  BY <1>19, <1>0 DEF RebootEffect, StopEffect, RowsGone
<1>20. CASE FinishFails
  BY <1>20, <1>0 DEF FailEffect, Applied, Reconciling, RowsGone
<1> QED
  BY <1>1, Requested, <1>2, <1>3, <1>4, <1>5, <1>6, <1>7, <1>8, <1>9, <1>10,
       <1>11, <1>12, <1>13, <1>14, <1>15, <1>16, <1>17, <1>18, <1>19, <1>20
  DEF Next, JobStep, CallForUser, Send, Expire, Unanswered, Bootstrap,
       RestoreTask, HostStartsRuntime, vars

LEMMA CredentialsKept == IInv /\ [Next]_vars => CredentialsMatch'
<1> SUFFICES ASSUME IInv, [Next]_vars PROVE CredentialsMatch'
  OBVIOUS
<1>0. /\ FinishReconcile => ReconcileEffect
      /\ FinishFails => FailEffect
      /\ AgentCrash => CrashEffect
      /\ HostReboot => RebootEffect
  BY Effects
<1> USE Sequences, NobodyKnown, EmptyRange DEF IInv, Typed, TypeOK, CallType,
     TaskType, JobType, Wanted, Known, Kinds, Idle, NoCall, Nobody, Current,
     agent, budgets, history, doubts, CredentialsMatch, CallSound, CallServed,
     JobSound, Busy
<1>1. CASE UNCHANGED <<runtime, stored, doubtful, call>>
  BY <1>1
<1>2. CASE StartRuntime
  <2>1. /\ runtime' \in {Nobody, runtime} /\ requests < MaxRequests /\ requests' = requests + 1
        /\ UNCHANGED <<stored, job, call, faults, doubtful>>
    BY <1>2, RestoreQueued
  <2> QED
    BY <2>1
<1>3. CASE StopRuntime
  BY <1>3 DEF StopRuntime
<1>4. CASE CallForUser
  BY <1>4 DEF CallForUser, Applying, Send, CredentialUnchanged
<1>5. CASE RecordUser
  BY <1>5, UserRecorded
<1>6. CASE HandleDone
  <2>1. CASE job.kind = "remove" /\ call.op = "remove"
    BY <1>6, <2>1, DoneHandled
  <2>2. CASE job.kind # "remove" /\ call.op = "remove"
    BY <1>6, <2>2, DoneHandled
  <2>3. CASE call.op = "add"
    BY <1>6, <2>3, DoneHandled
  <2> QED
    BY <2>1, <2>2, <2>3, DoneHandled, <1>6
<1>7. CASE HandleError
  BY <1>7, ErrorHandled
<1>8. CASE FinishReconcile
  BY <1>8, <1>0 DEF ReconcileEffect, Applied, Reconciling, Resolve, Surplus
<1>9. CASE PruneUser
  BY <1>9 DEF PruneUser, Applied, Reconciling, Surplus, Send
<1>10. CASE PruneDone
  BY <1>10 DEF PruneDone
<1>11. CASE PruneFails
  BY <1>11 DEF PruneFails, Reject
<1>12. CASE Serve
  BY <1>12 DEF Serve
<1>13. CASE Expire
  BY <1>13 DEF Expire, Unanswered
<1>14. CASE AgentCrash
  BY <1>14, <1>0 DEF CrashEffect, StopEffect, Unanswered, RowsGone
<1>15. CASE RuntimeRestart
  BY <1>15 DEF RuntimeRestart, Fault
<1>16. CASE HostReboot
  BY <1>16, <1>0 DEF RebootEffect, StopEffect, RowsGone
<1>17. CASE FinishFails
  BY <1>17, <1>0 DEF FailEffect, Applied, Reconciling, RowsGone
<1> QED
  BY <1>1, Requested, <1>2, <1>3, Listed, <1>4, <1>5, <1>6, <1>7, <1>8, <1>9,
       <1>10, <1>11, <1>12, <1>13, <1>14, <1>15, <1>16, <1>17
  DEF Next, JobStep, Applied, Listing, Take, ListFails, Reject, FinishUpdate, Resolve,
       FinishPartly, Bootstrap, RestoreTask, HostStartsRuntime, vars

LEMMA SeenKept == IInv /\ [Next]_vars => SeenHolds'
<1> SUFFICES ASSUME IInv, [Next]_vars PROVE SeenHolds'
  OBVIOUS
<1>0. /\ FinishReconcile => ReconcileEffect
      /\ FinishFails => FailEffect
      /\ AgentCrash => CrashEffect
      /\ HostReboot => RebootEffect
  BY Effects
<1> USE Sequences, NobodyKnown, EmptyRange DEF IInv, Typed, TypeOK, CallType,
     TaskType, JobType, Wanted, Known, Kinds, Idle, NoCall, Nobody, Current,
     agent, budgets, history, doubts, SeenHolds, Undisturbed, Busy, Processed,
     JobSound, CallSound, CallServed, Restoring, Waiting
<1>1. CASE UNCHANGED <<hostBooting, active, blind, up, queue, call, runtime, job>>
  BY <1>1
<1>2. CASE UserRequest
  <2>1. PICK task \in TaskType :
          /\ ~Restoring(task) /\ TaskSound(task) /\ revoked' = revoked \ Known(task.wanted)
          /\ Waiting' = Waiting \cup {task} /\ queue' \in Seq(TaskType)
    BY <1>2, Requested
  <2> QED
    BY <1>2, <2>1, Requested
<1>3. CASE StartRuntime
  <2>1. PICK task \in TaskType :
          /\ Restoring(task) /\ TaskSound(task) /\ task.wanted = Nobody
          /\ Waiting' = Waiting \cup {task} /\ queue' \in Seq(TaskType)
    BY <1>3, RestoreQueued
  <2> QED
    BY <1>3, <2>1, RestoreQueued
<1>4. CASE StopRuntime
  BY <1>4 DEF StopRuntime
<1>5. CASE Take
  BY <1>5, Taken DEF Take
<1>6. CASE ListUsers
  BY <1>6, Listed
<1>7. CASE ListFails
  BY <1>7 DEF ListFails, Listing, Reject
<1>8. CASE CallForUser
  BY <1>8 DEF CallForUser, Applying, Send, CredentialUnchanged
<1>9. CASE RecordUser
  BY <1>9, UserRecorded
<1>10. CASE HandleDone
  <2>1. CASE job.kind = "remove" /\ call.op = "remove"
    BY <1>10, <2>1, DoneHandled
  <2>2. CASE job.kind # "remove" /\ call.op = "remove"
    BY <1>10, <2>2, DoneHandled
  <2>3. CASE call.op = "add"
    BY <1>10, <2>3, DoneHandled
  <2> QED
    BY <2>1, <2>2, <2>3, DoneHandled, <1>10
<1>11. CASE HandleError
  <2>1. call' = NoCall /\ UNCHANGED <<hostBooting, active, blind>>
    BY <1>11, ErrorHandled
  <2>2. job'.failed = job.failed \cup {Current}
    BY <1>11, ErrorHandled
  <2> QED
    BY <2>1, <2>2
<1>12. CASE FinishUpdate
  BY <1>12 DEF FinishUpdate, Applied, Reconciling, Resolve
<1>13. CASE FinishPartly
  BY <1>13 DEF FinishPartly, Applied, Reconciling, Resolve
<1>14. CASE FinishReconcile
  BY <1>14, <1>0 DEF ReconcileEffect, Applied, Reconciling, Resolve, Surplus
<1>15. CASE PruneUser
  BY <1>15 DEF PruneUser, Applied, Reconciling, Surplus, Send
<1>16. CASE PruneDone
  BY <1>16 DEF PruneDone
<1>17. CASE PruneFails
  BY <1>17 DEF PruneFails, Reject
<1>18. CASE Serve
  BY <1>18 DEF Serve
<1>19. CASE Expire
  BY <1>19 DEF Expire, Unanswered
<1>20. CASE AgentCrash
  BY <1>20, <1>0 DEF CrashEffect, StopEffect, Unanswered, RowsGone
<1>21. CASE Bootstrap
  <2>1. PICK task \in TaskType :
          /\ Restoring(task) /\ TaskSound(task) /\ task.wanted = Nobody
          /\ Waiting' = {task} /\ queue' \in Seq(TaskType)
    BY <1>21, BootQueued
  <2> QED
    BY <1>21, <2>1, BootQueued DEF Bootstrap
<1>22. CASE RuntimeRestart
  BY <1>22 DEF RuntimeRestart, Fault
<1>23. CASE HostReboot
  BY <1>23, <1>0 DEF RebootEffect, StopEffect, RowsGone
<1>24. CASE HostStartsRuntime
  BY <1>24 DEF HostStartsRuntime
<1>25. CASE FinishFails
  BY <1>25, <1>0 DEF FailEffect, Applied, Reconciling, RowsGone
<1> QED
  BY <1>1, <1>2, <1>3, <1>4, <1>5, <1>6, <1>7, <1>8, <1>9, <1>10, <1>11,
       <1>12, <1>13, <1>14, <1>15, <1>16, <1>17, <1>18, <1>19, <1>20, <1>21,
       <1>22, <1>23, <1>24, <1>25
  DEF Next, JobStep, vars

LEMMA AgreementKept == IInv /\ [Next]_vars => UsersAgree'
<1> SUFFICES ASSUME IInv, [Next]_vars PROVE UsersAgree'
  OBVIOUS
<1>0. /\ FinishReconcile => ReconcileEffect
      /\ FinishFails => FailEffect
      /\ AgentCrash => CrashEffect
      /\ HostReboot => RebootEffect
  BY Effects
<1> USE Sequences, NobodyKnown, EmptyRange DEF IInv, Typed, TypeOK, CallType,
     TaskType, JobType, Wanted, Known, Kinds, Idle, NoCall, Nobody, Current,
     agent, budgets, history, doubts, UsersAgree, Clean, Undisturbed, Agrees,
     SeenHolds, Busy, Processed, JobSound, CallSound, CallServed,
     ProcessedSound, ViewSound, Restoring, Waiting
<1>1. CASE UNCHANGED <<up, active, blind, queue, requiresSync, told, runtime, stored, job>>
  BY <1>1
<1>2. CASE UserRequest
  <2>1. PICK task \in TaskType :
          /\ ~Restoring(task) /\ TaskSound(task) /\ revoked' = revoked \ Known(task.wanted)
          /\ Waiting' = Waiting \cup {task} /\ queue' \in Seq(TaskType)
    BY <1>2, Requested
  <2> QED
    BY <1>2, <2>1, Requested
<1>3. CASE StartRuntime
  <2>1. PICK task \in TaskType :
          /\ Restoring(task) /\ TaskSound(task) /\ task.wanted = Nobody
          /\ Waiting' = Waiting \cup {task} /\ queue' \in Seq(TaskType)
    BY <1>3, RestoreQueued
  <2> QED
    BY <1>3, <2>1, RestoreQueued
<1>4. CASE StopRuntime
  BY <1>4 DEF StopRuntime
<1>5. CASE Take
  BY <1>5, Taken DEF Take
<1>6. CASE ListUsers
  BY <1>6, Listed
<1>7. CASE ListFails
  BY <1>7 DEF ListFails, Listing, Reject
<1>8. CASE RecordUser
  BY <1>8, UserRecorded
<1>9. CASE HandleDone
  <2>1. CASE job.kind = "remove" /\ call.op = "remove"
    <3>1. /\ job'.phase = "apply" /\ job'.failed = job.failed /\ job'.kind = "remove"
          /\ Current \in Users /\ job.phase = "apply"
          /\ stored' = [stored EXCEPT ![Current] = NoCredential]
          /\ runtime[Current] = NoCredential
          /\ UNCHANGED <<up, active, blind, queue, requiresSync, told, runtime>>
      BY <1>9, <2>1, DoneHandled
    <3>2. Clean' => Clean
      BY <3>1
    <3>3. stored'[Current] = NoCredential
          /\ \A user \in Users : user # Current => stored'[user] = stored[user]
      BY <3>1
    <3> QED
      BY <2>1, <3>1, <3>2, <3>3
  <2>2. CASE job.kind # "remove" /\ call.op = "remove"
    BY <1>9, <2>2, DoneHandled
  <2>3. CASE call.op = "add"
    BY <1>9, <2>3, DoneHandled
  <2> QED
    BY <2>1, <2>2, <2>3, DoneHandled, <1>9
<1>10. CASE HandleError
  BY <1>10, ErrorHandled
<1>11. CASE FinishUpdate
  BY <1>11 DEF FinishUpdate, Applied, Reconciling, Resolve
<1>12. CASE FinishPartly
  BY <1>12 DEF FinishPartly, Applied, Reconciling, Resolve
<1>13. CASE FinishReconcile
  <2>1. /\ job' = Idle /\ job.phase = "apply" /\ job.kind # "remove" /\ job.failed = {}
        /\ job.view \subseteq Range(job.order) /\ Processed = Range(job.order) /\ call = NoCall
        /\ stored' = [user \in Users |-> IF user \in Range(job.order)
                                         THEN stored[user] ELSE NoCredential]
        /\ UNCHANGED <<up, active, blind, queue, runtime>>
    BY <1>13, <1>0 DEF ReconcileEffect, Applied, Reconciling, Resolve, Surplus
  <2>2. \A user \in Range(job.order) : stored[user] # NoCredential
    BY <2>1
  <2>3. Known(stored') = Range(job.order)
    BY <2>1, <2>2
  <2>4. Undisturbed => Known(runtime) = Range(job.order)
    BY <2>1
  <2>5. Clean' => \A user \in Users : Agrees(user)'
    BY <2>1, <2>3, <2>4
  <2> QED
    BY <2>1, <2>5
<1>14. CASE PruneUser
  BY <1>14 DEF PruneUser, Applied, Reconciling, Surplus, Send
<1>15. CASE PruneDone
  BY <1>15 DEF PruneDone
<1>16. CASE PruneFails
  BY <1>16 DEF PruneFails, Reject
<1>17. CASE Serve
  BY <1>17 DEF Serve
<1>18. CASE AgentCrash
  BY <1>18, <1>0 DEF CrashEffect, StopEffect, Unanswered, RowsGone
<1>19. CASE Bootstrap
  <2>1. PICK task \in TaskType :
          /\ Restoring(task) /\ TaskSound(task) /\ task.wanted = Nobody
          /\ Waiting' = {task} /\ queue' \in Seq(TaskType)
    BY <1>19, BootQueued
  <2> QED
    BY <1>19, <2>1, BootQueued DEF Bootstrap
<1>20. CASE RuntimeRestart
  BY <1>20 DEF RuntimeRestart, Fault
<1>21. CASE HostReboot
  BY <1>21, <1>0 DEF RebootEffect, StopEffect, RowsGone
<1>22. CASE HostStartsRuntime
  BY <1>22 DEF HostStartsRuntime
<1>23. CASE FinishFails
  BY <1>23, <1>0 DEF FailEffect, Applied, Reconciling, RowsGone
<1> QED
  BY <1>1, <1>2, <1>3, <1>4, <1>5, <1>6, <1>7, <1>8, <1>9, <1>10, <1>11,
       <1>12, <1>13, <1>14, <1>15, <1>16, <1>17, <1>18, <1>19, <1>20, <1>21,
       <1>22, <1>23
  DEF Next, JobStep, CallForUser, Send, Expire, Unanswered, vars

-----------------------------------------------------------------------------

LEMMA InitEstablishes == Init => IInv
<1> SUFFICES ASSUME Init PROVE IInv
  OBVIOUS
<1> USE NobodyKnown, EmptyRange, NoOrder, BoundsAssumption DEF Init
<1>1. Typed
  <2>1. Idle \in JobType
    BY DEF Idle, JobType, Kinds
  <2>2. queue \in Seq(TaskType) /\ \A i \in DOMAIN queue : queue[i] \in TaskType
    OBVIOUS
  <2>3. /\ up \in BOOLEAN /\ active \in BOOLEAN /\ hostBooting \in BOOLEAN
        /\ requiresSync \in BOOLEAN /\ told \in BOOLEAN /\ blind \in BOOLEAN
        /\ revoked \in SUBSET Users /\ doubtful \in SUBSET Users
        /\ runtime \in Wanted /\ stored \in Wanted
    OBVIOUS
  <2>4. faults \in 0 .. MaxFaults /\ requests \in 0 .. MaxRequests
    OBVIOUS
  <2> QED
    BY <2>1, <2>2, <2>3, <2>4 DEF Typed, TypeOK
<1>2. Waiting = {}
  BY DEF Waiting
<1>3. JobSound /\ CallSound /\ CallServed /\ ViewSound /\ ProcessedSound
  BY DEF JobSound, CallSound, CallServed, ViewSound, ProcessedSound, Busy, Idle, NoCall,
         Restoring
<1>4. NotRevived /\ CredentialsMatch
  BY <1>2 DEF NotRevived, RevokedNotServed, CredentialsMatch, Idle
<1>5. SeenHolds /\ UsersAgree
  BY DEF SeenHolds, UsersAgree, Clean, Busy, Idle, NoCall
<1> QED
  BY <1>1, <1>2, <1>3, <1>4, <1>5 DEF IInv

LEMMA TypesKept == IInv /\ [Next]_vars => Typed'
<1> SUFFICES ASSUME IInv, [Next]_vars PROVE Typed'
  OBVIOUS
<1>1. \A i \in DOMAIN queue' : queue'[i] \in TaskType
  BY QueueTyped
<1> QED
  BY <1>1, TablesTyped, JobTyped, QueueTyped, FlagsTyped, BudgetsTyped, DeadTyped
  DEF Typed, TypeOK, TablesType, FlagsType, BudgetsType

LEMMA StepPreserves == IInv /\ [Next]_vars => IInv'
BY TypesKept, TasksKept, JobKept, CallKept, ServedKept, RevokedKept, ViewKept,
   ProcessedKept, CredentialsKept, SeenKept, AgreementKept
DEF IInv

\* The invariant holds in every behaviour, whatever fails or restarts.
THEOREM Invariance == Spec => []IInv
BY InitEstablishes, StepPreserves, PTL DEF Spec

-----------------------------------------------------------------------------
(***************************************************************************)
(* What follows.                                                           *)
(***************************************************************************)

\* Every variable keeps to its type; a dead agent has no queue and no call.
THEOREM TypeCorrect == Spec => []TypeOK
<1>1. IInv => TypeOK
  BY DEF IInv, Typed
<1> QED
  BY Invariance, <1>1, PTL

\* A user whose removal was confirmed has neither access nor a row until it
\* is requested again, through any failures, crashes, restarts and restores
\* (xray-assignments.service.ts: remove, sync, reconcileRuntime, restore).
THEOREM RevokedStayOut == Spec => []RevokedNotServed
<1>1. IInv => RevokedNotServed
  BY DEF IInv, NotRevived
<1> QED
  BY Invariance, <1>1, PTL

\* With the flag off, nothing in progress and no failure unanswered, Xray
\* serves the users of the table and no other, unless it restarted unseen.
THEOREM FlagIsHonest == Spec => []UnflaggedMeansServed
<1>1. IInv => UnflaggedMeansServed
  <2> SUFFICES ASSUME IInv, Settled, ~blind PROVE Known(runtime) = Known(stored)
    BY DEF UnflaggedMeansServed
  <2>1. Waiting = {} /\ job.phase = "idle"
    BY EmptyRange DEF Settled, Quiet, Waiting, Idle
  <2>2. \A user \in Users : Agrees(user)
    BY <2>1 DEF IInv, UsersAgree, Clean, Undisturbed, Settled
  <2> QED
    BY <2>2 DEF Agrees, Known
<1> QED
  BY Invariance, <1>1, PTL

\* ... and each of them with the credential of the table, unless the answer
\* to the call that added the user was lost.
THEOREM CredentialsAreCurrent == Spec => []UnflaggedMeansCurrent
<1>1. IInv => UnflaggedMeansCurrent
  BY DEF IInv, CredentialsMatch, UnflaggedMeansCurrent, Settled, Quiet, Idle, NoCall,
         JobSound, CallSound, Busy
<1> QED
  BY Invariance, <1>1, PTL

\* A sync that ends without an error leaves the rows that were asked for, and
\* nobody else has access.
THEOREM SyncIsExact == Spec => SyncInstallsDesired
<1>1. IInv /\ [Next]_vars => [SyncExact]_vars
  <2> SUFFICES ASSUME IInv, Next, job.kind = "sync", job' = Idle, up', ~requiresSync', ~told'
               PROVE  stored' = job.wanted /\ Known(runtime') \subseteq Range(job.order)
    BY DEF SyncExact
  <2>1. FinishReconcile
    <3>1. job # Idle /\ Idle.phase = "idle" /\ Idle.kind = "none" /\ job \in JobType
      BY Sequences DEF Idle, IInv
    <3>2. ~UserRequest /\ ~StartRuntime /\ ~ListUsers /\ ~HandleDone /\ ~HandleError
      BY <3>1, Requested, RestoreQueued, Listed, DoneHandled, ErrorHandled
      DEF IInv, Restoring
    <3>3. ~StopRuntime /\ ~Take /\ ~ListFails /\ ~CallForUser /\ ~RecordUser /\ ~PruneUser
          /\ ~PruneDone
      BY <3>1
      DEF StopRuntime, Take, ListFails, Reject, CallForUser, RecordUser, PruneUser,
          PruneDone, agent, Advance, Applying, JobType
    <3>4. ~FinishUpdate /\ ~FinishPartly /\ ~PruneFails /\ ~FinishFails
      BY DEF FinishUpdate, Reconciling, FinishPartly, PruneFails, FinishFails, Reject
    <3>5. ~Serve /\ ~Expire /\ ~AgentCrash /\ ~Bootstrap /\ ~RuntimeRestart /\ ~HostReboot
          /\ ~HostStartsRuntime
      BY <3>1
      DEF Serve, Expire, AgentCrash, AgentStops, Bootstrap, RuntimeRestart, HostReboot,
          HostStartsRuntime, agent
    <3> QED
      BY <3>2, <3>3, <3>4, <3>5 DEF Next, JobStep
  <2>2. /\ job.phase = "apply" /\ job.todo = <<>> /\ job.failed = {} /\ runtime' = runtime
        /\ job.view \subseteq Range(job.order)
        /\ stored' = [user \in Users |-> IF user \in Range(job.order)
                                         THEN stored[user] ELSE NoCredential]
    BY <2>1, Reconciles DEF ReconcileEffect, Applied, Surplus
  <2>3. /\ Known(job.wanted) = Range(job.order) /\ job.wanted \in Wanted
        /\ \A user \in Range(job.order) : stored[user] = job.wanted[user]
        /\ Known(runtime) \subseteq Range(job.order)
    BY <2>2, Sequences
    DEF IInv, JobSound, Busy, JobType, ProcessedSound, Processed, ViewSound
  <2>4. stored' = job.wanted
    BY <2>2, <2>3 DEF Known, Wanted
  <2> QED
    BY <2>2, <2>3, <2>4
<1> QED
  BY Invariance, <1>1, PTL DEF Spec, SyncInstallsDesired

\* The table never loses track of a user that has access (the row is deleted
\* after Xray confirmed, or did not list, the user).
THEOREM NoForgottenAccess == Spec => RowOutlivesAccess
<1>1. IInv /\ [Next]_vars => [RowKept]_vars
  <2> SUFFICES ASSUME IInv, Next, NEW user \in Users,
                      stored[user] # NoCredential, stored'[user] = NoCredential
               PROVE  runtime[user] = NoCredential
    BY DEF RowKept
  <2>1. CASE RecordUser
    <3>1. /\ job.phase = "apply" /\ job.todo # <<>> /\ user = Current
          /\ job.kind = "remove" => Current \notin job.view
          /\ job.kind # "remove" => job.wanted[Current] = NoCredential
      BY <2>1, Sequences DEF RecordUser, Applying, IInv, Typed, TypeOK, Wanted
    <3>2. job.kind = "remove"
      BY <3>1, Sequences DEF IInv, JobSound, Busy, Known
    <3> QED
      BY <3>1, <3>2 DEF IInv, ViewSound, Busy, Known
  <2>2. CASE HandleDone
    BY <2>2, DoneHandled, NoCredentialAssumption DEF IInv, Typed, TypeOK, Wanted
  <2>3. CASE FinishReconcile
    <3>1. /\ job.phase = "apply" /\ job.view \subseteq Range(job.order)
          /\ user \notin Range(job.order) /\ job.kind # "remove"
      BY <2>3, Reconciles DEF ReconcileEffect, Applied, Reconciling, Surplus
    <3> QED
      BY <3>1 DEF IInv, ViewSound, Busy, Known
  <2>4. CASE FinishFails \/ AgentCrash \/ HostReboot
    BY <2>4, Effects DEF FailEffect, CrashEffect, RebootEffect, StopEffect, RowsGone
  <2>5. CASE UNCHANGED stored
    BY <2>5
  <2> QED
    BY <2>1, <2>2, <2>3, <2>4, <2>5, Requested, RestoreQueued, Listed, ErrorHandled
    DEF Next, JobStep, IInv, StopRuntime, Take, ListFails, CallForUser, FinishUpdate,
        FinishPartly, PruneUser, PruneDone, PruneFails, Serve, Expire,
        Bootstrap, RuntimeRestart, HostStartsRuntime, agent
<1> QED
  BY Invariance, <1>1, PTL DEF Spec, RowOutlivesAccess

\* A full sync takes away only users it leaves out or whose credential
\* changed, so the others keep what Xray counts for them (ensureUser).
THEOREM SyncKeepsUnchanged == Spec => UnchangedKeepsCounters
<1>1. IInv /\ [Next]_vars => [CountersKept]_vars
  <2> SUFFICES ASSUME IInv, Next, NEW user \in Users, job.kind = "sync",
                      call.at = "sent", call'.at = "done",
                      runtime[user] # NoCredential, runtime'[user] = NoCredential
               PROVE  stored[user] # job.wanted[user] \/ user \notin Range(job.order)
    BY DEF CountersKept
  <2>1. call # NoCall /\ NoCall.at = "none"
    BY DEF NoCall
  <2>2. Serve
    <3>1. ~UserRequest /\ ~StartRuntime /\ ~ListUsers /\ ~HandleDone /\ ~HandleError
      BY <2>1, Requested, RestoreQueued, Listed, DoneHandled, ErrorHandled DEF IInv
    <3>2. ~StopRuntime /\ ~Take /\ ~ListFails /\ ~CallForUser /\ ~RecordUser /\ ~PruneUser
          /\ ~PruneDone /\ ~FinishUpdate /\ ~FinishPartly /\ ~FinishReconcile /\ ~FinishFails
          /\ ~PruneFails
      BY <2>1
      DEF StopRuntime, Take, ListFails, CallForUser, RecordUser, PruneUser, Applying, Applied,
          PruneDone, FinishUpdate, FinishPartly, FinishReconcile, FinishFails, Reconciled,
          PruneFails, Reject
    <3>3. ~Expire /\ ~AgentCrash /\ ~Bootstrap /\ ~RuntimeRestart /\ ~HostReboot
          /\ ~HostStartsRuntime
      BY <2>1, CallTyped
      DEF Expire, AgentCrash, AgentStops, Bootstrap, RuntimeRestart, HostReboot,
          HostStartsRuntime, agent, IInv, CallType
    <3> QED
      BY <3>1, <3>2, <3>3 DEF Next, JobStep
  <2>3. call.op = "remove" /\ user = call.user
    BY <2>1, <2>2, CallTyped DEF Serve, IInv, Typed, TypeOK, Wanted, CallType
  <2> QED
    BY <2>1, <2>3 DEF IInv, CallSound, CallServed, Busy
<1> QED
  BY Invariance, <1>1, PTL DEF Spec, UnchangedKeepsCounters

-----------------------------------------------------------------------------
(***************************************************************************)
(* The chain never stalls.                                                 *)
(***************************************************************************)

\* The users of a table can be listed.
LEMMA UsersListed ==
  ASSUME NEW some \in SUBSET Users
  PROVE  ListsOf(some) # {}
<1> DEFINE n == Cardinality(some)
<1>1. IsFiniteSet(some)
  BY UsersAssumption, FS_Subset
<1>2. n \in Nat /\ ExistsBijection(1 .. n, some)
  BY <1>1, FS_CardinalityType
<1> HIDE DEF n
<1>3. PICK order : order \in Bijection(1 .. n, some)
  BY <1>2 DEF ExistsBijection
<1>4. /\ order \in [1 .. n -> some] /\ DOMAIN order = 1 .. n
      /\ \A user \in some : \E i \in 1 .. n : order[i] = user
      /\ IsInjective(order)
  BY <1>3 DEF Bijection, Injection, Surjection, IsInjective
<1>5. order \in Orders(some)
  BY <1>2, <1>4 DEF Orders, n
<1>6. Range(order) = some
  BY <1>4 DEF Range
<1> QED
  BY <1>5, <1>6 DEF ListsOf

LEMMA StepAhead ==
  ASSUME IInv
  PROVE  AlwaysAStep
<1> SUFFICES ASSUME up, ~Quiet, call.at # "sent"
             PROVE  HasStep
  BY DEF AlwaysAStep
<1>1. /\ job \in JobType /\ call \in CallType \cup {NoCall} /\ stored \in Wanted
      /\ queue \in Seq(TaskType) /\ JobSound /\ CallSound
  BY DEF IInv, Typed, TypeOK
<1>2. CASE job = Idle
  <2>1. queue # <<>>
    BY <1>2 DEF Quiet
  <2>2. Head(queue) \in TaskType
    BY <1>1, <2>1, ConsRange
  <2> QED
    BY <1>2, <2>1, <2>2 DEF TaskType, MayTake, HasStep
<1>3. CASE job.phase = "list"
  <2>1. job.kind \in Kinds
    BY <1>1, <1>3 DEF JobSound, JobType
  <2>2. ListsOf(Known(stored)) # {}
    BY UsersListed DEF Known
  <2> QED
    BY <1>3, <2>1, <2>2 DEF Kinds, Listing, MayList, HasStep
<1>4. CASE job.phase = "apply"
  <2>1. CASE call = NoCall
    BY <1>4, <2>1 DEF Applying, Applied, MayApply, HasStep
  <2>2. CASE call \in CallType
    BY <1>4, <2>2 DEF CallType, Answered, MayHandle, HasStep
  <2> QED
    BY <1>1, <2>1, <2>2
<1>5. CASE job.phase = "prune"
  <2>1. call \in CallType
    BY <1>1, <1>5 DEF JobSound
  <2> QED
    BY <1>5, <2>1 DEF CallType, MayHandle, HasStep
<1> QED
  BY <1>1, <1>2, <1>3, <1>4, <1>5 DEF JobSound, JobType

\* While a request waits or a handler runs in a living agent, the handler has
\* a step to take or Xray still has to answer: no rejected handler, lost
\* answer or restart leaves the chain of promises stuck
\* (xray-assignments.service.ts, exclusive).
THEOREM ChainNeverStalls == Spec => []AlwaysAStep
BY Invariance, StepAhead, PTL


-----------------------------------------------------------------------------
(***************************************************************************)
(* The chain drains: a bound on the steps ahead.                           *)
(***************************************************************************)

Size == Cardinality(Users)

\* How far a call is from being handled; a call not sent yet is the furthest.
CallAhead(c) ==
  CASE c.at = "sent" -> 2 [] c.at = "done" -> 1 [] c.at = "error" -> 0 [] OTHER -> 3

\* A user that is served may take a removal besides its addition.
Replacing(j) == j.todo # <<>> /\ Head(j.todo) \in j.view

Removal(j) == IF Replacing(j) THEN 4 ELSE 0

SurplusOf(j) == j.view \ Range(j.order)

Loop(todo, removal, surplus) == 8 * todo + removal + 3 * surplus

LoopAhead(j) == Loop(Len(j.todo), Removal(j), Cardinality(SurplusOf(j)))

JobAhead(j, c) ==
  IF j.phase = "list" THEN 11 * Size + 9
  ELSE IF j.phase \in {"apply", "prune"} THEN LoopAhead(j) + CallAhead(c) + 1
  ELSE 0

Ahead == Len(queue) * (11 * Size + 10) + JobAhead(job, call)

\* A user that is being removed is one the handler saw.
CallSeen == call # NoCall /\ call.op = "remove" => call.user \in job.view

\* Neither a step of a handler nor an answer leaves as much ahead.
StepsDescend == [][JobStep \/ Serve \/ Expire => Ahead' < Ahead]_vars

LEMMA LoopBounds ==
  ASSUME NEW size \in Nat, NEW todo \in 0 .. size, NEW removal \in 0 .. 4,
         NEW surplus \in 0 .. size
  PROVE  Loop(todo, removal, surplus) \in 0 .. 11 * size + 4
BY DEF Loop

LEMMA JobBounds ==
  ASSUME NEW j \in JobType
  PROVE  /\ Size \in Nat
         /\ Len(j.todo) \in 0 .. Size
         /\ Cardinality(SurplusOf(j)) \in 0 .. Size /\ IsFiniteSet(SurplusOf(j))
         /\ LoopAhead(j) \in 0 .. 11 * Size + 4
<1>1. Size \in Nat
  BY UsersAssumption, FS_CardinalityType DEF Size
<1>2. Len(j.todo) \in 0 .. Size
  <2>1. j.todo \in Orders(Users)
    BY DEF JobType
  <2>2. PICK n \in 0 .. Size : j.todo \in [1 .. n -> Users]
    BY <2>1 DEF Orders, Size
  <2>3. n \in Nat
    BY <1>1
  <2> QED
    BY <2>2, <2>3
<1>3. /\ Cardinality(SurplusOf(j)) \in 0 .. Size /\ IsFiniteSet(SurplusOf(j))
  <2>1. SurplusOf(j) \in SUBSET Users
    BY DEF SurplusOf, JobType
  <2>2. IsFiniteSet(SurplusOf(j)) /\ Cardinality(SurplusOf(j)) <= Size
    BY <2>1, UsersAssumption, FS_Subset DEF Size
  <2>3. Cardinality(SurplusOf(j)) \in Nat
    BY <2>2, FS_CardinalityType
  <2> QED
    BY <1>1, <2>2, <2>3
<1>4. LoopAhead(j) \in 0 .. 11 * Size + 4
  <2>1. Removal(j) \in 0 .. 4
    BY DEF Removal
  <2> QED
    BY <1>1, <1>2, <1>3, <2>1, LoopBounds DEF LoopAhead
<1> QED
  BY <1>1, <1>2, <1>3, <1>4

LEMMA CallBounds ==
  ASSUME NEW c
  PROVE  CallAhead(c) \in 0 .. 3
BY DEF CallAhead

LEMMA AheadBounds ==
  ASSUME NEW j \in JobType, NEW c
  PROVE  JobAhead(j, c) \in 0 .. 11 * Size + 9
<1> PICK size \in Nat : size = Size
  BY JobBounds
<1> PICK loop \in 0 .. 11 * size + 4 : loop = LoopAhead(j)
  BY JobBounds
<1> PICK n \in 0 .. 3 : n = CallAhead(c)
  BY CallBounds
<1>1. JobAhead(j, c) \in {11 * size + 9, loop + n + 1, 0}
  BY DEF JobAhead
<1> QED
  BY <1>1

\* A step that leaves the queue alone is compared by its handler.
LEMMA SameQueue ==
  ASSUME Typed, job' \in JobType, UNCHANGED queue,
         JobAhead(job', call') < JobAhead(job, call)
  PROVE  Ahead' < Ahead
<1>1. Len(queue) \in Nat /\ job \in JobType
  BY DEF Typed, TypeOK
<1>2. Size \in Nat
  BY <1>1, JobBounds
<1> PICK weight \in Int : weight = Len(queue) * (11 * Size + 10)
  BY <1>1, <1>2
<1>3. Ahead = weight + JobAhead(job, call)
  BY DEF Ahead
<1>4. Ahead' = weight + JobAhead(job', call')
  BY DEF Ahead, JobAhead, LoopAhead, Replacing, SurplusOf, CallAhead, Size
<1>5. JobAhead(job, call) \in Int /\ JobAhead(job', call') \in Int
  BY <1>1, <1>2, AheadBounds
<1> QED
  BY <1>3, <1>4, <1>5

LEMMA Weights ==
  ASSUME NEW m \in Nat, NEW n \in Nat, NEW before \in 0 .. 4, NEW after \in 0 .. 4,
         NEW more \in Nat, NEW less \in Nat
  PROVE  /\ n = m - 1 /\ less = more => Loop(n, after, less) <= Loop(m, before, more) - 4
         /\ n = m /\ less <= more /\ after <= before =>
              /\ Loop(n, after, less) <= Loop(m, before, more)
              /\ after = before - 4 => Loop(n, after, less) <= Loop(m, before, more) - 4
              /\ less = more - 1 => Loop(n, after, less) <= Loop(m, before, more) - 3
BY DEF Loop

\* The loop is done with the user it is at.
LEMMA NextUser ==
  ASSUME NEW j \in JobType, NEW i \in JobType, j.todo # <<>>, i.todo = Tail(j.todo),
         i.order = j.order, SurplusOf(i) = SurplusOf(j)
  PROVE  LoopAhead(i) <= LoopAhead(j) - 4
<1>1. j.todo \in Seq(Users)
  BY OrderTypes DEF JobType
<1> PICK m \in Nat, n \in Nat : m = Len(j.todo) /\ n = Len(i.todo) /\ n = m - 1
  BY <1>1
<1> PICK surplus \in Nat : surplus = Cardinality(SurplusOf(j))
  <2>1. Size \in Nat /\ Cardinality(SurplusOf(j)) \in 0 .. Size
    BY JobBounds
  <2> QED
    BY <2>1
<1> PICK before \in 0 .. 4, after \in 0 .. 4 : before = Removal(j) /\ after = Removal(i)
  BY DEF Removal
<1>2. LoopAhead(j) = Loop(m, before, surplus) /\ LoopAhead(i) = Loop(n, after, surplus)
  BY DEF LoopAhead
<1>3. Loop(n, after, surplus) <= Loop(m, before, surplus) - 4
  BY Weights
<1> QED
  BY <1>2, <1>3

\* A user is no longer served.
LEMMA UserGone ==
  ASSUME NEW j \in JobType, NEW i \in JobType, NEW user \in j.view,
         i.todo = j.todo, i.order = j.order, i.view = j.view \ {user}
  PROVE  /\ LoopAhead(i) <= LoopAhead(j)
         /\ j.todo # <<>> /\ user = Head(j.todo) => LoopAhead(i) <= LoopAhead(j) - 4
         /\ user \notin Range(j.order) => LoopAhead(i) <= LoopAhead(j) - 3
<1>1. SurplusOf(i) = SurplusOf(j) \ {user}
  BY DEF SurplusOf
<1>2. IsFiniteSet(SurplusOf(j))
  BY JobBounds
<1>3. Cardinality(SurplusOf(i)) =
        IF user \in SurplusOf(j) THEN Cardinality(SurplusOf(j)) - 1
        ELSE Cardinality(SurplusOf(j))
  BY <1>1, <1>2, FS_RemoveElement
<1> PICK more \in Nat, less \in Nat :
         more = Cardinality(SurplusOf(j)) /\ less = Cardinality(SurplusOf(i))
  BY JobBounds
<1> PICK n \in Nat : n = Len(j.todo) /\ n = Len(i.todo)
  BY JobBounds
<1>4. /\ less <= more
      /\ user \notin Range(j.order) => less = more - 1
  BY <1>3 DEF SurplusOf
<1>5. /\ Replacing(i) => Replacing(j)
      /\ j.todo # <<>> /\ user = Head(j.todo) => Replacing(j) /\ ~Replacing(i)
  BY DEF Replacing
<1> PICK before \in 0 .. 4, after \in 0 .. 4 : before = Removal(j) /\ after = Removal(i)
  BY DEF Removal
<1>6. /\ after <= before
      /\ j.todo # <<>> /\ user = Head(j.todo) => after = before - 4
  BY <1>5 DEF Removal
<1>7. LoopAhead(i) = Loop(n, after, less) /\ LoopAhead(j) = Loop(n, before, more)
  BY DEF LoopAhead
<1>8. /\ Loop(n, after, less) <= Loop(n, before, more)
      /\ after = before - 4 => Loop(n, after, less) <= Loop(n, before, more) - 4
      /\ less = more - 1 => Loop(n, after, less) <= Loop(n, before, more) - 3
  BY <1>4, <1>6, Weights
<1> QED
  BY <1>4, <1>6, <1>7, <1>8

LEMMA CallSeenKept == IInv /\ CallSeen /\ [Next]_vars => CallSeen'
<1> SUFFICES ASSUME IInv, CallSeen, [Next]_vars PROVE CallSeen'
  OBVIOUS
<1> USE DEF NoCall, CallSeen
<1>0. Typed /\ job \in JobType /\ (call # NoCall => Busy)
      /\ (job = Idle => ~Busy) /\ (job.phase = "list" => ~Busy)
  BY Sequences DEF IInv, CallSound, Busy, Idle
<1>1. CASE UNCHANGED <<call, job>>
  BY <1>1
<1>2. CASE Take
  BY <1>0, <1>2 DEF Take
<1>3. CASE ListUsers
  BY <1>0, <1>3, Listed DEF Idle
<1>4. CASE CallForUser
  BY <1>4 DEF CallForUser, Applying, Send, agent
<1>5. CASE RecordUser
  BY <1>5, UserRecorded
<1>6. CASE PruneUser
  <2>1. PICK user \in Surplus : Send("remove", user, NoCredential)
    BY <1>6 DEF PruneUser
  <2>2. job'.view = job.view
    BY <1>0, <1>6 DEF PruneUser, JobType
  <2> QED
    BY <2>1, <2>2 DEF Surplus, Send
<1>7. CASE UNCHANGED job /\ \E at \in {"done", "error"} : call' = [call EXCEPT !.at = at]
                         /\ call # NoCall
  BY <1>0, <1>7, CallTyped DEF CallType
<1>8. CASE call' = NoCall
  BY <1>8
<1>9. CASE Serve \/ Expire
  BY <1>7, <1>9 DEF Serve, Expire, agent
<1>10. CASE HandleDone \/ HandleError
  BY <1>8, <1>10, DoneHandled, ErrorHandled
<1>11. CASE UserRequest \/ StartRuntime
  BY <1>1, <1>11, Requested, RestoreQueued DEF IInv
<1>12. CASE \/ ListFails \/ FinishUpdate \/ FinishPartly \/ FinishReconcile \/ FinishFails
            \/ PruneDone \/ PruneFails \/ AgentCrash \/ HostReboot
  BY <1>8, <1>12 DEF ListFails, FinishUpdate, FinishPartly, FinishReconcile, FinishFails, Resolve,
      Reject, PruneDone, PruneFails, AgentCrash, AgentStops, HostReboot
<1>13. CASE \/ StopRuntime \/ Bootstrap \/ RuntimeRestart \/ HostStartsRuntime
            \/ UNCHANGED vars
  BY <1>1, <1>13 DEF StopRuntime, Bootstrap, RuntimeRestart, HostStartsRuntime, agent, vars
<1> QED
  BY <1>2, <1>3, <1>4, <1>5, <1>6, <1>9, <1>10, <1>11, <1>12, <1>13 DEF Next, JobStep

LEMMA SeenInvariance == Spec => [](IInv /\ CallSeen)
<1>1. Init => CallSeen
  BY DEF Init, CallSeen
<1> QED
  BY InitEstablishes, StepPreserves, CallSeenKept, <1>1, PTL DEF Spec

\* The steps that begin a handler and end it.
LEMMA TakeDescends ==
  ASSUME IInv, job' \in JobType, Take
  PROVE  Ahead' < Ahead
<1>1. /\ queue \in Seq(TaskType) /\ queue # <<>> /\ queue' = Tail(queue) /\ job = Idle
      /\ job \in JobType
  BY DEF Take, IInv, Typed, TypeOK
<1> PICK m \in Nat, n \in Nat : m = Len(queue) /\ n = Len(queue') /\ n = m - 1
  BY <1>1
<1> PICK size \in Nat : size = Size
  BY <1>1, JobBounds
<1> PICK unit \in Nat : unit = 11 * size + 10
  OBVIOUS
<1>2. JobAhead(job, call) = 0
  BY <1>1 DEF JobAhead, Idle
<1>3. JobAhead(job', call') \in 0 .. 11 * size + 9
  BY AheadBounds
<1>4. Ahead = m * unit
  BY <1>2 DEF Ahead
<1>5. Ahead' = n * unit + JobAhead(job', call')
  BY DEF Ahead, JobAhead, LoopAhead, Replacing, SurplusOf, CallAhead, Size
<1>6. m * unit = n * unit + unit
  OBVIOUS
<1> QED
  BY <1>3, <1>4, <1>5, <1>6

LEMMA EndDescends ==
  ASSUME Typed, UNCHANGED queue, job.phase \in {"list", "apply", "prune"}, job' = Idle
  PROVE  Ahead' < Ahead
<1>1. job \in JobType /\ job' \in JobType
  BY NoOrder, NobodyKnown DEF Typed, TypeOK, Idle, JobType
<1>2. JobAhead(job', call') = 0
  BY DEF JobAhead, Idle
<1>3. JobAhead(job, call) > 0
  <2>1. Size \in Nat /\ LoopAhead(job) \in 0 .. 11 * Size + 4 /\ CallAhead(call) \in 0 .. 3
    BY <1>1, JobBounds, CallBounds
  <2>2. JobAhead(job, call) \in {11 * Size + 9, LoopAhead(job) + CallAhead(call) + 1}
    BY DEF JobAhead
  <2> QED
    BY <2>1, <2>2
<1> QED
  BY <1>1, <1>2, <1>3, SameQueue

LEMMA ListDescends ==
  ASSUME IInv, job' \in JobType, ListUsers
  PROVE  Ahead' < Ahead
<1>1. Typed /\ UNCHANGED queue /\ job.phase = "list" /\ job \in JobType
  BY Listed, Sequences DEF IInv
<1>2. CASE job' = Idle
  BY <1>1, <1>2, EndDescends
<1>3. CASE job'.phase = "apply"
  <2>1. JobAhead(job', call') = LoopAhead(job') + CallAhead(call') + 1
    BY <1>3 DEF JobAhead
  <2>2. JobAhead(job, call) = 11 * Size + 9
    BY <1>1 DEF JobAhead
  <2>3. JobAhead(job', call') < JobAhead(job, call)
    BY <2>1, <2>2, JobBounds, CallBounds
  <2> QED
    BY <1>1, <2>3, SameQueue
<1> QED
  BY <1>2, <1>3, Listed

\* A step of the loop, or of a call it awaits.
LEMMA LoopDescends ==
  ASSUME Typed, job' \in JobType, UNCHANGED queue, Busy, Busy',
         LoopAhead(job') + CallAhead(call') < LoopAhead(job) + CallAhead(call)
  PROVE  Ahead' < Ahead
<1>1. job \in JobType
  BY DEF Typed, TypeOK
<1>2. /\ JobAhead(job, call) = LoopAhead(job) + CallAhead(call) + 1
      /\ JobAhead(job', call') = LoopAhead(job') + CallAhead(call') + 1
  BY DEF JobAhead, Busy
<1>3. /\ LoopAhead(job) \in Int /\ LoopAhead(job') \in Int
      /\ CallAhead(call) \in Int /\ CallAhead(call') \in Int
  BY <1>1, JobBounds, CallBounds
<1>4. JobAhead(job', call') < JobAhead(job, call)
  BY <1>2, <1>3
<1> QED
  BY <1>4, SameQueue

LEMMA CallAheads ==
  /\ CallAhead(NoCall) = 3
  /\ \A op, user, credential :
       CallAhead([op |-> op, user |-> user, credential |-> credential, at |-> "sent"]) = 2
  /\ \A c \in CallType : c.at = "done" => CallAhead(c) = 1
  /\ \A c \in CallType : c.at = "error" => CallAhead(c) = 0
  /\ \A c \in CallType : c.at = "sent" => CallAhead(c) = 2
BY DEF CallAhead, NoCall, CallType

LEMMA SendDescends ==
  ASSUME IInv, job' \in JobType, CallForUser \/ PruneUser
  PROVE  Ahead' < Ahead
<1>1. Typed /\ job \in JobType /\ job.phase = "apply" /\ UNCHANGED queue /\ call = NoCall
  BY Sequences DEF IInv, CallForUser, PruneUser, Applying, Applied, agent
<1>2. CallAhead(call') = 2 /\ CallAhead(call) = 3
  BY <1>1, CallAheads DEF CallForUser, PruneUser, Send
<1>3. Busy' /\ LoopAhead(job') = LoopAhead(job)
  <2>1. CASE CallForUser
    BY <1>1, <2>1 DEF CallForUser, agent, Busy
  <2>2. CASE PruneUser
    <3>1. /\ job'.phase = "prune" /\ job'.todo = job.todo /\ job'.view = job.view
          /\ job'.order = job.order
      BY <1>1, <2>2 DEF PruneUser, JobType
    <3> QED
      BY <3>1 DEF LoopAhead, Removal, Replacing, SurplusOf, Busy
  <2> QED
    BY <2>1, <2>2
<1>4. LoopAhead(job') \in Int
  BY JobBounds
<1> QED
  BY <1>1, <1>2, <1>3, <1>4, LoopDescends DEF Busy

LEMMA RecordDescends ==
  ASSUME IInv, job' \in JobType, RecordUser
  PROVE  Ahead' < Ahead
<1>1. /\ Typed /\ job \in JobType /\ UNCHANGED <<queue, call>> /\ Busy /\ Busy'
      /\ job.todo # <<>> /\ job'.todo = Tail(job.todo)
      /\ SurplusOf(job') = SurplusOf(job) /\ job'.order = job.order
  BY UserRecorded, Sequences DEF IInv, Busy, SurplusOf
<1>2. LoopAhead(job') <= LoopAhead(job) - 4
  BY <1>1, NextUser
<1>3. LoopAhead(job) \in Int /\ LoopAhead(job') \in Int /\ CallAhead(call) \in Int
  BY <1>1, JobBounds, CallBounds
<1> QED
  BY <1>1, <1>2, <1>3, LoopDescends

\* An answer about the user the loop is at.
LEMMA HandleDescends ==
  ASSUME IInv, CallSeen, job' \in JobType, HandleDone \/ HandleError
  PROVE  Ahead' < Ahead
<1>1. /\ Typed /\ job \in JobType /\ UNCHANGED queue /\ Busy /\ Busy' /\ call # NoCall
      /\ call' = NoCall /\ job.todo # <<>> /\ Current \in Range(job.order)
      /\ job'.order = job.order /\ call.user = Current
  BY DoneHandled, ErrorHandled, Sequences DEF IInv, Busy, JobSound
<1>2. CallAhead(call') = 3 /\ CallAhead(call) \in Int
  BY <1>1, CallAheads, CallBounds
<1>3. LoopAhead(job) \in Int /\ LoopAhead(job') \in Int
  BY <1>1, JobBounds
<1>4. LoopAhead(job') <= LoopAhead(job) - 4
  <2>1. CASE job'.todo = Tail(job.todo) /\ SurplusOf(job') = SurplusOf(job)
    BY <1>1, <2>1, NextUser
  <2>2. CASE HandleDone /\ job.kind # "remove" /\ call.op = "remove"
    <3>1. job'.view = job.view \ {Current} /\ job'.todo = job.todo
      BY <2>2, DoneHandled
    <3>2. Current \in job.view
      BY <1>1, <2>2 DEF CallSeen
    <3>3. job.todo # <<>> /\ Current = Head(job.todo)
      BY <1>1 DEF Current
    <3> QED
      BY <1>1, <3>1, <3>2, <3>3, UserGone
  <2>3. CASE HandleError
    BY <2>1, <2>3, ErrorHandled, <1>1 DEF SurplusOf
  <2>4. CASE HandleDone /\ ~(job.kind # "remove" /\ call.op = "remove")
    <3>1. /\ job'.todo = Tail(job.todo)
          /\ job'.view = job.view \/ job'.view = job.view \cup {Current}
      BY <2>4, DoneHandled
    <3> QED
      BY <1>1, <2>1, <3>1 DEF SurplusOf
  <2> QED
    BY <2>2, <2>3, <2>4
<1>5. CallAhead(call) >= 0
  BY CallBounds
<1> QED
  BY <1>1, <1>2, <1>3, <1>4, <1>5, LoopDescends

\* A surplus user is gone.
LEMMA PruneDescends ==
  ASSUME IInv, CallSeen, job' \in JobType, PruneDone
  PROVE  Ahead' < Ahead
<1>1. /\ Typed /\ job \in JobType /\ UNCHANGED queue /\ job.phase = "prune"
      /\ call.at = "done" /\ call' = NoCall /\ call # NoCall
  BY Sequences DEF IInv, PruneDone, NoCall
<1>2. /\ job'.phase = "apply" /\ job'.todo = job.todo /\ job'.order = job.order
      /\ job'.view = job.view \ {call.user}
  BY <1>1 DEF PruneDone, JobType
<1>3. call.user \in job.view /\ call.user \notin Range(job.order) /\ call \in CallType
  BY <1>1, CallTyped DEF CallSeen, IInv, CallSound
<1>4. LoopAhead(job') <= LoopAhead(job) - 3
  BY <1>1, <1>2, <1>3, UserGone
<1>5. CallAhead(call') = 3 /\ CallAhead(call) = 1
  BY <1>1, <1>3, CallAheads
<1>6. LoopAhead(job) \in Int /\ LoopAhead(job') \in Int
  BY <1>1, JobBounds
<1> QED
  BY <1>1, <1>2, <1>4, <1>5, <1>6, LoopDescends DEF Busy

\* Xray answers, or the deadline passes.
LEMMA AnswerDescends ==
  ASSUME IInv, job' \in JobType, Serve \/ Expire
  PROVE  Ahead' < Ahead
<1>1. Typed /\ job \in JobType /\ UNCHANGED <<queue, job>> /\ call # NoCall
  BY Sequences DEF IInv, Serve, Expire, agent, NoCall
<1>2. Busy /\ Busy'
  BY <1>1 DEF IInv, CallSound, Busy
<1>3. /\ call \in CallType
      /\ \A at \in {"sent", "done", "error"} :
           [call EXCEPT !.at = at] \in CallType /\ [call EXCEPT !.at = at].at = at
  BY <1>1, CallTyped DEF CallType
<1>4. CallAhead(call') < CallAhead(call)
  <2>1. \/ call.at = "sent" /\ \E at \in {"done", "error"} : call' = [call EXCEPT !.at = at]
        \/ call.at = "done" /\ call' = [call EXCEPT !.at = "error"]
    BY DEF Serve, Expire
  <2>2. CASE call.at = "sent"
    <3>1. call' \in CallType /\ call'.at \in {"done", "error"}
      BY <1>3, <2>1, <2>2
    <3>2. CallAhead(call') \in {0, 1} /\ CallAhead(call) = 2
      BY <1>3, <2>2, <3>1, CallAheads
    <3> QED
      BY <3>2
  <2>3. CASE call.at = "done"
    <3>1. call' \in CallType /\ call'.at = "error"
      BY <1>3, <2>1, <2>3
    <3>2. CallAhead(call') = 0 /\ CallAhead(call) = 1
      BY <1>3, <2>3, <3>1, CallAheads
    <3> QED
      BY <3>2
  <2> QED
    BY <2>1, <2>2, <2>3
<1>5. LoopAhead(job') = LoopAhead(job) /\ LoopAhead(job) \in Int
  BY <1>1, JobBounds
<1>6. CallAhead(call) \in Int /\ CallAhead(call') \in Int
  BY CallBounds
<1> QED
  BY <1>1, <1>2, <1>4, <1>5, <1>6, LoopDescends

\* A request that was accepted is worked off in a bounded number of steps of
\* the handlers and answers of Xray, however its users fail: what is ahead is
\* a natural number that each of them makes smaller
\* (xray-assignments.service.ts, exclusive, reconcileRuntime).
THEOREM HandlersEnd == Spec => [](Ahead \in Nat) /\ StepsDescend
<1>1. IInv => Ahead \in Nat
  <2> SUFFICES ASSUME IInv PROVE Ahead \in Nat
    OBVIOUS
  <2>1. Len(queue) \in Nat /\ job \in JobType
    BY DEF IInv, Typed, TypeOK
  <2>2. Size \in Nat /\ JobAhead(job, call) \in 0 .. 11 * Size + 9
    BY <2>1, JobBounds, AheadBounds
  <2> PICK unit \in Nat : unit = 11 * Size + 10
    BY <2>2
  <2>3. Len(queue) * unit \in Nat
    BY <2>1
  <2> QED
    BY <2>2, <2>3 DEF Ahead
<1>2. IInv /\ CallSeen /\ IInv' /\ [Next]_vars =>
        [JobStep \/ Serve \/ Expire => Ahead' < Ahead]_vars
  <2> SUFFICES ASSUME IInv, CallSeen, IInv', JobStep \/ Serve \/ Expire
               PROVE  Ahead' < Ahead
    OBVIOUS
  <2>1. Typed /\ job' \in JobType
    BY DEF IInv, Typed, TypeOK
  <2>2. CASE \/ ListFails \/ FinishUpdate \/ FinishPartly \/ FinishReconcile \/ FinishFails
             \/ PruneFails
    <3>1. /\ job.phase \in {"list", "apply", "prune"} /\ job' = Idle /\ UNCHANGED queue
      BY <2>2 DEF ListFails, FinishUpdate, FinishPartly, FinishReconcile, FinishFails,
                  Reconciled, PruneFails, Listing, Applied, Resolve, Reject
    <3> QED
      BY <2>1, <3>1, EndDescends
  <2> QED
    BY <2>1, <2>2, TakeDescends, ListDescends, SendDescends, RecordDescends, HandleDescends,
       PruneDescends, AnswerDescends DEF JobStep
<1> QED
  BY SeenInvariance, <1>1, <1>2, PTL DEF Spec, StepsDescend

=============================================================================
