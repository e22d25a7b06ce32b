-------------------------- MODULE OperationsProofs --------------------------
(***************************************************************************)
(* Proofs about Operations for every set of inputs and of status requests  *)
(* and every bound on the number of operations.                            *)
(***************************************************************************)
EXTENDS Operations, TLAPS

\* A reader of the table sees a row of Absent's shape or a typed one; the two
\* are told apart by their state.
LEMMA RecordFacts ==
  /\ \A record \in OperationRecord : record.state # "absent"
  /\ \A record \in OperationRecord \cup {Absent} :
       record.state \in {"pending", "running"} => record \in OperationRecord
  /\ \A record \in OperationRecord \cup {Absent} :
       record.state = "failed" => record \in OperationRecord
BY DEF OperationRecord, Absent

\* The initial state satisfies the inductive invariant.
LEMMA InitEstablishes == Init => IInv
<1> SUFFICES ASSUME Init PROVE IInv
  OBVIOUS
<1> USE MaxOperationsAssumption DEF Init, OperationIds
<1>1. TypeOK
  <2>1. operations \in [OperationIds -> OperationRecord \cup {Absent}]
    OBVIOUS
  <2>2. up \in BOOLEAN /\ running \in BOOLEAN
    OBVIOUS
  <2>3. created \in 0 .. MaxOperations
    OBVIOUS
  <2>4. observing \in [Polls -> 0 .. MaxOperations]
    OBVIOUS
  <2> QED
    BY <2>1, <2>2, <2>3, <2>4 DEF TypeOK
<1>2. \A id \in OperationIds : operations[id].state = "absent"
  BY DEF Absent
<1>3. RowsInOrder
  BY <1>2 DEF RowsInOrder
<1>4. DeadForgets
  BY DEF DeadForgets
<1>5. SingleActive /\ LocksAgree
  BY <1>2 DEF SingleActive, LocksAgree, Active
<1>6. RecoversInterruptedOnly
  BY DEF RecoversInterruptedOnly
<1> QED
  BY <1>1, <1>3, <1>4, <1>5, <1>6 DEF IInv

\* Accepting a request needs the mutex and the table to be free.
LEMMA AcceptPreserves ==
  ASSUME IInv, NEW type \in OperationType, NEW fingerprint \in Fingerprints,
         Accept(type, fingerprint)
  PROVE  IInv'
<1> USE MaxOperationsAssumption DEF OperationIds
<1> DEFINE id == created + 1
           row == [operationType |-> type, requestFingerprint |-> fingerprint,
                   state |-> "pending", errorCode |-> "none"]
<1>1. /\ id \in OperationIds /\ id \in 1 .. MaxOperations
      /\ operations' = [operations EXCEPT ![id] = row]
      /\ row \in OperationRecord
  BY DEF IInv, TypeOK, Accept, OperationRecord
<1>2. \A other \in OperationIds :
        operations'[other] = IF other = id THEN row ELSE operations[other]
  BY <1>1 DEF IInv, TypeOK
<1>3. \A other \in OperationIds : ~Active(other)
  BY DEF Accept, Admissible
<1>4. \A other \in OperationIds : Active(other)' <=> other = id
  BY <1>2, <1>3 DEF Active
<1>5. up /\ up' /\ running' /\ starting' = {id} /\ awaiting' = awaiting
      /\ awaiting = {} /\ created' = id /\ observing' = observing
  BY <1>3 DEF Accept, IInv, TypeOK, LocksAgree
<1>6. TypeOK'
  BY <1>1, <1>5 DEF IInv, TypeOK, OperationRecord
<1>7. RowsInOrder'
  BY <1>1, <1>2, <1>5 DEF IInv, TypeOK, RowsInOrder
<1>8. DeadForgets' /\ SingleActive' /\ LocksAgree'
  BY <1>1, <1>4, <1>5 DEF DeadForgets, SingleActive, LocksAgree
<1>9. RecoversInterruptedOnly'
  <2> SUFFICES ASSUME NEW poll \in Polls, observing[poll] # 0
               PROVE  operations'[observing[poll]] = operations[observing[poll]]
                      /\ observing[poll] \in OperationIds
    BY <1>5 DEF IInv, RecoversInterruptedOnly, Recoverable, Interrupted
  <2>1. observing[poll] \in OperationIds
    BY DEF IInv, TypeOK
  <2>2. operations[observing[poll]].state # "absent"
    BY DEF IInv, RecoversInterruptedOnly, Recoverable, Interrupted
  <2>3. observing[poll] # id
    BY <2>1, <2>2 DEF IInv, RowsInOrder, TypeOK
  <2> QED
    BY <1>2, <2>1, <2>3
<1> QED
  BY <1>6, <1>7, <1>8, <1>9 DEF IInv

\* Every action that rewrites one row leaves RowsInOrder alone, as it keeps
\* the row's place in the table.
LEMMA RewriteKeepsOrder ==
  ASSUME IInv, NEW id \in OperationIds, NEW row \in OperationRecord,
         operations[id].state # "absent",
         operations' = [operations EXCEPT ![id] = row], created' = created
  PROVE  /\ operations' \in [OperationIds -> OperationRecord \cup {Absent}]
         /\ RowsInOrder'
<1>1. row.state # "absent"
  BY RecordFacts
<1> QED
  BY <1>1 DEF IInv, TypeOK, RowsInOrder

\* What holds of a row with a handler: it is the only active one.
LEMMA HandlerFacts ==
  ASSUME IInv, NEW id \in starting \cup awaiting
  PROVE  /\ up /\ running /\ id \in OperationIds
         /\ operations[id] \in OperationRecord
         /\ Active(id)
         /\ starting \cup awaiting = {id}
         /\ \A other \in OperationIds : Active(other) => other = id
         /\ \A poll \in Polls : observing[poll] # id
<1>1. up /\ id \in OperationIds
  BY DEF IInv, DeadForgets, TypeOK
<1>2. Active(id) /\ running
  BY <1>1 DEF IInv, LocksAgree
<1>3. starting \cup awaiting = {id}
  BY DEF IInv, SingleActive
<1>4. operations[id] \in OperationRecord
  BY <1>1, <1>2, RecordFacts DEF IInv, TypeOK, Active
<1>5. \A other \in OperationIds : Active(other) => other = id
  BY <1>1, <1>2 DEF IInv, SingleActive
<1>6. ASSUME NEW poll \in Polls, observing[poll] = id
      PROVE  FALSE
  <2>1. id # 0
    BY <1>1, MaxOperationsAssumption DEF OperationIds
  <2> QED
    BY <1>2, <1>6, <2>1
    DEF IInv, RecoversInterruptedOnly, Recoverable, Interrupted, Active
<1> QED
  BY <1>1, <1>2, <1>3, <1>4, <1>5, <1>6

\* The synchronous turn of start() ends with the handler pending.
LEMMA BeginPreserves ==
  ASSUME IInv, NEW id \in OperationIds, Begin(id)
  PROVE  IInv'
<1> DEFINE row == [operations[id] EXCEPT !.state = "running"]
<1>1. /\ up /\ running /\ operations[id] \in OperationRecord
      /\ starting \cup awaiting = {id} /\ operations[id].state # "absent"
      /\ \A other \in OperationIds : Active(other) => other = id
      /\ \A poll \in Polls : observing[poll] # id
  BY HandlerFacts DEF Begin, Active
<1>2. row \in OperationRecord
  BY <1>1 DEF OperationRecord
<1>3. operations' = [operations EXCEPT ![id] = row]
  BY DEF Begin
<1>4. \A other \in OperationIds :
        operations'[other] = IF other = id THEN row ELSE operations[other]
  BY <1>3 DEF IInv, TypeOK
<1>5. operations' \in [OperationIds -> OperationRecord \cup {Absent}]
      /\ RowsInOrder'
  BY <1>1, <1>2, <1>3, RewriteKeepsOrder DEF Begin
<1>6. \A other \in OperationIds : Active(other)' <=> other = id
  BY <1>1, <1>2, <1>4 DEF Active, OperationRecord
<1>7. /\ up' = up /\ running' = running /\ observing' = observing
      /\ created' = created
      /\ starting' \cup awaiting' = {id} /\ starting' \in SUBSET OperationIds
      /\ awaiting' \in SUBSET OperationIds
  BY <1>1 DEF Begin, IInv, TypeOK
<1>8. TypeOK'
  BY <1>5, <1>7 DEF IInv, TypeOK
<1>9. DeadForgets' /\ SingleActive' /\ LocksAgree'
  BY <1>1, <1>6, <1>7 DEF DeadForgets, SingleActive, LocksAgree
<1>10. RecoversInterruptedOnly'
  BY <1>1, <1>4, <1>7
  DEF IInv, TypeOK, OperationIds, RecoversInterruptedOnly, Recoverable,
      Interrupted
<1> QED
  BY <1>5, <1>8, <1>9, <1>10 DEF IInv

\* The end of a handler frees the mutex and the table together.
LEMMA SettlePreserves ==
  ASSUME IInv, NEW id \in OperationIds, Succeed(id) \/ Fail(id)
  PROVE  IInv'
<1> DEFINE row == operations'[id]
<1>1. /\ up /\ running /\ operations[id] \in OperationRecord
      /\ starting \cup awaiting = {id} /\ operations[id].state # "absent"
      /\ \A other \in OperationIds : Active(other) => other = id
      /\ \A poll \in Polls : observing[poll] # id
  BY HandlerFacts DEF Succeed, Fail, Active
<1>2. /\ operations' = [operations EXCEPT ![id] = row]
      /\ row \in OperationRecord
      /\ row.state \in {"succeeded", "failed"}
  <2>1. CASE Succeed(id)
    BY <1>1, <2>1 DEF Succeed, OperationRecord, IInv, TypeOK
  <2>2. CASE Fail(id)
    BY <1>1, <2>2 DEF Fail, OperationRecord, IInv, TypeOK
  <2> QED
    BY <2>1, <2>2
<1>3. \A other \in OperationIds \ {id} : operations'[other] = operations[other]
  BY <1>2 DEF IInv, TypeOK
<1>4. operations' \in [OperationIds -> OperationRecord \cup {Absent}]
      /\ RowsInOrder'
  BY <1>1, <1>2, RewriteKeepsOrder DEF Succeed, Fail
<1>5. \A other \in OperationIds : ~Active(other)'
  BY <1>1, <1>2, <1>3 DEF Active
<1>6. /\ up' = up /\ running' = FALSE /\ observing' = observing
      /\ created' = created /\ starting' = {} /\ awaiting' = {}
  <2>1. CASE Succeed(id)
    BY <1>1, <2>1 DEF Succeed
  <2>2. CASE Fail(id)
    BY <1>1, <2>2 DEF Fail
  <2> QED
    BY <2>1, <2>2
<1>7. TypeOK'
  BY <1>4, <1>6 DEF IInv, TypeOK
<1>8. DeadForgets' /\ SingleActive' /\ LocksAgree'
  BY <1>1, <1>5, <1>6 DEF DeadForgets, SingleActive, LocksAgree
<1>9. RecoversInterruptedOnly'
  BY <1>1, <1>3, <1>6
  DEF IInv, TypeOK, OperationIds, RecoversInterruptedOnly, Recoverable,
      Interrupted
<1> QED
  BY <1>4, <1>7, <1>8, <1>9 DEF IInv

\* A dead process leaves the table as it was.
LEMMA CrashPreserves ==
  ASSUME IInv, Crash
  PROVE  IInv'
<1> USE DEF Crash, ForgetMemory
<1>1. TypeOK'
  <2>1. /\ operations' \in [OperationIds -> OperationRecord \cup {Absent}]
        /\ created' \in 0 .. MaxOperations
    BY DEF IInv, TypeOK
  <2>2. observing' \in [Polls -> 0 .. MaxOperations]
    BY MaxOperationsAssumption
  <2>3. /\ up' \in BOOLEAN /\ running' \in BOOLEAN
        /\ starting' \in SUBSET OperationIds
        /\ awaiting' \in SUBSET OperationIds
    OBVIOUS
  <2> QED
    BY <2>1, <2>2, <2>3 DEF TypeOK
<1>2. RowsInOrder' /\ DeadForgets' /\ LocksAgree'
  BY DEF IInv, RowsInOrder, DeadForgets, LocksAgree
<1>3. SingleActive'
  BY DEF IInv, SingleActive, Active
<1>4. RecoversInterruptedOnly'
  BY DEF RecoversInterruptedOnly
<1> QED
  BY <1>1, <1>2, <1>3, <1>4 DEF IInv

\* The restarted process has no active row, as it has no handler.
LEMMA BootstrapPreserves ==
  ASSUME IInv, Bootstrap
  PROVE  IInv'
<1>1. \A record \in OperationRecord \cup {Absent} :
        /\ MarkInterrupted(record) \in OperationRecord \cup {Absent}
        /\ MarkInterrupted(record).state = "absent" <=> record.state = "absent"
        /\ MarkInterrupted(record).state \notin {"pending", "running"}
  <2> SUFFICES ASSUME NEW record \in OperationRecord \cup {Absent}
               PROVE  /\ MarkInterrupted(record) \in OperationRecord \cup {Absent}
                      /\ MarkInterrupted(record).state = "absent"
                           <=> record.state = "absent"
                      /\ MarkInterrupted(record).state
                           \notin {"pending", "running"}
    OBVIOUS
  <2>1. CASE record.state \in {"pending", "running"}
    <3> DEFINE marked == [record EXCEPT !.state = "failed",
                                        !.errorCode = "interrupted"]
    <3>1. record \in OperationRecord
      BY <2>1 DEF Absent
    <3>2. marked \in OperationRecord /\ marked.state = "failed"
      BY <3>1 DEF OperationRecord
    <3> QED
      BY <2>1, <3>2 DEF MarkInterrupted
  <2>2. CASE record.state \notin {"pending", "running"}
    BY <2>2 DEF MarkInterrupted
  <2> QED
    BY <2>1, <2>2
<1>2. \A id \in OperationIds : operations'[id] = MarkInterrupted(operations[id])
  BY DEF Bootstrap
<1>3. \A id \in OperationIds : ~Active(id)'
  BY <1>1, <1>2 DEF IInv, TypeOK, Active
<1>4. /\ up' /\ ~running' /\ starting' = {} /\ awaiting' = {}
      /\ observing' = observing /\ created' = created
      /\ \A poll \in Polls : observing[poll] = 0
  BY DEF Bootstrap, memory, IInv, DeadForgets
<1>10. up' \in BOOLEAN /\ running' \in BOOLEAN
  BY DEF Bootstrap, memory, IInv, TypeOK
<1>5. operations' \in [OperationIds -> OperationRecord \cup {Absent}]
  BY <1>1 DEF Bootstrap, IInv, TypeOK
<1>6. TypeOK'
  BY <1>4, <1>5, <1>10 DEF IInv, TypeOK
<1>7. RowsInOrder'
  BY <1>1, <1>2, <1>4 DEF IInv, TypeOK, RowsInOrder
<1>8. DeadForgets' /\ SingleActive' /\ LocksAgree'
  BY <1>3, <1>4 DEF DeadForgets, SingleActive, LocksAgree
<1>9. RecoversInterruptedOnly'
  BY <1>4 DEF RecoversInterruptedOnly
<1> QED
  BY <1>6, <1>7, <1>8, <1>9 DEF IInv

\* A status request may hold a row across an await: the row stays one that
\* was interrupted or was recovered by another request.
LEMMA PollPreserves ==
  ASSUME IInv, NEW poll \in Polls,
         Observe(poll) \/ Recover(poll) \/ Decline(poll)
  PROVE  IInv'
<1>1. CASE Observe(poll)
  <2>1. created \in OperationIds /\ Recoverable(created)
    BY <1>1, MaxOperationsAssumption DEF Observe, IInv, TypeOK, OperationIds
  <2>2. TypeOK'
    BY <1>1 DEF Observe, IInv, TypeOK
  <2>3. RowsInOrder' /\ DeadForgets' /\ SingleActive' /\ LocksAgree'
    BY <1>1 DEF Observe, IInv, RowsInOrder, DeadForgets, SingleActive,
                LocksAgree, Active
  <2>4. RecoversInterruptedOnly'
    BY <1>1, <2>1 DEF Observe, IInv, TypeOK, RecoversInterruptedOnly,
                      Recoverable, Interrupted
  <2> QED
    BY <2>2, <2>3, <2>4 DEF IInv
<1>2. CASE Decline(poll)
  <2>1. TypeOK'
    BY <1>2, MaxOperationsAssumption DEF Decline, IInv, TypeOK
  <2>2. RowsInOrder' /\ DeadForgets' /\ SingleActive' /\ LocksAgree'
    BY <1>2 DEF Decline, IInv, TypeOK, RowsInOrder, DeadForgets, SingleActive,
                LocksAgree, Active
  <2>3. RecoversInterruptedOnly'
    BY <1>2 DEF Decline, IInv, TypeOK, RecoversInterruptedOnly, Recoverable,
                Interrupted
  <2> QED
    BY <2>1, <2>2, <2>3 DEF IInv
<1>3. CASE Recover(poll)
  <2> DEFINE id == observing[poll]
             row == [operations[id] EXCEPT !.state = "succeeded",
                                           !.errorCode = "none"]
  <2>1. /\ id \in OperationIds
        /\ operations[id].state \in {"failed", "succeeded"}
        /\ operations[id].operationType \in {"install", "uninstall"}
    BY <1>3, MaxOperationsAssumption
    DEF Recover, IInv, TypeOK, OperationIds, RecoversInterruptedOnly,
        Recoverable, Interrupted
  <2>2. operations[id] \in OperationRecord
    BY <2>1 DEF IInv, TypeOK, Absent
  <2>3. row \in OperationRecord /\ row.state = "succeeded"
        /\ row.errorCode = "none"
        /\ row.operationType = operations[id].operationType
    BY <2>2 DEF OperationRecord
  <2>4. operations' = [operations EXCEPT ![id] = row]
    BY <1>3 DEF Recover
  <2>5. \A other \in OperationIds :
          operations'[other] = IF other = id THEN row ELSE operations[other]
    BY <2>4 DEF IInv, TypeOK
  <2>6. operations' \in [OperationIds -> OperationRecord \cup {Absent}]
        /\ RowsInOrder'
    BY <1>3, <2>1, <2>3, <2>4, RewriteKeepsOrder DEF Recover
  <2>7. \A other \in OperationIds : Active(other)' <=> Active(other)
    BY <2>1, <2>3, <2>5 DEF Active
  <2>8. /\ up' = up /\ running' = running /\ starting' = starting
        /\ awaiting' = awaiting /\ created' = created
        /\ observing' = [observing EXCEPT ![poll] = 0]
    BY <1>3 DEF Recover
  <2>9. TypeOK'
    BY <2>6, <2>8, MaxOperationsAssumption DEF IInv, TypeOK
  <2>10. DeadForgets' /\ SingleActive' /\ LocksAgree'
    BY <2>7, <2>8 DEF IInv, TypeOK, DeadForgets, SingleActive, LocksAgree
  <2>11. RecoversInterruptedOnly'
    <3> SUFFICES ASSUME NEW p \in Polls, p # poll, observing[p] # 0
                 PROVE  \/ Recoverable(observing[p])'
                        \/ /\ operations'[observing[p]].state = "succeeded"
                           /\ operations'[observing[p]].errorCode = "none"
                           /\ operations'[observing[p]].operationType
                                 \in {"install", "uninstall"}
      BY <2>8 DEF RecoversInterruptedOnly, IInv, TypeOK, Recoverable,
                  Interrupted
    <3>1. observing[p] \in OperationIds /\ observing'[p] = observing[p]
      BY <2>8 DEF IInv, TypeOK, OperationIds
    <3>2. CASE observing[p] = id
      BY <2>1, <2>3, <2>5, <3>1, <3>2
    <3>3. CASE observing[p] # id
      <4>1. operations'[observing[p]] = operations[observing[p]]
        BY <2>5, <3>1, <3>3
      <4> QED
        BY <3>1, <4>1
        DEF IInv, RecoversInterruptedOnly, Recoverable, Interrupted
    <3> QED
      BY <3>2, <3>3
  <2> QED
    BY <2>6, <2>9, <2>10, <2>11 DEF IInv
<1> QED
  BY <1>1, <1>2, <1>3

\* IInv is inductive: one lemma above for every disjunct of Next.
LEMMA StepPreserves == IInv /\ [Next]_vars => IInv'
<1> SUFFICES ASSUME IInv, [Next]_vars PROVE IInv'
  OBVIOUS
<1>1. CASE UNCHANGED vars
  BY <1>1 DEF vars, IInv, TypeOK, RowsInOrder, DeadForgets, SingleActive,
              LocksAgree, RecoversInterruptedOnly, Active, Recoverable,
              Interrupted
<1>2. CASE Next
  BY <1>2, AcceptPreserves, BeginPreserves, SettlePreserves, CrashPreserves,
     BootstrapPreserves, PollPreserves DEF Next
<1> QED
  BY <1>1, <1>2

\* The invariant holds in every behaviour.
THEOREM Invariance == Spec => []IInv
BY InitEstablishes, StepPreserves, PTL DEF Spec

\* The state of the coordinator keeps to its types.
THEOREM TypeCorrect == Spec => []TypeOK
BY Invariance, PTL DEF IInv

\* At most one operation is active and at most one handler runs, whatever
\* the requests, crashes, restarts and status recoveries.
THEOREM MutualExclusion == Spec => []SingleActive
BY Invariance, PTL DEF IInv

\* While the agent serves requests, its mutex, its table and its pending
\* handlers agree on whether an operation is active.
THEOREM LocksAlwaysAgree == Spec => []LocksAgree
BY Invariance, PTL DEF IInv

\* A status request never overwrites the result a handler recorded.
THEOREM RecoverySound == Spec => []RecoversInterruptedOnly
BY Invariance, PTL DEF IInv

-----------------------------------------------------------------------------
(***************************************************************************)
(* Finality of settled rows, and the refinement of the ledger: both follow *)
(* from the one row that a step of each kind may rewrite.                  *)
(***************************************************************************)

\* A recovery rewrites the row it observed: an interrupted one, or one that
\* was recovered before and is written as it stands.
LEMMA RecoverRewrites ==
  ASSUME IInv, NEW poll \in Polls, Recover(poll)
  PROVE  \/ operations' = operations
         \/ \E id \in OperationIds :
              /\ Recoverable(id)
              /\ operations' = [operations EXCEPT ![id] =
                   [operations[id] EXCEPT !.state = "succeeded",
                                          !.errorCode = "none"]]
<1> DEFINE id == observing[poll]
           row == [operations[id] EXCEPT !.state = "succeeded",
                                         !.errorCode = "none"]
<1>1. id \in OperationIds /\ operations' = [operations EXCEPT ![id] = row]
  <2>1. operations' = [operations EXCEPT ![id] = row]
    BY DEF Recover
  <2>2. id \in 0 .. MaxOperations /\ id # 0
    BY DEF Recover, IInv, TypeOK
  <2> QED
    BY <2>1, <2>2, MaxOperationsAssumption DEF OperationIds
<1>2. CASE Recoverable(id)
  BY <1>1, <1>2
<1>3. CASE ~Recoverable(id)
  <2>1. operations[id].state = "succeeded" /\ operations[id].errorCode = "none"
    BY <1>1, <1>3 DEF Recover, IInv, RecoversInterruptedOnly
  <2>2. operations[id] \in OperationRecord
    BY <1>1, <2>1 DEF IInv, TypeOK, Absent
  <2>3. row = operations[id]
    BY <2>1, <2>2 DEF OperationRecord
  <2> QED
    BY <1>1, <2>3 DEF IInv, TypeOK
<1> QED
  BY <1>2, <1>3

LEMMA SettledStep == IInv /\ [Next]_vars => [SettledKept]_vars
<1> SUFFICES ASSUME IInv, Next, NEW id \in OperationIds,
                    operations[id].state \in {"succeeded", "failed"}
             PROVE  \/ operations'[id] = operations[id]
                    \/ Recoverable(id) /\ operations'[id].state = "succeeded"
  BY DEF SettledKept
<1>0. ~Active(id) /\ operations[id].state # "absent"
  BY DEF Active
<1>1. ASSUME NEW type \in OperationType, NEW fingerprint \in Fingerprints,
             Accept(type, fingerprint)
      PROVE  operations'[id] = operations[id]
  <2>1. id # created + 1
    BY <1>0 DEF IInv, RowsInOrder, TypeOK
  <2> QED
    BY <1>1, <2>1 DEF Accept, IInv, TypeOK
<1>2. ASSUME NEW other \in OperationIds,
             Begin(other) \/ Succeed(other) \/ Fail(other)
      PROVE  operations'[id] = operations[id]
  <2>1. other \in starting \cup awaiting
    BY <1>2 DEF Begin, Succeed, Fail
  <2>2. Active(other)
    BY <2>1, HandlerFacts
  <2>3. id # other
    BY <1>0, <2>2
  <2> QED
    BY <1>2, <2>3 DEF Begin, Succeed, Fail, IInv, TypeOK
<1>3. ASSUME NEW poll \in Polls, Observe(poll) \/ Decline(poll)
      PROVE  operations'[id] = operations[id]
  BY <1>3 DEF Observe, Decline
<1>4. ASSUME NEW poll \in Polls, Recover(poll)
      PROVE  \/ operations'[id] = operations[id]
             \/ Recoverable(id) /\ operations'[id].state = "succeeded"
  <2>1. CASE operations' = operations
    BY <2>1
  <2>2. ASSUME NEW other \in OperationIds, Recoverable(other),
               operations' = [operations EXCEPT ![other] =
                 [operations[other] EXCEPT !.state = "succeeded",
                                           !.errorCode = "none"]]
        PROVE  \/ operations'[id] = operations[id]
               \/ Recoverable(id) /\ operations'[id].state = "succeeded"
    <3>1. operations[other] \in OperationRecord
      BY <2>2 DEF IInv, TypeOK, Recoverable, Interrupted, Absent
    <3> QED
      BY <2>2, <3>1 DEF IInv, TypeOK, OperationRecord
  <2> QED
    BY <1>4, <2>1, <2>2, RecoverRewrites
<1>5. CASE Crash
  BY <1>5 DEF Crash
<1>6. CASE Bootstrap
  BY <1>0, <1>6 DEF Bootstrap, MarkInterrupted, Active
<1> QED
  BY <1>1, <1>2, <1>3, <1>4, <1>5, <1>6 DEF Next

\* The result of an operation, once recorded, is final for whoever polls it,
\* but for an interrupted install or uninstall found to have succeeded.
THEOREM SettledIsFinal == Spec => SettledStays
BY Invariance, SettledStep, PTL DEF Spec, SettledStays

\* One rewritten row is one rewritten outcome.
LEMMA RewrittenOutcome ==
  ASSUME NEW id \in OperationIds, NEW row,
         operations \in [OperationIds -> OperationRecord \cup {Absent}],
         operations' = [operations EXCEPT ![id] = row]
  PROVE  [i \in OperationIds |-> OutcomeOf(operations'[i])] =
           [[i \in OperationIds |-> OutcomeOf(operations[i])]
              EXCEPT ![id] = OutcomeOf(row)]
OBVIOUS

LEMMA InitRefines == Init => Ledger!LedgerInit
BY DEF Init, Ledger!LedgerInit, Ledger!LedgerIds, OperationIds, OutcomeOf, Absent

LEMMA OutcomeOfActive ==
  ASSUME NEW id \in OperationIds
  PROVE  Active(id) => OutcomeOf(operations[id]) = "open"
BY DEF Active, OutcomeOf

LEMMA StepRefines ==
  IInv /\ [Next]_vars =>
    [Ledger!LedgerNext]_([id \in OperationIds |-> OutcomeOf(operations[id])])
<1> DEFINE rows == [id \in OperationIds |-> OutcomeOf(operations[id])]
<1> SUFFICES ASSUME IInv, [Next]_vars
             PROVE  Ledger!LedgerNext \/ rows' = rows
  OBVIOUS
<1>t. operations \in [OperationIds -> OperationRecord \cup {Absent}]
  BY DEF IInv, TypeOK
<1>i. Ledger!LedgerIds = OperationIds
  BY DEF Ledger!LedgerIds, OperationIds
<1>1. ASSUME NEW type \in OperationType, NEW fingerprint \in Fingerprints,
             Accept(type, fingerprint)
      PROVE  Ledger!LedgerNext
  <2> DEFINE id == created + 1
             row == [operationType |-> type, requestFingerprint |-> fingerprint,
                     state |-> "pending", errorCode |-> "none"]
  <2>1. id \in OperationIds
    BY <1>1, MaxOperationsAssumption DEF Accept, IInv, TypeOK, OperationIds
  <2>2. operations' = [operations EXCEPT ![id] = row] /\ OutcomeOf(row) = "open"
    BY <1>1 DEF Accept, OutcomeOf
  <2>3. rows' = [rows EXCEPT ![id] = "open"]
    BY <1>t, <2>1, <2>2, RewrittenOutcome
  <2>4. operations[id].state = "absent"
    BY <2>1 DEF IInv, RowsInOrder, TypeOK, OperationIds
  <2>5. rows[id] = "absent"
    BY <2>1, <2>4 DEF OutcomeOf
  <2>6. \A other \in OperationIds : rows[other] # "open"
    BY <1>1, <1>t DEF Accept, Admissible, OutcomeOf, Active, OperationRecord, Absent
  <2>7. ASSUME NEW other \in OperationIds, other < id
        PROVE  rows[other] # "absent"
    <3>1. operations[other].state # "absent"
      BY <2>7 DEF IInv, RowsInOrder, TypeOK, OperationIds
    <3> QED
      BY <3>1 DEF OutcomeOf
  <2>8. Ledger!Open(id)
    BY <1>i, <2>3, <2>5, <2>6, <2>7 DEF Ledger!Open
  <2> QED
    BY <1>i, <2>1, <2>8 DEF Ledger!LedgerNext
<1>2. ASSUME NEW id \in OperationIds, Begin(id) \/ Succeed(id) \/ Fail(id)
      PROVE  Ledger!LedgerNext \/ rows' = rows
  <2>1. id \in starting \cup awaiting
    BY <1>2 DEF Begin, Succeed, Fail
  <2>2. Active(id) /\ operations[id] \in OperationRecord
    BY <2>1, HandlerFacts
  <2>3. rows[id] = "open"
    BY <2>2, OutcomeOfActive
  <2>4. CASE Begin(id)
    <3> DEFINE row == [operations[id] EXCEPT !.state = "running"]
    <3>1. operations' = [operations EXCEPT ![id] = row] /\ OutcomeOf(row) = "open"
      BY <2>2, <2>4 DEF Begin, OutcomeOf, OperationRecord
    <3>2. rows' = [rows EXCEPT ![id] = "open"]
      BY <1>t, <3>1, RewrittenOutcome
    <3> QED
      BY <2>3, <3>2
  <2>5. CASE Succeed(id)
    <3> DEFINE row == [operations[id] EXCEPT !.state = "succeeded"]
    <3>1. /\ operations' = [operations EXCEPT ![id] = row]
          /\ OutcomeOf(row) = "succeeded"
      BY <2>2, <2>5 DEF Succeed, OutcomeOf, OperationRecord
    <3>2. rows' = [rows EXCEPT ![id] = "succeeded"]
      BY <1>t, <3>1, RewrittenOutcome
    <3> QED
      BY <1>i, <2>3, <3>2 DEF Ledger!LedgerNext, Ledger!Settle
  <2>6. CASE Fail(id)
    <3> DEFINE row == [operations[id] EXCEPT !.state = "failed",
                                             !.errorCode = "handler"]
    <3>1. operations' = [operations EXCEPT ![id] = row]
      BY <2>6 DEF Fail
    <3>2. OutcomeOf(row) = "failed"
      BY <2>2 DEF OutcomeOf, OperationRecord
    <3>3. rows' = [rows EXCEPT ![id] = "failed"]
      BY <1>t, <3>1, <3>2, RewrittenOutcome
    <3> QED
      BY <1>i, <2>3, <3>3 DEF Ledger!LedgerNext, Ledger!Settle
  <2> QED
    BY <1>2, <2>4, <2>5, <2>6
<1>3. ASSUME NEW poll \in Polls, Recover(poll)
      PROVE  Ledger!LedgerNext \/ rows' = rows
  <2>1. CASE operations' = operations
    BY <2>1
  <2>2. ASSUME NEW id \in OperationIds, Recoverable(id),
               operations' = [operations EXCEPT ![id] =
                 [operations[id] EXCEPT !.state = "succeeded",
                                        !.errorCode = "none"]]
        PROVE  Ledger!LedgerNext
    <3> DEFINE row == [operations[id] EXCEPT !.state = "succeeded",
                                             !.errorCode = "none"]
    <3>1. operations[id] \in OperationRecord
      BY <2>2 DEF IInv, TypeOK, Recoverable, Interrupted, Absent
    <3>2. OutcomeOf(row) = "succeeded"
      BY <3>1 DEF OutcomeOf, OperationRecord
    <3>3. rows' = [rows EXCEPT ![id] = "succeeded"]
      BY <1>t, <2>2, <3>2, RewrittenOutcome
    <3>4. rows[id] = "interrupted"
      BY <2>2 DEF Recoverable, Interrupted, OutcomeOf
    <3> QED
      BY <1>i, <3>3, <3>4 DEF Ledger!LedgerNext, Ledger!Recover
  <2> QED
    BY <1>3, <2>1, <2>2, RecoverRewrites
<1>4. CASE Bootstrap
  <2>1. \A record \in OperationRecord \cup {Absent} :
          OutcomeOf(MarkInterrupted(record)) =
            IF record.state \in {"pending", "running"} THEN "interrupted"
            ELSE OutcomeOf(record)
    BY DEF OutcomeOf, MarkInterrupted, OperationRecord, Absent
  <2>2. \A id \in OperationIds :
          rows'[id] = IF Active(id) THEN "interrupted" ELSE rows[id]
    BY <1>4, <1>t, <2>1 DEF Bootstrap, Active
  <2>3. CASE \A id \in OperationIds : ~Active(id)
    BY <2>2, <2>3
  <2>4. ASSUME NEW id \in OperationIds, Active(id)
        PROVE  Ledger!LedgerNext
    <3>1. rows[id] = "open"
      BY <2>4, OutcomeOfActive
    <3>2. \A other \in OperationIds : Active(other) <=> other = id
      BY <2>4 DEF IInv, SingleActive
    <3>3. rows' = [rows EXCEPT ![id] = "interrupted"]
      BY <2>2, <3>2
    <3> QED
      BY <1>i, <3>1, <3>3 DEF Ledger!LedgerNext, Ledger!Interrupt, Ledger!Settle
  <2> QED
    BY <2>3, <2>4
<1>5. ASSUME NEW poll \in Polls, Observe(poll) \/ Decline(poll)
      PROVE  rows' = rows
  BY <1>5 DEF Observe, Decline
<1>6. CASE Crash
  BY <1>6 DEF Crash
<1>7. CASE UNCHANGED vars
  BY <1>7 DEF vars
<1> QED
  BY <1>1, <1>2, <1>3, <1>4, <1>5, <1>6, <1>7 DEF Next

\* The coordinator, its table, the restart and the recovery implement the
\* ledger of operations, for any number of operations and of callers.
THEOREM Refinement == Spec => ImplementsLedger
BY Invariance, InitRefines, StepRefines, PTL
   DEF Spec, ImplementsLedger, Ledger!LedgerSpec

-----------------------------------------------------------------------------
(***************************************************************************)
(* Every accepted operation settles.  An active row is in one of three     *)
(* places: the process is down, its handler is about to start, or its      *)
(* handler is awaited.  No step but the one that settles the row takes it  *)
(* back, except the crash, and from a dead process only the bootstrap      *)
(* leads on, which settles every row.                                      *)
(***************************************************************************)

Orphaned(id) == ~up /\ Active(id)
Starts(id) == up /\ Active(id) /\ id \in starting
Awaited(id) == up /\ Active(id) /\ starting = {} /\ id \in awaiting

\* The three places are all there are.
LEMMA ActiveSomewhere ==
  ASSUME NEW id \in OperationIds
  PROVE  IInv /\ Active(id) => Orphaned(id) \/ Starts(id) \/ Awaited(id)
<1> SUFFICES ASSUME IInv, Active(id), up, id \notin starting
             PROVE  starting = {} /\ id \in awaiting
  BY DEF Orphaned, Starts, Awaited
<1>1. id \in awaiting
  BY DEF IInv, LocksAgree
<1>2. starting = {}
  BY <1>1 DEF IInv, SingleActive
<1> QED
  BY <1>1, <1>2

\* The end of a handler leaves its row settled.
LEMMA SettleSettles ==
  ASSUME NEW id \in OperationIds, IInv, Succeed(id) \/ Fail(id)
  PROVE  ~Active(id)'
<1>1. operations[id] \in OperationRecord
  BY HandlerFacts DEF Succeed, Fail
<1>2. CASE Succeed(id)
  BY <1>1, <1>2 DEF Succeed, Active, IInv, TypeOK, OperationRecord
<1>3. CASE Fail(id)
  BY <1>1, <1>3 DEF Fail, Active, IInv, TypeOK, OperationRecord
<1> QED
  BY <1>2, <1>3

\* What a step does to an active row of a process that is up: it crashes, or
\* the row is settled, or it moves on from its start to its handler.
LEMMA ActiveStep ==
  ASSUME NEW id \in OperationIds, IInv, Next, up, Active(id)
  PROVE  \/ ~up'
         \/ ~Active(id)'
         \/ Begin(id)
         \/ starting' = starting /\ awaiting' = awaiting
<1>1. ASSUME NEW type \in OperationType, NEW fingerprint \in Fingerprints,
             Accept(type, fingerprint)
      PROVE  FALSE
  BY <1>1 DEF Accept, Admissible
<1>2. ASSUME NEW other \in OperationIds,
             Begin(other) \/ Succeed(other) \/ Fail(other)
      PROVE  Begin(id) \/ ~Active(id)'
  <2>1. other \in starting \cup awaiting
    BY <1>2 DEF Begin, Succeed, Fail
  <2>2. other = id
    BY <2>1, HandlerFacts
  <2> QED
    BY <1>2, <2>2, SettleSettles
<1>3. ASSUME NEW poll \in Polls,
             Observe(poll) \/ Recover(poll) \/ Decline(poll)
      PROVE  starting' = starting /\ awaiting' = awaiting
  BY <1>3 DEF Observe, Recover, Decline
<1>4. CASE Crash
  BY <1>4 DEF Crash
<1>5. CASE Bootstrap
  BY <1>5 DEF Bootstrap
<1> QED
  BY <1>1, <1>2, <1>3, <1>4, <1>5 DEF Next

\* The bootstrap leaves no row active.
LEMMA BootstrapSettles ==
  ASSUME NEW id \in OperationIds, IInv, Bootstrap
  PROVE  ~Active(id)'
<1>1. operations'[id] = MarkInterrupted(operations[id])
  BY DEF Bootstrap
<1>2. CASE Active(id)
  <2>1. operations[id] \in OperationRecord
    BY <1>2, RecordFacts DEF IInv, TypeOK, Active
  <2> QED
    BY <1>1, <1>2, <2>1 DEF MarkInterrupted, Active, OperationRecord
<1>3. CASE ~Active(id)
  BY <1>1, <1>3 DEF MarkInterrupted, Active
<1> QED
  BY <1>2, <1>3

\* A row left behind by a dead process stays there or is settled.
LEMMA OrphanedStep ==
  ASSUME NEW id \in OperationIds
  PROVE  IInv /\ Orphaned(id) /\ [Next]_vars => Orphaned(id)' \/ ~Active(id)'
<1> SUFFICES ASSUME IInv, ~up, [Next]_vars
             PROVE  up' => ~Active(id)'
  BY DEF Orphaned
<1>1. CASE UNCHANGED vars
  BY <1>1 DEF vars
<1>2. ASSUME Next, up'
      PROVE  Bootstrap
  BY <1>2 DEF Next, Accept, Begin, Succeed, Fail, Observe, Recover, Decline,
              Crash
<1>3. CASE Bootstrap
  BY <1>3, BootstrapSettles
<1> QED
  BY <1>1, <1>2, <1>3

\* A row of a live process only moves on, or is left behind by a crash.
LEMMA LiveActiveStep ==
  ASSUME NEW id \in OperationIds
  PROVE  /\ IInv /\ Starts(id) /\ [Next]_vars =>
              \/ Starts(id)' \/ Awaited(id)' \/ Orphaned(id)'
              \/ ~Active(id)'
         /\ IInv /\ Awaited(id) /\ [Next]_vars =>
              Awaited(id)' \/ Orphaned(id)' \/ ~Active(id)'
<1> SUFFICES ASSUME IInv, [Next]_vars, up, Active(id), Active(id)', up'
             PROVE  /\ id \in starting =>
                         \/ id \in starting'
                         \/ starting' = {} /\ id \in awaiting'
                    /\ starting = {} /\ id \in awaiting =>
                         starting' = {} /\ id \in awaiting'
  BY DEF Starts, Awaited, Orphaned
<1>1. CASE UNCHANGED vars
  BY <1>1 DEF vars
<1>2. CASE Begin(id)
  <2>1. starting \cup awaiting = {id}
    BY <1>2, HandlerFacts DEF Begin
  <2> QED
    BY <1>2, <2>1 DEF Begin
<1> QED
  BY <1>1, <1>2, ActiveStep

\* The helpful step of each place, where fairness takes it.
LEMMA HelpfulSteps ==
  ASSUME NEW id \in OperationIds
  PROVE  /\ IInv /\ Orphaned(id) /\ <<Bootstrap>>_vars => ~Active(id)'
         /\ IInv /\ Starts(id) /\ <<SomeBegins>>_vars =>
              Awaited(id)' \/ ~Active(id)'
         /\ IInv /\ Awaited(id) /\ <<SomeSettles>>_vars => ~Active(id)'
<1>1. IInv /\ Orphaned(id) /\ <<Bootstrap>>_vars => ~Active(id)'
  BY BootstrapSettles
<1>2. ASSUME IInv, Starts(id), SomeBegins
      PROVE  Awaited(id)' \/ ~Active(id)'
  <2>1. PICK other \in OperationIds : Begin(other)
    BY <1>2 DEF SomeBegins
  <2>2. other = id /\ starting \cup awaiting = {id}
    BY <1>2, <2>1, HandlerFacts DEF Begin, Starts
  <2> QED
    BY <1>2, <2>1, <2>2 DEF Begin, Awaited, Starts
<1>3. ASSUME IInv, Awaited(id), SomeSettles
      PROVE  ~Active(id)'
  <2>1. PICK other \in OperationIds : Succeed(other) \/ Fail(other)
    BY <1>3 DEF SomeSettles
  <2>2. other = id
    BY <1>3, <2>1, HandlerFacts DEF Succeed, Fail, Awaited
  <2> QED
    BY <1>3, <2>1, <2>2, SettleSettles
<1> QED
  BY <1>1, <1>2, <1>3

\* Where a row is, a fair step can be taken.
LEMMA HelpfulEnabled ==
  ASSUME NEW id \in OperationIds
  PROVE  StepsEnabled =>
           /\ Orphaned(id) => ENABLED <<Bootstrap>>_vars
           /\ Starts(id) => ENABLED <<SomeBegins>>_vars
           /\ Awaited(id) => ENABLED <<SomeSettles>>_vars
BY DEF StepsEnabled, Orphaned, Starts, Awaited

\* One row settles.
LEMMA RowSettles ==
  ASSUME NEW id \in OperationIds
  PROVE  FairSpec /\ []StepsEnabled => (Active(id) ~> ~Active(id))
<1>1. IInv /\ Active(id) => Orphaned(id) \/ Starts(id) \/ Awaited(id)
  BY ActiveSomewhere
<1>2. IInv /\ Orphaned(id) /\ [Next]_vars => Orphaned(id)' \/ ~Active(id)'
  BY OrphanedStep
<1>3. IInv /\ Starts(id) /\ [Next]_vars =>
        Starts(id)' \/ Awaited(id)' \/ Orphaned(id)' \/ ~Active(id)'
  BY LiveActiveStep
<1>4. IInv /\ Awaited(id) /\ [Next]_vars =>
        Awaited(id)' \/ Orphaned(id)' \/ ~Active(id)'
  BY LiveActiveStep
<1>5. IInv /\ Orphaned(id) /\ <<Bootstrap>>_vars => ~Active(id)'
  BY HelpfulSteps
<1>6. IInv /\ Starts(id) /\ <<SomeBegins>>_vars => Awaited(id)' \/ ~Active(id)'
  BY HelpfulSteps
<1>7. IInv /\ Awaited(id) /\ <<SomeSettles>>_vars => ~Active(id)'
  BY HelpfulSteps
<1>8. StepsEnabled =>
        /\ Orphaned(id) => ENABLED <<Bootstrap>>_vars
        /\ Starts(id) => ENABLED <<SomeBegins>>_vars
        /\ Awaited(id) => ENABLED <<SomeSettles>>_vars
  BY HelpfulEnabled
<1>9. Spec => []IInv
  BY Invariance
<1> QED
  BY <1>1, <1>2, <1>3, <1>4, <1>5, <1>6, <1>7, <1>8, <1>9, PTL
  DEF FairSpec, Fairness, Spec

\* Every accepted operation is settled, however often the agent crashes.
THEOREM AcceptedAlwaysSettles ==
  FairSpec /\ []StepsEnabled => AcceptedSettles
<1> SUFFICES ASSUME FairSpec, []StepsEnabled, NEW id \in OperationIds
             PROVE  Active(id) ~> ~Active(id)
  BY DEF AcceptedSettles
<1> QED
  BY RowSettles, PTL

=============================================================================
