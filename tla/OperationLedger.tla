--------------------------- MODULE OperationLedger ---------------------------
(***************************************************************************)
(* What the agent promises about host-changing operations, without saying  *)
(* how: every operation that was accepted is in the ledger for good, at    *)
(* most one of them is open, an open one is settled once as succeeded or   *)
(* failed or is interrupted by a restart, and only an interrupted one may  *)
(* later be found to have succeeded.  Operations.tla implements it.        *)
(***************************************************************************)
EXTENDS Integers

CONSTANT MaxOperations      \* how many operations are ever accepted

VARIABLE ledger             \* outcome of each operation, in order of acceptance

LedgerIds == 1 .. MaxOperations

Outcome == {"absent", "open", "succeeded", "failed", "interrupted"}

LedgerTypeOK == ledger \in [LedgerIds -> Outcome]

LedgerInit == ledger = [id \in LedgerIds |-> "absent"]

\* Operations are accepted one after another, and only while none is open.
Open(id) ==
  /\ ledger[id] = "absent"
  /\ \A other \in LedgerIds : other < id => ledger[other] # "absent"
  /\ \A other \in LedgerIds : ledger[other] # "open"
  /\ ledger' = [ledger EXCEPT ![id] = "open"]

Settle(id, outcome) ==
  /\ ledger[id] = "open"
  /\ ledger' = [ledger EXCEPT ![id] = outcome]

Interrupt(id) == Settle(id, "interrupted")

Recover(id) ==
  /\ ledger[id] = "interrupted"
  /\ ledger' = [ledger EXCEPT ![id] = "succeeded"]

LedgerNext ==
  \E id \in LedgerIds :
    \/ Open(id)
    \/ Settle(id, "succeeded")
    \/ Settle(id, "failed")
    \/ Interrupt(id)
    \/ Recover(id)

LedgerSpec == LedgerInit /\ [][LedgerNext]_ledger

=============================================================================
