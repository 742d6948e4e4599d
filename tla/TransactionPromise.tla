--------------------------- MODULE TransactionPromise ---------------------------
(***************************************************************************)
(* What the backend promises about a Stellar transaction it has recorded,   *)
(* whatever the interleaving of requests, cron cycles and crashes:           *)
(*   - a record goes pending -> success | failed and never back to pending;  *)
(*   - it reads success only when the ledger says success;                   *)
(*   - the loan follow-up of a transaction (activation or repayment) runs    *)
(*     only for a transaction that succeeded on the ledger, and at most      *)
(*     once per recording of the transaction;                                *)
(*   - the ledger's verdict is final, and only a resolved record is dropped. *)
(* TransactionLifecycle, which models the code, is shown to implement it.    *)
(***************************************************************************)
EXTENDS Naturals

CONSTANT Hash       \* transaction hashes

VARIABLES
  row,        \* row[h]: "none", or the status of the record of h
  ledger,     \* ledger[h]: "absent", or the ledger's final verdict
  recorded,   \* recorded[h]: how many times h has been recorded
  applied     \* applied[h]: how many times the follow-up of h changed a loan

vars == <<row, ledger, recorded, applied>>

Verdict == {"success", "failed"}

Init ==
  /\ row = [h \in Hash |-> "none"]
  /\ ledger = [h \in Hash |-> "absent"]
  /\ recorded = [h \in Hash |-> 0]
  /\ applied = [h \in Hash |-> 0]

\* A request records h before anything is sent to the network.
Record(h) ==
  /\ row[h] = "none"
  /\ row' = [row EXCEPT ![h] = "pending"]
  /\ recorded' = [recorded EXCEPT ![h] = @ + 1]
  /\ UNCHANGED <<ledger, applied>>

\* The network closes a ledger that contains h.
Settle(h) ==
  /\ ledger[h] = "absent"
  /\ \E v \in Verdict : ledger' = [ledger EXCEPT ![h] = v]
  /\ UNCHANGED <<row, recorded, applied>>

\* The record gets a status; success needs the ledger's word, failed does not.
Resolve(h) ==
  /\ row[h] # "none"
  /\ \E v \in Verdict :
       /\ v = "success" => ledger[h] = "success"
       /\ row' = [row EXCEPT ![h] = v]
  /\ UNCHANGED <<ledger, recorded, applied>>

\* The follow-up of h changes its loan.
Apply(h) ==
  /\ ledger[h] = "success"
  /\ applied[h] < recorded[h]
  /\ applied' = [applied EXCEPT ![h] = @ + 1]
  /\ UNCHANGED <<row, ledger, recorded>>

\* The retention clean-up drops resolved records.
Forget(S) ==
  /\ \A h \in S : row[h] \in Verdict
  /\ row' = [h \in Hash |-> IF h \in S THEN "none" ELSE row[h]]
  /\ UNCHANGED <<ledger, recorded, applied>>

Next ==
  \/ \E h \in Hash : Record(h) \/ Settle(h) \/ Resolve(h) \/ Apply(h)
  \/ \E S \in SUBSET Hash : Forget(S)

Spec == Init /\ [][Next]_vars
=============================================================================
