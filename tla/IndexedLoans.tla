------------------------------ MODULE IndexedLoans ------------------------------
(***************************************************************************)
(* What loan_index and payment_index promise, without cursors, pages, crashes *)
(* or calls:                                                                  *)
(*   - a payment is entered once and never taken back;                        *)
(*   - a loan gets its row once;                                              *)
(*   - whenever its status follows its payments, it follows in one step from   *)
(*     all the payments that are entered by then.                             *)
(* Indexer, which models the code, is shown to implement it.                   *)
(***************************************************************************)
EXTENDS Integers, FiniteSetsExt

CONSTANTS
  Loan,
  Due   \* what a loan owes in all

VARIABLES
  status,   \* status[l]: "none" without a row
  payments  \* the payments entered, records with a loan (of) and an amount (value)

vars == <<status, payments>>

Init ==
  /\ status = [l \in Loan |-> "none"]
  /\ payments = {}

PaymentsOf(l) == {e \in payments : e.of = l}
Covered(l) == MapThenSumSet(LAMBDA e : e.value, PaymentsOf(l)) >= Due

Open(l) ==
  /\ status[l] = "none"
  /\ status' = [status EXCEPT ![l] = "active"]
  /\ UNCHANGED payments

Enter ==
  /\ \E e \in payments' \ payments : payments' = payments \cup {e}
  /\ UNCHANGED status

Settle(l) ==
  /\ status[l] # "none" /\ PaymentsOf(l) # {}
  /\ status' = [status EXCEPT ![l] = IF Covered(l) THEN "paid" ELSE "active"]
  /\ UNCHANGED payments

Default(l) ==
  /\ status[l] # "none"
  /\ status' = [status EXCEPT ![l] = "defaulted"]
  /\ UNCHANGED payments

Next == Enter \/ \E l \in Loan : Open(l) \/ Settle(l) \/ Default(l)

Spec == Init /\ [][Next]_vars
=============================================================================
