------------------------------- MODULE CreditTerms -------------------------------
(***************************************************************************)
(* The arithmetic of a loan application: the credit tiers and the decision of  *)
(* CreditScoringService, and the terms, the repayment schedule and the figures  *)
(* of the loan list that LoansService computes. Amounts are cents. The code      *)
(* computes in floating point and rounds; Math.floor can lose a cent where the    *)
(* quotient is exact (0.29 * 100 is 28.999...), so Slack is 0 or 1.              *)
(***************************************************************************)
EXTENDS Integers

Tiers == {"gold", "silver", "bronze", "starter"}

\* The scores from which a tier begins.
MinScore == [gold |-> 90, silver |-> 75, bronze |-> 60, starter |-> 0]

Clamped(score) == IF score < 0 THEN 0 ELSE IF score > 100 THEN 100 ELSE score

\* The first tier of CREDIT_TIERS that the score reaches.
Tier(score) ==
  CHOOSE t \in Tiers :
    /\ Clamped(score) >= MinScore[t]
    /\ \A u \in Tiers : Clamped(score) >= MinScore[u] => MinScore[u] <= MinScore[t]

InterestRate(score) ==
  [gold |-> 4, silver |-> 6, bronze |-> 8, starter |-> 10][Tier(score)]

MaxCredit(score) ==
  [gold |-> 1000000, silver |-> 500000, bronze |-> 250000, starter |-> 100000][Tier(score)]

MinLoanScore == 60

\* createLoan's own conditions, in prepareLoanPreview.
PreviewAdmits(score, amount) == score >= MinLoanScore /\ amount <= MaxCredit(score)

\* Mutant: the limit of 80 % of the credit line is all there is.
AssessOffLimit(score, amount, used) ==
  CASE score < MinLoanScore \/ 10 * amount > 8 * MaxCredit(score) -> "rejected"
    [] score >= MinLoanScore /\ 10 * amount <= 8 * MaxCredit(score)
       /\ score >= 75 /\ 10 * used < 7 * MaxCredit(score) -> "approved"
    [] OTHER -> "manual_review"

\* CreditScoringService.assess, where used is the balance of the active loans.
Assess(score, amount, used) ==
  CASE score < MinLoanScore \/ amount > MaxCredit(score) -> "rejected"
    [] /\ score >= 75 /\ 10 * amount <= 8 * MaxCredit(score)
       /\ 10 * used < 7 * MaxCredit(score) -> "approved"
    [] OTHER -> "manual_review"

\* Math.round of a quotient of natural numbers.
Rounded(a, b) == (2 * a + b) \div (2 * b)

\* LOAN_PERCENT and GUARANTEE_PERCENT of the amount.
LoanAmount(amount) == Rounded(8 * amount, 10)
Guarantee(amount)  == Rounded(2 * amount, 10)

\* The interest of the tier for the months of the term.
TotalRepayment(score, amount, term) ==
  Rounded(LoanAmount(amount) * (1200 + InterestRate(score) * term), 1200)

\* monthlyPayment: rounded down to a cent.
Monthly(total, term, slack) ==
  IF total % term = 0 /\ total >= term THEN total \div term - slack ELSE total \div term

\* Mutant: every month the same.
ScheduleEven(total, term, slack) == [i \in 1 .. term |-> Monthly(total, term, slack)]

\* generateScheduleFromDate: the last payment takes what the others leave.
Schedule(total, term, slack) ==
  [i \in 1 .. term |->
     IF i = term THEN total - (term - 1) * Monthly(total, term, slack)
     ELSE Monthly(total, term, slack)]

\* Mutant: what remains is not looked at.
NextPaymentScheduled(total, term, remaining, slack) == Schedule(total, term, slack)[1]

\* mapLoanListItem: no payment is ever recorded in loan_payments, so the next one is
\* the first of the schedule, or what remains when that is less.
NextPayment(total, term, remaining, slack) ==
  LET scheduled == Schedule(total, term, slack)[1] IN
  IF scheduled < remaining THEN scheduled ELSE remaining

=============================================================================
