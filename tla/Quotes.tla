---------------------------------- MODULE Quotes ----------------------------------
(***************************************************************************)
(* POST /loans/quote: LoansService.calculateLoanQuote answers any application  *)
(* within the credit limit with the terms that createLoan would store, and the   *)
(* decision that createLoan would come to follows the same reputation. Every      *)
(* answer is a state, so that the arithmetic of CreditTerms is checked against    *)
(* what the repayment of a loan requires of it.                                  *)
(***************************************************************************)
EXTENDS CreditTerms

CONSTANTS
  Cents,     \* the amounts that are asked for: the request is refused outside of 1 to 10,000
  Months,    \* the terms that are asked for: 1 to 12
  Standing   \* the scores that are answered

VARIABLE quote   \* the answer to the last request, or NoQuote

NoQuote == [answered |-> FALSE]

Quote(score, amount, term, slack) ==
  LET total == TotalRepayment(score, amount, term) IN
  [answered |-> TRUE, score |-> score, amount |-> amount, term |-> term,
   loanAmount |-> LoanAmount(amount), guarantee |-> Guarantee(amount),
   totalRepayment |-> total, monthlyPayment |-> Monthly(total, term, slack),
   schedule |-> Schedule(total, term, slack)]

Init == quote = NoQuote

\* prepareLoanPreview without the minimum score.
CalculateLoanQuote(score, amount, term, slack) ==
  /\ quote = NoQuote
  /\ amount <= MaxCredit(score)
  /\ quote' = Quote(score, amount, term, slack)

Next ==
  \E score \in Standing, amount \in Cents, term \in Months, slack \in {0, 1} :
    CalculateLoanQuote(score, amount, term, slack)

Spec == Init /\ [][Next]_quote

-----------------------------------------------------------------------------
(* Properties.                                                               *)

\* The payments of the schedule, added up one after the other.
Paid(q) ==
  LET sum[n \in 0 .. q.term] == IF n = 0 THEN 0 ELSE sum[n - 1] + q.schedule[n]
  IN  sum[q.term]

\* Whatever the floor loses, the schedule repays the loan to the cent, with no negative
\* payment, and the last payment exceeds the others by less than two cents a month; the
\* loan and the guarantee make up the purchase.
ScheduleRepaysLoan ==
  quote # NoQuote =>
    /\ Paid(quote) = quote.totalRepayment
    /\ \A i \in 1 .. quote.term :
         /\ quote.schedule[i] >= 0
         /\ quote.schedule[i] - quote.schedule[1] < 2 * quote.term
    /\ quote.loanAmount + quote.guarantee = quote.amount
    /\ quote.totalRepayment >= quote.loanAmount

\* However much of the loan is left, the payment that the list asks for next is
\* something, and no more than buildRepaymentXdr accepts.
NextPaymentIsPayable ==
  quote # NoQuote =>
    \A slack \in {0, 1}, left \in {1, quote.monthlyPayment + 1, quote.totalRepayment} :
      left <= quote.totalRepayment =>
        NextPayment(quote.totalRepayment, quote.term, left, slack) \in 1 .. left

\* The two screens of an application agree: while the reputation stays the same, what
\* the preview admits is not rejected by the assessment, whatever credit is in use.
ScreensAgree ==
  quote # NoQuote =>
    \A used \in Cents \cup {0} :
      PreviewAdmits(quote.score, quote.amount)
        <=> Assess(quote.score, quote.amount, used) # "rejected"
====================================================================================
