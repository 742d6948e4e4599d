---------------------------------- MODULE Admission ----------------------------------
(***************************************************************************)
(* Two readers of one XDR: submitTransaction (TransactionsService), which decides      *)
(* whether it records and submits a transaction, and the status checker, which reads   *)
(* the recorded XDR again, once it has succeeded, to follow up on it. The first looks at *)
(* every operation, its function and its contract; the second at the first operation    *)
(* and not at its contract. What happens in between is in TransactionLifecycle.        *)
(***************************************************************************)
EXTENDS Naturals, Sequences, FiniteSets

CONSTANTS
  Wallet,
  Contract,      \* contract ids
  MaxOps,        \* bound on the operations of a transaction
  MaxRecords     \* bound on the rows recorded

VARIABLES
  contractId,    \* the settings: the contract of each flow, or Unset
  record         \* transactions: wallet, type and XDR; and, as history, the credit line of then

vars == <<contractId, record>>

Unset   == "unset"
Unknown == "unknown"
Nobody  == "nobody"

Flow == {"credit_line", "liquidity_pool", "vendor_registry"}

\* TRANSACTION_TYPE_ALLOWLIST: the functions of each type, and the flow of their contract.
Allowlist ==
  [loan_create    |-> [functions |-> {"create_loan"}, flow |-> "credit_line"],
   loan_repay     |-> [functions |-> {"repay_loan", "repay_installment"}, flow |-> "credit_line"],
   deposit        |-> [functions |-> {"deposit"}, flow |-> "liquidity_pool"],
   withdraw       |-> [functions |-> {"withdraw"}, flow |-> "liquidity_pool"],
   vendor_approve |-> [functions |-> {"approve_vendor"}, flow |-> "vendor_registry"],
   vendor_suspend |-> [functions |-> {"suspend_vendor"}, flow |-> "vendor_registry"]]

TransactionType == DOMAIN Allowlist
Function        == UNION {Allowlist[type].functions : type \in TransactionType}

\* What extractInvocationAttributes reads of an operation that calls the host: function
\* and contract, each of which it may fail to find; and whether its arguments decode.
Invocation == [calls : {TRUE}, function : Function \cup {Unknown},
               contract : Contract \cup {Unknown}, legible : BOOLEAN]
OtherOperation == [calls |-> FALSE]
Operation == Invocation \cup {OtherOperation}

\* The operations of a transaction. It has a source, and a payer if it is a fee bump.
Operations == UNION {[1 .. n -> Operation] : n \in 0 .. MaxOps}

Init ==
  /\ contractId \in [Flow -> Contract \cup {Unset}]
  /\ record = {}

-----------------------------------------------------------------------------
\* Mutant: the functions of a flow are allowed for each of its types.
AllowedForFlow(operation, type) ==
  LET flow == Allowlist[type].flow IN
  /\ operation.calls
  /\ \E t \in TransactionType : Allowlist[t].flow = flow /\ operation.function \in Allowlist[t].functions
  /\ contractId[flow] # Unset /\ operation.contract = contractId[flow]

\* The body of assertOperationAllowlist's loop. Without a contract id the type is disabled.
Allowed(operation, type) ==
  LET flow == Allowlist[type].flow IN
  /\ operation.calls
  /\ operation.function \in Allowlist[type].functions
  /\ contractId[flow] # Unset /\ operation.contract = contractId[flow]

OperationsAllowed(operations, type) ==
  /\ operations # <<>>
  /\ \A i \in DOMAIN operations : Allowed(operations[i], type)

\* collectAuthorizedAddresses looks for the entries among the attributes of the called
\* function; in the SDK they are the operation's, so that it finds none.
AuthorizedAddresses(operations) == {}

\* assertWalletAuthorizes: of a fee bump, the source of the inner transaction.
EffectiveSource(source, payer) == source

WalletAuthorizes(xdr, wallet) ==
  EffectiveSource(xdr.source, xdr.payer) = wallet \/ wallet \in AuthorizedAddresses(xdr.operations)

\* submitTransaction up to the record of it; every refusal ends the request.
SubmitTransaction ==
  /\ Cardinality(record) < MaxRecords
  /\ \E type \in TransactionType, operations \in Operations :
       /\ OperationsAllowed(operations, type)
       /\ \E wallet, source \in Wallet, payer \in Wallet \cup {Nobody} :
            LET xdr == [source |-> source, payer |-> payer, operations |-> operations] IN
            /\ WalletAuthorizes(xdr, wallet)
            /\ record' = record \cup {[wallet |-> wallet, type |-> type, xdr |-> xdr,
                                       then |-> contractId["credit_line"]]}
  /\ UNCHANGED contractId

\* A deployment with other contracts.
Deploy ==
  /\ \E flow \in Flow, id \in Contract \cup {Unset} : contractId' = [contractId EXCEPT ![flow] = id]
  /\ UNCHANGED record

Next == SubmitTransaction \/ Deploy

Spec == Init /\ [][Next]_vars

-----------------------------------------------------------------------------
\* The checker, of a record whose transaction has succeeded

First(r) == r.xdr.operations[1]

\* parseTransactionMetadata: arguments that do not decode are undefined.
NamesLoan(r) ==
  First(r).calls /\ First(r).function \in {"create_loan", "repay_loan"} /\ First(r).legible

NamesAmount(r) == NamesLoan(r) /\ First(r).function = "repay_loan"

\* applyFollowUpActions
FollowUp(r) ==
  CASE NamesLoan(r) /\ r.type = "loan_create" -> "activatePendingLoan"
    [] NamesAmount(r) /\ r.type = "loan_repay" -> "applyLoanRepayment"
    [] OTHER -> "none"

\* A transaction that calls a contract has one operation, or the network refuses it.
MayLand(r) == Len(r.xdr.operations) = 1

\* Whatever the checker follows up on was what the follow-up takes it for: a call of the
\* function, of the contract that was configured when it was submitted, by the wallet
\* whose loan is changed -- although the checker looks at neither contract nor source,
\* and activates a loan for either function.
FollowUpIsDeclared ==
  \A r \in record :
    MayLand(r) /\ FollowUp(r) # "none" =>
      /\ First(r).function = IF FollowUp(r) = "activatePendingLoan" THEN "create_loan" ELSE "repay_loan"
      /\ First(r).contract = r.then
      /\ r.xdr.source = r.wallet
=============================================================================
